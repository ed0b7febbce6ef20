\* Three uploads, one of them unsafe, over two versions, and one cleanup at a time.
SPECIFICATION Spec
CONSTANTS
  Versions = {v1, v2}
  Names = {n1, n2}
  Uploads = {u1, u2, u3}
  Unsafe = {u3}
  Sweeps = {s1}
  None = None
  Torn = Torn
SYMMETRY Symmetry
INVARIANTS
  TypeOK
  ServedAsReviewed
  TidyLeavesNoOrphan
PROPERTIES
  SweptWasRaced
CHECK_DEADLOCK FALSE
