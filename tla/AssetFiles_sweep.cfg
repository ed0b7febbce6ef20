\* One upload and one cleanup.
SPECIFICATION Spec
CONSTANTS
  Versions = {v1}
  Names = {n}
  Uploads = {u1}
  Unsafe = {}
  Sweeps = {s}
  None = None
  Torn = Torn
PROPERTIES
  SweptHasNoRow
CHECK_DEADLOCK FALSE
