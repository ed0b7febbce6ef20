\* Two requests interleaved over two versions; any database call may fail.
SPECIFICATION Spec
CONSTANTS
  Versions = {v1, v2}
  Documented = {v1}
  Requests = {r1, r2}
  Faulty = TRUE
  None = None
SYMMETRY Symmetry
INVARIANTS
  PendingTogetherOverlapped
PROPERTIES
  LedgerSpec
  OnlyReviewPublishes
  RejectionStands
\* once the asset is deleted nothing can be requested of it
CHECK_DEADLOCK FALSE
