\* README.md:89 against one request at a time and a database that never fails.
SPECIFICATION Spec
CONSTANTS
  Versions = {v1}
  Documented = {v1}
  Requests = {r1}
  Faulty = FALSE
  None = None
INVARIANTS
  CurrentIsApproved
CHECK_DEADLOCK FALSE
