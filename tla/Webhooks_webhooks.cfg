\* A call, the check, the owner and a restart over two keys of one name.
SPECIFICATION FairSpec
CONSTANTS
  Keys = {k1, k2}
  Names = {default}
  Default = default
  Calls = {c1}
  MaxIssued = 3
  MaxRestarts = 1
  None = None
INVARIANTS
  TypeOK
  WarnedOnce
PROPERTIES
  ExpiredIsTold
  LetThroughInForce
  RestartKeepsForce
\* every bounded call, key, secret and restart may have been used up
CHECK_DEADLOCK FALSE
