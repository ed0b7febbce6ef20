\* hub.go:46 against a connection that overlaps the one it replaced.
SPECIFICATION Spec
CONSTANTS
  Accounts = {a1}
  Conns = {c1, c2}
  Events = {}
  Callers = {h1}
  Pongs = {}
  None = None
  OutboxCap = 1
  MaxIssued = 2
INVARIANTS
  IsOnlineWhenConnected
CHECK_DEADLOCK FALSE
