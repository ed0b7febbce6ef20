\* An event and a ping racing two connections, outbox of one frame, fair goroutines.
SPECIFICATION FairSpec
CONSTANTS
  Accounts = {a1, a2}
  Conns = {c1, c2}
  Events = {e1}
  Callers = {}
  Pongs = {p1}
  None = None
  OutboxCap = 1
  MaxIssued = 1
INVARIANTS
  TypeOK
  EventsWhereTold
PROPERTIES
  LinkSpec
  SignalledLeaves
  QueuedIsWritten
\* every bounded connection, event, id and secret may have been used up
CHECK_DEADLOCK FALSE
