\* Overlapping connections of one account against two RegenerateSecret calls.
SPECIFICATION Spec
CONSTANTS
  Accounts = {a1}
  Conns = {c1, c2, c3}
  Events = {}
  Callers = {h1, h2}
  Pongs = {}
  None = None
  OutboxCap = 1
  MaxIssued = 2
SYMMETRY Symmetry
INVARIANTS
  HubHoldsServing
  ClosedOnce
  LoneClientIsOnline
PROPERTIES
  RegistrySpec
  OutdatedOnlyByLateRegister
\* every bounded connection, id and secret may have been used up
CHECK_DEADLOCK FALSE
