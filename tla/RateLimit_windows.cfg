\* Two callers of a limiter of two calls, over three windows of three ticks.
SPECIFICATION Spec
CONSTANTS
  Roles = {observer}
  Ops = {read}
  Headers = {h1, h2}
  Limit <- MCLimit
  Duration = 3
  Second = 2
  Crowd = 2
  MaxTime = 7
  MaxRefused = 2
SYMMETRY Symmetry
INVARIANTS
  AtMostTwice
PROPERTIES
  CallersApart
  RefusedHadLimit
  ToldIsKept
\* the clock ends at its bound
CHECK_DEADLOCK FALSE
