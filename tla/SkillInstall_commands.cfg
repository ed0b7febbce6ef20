\* Two commands at once on two skills of two versions.
SPECIFICATION Spec
CONSTANTS
  Skills = {s1, s2}
  Changing = {s1}
  Commands = {c1, c2}
  MaxVersion = 2
  Absent = Absent
  Unknown = Unknown
  ErrorPage = ErrorPage
  Partial = Partial
SYMMETRY Symmetry
INVARIANTS
  ListTellsFiles
PROPERTIES
  BystandersKept
  UpdateCatchesUp
