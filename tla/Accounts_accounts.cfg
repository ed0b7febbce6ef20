\* Two requests at once of a registrant and a GitHub identity, over two rows.
SPECIFICATION Spec
CONSTANTS
  Users = {u1, u2}
  bob = bob
  bob2 = bob2
  Names = {bob, bob2}
  GitHubs = {g1}
  People = {p1}
  Passwords = {p1}
  MaxIssued = 3
  MaxTokens = 2
  None = None
  Requests = {r1, r2}
  Candidates <- MCCandidates
SYMMETRY Symmetry
INVARIANTS
  KeyGoesToOwner
  AnsweredKeyWorks
PROPERTIES
  CredentialsSpec
  CodeBindsOnce
  TokenOutlivesFailure
\* every row, key and token may have been used up
CHECK_DEADLOCK FALSE
