\* Two requests and two recomputations at once on one asset.
SPECIFICATION Spec
CONSTANTS
  Assets = {a1}
  Users = {u1}
  Holders = {h1, h2}
  Author = h1
  Scores = {1, 2}
  Requests = {r1, r2}
  Goroutines = {g1, g2}
  None = None
SYMMETRY Symmetry
INVARIANTS
  CountsMatch
  FavouriteParity
  ToldReviewStands
  AverageSettles
PROPERTIES
  RecordSpec
