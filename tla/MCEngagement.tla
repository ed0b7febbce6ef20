---------------------------- MODULE MCEngagement ----------------------------
(* Engagement with requests and goroutines that are alike.                 *)
EXTENDS Engagement, TLC

Symmetry == Permutations(Requests) \cup Permutations(Goroutines)
=============================================================================
