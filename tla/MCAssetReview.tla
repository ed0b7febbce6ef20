---------------------------- MODULE MCAssetReview ----------------------------
(* AssetReview on small instances. *)
EXTENDS AssetReview, TLC

\* Requests are alike, and so are documented versions.
Symmetry == Permutations(Requests) \cup Permutations(Documented)
=============================================================================
