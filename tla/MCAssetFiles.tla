---------------------------- MODULE MCAssetFiles ----------------------------
(* AssetFiles on small instances. *)
EXTENDS AssetFiles, TLC

\* Safe uploads are alike, and so are versions.
Symmetry == Permutations(Uploads \ Unsafe) \cup Permutations(Versions)
            \cup Permutations(Names)
=============================================================================
