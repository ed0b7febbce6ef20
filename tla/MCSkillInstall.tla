--------------------------- MODULE MCSkillInstall ---------------------------
(* SkillInstall with commands that are alike.                              *)
EXTENDS SkillInstall, TLC

Symmetry == Permutations(Commands)
=============================================================================
