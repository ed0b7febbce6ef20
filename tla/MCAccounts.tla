----------------------------- MODULE MCAccounts -----------------------------
(* Accounts on small instances: every login may also be a name registered. *)
EXTENDS Accounts, TLC

CONSTANTS bob, bob2

MCCandidates == [g \in GitHubs |-> <<bob, bob2>>]

Symmetry == Permutations(Requests) \cup Permutations(Users)
=============================================================================
