----------------------------- MODULE MCRelayHub -----------------------------
(* RelayHub on small instances. *)
EXTENDS RelayHub, TLC

\* Connections, events and goroutines are interchangeable.
Symmetry == Permutations(Conns) \cup Permutations(Events)
              \cup Permutations(Callers) \cup Permutations(Accounts)
=============================================================================
