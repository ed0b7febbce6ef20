---------------------------- MODULE MCRateLimit ----------------------------
(* RateLimit on small instances: a limiter and two callers. *)
EXTENDS RateLimit, TLC

MCLimit == [l \in Limiters |-> 2]

Symmetry == Permutations(Headers)
=============================================================================
