----------------------------- MODULE MCRateLimiter -----------------------------
(* A small instance of RateLimiter: short windows of a source, longer ones of  *)
(* a participant, and a table that has no room for all keys.                   *)
EXTENDS RateLimiter, TLC

MCLimit == [s \in Scopes |-> IF s = "participant" THEN 1 ELSE 2]
MCWindow == [s \in Scopes |-> IF s = "participant" THEN 3 ELSE 1]

Symmetry == Permutations(Calls) \cup Permutations(Identities)
=============================================================================
