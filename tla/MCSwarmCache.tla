----------------------------- MODULE MCSwarmCache -----------------------------
(* Instances of SwarmCache for TLC. *)
EXTENDS SwarmCache

CONSTANTS a, b, t1, t2, c1, c2, c3, r1, r2

Interchangeable == Permutations(Ids) \cup Permutations(Tabs) \cup Permutations(Conns)
=============================================================================
