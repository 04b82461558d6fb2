--------------------------- MODULE MCSwarmListener ---------------------------
(* Instances of SwarmListener for TLC. *)
EXTENDS SwarmListener, TLC

CONSTANTS c1, c2, c3

Interchangeable == Permutations(Conns)
=============================================================================
