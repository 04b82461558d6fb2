--------------------------- MODULE MCSwarmRegistry ---------------------------
(* Small instances of SwarmRegistry for TLC.                               *)
EXTENDS SwarmRegistry

CONSTANTS a, b, t1, t2, c1, c2, r1
=============================================================================
