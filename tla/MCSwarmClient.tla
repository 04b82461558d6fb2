---------------------------- MODULE MCSwarmClient ----------------------------
(* Instances of SwarmClient for TLC. *)
EXTENDS SwarmClient, TLC

CONSTANTS s1, s2, q1, q2, q3

Interchangeable == Permutations(Socks) \cup Permutations(Reqs)
=============================================================================
