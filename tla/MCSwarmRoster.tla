---------------------------- MODULE MCSwarmRoster ----------------------------
(* Instances of SwarmRoster for TLC. *)
EXTENDS SwarmRoster, TLC

CONSTANTS m1, m2, fresh, busy, done, u1, u2, k1, k2, k3, k4

Interchangeable == Permutations(Members) \cup Permutations(Updaters) \cup Permutations(Timers)
=============================================================================
