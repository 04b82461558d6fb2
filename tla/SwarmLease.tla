----------------------------- MODULE SwarmLease -----------------------------
(***************************************************************************)
(* What the claim table promises the colleagues that coordinate through    *)
(* it: every resource has at most one owner, who was a member when the     *)
(* lease was granted, and ownership passes through "free".  The promise is *)
(* weaker than "every owner is a member": a member may leave and its lease *)
(* lapse only later.  A member that is replaced takes its leases with it.  *)
(***************************************************************************)
CONSTANTS Ids, Resources, None

VARIABLES
  owner,   \* [Resources -> Ids or None]
  member   \* the colleagues that are present

vars == <<owner, member>>

Init == owner = [r \in Resources |-> None] /\ member = {}

\* A free resource, or the owner's own, is leased to a member.
Grant(i, r) ==
  /\ i \in member /\ owner[r] \in {None, i}
  /\ owner' = [owner EXCEPT ![r] = i]
  /\ UNCHANGED member

\* The leases on R end: given back, or expired.
Lapse(R) ==
  /\ owner' = [r \in Resources |-> IF r \in R THEN None ELSE owner[r]]
  /\ UNCHANGED member

\* The colleagues in S leave; the leases on R end with them.
Leave(S, R) ==
  /\ member' = member \ S
  /\ owner' = [r \in Resources |-> IF r \in R /\ owner[r] \in S THEN None ELSE owner[r]]

\* i joins, and replaces the members in S, who lose every lease.
Join(i, S) ==
  /\ member' = (member \ S) \cup {i}
  /\ owner' = [r \in Resources |-> IF owner[r] \in S THEN None ELSE owner[r]]

Next ==
  \/ \E i \in Ids, r \in Resources : Grant(i, r)
  \/ \E R \in SUBSET Resources : Lapse(R)
  \/ \E S \in SUBSET Ids, R \in SUBSET Resources : Leave(S, R)
  \/ \E i \in Ids, S \in SUBSET Ids : Join(i, S)

Spec == Init /\ [][Next]_vars
=============================================================================
