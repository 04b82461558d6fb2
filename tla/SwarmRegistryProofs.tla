------------------------- MODULE SwarmRegistryProofs -------------------------
(* Theorems about SwarmRegistry and SwarmCache, for every value of their    *)
(* constants: the index of the connections, the claims, the refinement of   *)
(* SwarmLease, and the colleagues' caches of the claim table.               *)
EXTENDS SwarmCache, FiniteSetTheorems, SequenceTheorems, TLAPS

\* A connection that by_conn knows is being served, or has stopped and not
\* yet run disconnect().  Without this a new connection could be given a key
\* that is still in by_conn, and IndexConsistent would not be inductive.
BoundConnsActive ==
  \A c \in Conns : byConn[c] # None => task[c] \in {"serving", "closing"}

IndexInv == TypeOK /\ IndexConsistent /\ BoundConnsActive

-----------------------------------------------------------------------------
LEMMA InitIndexInv == Init => IndexInv
  <1> SUFFICES ASSUME Init PROVE IndexInv
    OBVIOUS
  <1>1. TypeOK
    <2>1. listening \in BOOLEAN /\ cancelled \in [Conns -> BOOLEAN]
      BY Zenon DEF Init
    <2> QED
      BY <2>1, NoneAssumption, BoundsAssumption
      DEF Init, TypeOK, Phases, Sweeps, Tasks, Statuses
  <1>2. IndexConsistent /\ BoundConnsActive
    BY DEF Init, IndexConsistent, BoundConnsActive
  <1> QED  BY <1>1, <1>2 DEF IndexInv

\* Every action keeps the variables in their types.
LEMMA NextTypeOK == TypeOK /\ [Next]_vars => TypeOK'
  <1> SUFFICES ASSUME TypeOK, [Next]_vars PROVE TypeOK'
    OBVIOUS
  <1> USE NoneAssumption, BoundsAssumption
      DEF TypeOK, Phases, Sweeps, Tasks, Statuses, lifecycleVars, taskVars,
          colleagueVars, indexVars, claimVars, RemoveColleagues, Without,
          HolderWithout, TtlWithout
  <1>1. CASE Start  BY <1>1 DEF Start
  <1>2. CASE StopBegin  BY <1>2 DEF StopBegin
  <1>3. CASE ListenerExit  BY <1>3 DEF ListenerExit
  <1>4. CASE SweeperExit  BY <1>4 DEF SweeperExit
  <1>5. CASE StopClear  BY <1>5 DEF StopClear
  <1>6. ASSUME NEW c \in Conns, Connection(c) PROVE TypeOK'
    <2>1. CASE Accept(c)  BY <2>1 DEF Accept
    <2>2. CASE HandshakeFail(c)  BY <2>2 DEF HandshakeFail
    <2>3. ASSUME NEW t \in Tabs, RegisterRateLimited(c, t) PROVE TypeOK'
      BY <2>3 DEF RegisterRateLimited
    <2>4. ASSUME NEW t \in Tabs, NEW i \in Ids, RegisterRejected(c, t, i)
          PROVE TypeOK'
      BY <2>4 DEF RegisterRejected, CooldownAfter
    <2>5. ASSUME NEW t \in Tabs, NEW i \in Ids, RegisterAccepted(c, t, i)
          PROVE TypeOK'
      BY <2>5 DEF RegisterAccepted, CooldownAfter
    <2>6. CASE ReaderExit(c)  BY <2>6 DEF ReaderExit
    <2>7. CASE Disconnect(c)  BY <2>7 DEF Disconnect
    <2>8. CASE DisconnectDone(c)  BY <2>8 DEF DisconnectDone
    <2> QED  BY <1>6, <2>1, <2>2, <2>3, <2>4, <2>5, <2>6, <2>7, <2>8 DEF Connection
  <1>7. ASSUME NEW c \in Conns, Dispatch(c) PROVE TypeOK'
    <2> PICK i \in Ids :
          \/ \E s \in Statuses : Heartbeat(c, i, s)
          \/ Notify(c, i)
          \/ \E r \in Resources, d \in MinTtl..MaxTtl : TryClaim(c, i, r, d)
          \/ \E r \in Resources : ReleaseClaim(c, i, r)
      BY <1>7 DEF Dispatch
    <2>1. ASSUME NEW s \in Statuses, Heartbeat(c, i, s) PROVE TypeOK'
      BY <2>1 DEF Heartbeat
    <2>2. CASE Notify(c, i)  BY <2>2 DEF Notify
    <2>3. ASSUME NEW r \in Resources, NEW d \in MinTtl..MaxTtl, TryClaim(c, i, r, d)
          PROVE TypeOK'
      BY <2>3 DEF TryClaim
    <2>4. ASSUME NEW r \in Resources, ReleaseClaim(c, i, r) PROVE TypeOK'
      BY <2>4 DEF ReleaseClaim
    <2> QED  BY <2>1, <2>2, <2>3, <2>4
  <1>8. CASE SweepColleagues  BY <1>8 DEF SweepColleagues
  <1>9. CASE SweepClaims  BY <1>9 DEF SweepClaims
  <1>10. CASE Tick  BY <1>10 DEF Tick, Down
  <1>11. CASE UNCHANGED vars  BY <1>11 DEF vars
  <1> QED
    BY <1>1, <1>2, <1>3, <1>4, <1>5, <1>6, <1>7, <1>8, <1>9, <1>10, <1>11
    DEF Next, Lifecycle

\* The three indices stay in step.  The steps that touch none of them need no
\* more than the frame conditions; the others re-establish each conjunct.
LEMMA NextIndexConsistent ==
  IndexInv /\ [Next]_vars => IndexConsistent' /\ BoundConnsActive'
  <1> SUFFICES ASSUME IndexInv, [Next]_vars
               PROVE  IndexConsistent' /\ BoundConnsActive'
    OBVIOUS
  <1> USE NoneAssumption DEF IndexInv, IndexConsistent, BoundConnsActive, TypeOK,
                             Tasks, indexVars, colleagueVars, taskVars
  <1>1. CASE Start \/ ListenerExit \/ SweeperExit \/ SweepClaims \/ Tick \/ StopBegin
    BY <1>1 DEF Start, ListenerExit, SweeperExit, SweepClaims, Tick, StopBegin
  <1>2. CASE StopClear
    BY <1>2 DEF StopClear, RemoveColleagues, Without
  <1>3. ASSUME NEW c \in Conns, Connection(c)
        PROVE  IndexConsistent' /\ BoundConnsActive'
    <2>1. CASE Accept(c)  BY <2>1 DEF Accept
    <2>2. CASE HandshakeFail(c)  BY <2>2 DEF HandshakeFail
    <2>3. ASSUME NEW t \in Tabs, RegisterRateLimited(c, t)
          PROVE  IndexConsistent' /\ BoundConnsActive'
      BY <2>3 DEF RegisterRateLimited
    <2>4. ASSUME NEW t \in Tabs, NEW i \in Ids, RegisterRejected(c, t, i)
          PROVE  IndexConsistent' /\ BoundConnsActive'
      BY <2>4 DEF RegisterRejected, RemoveColleagues, Without, Evicted, EvictedConns
    <2>5. ASSUME NEW t \in Tabs, NEW i \in Ids, RegisterAccepted(c, t, i)
          PROVE  IndexConsistent' /\ BoundConnsActive'
      BY <2>5 DEF RegisterAccepted, Without, Evicted, EvictedConns, BoundElsewhere, Registered
    <2>6. CASE ReaderExit(c)  BY <2>6 DEF ReaderExit
    <2>7. CASE Disconnect(c)  BY <2>7 DEF Disconnect, RemoveColleagues, Without, Owned
    <2>8. CASE DisconnectDone(c)  BY <2>8 DEF DisconnectDone
    <2> QED  BY <1>3, <2>1, <2>2, <2>3, <2>4, <2>5, <2>6, <2>7, <2>8 DEF Connection
  <1>4. ASSUME NEW c \in Conns, Dispatch(c)
        PROVE  IndexConsistent' /\ BoundConnsActive'
    BY <1>4 DEF Dispatch, Heartbeat, Notify, TryClaim, ReleaseClaim
  <1>5. CASE SweepColleagues
    BY <1>5 DEF SweepColleagues, Without, Dead, Registered
  <1>6. CASE UNCHANGED vars  BY <1>6 DEF vars
  <1> QED
    BY <1>1, <1>2, <1>3, <1>4, <1>5, <1>6 DEF Next, Lifecycle

\* by_id, by_conn and by_tab never disagree.
THEOREM IndexSafety == Spec => [](TypeOK /\ IndexConsistent)
  <1>1. IndexInv /\ [Next]_vars => IndexInv'
    BY NextTypeOK, NextIndexConsistent DEF IndexInv
  <1>2. IndexInv => TypeOK /\ IndexConsistent
    BY DEF IndexInv
  <1> QED
    BY InitIndexInv, <1>1, <1>2, PTL DEF Spec

-----------------------------------------------------------------------------
\* The late disconnect() of a replaced connection is harmless.  Its by_conn
\* entry went with the eviction; if it still has one, the colleague it names
\* is served by no other connection.
THEOREM OldConnectionIsHarmless == Spec => OldConnectionHarmless
  <1> DEFINE Harmless(c) ==
        task[c] = "closing" /\ task'[c] # "closing" =>
          \A i \in Ids : connOf[i] \notin {None, c} =>
            /\ connOf'[i] = connOf[i] /\ tabOf'[i] = tabOf[i]
            /\ \A r \in Resources : holder[r] = i => holder'[r] = i
  <1>1. ASSUME IndexInv, Next, NEW c \in Conns, task[c] = "closing", task'[c] # "closing"
        PROVE  Disconnect(c)
    <2> USE <1>1 DEF IndexInv, TypeOK, Tasks, taskVars
    <2>1. CASE Lifecycle
      BY <2>1 DEF Lifecycle, Start, StopBegin, ListenerExit, SweeperExit, StopClear
    <2>2. CASE SweepColleagues \/ SweepClaims \/ Tick
      BY <2>2 DEF SweepColleagues, SweepClaims, Tick
    <2>3. ASSUME NEW d \in Conns, Dispatch(d) PROVE FALSE
      BY <2>3 DEF Dispatch, Heartbeat, Notify, TryClaim, ReleaseClaim
    <2>4. ASSUME NEW d \in Conns, Connection(d) PROVE Disconnect(c)
      <3>1. CASE Disconnect(d)
        <4>1. d = c  BY <3>1 DEF Disconnect
        <4> QED  BY <3>1, <4>1
      <3>2. CASE ~Disconnect(d)
        BY <2>4, <3>2 DEF Connection, Accept, HandshakeFail, RegisterRateLimited,
             RegisterRejected, RegisterAccepted, ReaderExit, DisconnectDone
      <3> QED  BY <3>1, <3>2
    <2> QED  BY <2>1, <2>2, <2>3, <2>4 DEF Next
  <1>2. ASSUME IndexInv, [Next]_vars, NEW c \in Conns PROVE Harmless(c)
    <2>1. CASE UNCHANGED vars  BY <2>1 DEF vars, taskVars
    <2>2. CASE Disconnect(c)
      BY <1>2, <2>2, NoneAssumption
      DEF Disconnect, IndexInv, TypeOK, IndexConsistent, HolderWithout, Owned,
          RemoveColleagues, Without
    <2> QED  BY <1>1, <1>2, <2>1, <2>2
  <1>3. IndexInv /\ [Next]_vars => \A c \in Conns : Harmless(c)
    BY <1>2
  <1>4. IndexInv /\ [Next]_vars => IndexInv'
    BY NextTypeOK, NextIndexConsistent DEF IndexInv
  <1>5. IndexInv /\ [Next]_vars => [\A c \in Conns : Harmless(c)]_vars
    BY <1>3
  <1> QED
    BY InitIndexInv, <1>4, <1>5, PTL DEF Spec, OldConnectionHarmless

-----------------------------------------------------------------------------
\* Finiteness is part of the invariant: nothing is assumed of Ids and
\* Resources, the caps alone keep the tables finite.
BoundInv ==
  /\ IsFiniteSet(Registered) /\ Cardinality(Registered) <= MaxColleagues
  /\ IsFiniteSet(Claimed) /\ Cardinality(Claimed) <= MaxClaims

LEMMA SmallerStillBounded ==
  ASSUME NEW S, NEW T, NEW n \in Nat, IsFiniteSet(S), Cardinality(S) <= n, T \subseteq S
  PROVE  IsFiniteSet(T) /\ Cardinality(T) <= n
  BY FS_Subset, FS_CardinalityType

\* The insertion happens only below the cap, or replaces an entry.
LEMMA GuardedInsert ==
  ASSUME NEW S, NEW n \in Nat, NEW x, IsFiniteSet(S), Cardinality(S) <= n,
         x \in S \/ Cardinality(S) < n
  PROVE  IsFiniteSet(S \cup {x}) /\ Cardinality(S \cup {x}) <= n
  <1>1. Cardinality(S) \in Nat  BY FS_CardinalityType
  <1>2. CASE x \in S
    <2>1. S \cup {x} = S  BY <1>2
    <2> QED  BY <2>1
  <1>3. CASE x \notin S
    BY <1>1, <1>3, FS_AddElement
  <1> QED  BY <1>2, <1>3

\* register() checks the cap against the table without the predecessor it has
\* just evicted, so the check is neither too early nor too late.
LEMMA AcceptedBounded ==
  ASSUME IndexInv, BoundInv, NEW c \in Conns, NEW t \in Tabs, NEW i \in Ids,
         RegisterAccepted(c, t, i)
  PROVE  IsFiniteSet(Registered') /\ Cardinality(Registered') <= MaxColleagues
  <1> DEFINE rest == Registered \ Evicted(t)
  <1>1. Registered' = rest \cup {i}
    BY NoneAssumption
    DEF RegisterAccepted, Without, Registered, Evicted, IndexInv, TypeOK
  <1>2. IsFiniteSet(rest) /\ Cardinality(rest) <= MaxColleagues
    BY SmallerStillBounded, BoundsAssumption DEF BoundInv
  <1>3. Cardinality(rest) \in Nat  BY <1>2, FS_CardinalityType
  <1>4. i \in rest \/ Cardinality(rest) < MaxColleagues
    BY <1>3, BoundsAssumption DEF RegisterAccepted, RegistryFull
  <1> HIDE DEF rest
  <1> QED  BY <1>1, <1>2, <1>4, GuardedInsert, BoundsAssumption

LEMMA TryClaimBounded ==
  ASSUME IndexInv, BoundInv, NEW c \in Conns, NEW i \in Ids, NEW r \in Resources,
         NEW d \in MinTtl..MaxTtl, TryClaim(c, i, r, d)
  PROVE  IsFiniteSet(Claimed') /\ Cardinality(Claimed') <= MaxClaims
  <1>1. Claimed' = Claimed \cup {r}
    BY NoneAssumption DEF TryClaim, Claimed, IndexInv, TypeOK
  <1>2. Cardinality(Claimed) \in Nat  BY FS_CardinalityType DEF BoundInv
  <1>3. r \in Claimed \/ Cardinality(Claimed) < MaxClaims
    BY <1>2, BoundsAssumption DEF TryClaim, ClaimTableFull, Claimed
  <1> QED  BY <1>1, <1>3, GuardedInsert, BoundsAssumption DEF BoundInv

LEMMA NextBounded == IndexInv /\ BoundInv /\ [Next]_vars => BoundInv'
  <1> SUFFICES ASSUME IndexInv, BoundInv, [Next]_vars PROVE BoundInv'
    OBVIOUS
  <1> DEFINE NoGrowth == Registered' \subseteq Registered /\ Claimed' \subseteq Claimed
  <1>1. ASSUME NoGrowth PROVE BoundInv'
    BY <1>1, SmallerStillBounded, BoundsAssumption DEF BoundInv
  <1> USE NoneAssumption DEF Registered, Claimed, IndexInv, TypeOK, colleagueVars, claimVars
  <1>2. CASE Lifecycle
    BY <1>1, <1>2 DEF Lifecycle, Start, StopBegin, ListenerExit, SweeperExit, StopClear,
                RemoveColleagues, Without
  <1>3. ASSUME NEW c \in Conns, Connection(c) PROVE BoundInv'
    <2>1. CASE Accept(c) \/ HandshakeFail(c) \/ ReaderExit(c) \/ DisconnectDone(c)
      BY <1>1, <2>1 DEF Accept, HandshakeFail, ReaderExit, DisconnectDone
    <2>2. ASSUME NEW t \in Tabs, RegisterRateLimited(c, t) PROVE BoundInv'
      BY <1>1, <2>2 DEF RegisterRateLimited
    <2>3. ASSUME NEW t \in Tabs, NEW i \in Ids, RegisterRejected(c, t, i) PROVE BoundInv'
      BY <1>1, <2>3 DEF RegisterRejected, RemoveColleagues, Without, HolderWithout
    <2>4. ASSUME NEW t \in Tabs, NEW i \in Ids, RegisterAccepted(c, t, i) PROVE BoundInv'
      <3>1. Claimed' \subseteq Claimed
        BY <2>4 DEF RegisterAccepted, HolderWithout
      <3>2. IsFiniteSet(Claimed') /\ Cardinality(Claimed') <= MaxClaims
        BY <3>1, SmallerStillBounded, BoundsAssumption DEF BoundInv
      <3> QED  BY <2>4, <3>2, AcceptedBounded DEF BoundInv
    <2>5. CASE Disconnect(c)
      BY <1>1, <2>5 DEF Disconnect, RemoveColleagues, Without, HolderWithout
    <2> QED  BY <1>3, <2>1, <2>2, <2>3, <2>4, <2>5 DEF Connection
  <1>4. ASSUME NEW c \in Conns, Dispatch(c) PROVE BoundInv'
    <2>1. ASSUME NEW i \in Ids, Notify(c, i) \/ \E s \in Statuses : Heartbeat(c, i, s)
          PROVE  BoundInv'
      BY <1>1, <2>1 DEF Notify, Heartbeat
    <2>2. ASSUME NEW i \in Ids, NEW r \in Resources, ReleaseClaim(c, i, r) PROVE BoundInv'
      BY <1>1, <2>2 DEF ReleaseClaim
    <2>3. ASSUME NEW i \in Ids, NEW r \in Resources, NEW d \in MinTtl..MaxTtl,
                 TryClaim(c, i, r, d)
          PROVE  BoundInv'
      <3>1. Registered' = Registered  BY <2>3 DEF TryClaim
      <3> QED  BY <2>3, <3>1, TryClaimBounded DEF BoundInv
    <2> QED  BY <1>4, <2>1, <2>2, <2>3 DEF Dispatch
  <1>5. CASE SweepColleagues \/ SweepClaims \/ Tick \/ UNCHANGED vars
    BY <1>1, <1>5 DEF SweepColleagues, SweepClaims, Tick, Without, vars
  <1> QED  BY <1>2, <1>3, <1>4, <1>5 DEF Next

\* MAX_COLLEAGUES and MAX_CLAIMS hold for the whole life of the coordinator.
THEOREM TablesStayBounded == Spec => []TablesBounded
  <1>1. Init => BoundInv
    <2> SUFFICES ASSUME Init PROVE BoundInv
      OBVIOUS
    <2>1. Registered = {} /\ Claimed = {}  BY DEF Init, Registered, Claimed
    <2> QED  BY <2>1, FS_EmptySet, BoundsAssumption DEF BoundInv
  <1>2. IndexInv /\ [Next]_vars => IndexInv'
    BY NextTypeOK, NextIndexConsistent DEF IndexInv
  <1>3. BoundInv => TablesBounded
    BY DEF BoundInv, TablesBounded
  <1> QED
    BY InitIndexInv, <1>1, <1>2, <1>3, NextBounded, PTL DEF Spec

-----------------------------------------------------------------------------
(* The coordinator's claim table implements the abstract lease table.      *)

\* Which step of SwarmLease each critical section is.  A claim in the table
\* that has expired is no lease, so sweeping it changes nothing that SwarmLease
\* can see; the lease ends with the Tick that brings its ttl to 0.

LEMMA InitLease == Init => Lease!Init
  BY DEF Init, Lease!Init, LeaseOwner, Registered

\* Evicting the predecessor is a Leave when the newcomer is refused, and part
\* of a Join when it is accepted.
LEMMA RejectedIsLeave ==
  ASSUME IndexInv, NEW c \in Conns, NEW t \in Tabs, NEW i \in Ids, RegisterRejected(c, t, i)
  PROVE  Lease!Next
  <1> USE NoneAssumption DEF IndexInv, TypeOK
  <1>1. Evicted(t) \in SUBSET Ids  BY DEF Evicted
  <1>2. Registered' = Registered \ Evicted(t)
    BY <1>1 DEF RegisterRejected, RemoveColleagues, Without, Registered
  <1>3. LeaseOwner' = [r \in Resources |->
          IF r \in Resources /\ LeaseOwner[r] \in Evicted(t) THEN None ELSE LeaseOwner[r]]
    BY <1>1 DEF RegisterRejected, HolderWithout, TtlWithout, LeaseOwner
  <1>4. Lease!Leave(Evicted(t), Resources)
    BY <1>2, <1>3 DEF Lease!Leave
  <1> QED  BY <1>1, <1>4 DEF Lease!Next

LEMMA AcceptedIsJoin ==
  ASSUME IndexInv, NEW c \in Conns, NEW t \in Tabs, NEW i \in Ids, RegisterAccepted(c, t, i)
  PROVE  Lease!Next
  <1> USE NoneAssumption DEF IndexInv, TypeOK
  <1>1. Evicted(t) \in SUBSET Ids  BY DEF Evicted
  <1>2. Registered' = (Registered \ Evicted(t)) \cup {i}
    BY <1>1 DEF RegisterAccepted, Without, Registered
  <1>3. LeaseOwner' = [r \in Resources |->
          IF LeaseOwner[r] \in Evicted(t) THEN None ELSE LeaseOwner[r]]
    BY <1>1 DEF RegisterAccepted, HolderWithout, TtlWithout, LeaseOwner
  <1>4. Lease!Join(i, Evicted(t))
    BY <1>2, <1>3 DEF Lease!Join
  <1> QED  BY <1>1, <1>4 DEF Lease!Next

\* A connection that is still bound is the only one of its colleague, so
\* disconnect() removes the colleague together with its claims.
LEMMA DisconnectIsLeave ==
  ASSUME IndexInv, NEW c \in Conns, Disconnect(c)
  PROVE  Lease!Next
  <1> USE NoneAssumption DEF IndexInv, TypeOK
  <1> DEFINE S == {byConn[c]} \ {None}
  <1>1. S \in SUBSET Ids  OBVIOUS
  <1>2. Owned(c) = S  BY DEF Owned, IndexConsistent
  <1>3. Registered' = Registered \ S
    BY <1>1, <1>2 DEF Disconnect, RemoveColleagues, Without, Registered
  <1>4. LeaseOwner' = [r \in Resources |->
          IF r \in Resources /\ LeaseOwner[r] \in S THEN None ELSE LeaseOwner[r]]
    BY <1>1 DEF Disconnect, HolderWithout, TtlWithout, LeaseOwner
  <1>5. Lease!Leave(S, Resources)
    BY <1>3, <1>4 DEF Lease!Leave
  <1> QED  BY <1>1, <1>5 DEF Lease!Next

LEMMA TryClaimIsGrant ==
  ASSUME IndexInv, NEW c \in Conns, NEW i \in Ids, NEW r \in Resources,
         NEW d \in MinTtl..MaxTtl, TryClaim(c, i, r, d)
  PROVE  Lease!Next
  <1> USE NoneAssumption, BoundsAssumption DEF IndexInv, TypeOK
  <1>1. i \in Registered  BY DEF TryClaim, Serves, IndexConsistent, Registered
  <1>2. LeaseOwner[r] \in {None, i}  BY DEF TryClaim, HeldByOther, LeaseOwner
  <1>3. d \in Nat /\ d > 0  OBVIOUS
  <1>4. LeaseOwner' = [LeaseOwner EXCEPT ![r] = i]
    BY <1>3 DEF TryClaim, LeaseOwner
  <1>5. Registered' = Registered  BY DEF TryClaim, colleagueVars, Registered
  <1> QED  BY <1>1, <1>2, <1>4, <1>5 DEF Lease!Next, Lease!Grant

LEMMA ReleaseIsLapse ==
  ASSUME IndexInv, NEW c \in Conns, NEW i \in Ids, NEW r \in Resources,
         ReleaseClaim(c, i, r)
  PROVE  Lease!Next
  <1>1. LeaseOwner' = [q \in Resources |-> IF q \in {r} THEN None ELSE LeaseOwner[q]]
    BY DEF ReleaseClaim, LeaseOwner, IndexInv, TypeOK
  <1>2. Registered' = Registered  BY DEF ReleaseClaim, colleagueVars, Registered
  <1>3. Lease!Lapse({r})  BY <1>1, <1>2 DEF Lease!Lapse
  <1> QED  BY <1>3 DEF Lease!Next

LEMMA TickIsLapse ==
  ASSUME IndexInv, Tick
  PROVE  Lease!Next
  <1> DEFINE R == {r \in Resources : ttl[r] <= 1}
  <1>1. LeaseOwner' = [r \in Resources |-> IF r \in R THEN None ELSE LeaseOwner[r]]
    BY BoundsAssumption DEF Tick, Down, LeaseOwner, IndexInv, TypeOK
  <1>2. Registered' = Registered  BY DEF Tick, Registered
  <1>3. Lease!Lapse(R)  BY <1>1, <1>2 DEF Lease!Lapse
  <1> QED  BY <1>3 DEF Lease!Next

\* The sweep takes colleagues away and leaves their leases.
LEMMA SweepIsLeave ==
  ASSUME IndexInv, SweepColleagues
  PROVE  Lease!Next
  <1>1. Registered' = Registered \ Dead
    BY NoneAssumption DEF SweepColleagues, Without, Registered, Dead, IndexInv, TypeOK
  <1>2. LeaseOwner' = LeaseOwner
    BY DEF SweepColleagues, claimVars, LeaseOwner
  <1>3. LeaseOwner = [r \in Resources |->
          IF r \in {} /\ LeaseOwner[r] \in Dead THEN None ELSE LeaseOwner[r]]
    BY DEF LeaseOwner
  <1>4. Lease!Leave(Dead, {})
    BY <1>1, <1>2, <1>3 DEF Lease!Leave
  <1> QED  BY <1>4 DEF Lease!Next, Dead, Registered

LEMMA StopIsLeave ==
  ASSUME IndexInv, StopClear
  PROVE  Lease!Next
  <1> USE NoneAssumption DEF IndexInv, TypeOK
  <1>1. Registered' = Registered \ Ids
    BY DEF StopClear, RemoveColleagues, Without, Registered
  <1>2. LeaseOwner' = [r \in Resources |->
          IF r \in Resources /\ LeaseOwner[r] \in Ids THEN None ELSE LeaseOwner[r]]
    BY DEF StopClear, LeaseOwner
  <1>3. Lease!Leave(Ids, Resources)  BY <1>1, <1>2 DEF Lease!Leave
  <1> QED  BY <1>3 DEF Lease!Next

\* Removing an expired claim cannot be seen through LeaseOwner.
LEMMA SweepClaimsStutters ==
  ASSUME IndexInv, SweepClaims
  PROVE  UNCHANGED Lease!vars
  <1>1. LeaseOwner' = LeaseOwner
    BY DEF SweepClaims, Without, Expired, Claimed, LeaseOwner, IndexInv, TypeOK
  <1>2. Registered' = Registered  BY DEF SweepClaims, colleagueVars, Registered
  <1> QED  BY <1>1, <1>2 DEF Lease!vars

LEMMA NextLease == IndexInv /\ [Next]_vars => [Lease!Next]_(Lease!vars)
  <1> SUFFICES ASSUME IndexInv, [Next]_vars
               PROVE  Lease!Next \/ UNCHANGED Lease!vars
    OBVIOUS
  <1> USE DEF colleagueVars, claimVars, LeaseOwner, Registered, Lease!vars
  <1>1. CASE Start \/ StopBegin \/ ListenerExit \/ SweeperExit
    BY <1>1 DEF Start, StopBegin, ListenerExit, SweeperExit
  <1>2. CASE StopClear  BY <1>2, StopIsLeave
  <1>3. ASSUME NEW c \in Conns, Connection(c)
        PROVE  Lease!Next \/ UNCHANGED Lease!vars
    <2>1. CASE Accept(c) \/ HandshakeFail(c) \/ ReaderExit(c) \/ DisconnectDone(c)
      BY <2>1 DEF Accept, HandshakeFail, ReaderExit, DisconnectDone
    <2>2. ASSUME NEW t \in Tabs, RegisterRateLimited(c, t)
          PROVE  UNCHANGED Lease!vars
      BY <2>2 DEF RegisterRateLimited
    <2> QED
      BY <1>3, <2>1, <2>2, RejectedIsLeave, AcceptedIsJoin, DisconnectIsLeave DEF Connection
  <1>4. ASSUME NEW c \in Conns, Dispatch(c)
        PROVE  Lease!Next \/ UNCHANGED Lease!vars
    <2>1. ASSUME NEW i \in Ids, Notify(c, i) \/ \E s \in Statuses : Heartbeat(c, i, s)
          PROVE  UNCHANGED Lease!vars
      BY <2>1 DEF Notify, Heartbeat
    <2> QED  BY <1>4, <2>1, TryClaimIsGrant, ReleaseIsLapse DEF Dispatch
  <1>5. CASE SweepColleagues  BY <1>5, SweepIsLeave
  <1>6. CASE SweepClaims  BY <1>6, SweepClaimsStutters
  <1>7. CASE Tick  BY <1>7, TickIsLapse
  <1>8. CASE UNCHANGED vars  BY <1>8 DEF vars
  <1> QED
    BY <1>1, <1>2, <1>3, <1>4, <1>5, <1>6, <1>7, <1>8 DEF Next, Lifecycle

\* Every behaviour of the coordinator is a behaviour of the lease table: the
\* claim of a live lease never passes to another colleague, whatever the order
\* of registrations, disconnects, expiries, sweeps and restarts.
THEOREM RegistryImplementsLease == Spec => ImplementsLease
  <1>1. IndexInv /\ [Next]_vars => IndexInv'
    BY NextTypeOK, NextIndexConsistent DEF IndexInv
  <1> QED
    BY InitIndexInv, InitLease, <1>1, NextLease, PTL DEF Spec, ImplementsLease, Lease!Spec

-----------------------------------------------------------------------------
(* The colleagues' caches of the claim table.                              *)

\* The last frame of q about r, or the cache k when q has none, says v.
Told(q, k, r, v) ==
  \/ \E n \in 1..Len(q) :
       /\ q[n].resource = r /\ q[n].holder = v
       /\ \A j \in 1..Len(q) : j > n => q[j].resource # r
  \/ /\ \A n \in 1..Len(q) : q[n].resource # r
     /\ k[r] = v

\* A frame of fs says v of r.
Mentions(fs, r, v) == \E n \in 1..Len(fs) : fs[n].resource = r /\ fs[n].holder = v

\* After a send the new frame is the last word about its resource, and the
\* other resources are as before.
LEMMA ToldAppend ==
  ASSUME NEW q \in Seq(Frames), NEW f \in Frames, NEW k, NEW r, NEW v,
         Told(Append(q, f), k, r, v)
  PROVE  IF f.resource = r THEN f.holder = v ELSE Told(q, k, r, v)
  <1> DEFINE p == Append(q, f)
  <1>1. /\ Len(q) \in Nat /\ Len(p) = Len(q) + 1
        /\ \A i \in 1..Len(q) : p[i] = q[i]
        /\ p[Len(q) + 1] = f
    BY AppendProperties, LenProperties
  <1>2. Told(p, k, r, v)  OBVIOUS
  <1> HIDE DEF p
  <1>3. CASE f.resource = r
    <2>1. PICK n \in 1..Len(p) :
            /\ p[n].resource = r /\ p[n].holder = v
            /\ \A j \in 1..Len(p) : j > n => p[j].resource # r
      BY <1>1, <1>2, <1>3 DEF Told
    <2>2. n = Len(q) + 1  BY <1>1, <1>3, <2>1
    <2> QED  BY <1>1, <1>3, <2>1, <2>2
  <1>4. CASE f.resource # r
    <2>1. CASE \A n \in 1..Len(p) : p[n].resource # r
      BY <1>1, <1>2, <1>4, <2>1 DEF Told
    <2>2. CASE \E n \in 1..Len(p) : p[n].resource = r
      <3>1. PICK n \in 1..Len(p) :
              /\ p[n].resource = r /\ p[n].holder = v
              /\ \A j \in 1..Len(p) : j > n => p[j].resource # r
        BY <1>2, <2>2 DEF Told
      <3>2. n \in 1..Len(q)  BY <1>1, <1>4, <3>1
      <3> QED  BY <1>1, <1>4, <3>1, <3>2 DEF Told
    <2> QED  BY <2>1, <2>2
  <1> QED  BY <1>3, <1>4

\* Receiving the oldest frame changes nothing in what a colleague will know
\* in the end.
LEMMA ToldReceive ==
  ASSUME NEW q \in Seq(Frames), q # <<>>, NEW k \in [Resources -> Ids \cup {None}],
         NEW r \in Resources, NEW v, Told(Tail(q), Apply(k, Head(q)), r, v)
  PROVE  Told(q, k, r, v)
  <1> DEFINE p == Tail(q)
             f == Head(q)
  <1>1. /\ Len(q) \in Nat /\ Len(q) > 0 /\ Len(p) = Len(q) - 1
        /\ \A i \in 1..Len(p) : p[i] = q[i + 1]
        /\ f = q[1]
    BY HeadTailProperties, LenProperties, EmptySeq
  <1>2. Told(p, Apply(k, f), r, v)  OBVIOUS
  <1> HIDE DEF p, f
  <1>3. Apply(k, f)[r] = IF f.resource = r THEN f.holder ELSE k[r]
    BY DEF Apply
  <1>4. CASE \E n \in 1..Len(p) : p[n].resource = r
    <2>1. PICK n \in 1..Len(p) :
            /\ p[n].resource = r /\ p[n].holder = v
            /\ \A j \in 1..Len(p) : j > n => p[j].resource # r
      BY <1>2, <1>4 DEF Told
    <2>2. n + 1 \in 1..Len(q) /\ q[n + 1].resource = r /\ q[n + 1].holder = v
      BY <1>1, <2>1
    <2>3. ASSUME NEW j \in 1..Len(q), j > n + 1 PROVE q[j].resource # r
      <3>1. j - 1 \in 1..Len(p) /\ j - 1 > n /\ (j - 1) + 1 = j  BY <1>1, <2>1, <2>3
      <3> QED  BY <1>1, <2>1, <3>1
    <2> QED  BY <2>2, <2>3 DEF Told
  <1>5. CASE \A n \in 1..Len(p) : p[n].resource # r
    <2>1. Apply(k, f)[r] = v  BY <1>2, <1>5 DEF Told
    <2>2. ASSUME NEW j \in 1..Len(q), j > 1 PROVE q[j].resource # r
      <3>1. j - 1 \in 1..Len(p) /\ (j - 1) + 1 = j  BY <1>1, <2>2
      <3> QED  BY <1>1, <1>5, <3>1
    <2>3. CASE f.resource = r
      <3>1. 1 \in 1..Len(q) /\ q[1].resource = r /\ q[1].holder = v
        BY <1>1, <1>3, <2>1, <2>3
      <3> QED  BY <2>2, <3>1 DEF Told
    <2>4. CASE f.resource # r
      <3>1. \A j \in 1..Len(q) : q[j].resource # r
        BY <1>1, <2>2, <2>4
      <3> QED  BY <1>3, <2>1, <2>4, <3>1 DEF Told
    <2> QED  BY <2>3, <2>4
  <1> QED  BY <1>4, <1>5

\* The same for a batch that is sent under the lock.
LEMMA ToldConcat ==
  ASSUME NEW q \in Seq(Frames), NEW fs \in Seq(Frames), NEW k, NEW r, NEW v,
         Told(q \o fs, k, r, v)
  PROVE  \/ Mentions(fs, r, v)
         \/ Told(q, k, r, v) /\ \A n \in 1..Len(fs) : fs[n].resource # r
  <1> DEFINE p == q \o fs
  <1>1. /\ Len(q) \in Nat /\ Len(fs) \in Nat /\ Len(p) = Len(q) + Len(fs)
        /\ \A i \in 1..Len(q) : p[i] = q[i]
        /\ \A i \in 1..Len(fs) : p[Len(q) + i] = fs[i]
    <2>1. /\ Len(p) = Len(q) + Len(fs)
          /\ \A i \in 1..Len(q) + Len(fs) : p[i] = IF i <= Len(q) THEN q[i] ELSE fs[i - Len(q)]
      BY ConcatProperties
    <2>2. Len(q) \in Nat /\ Len(fs) \in Nat  BY LenProperties
    <2> HIDE DEF p
    <2>3. ASSUME NEW i \in 1..Len(fs) PROVE p[Len(q) + i] = fs[i]
      <3>1. Len(q) + i \in 1..Len(q) + Len(fs) /\ ~(Len(q) + i <= Len(q)) /\ (Len(q) + i) - Len(q) = i
        BY <2>2
      <3>2. p[Len(q) + i] = fs[(Len(q) + i) - Len(q)]  BY <2>1, <3>1
      <3> QED  BY <3>1, <3>2
    <2> QED  BY <2>1, <2>2, <2>3
  <1>2. Told(p, k, r, v)  OBVIOUS
  <1> HIDE DEF p
  <1>3. CASE \A n \in 1..Len(p) : p[n].resource # r
    <2>1. k[r] = v  BY <1>2, <1>3 DEF Told
    <2>2. \A n \in 1..Len(q) : q[n].resource # r  BY <1>1, <1>3
    <2>3. ASSUME NEW n \in 1..Len(fs) PROVE fs[n].resource # r
      <3>1. Len(q) + n \in 1..Len(p)  BY <1>1
      <3> QED  BY <1>1, <1>3, <3>1
    <2> QED  BY <2>1, <2>2, <2>3 DEF Told
  <1>4. CASE \E n \in 1..Len(p) : p[n].resource = r
    <2>1. PICK n \in 1..Len(p) :
            /\ p[n].resource = r /\ p[n].holder = v
            /\ \A j \in 1..Len(p) : j > n => p[j].resource # r
      BY <1>2, <1>4 DEF Told
    <2>2. CASE n <= Len(q)
      <3>1. n \in 1..Len(q) /\ q[n].resource = r /\ q[n].holder = v
        BY <1>1, <2>1, <2>2
      <3>2. \A j \in 1..Len(q) : j > n => q[j].resource # r  BY <1>1, <2>1
      <3>3. ASSUME NEW j \in 1..Len(fs) PROVE fs[j].resource # r
        <4>1. Len(q) + j \in 1..Len(p) /\ Len(q) + j > n  BY <1>1, <2>1, <2>2
        <4> QED  BY <1>1, <2>1, <4>1
      <3> QED  BY <3>1, <3>2, <3>3 DEF Told
    <2>3. CASE ~(n <= Len(q))
      <3>1. n - Len(q) \in 1..Len(fs) /\ Len(q) + (n - Len(q)) = n  BY <1>1, <2>1, <2>3
      <3>2. fs[n - Len(q)] = p[n]  BY <1>1, <3>1
      <3> QED  BY <2>1, <3>1, <3>2 DEF Mentions
    <2> QED  BY <2>2, <2>3
  <1> QED  BY <1>3, <1>4

\* A finite set written as a sequence: nothing is left out.
LEMMA SetToSeqEnumerates ==
  ASSUME NEW S, IsFiniteSet(S)
  PROVE  /\ SetToSeq(S) \in Seq(S)
         /\ Len(SetToSeq(S)) = Cardinality(S)
         /\ \A x \in S : \E n \in 1..Len(SetToSeq(S)) : SetToSeq(S)[n] = x
  <1> DEFINE N == Cardinality(S)
             s == SetToSeq(S)
  <1>1. N \in Nat /\ ExistsBijection(1..N, S)  BY FS_CardinalityType
  <1>2. \E f \in [1..N -> S] : IsInjective(f)
    BY <1>1 DEF ExistsBijection, Bijection, Injection
  <1>3. s \in [1..N -> S] /\ IsInjective(s)
    BY <1>2 DEF SetToSeq
  <1> HIDE DEF s
  <1>4. s \in Seq(S) /\ Len(s) = N
    BY <1>1, <1>3
  <1>5. Cardinality(1..N) = N /\ IsFiniteSet(1..N)
    BY <1>1, FS_Interval
  <1>6. s \in Injection(1..N, S)  BY <1>3 DEF Injection
  <1> HIDE DEF N
  <1>7. s \in Surjection(1..N, S)
    BY <1>5, <1>6, FS_Injection DEF N
  <1>8. \A x \in S : \E n \in 1..N : s[n] = x
    BY <1>7 DEF Surjection
  <1>9. N = Cardinality(S) /\ s = SetToSeq(S)  BY DEF N, s
  <1> QED  BY <1>4, <1>8, <1>9

\* Frames are frames, and a channel is empty unless its connection is served.
CacheShape ==
  /\ outbox \in [Senders -> SUBSET (Frames \X Conns)]
  /\ freed \in [Conns -> SUBSET Resources]
  /\ channel \in [Conns -> Seq(Frames)]
  /\ cache \in [Conns -> [Resources -> Ids \cup {None}]]
  /\ overlapped \in BOOLEAN /\ lost \in BOOLEAN
  /\ \A c \in Conns : task[c] # "serving" => channel[c] = <<>>

\* A task that leaves the dispatch loop has sent all it had to send; claims
\* wait for their announcement only between the two critical sections of
\* disconnect(); nothing is addressed to a connection in its handshake; the
\* sweep of the claims starts with nothing left of the sweep before.
SendersDone ==
  /\ \A c \in Conns :
       /\ task[c] \in {"handshake", "closing", "releasing"} => outbox[c] = {}
       /\ task[c] # "releasing" => freed[c] = {}
       /\ task[c] = "handshake" => \A w \in Senders : \A m \in outbox[w] : m[2] # c
  /\ sweeper = "claims" => outbox[Sweeper] = {}

\* What was proved of the registry holds of it here.
LEMMA CacheNextIsNext == CacheNext => [Next]_vars
  <1> SUFFICES ASSUME CacheNext PROVE Next \/ UNCHANGED vars
    OBVIOUS
  <1>1. CASE CQuiet \/ CSweepClaims
    BY <1>1 DEF CQuiet, CSweepClaims, Next, Dispatch
  <1>2. ASSUME NEW w \in Senders, Send(w) PROVE UNCHANGED vars
    BY <1>2 DEF Send
  <1>3. ASSUME NEW c \in Conns,
               \/ CAccept(c) \/ CHandshakeFail(c) \/ CReaderExit(c)
               \/ CDisconnect(c) \/ CDisconnectDone(c) \/ Receive(c)
        PROVE Next \/ UNCHANGED vars
    <2>1. CASE Receive(c)  BY <2>1 DEF Receive
    <2>2. CASE ~Receive(c)
      <3>1. Connection(c)
        BY <1>3, <2>2 DEF CAccept, CHandshakeFail, CReaderExit, CDisconnect, CDisconnectDone,
                          Connection
      <3> QED  BY <3>1 DEF Next
    <2> QED  BY <2>1, <2>2
  <1>4. ASSUME NEW c \in Conns, NEW t \in Tabs, NEW i \in Ids,
               CRegisterRejected(c, t, i) \/ CRegisterAccepted(c, t, i)
        PROVE  Next
    <2>1. Connection(c)
      BY <1>4 DEF CRegisterRejected, CRegisterAccepted, Connection
    <2> QED  BY <2>1 DEF Next
  <1>5. ASSUME NEW c \in Conns, NEW i \in Ids, NEW r \in Resources,
               CReleaseClaim(c, i, r) \/ \E d \in MinTtl..MaxTtl : CTryClaim(c, i, r, d)
        PROVE  Next
    <2>1. Dispatch(c)
      BY <1>5 DEF CReleaseClaim, CTryClaim, Dispatch
    <2> QED  BY <2>1 DEF Next
  <1> QED
    BY <1>1, <1>2, <1>3, <1>4, <1>5 DEF CacheNext

\* A batch is made of frames.
LEMMA AnnounceShape ==
  ASSUME outbox \in [Senders -> SUBSET (Frames \X Conns)], IndexInv,
         NEW w \in Senders, NEW F \in SUBSET Frames, Announce(w, F, Members)
  PROVE  outbox' \in [Senders -> SUBSET (Frames \X Conns)]
  <1>1. Members \subseteq Conns
    BY DEF Members, Registered, IndexInv, TypeOK
  <1>2. F \X Members \in SUBSET (Frames \X Conns)
    BY <1>1
  <1> DEFINE B == F \X Members
  <1>3. outbox' = [outbox EXCEPT ![w] = B] /\ B \in SUBSET (Frames \X Conns)
    BY <1>2 DEF Announce
  <1> HIDE DEF B
  <1> QED  BY <1>3

\* The frames of an eviction can be listed, since the claim table is finite.
EvictionFrames(t) == SetToSeq({ReleaseFrame(r) : r \in ClaimsOf(Evicted(t))})

LEMMA EvictionFramesListed ==
  ASSUME IndexInv, BoundInv, NEW t \in Tabs
  PROVE  /\ EvictionFrames(t) \in Seq(Frames)
         /\ \A n \in 1..Len(EvictionFrames(t)) :
              \E r \in ClaimsOf(Evicted(t)) : EvictionFrames(t)[n] = ReleaseFrame(r)
         /\ \A r \in ClaimsOf(Evicted(t)) :
              \E n \in 1..Len(EvictionFrames(t)) : EvictionFrames(t)[n] = ReleaseFrame(r)
  <1> DEFINE S == {ReleaseFrame(r) : r \in ClaimsOf(Evicted(t))}
             g == [m \in S |-> m.resource]
             s == SetToSeq(S)
  <1>1. ClaimsOf(Evicted(t)) \subseteq Claimed
    BY DEF ClaimsOf, Evicted, Claimed
  <1>2. \A m \in S : m.resource \in Claimed /\ m = ReleaseFrame(m.resource)
    BY <1>1 DEF ReleaseFrame
  <1>3. S \subseteq Frames
    BY DEF ReleaseFrame, Frames, ClaimsOf
  <1>4. \A m \in S : \E r \in ClaimsOf(Evicted(t)) : m = ReleaseFrame(r)
    OBVIOUS
  <1>5. \A r \in ClaimsOf(Evicted(t)) : ReleaseFrame(r) \in S
    OBVIOUS
  <1>6. EvictionFrames(t) = s  BY DEF EvictionFrames
  <1> HIDE DEF S
  <1>7. g \in Injection(S, Claimed)
    BY <1>2 DEF Injection, IsInjective
  <1>8. IsFiniteSet(S)
    BY <1>7, FS_Injection DEF BoundInv
  <1>9. /\ s \in Seq(S)
        /\ \A x \in S : \E n \in 1..Len(s) : s[n] = x
    BY <1>8, SetToSeqEnumerates
  <1> HIDE DEF s
  <1>10. \A n \in 1..Len(s) : s[n] \in S
    BY <1>9, ElementOfSeq
  <1>11. s \in Seq(Frames)
    BY <1>3, <1>9
  <1> QED
    BY <1>4, <1>5, <1>6, <1>9, <1>10, <1>11

\* try_send touches the recipients' channels only, and never leaves more in
\* them than frames.
LEMMA PushShape ==
  ASSUME channel \in [Conns -> Seq(Frames)], lost \in BOOLEAN,
         NEW fs \in Seq(Frames), NEW S, PushAll(fs, S)
  PROVE  /\ channel' \in [Conns -> Seq(Frames)] /\ lost' \in BOOLEAN
         /\ \A c \in Conns : c \notin S \cap Serving => channel'[c] = channel[c]
  <1>1. ASSUME NEW c \in Conns
        PROVE  LET q == channel[c] \o fs
               IN  SubSeq(q, 1, IF Len(q) > Capacity THEN Capacity ELSE Len(q)) \in Seq(Frames)
    <2> DEFINE q == channel[c] \o fs
               n == IF Len(q) > Capacity THEN Capacity ELSE Len(q)
    <2>1. q \in Seq(Frames)  BY ConcatProperties
    <2> HIDE DEF q
    <2>2. Len(q) \in Nat /\ \A i \in 1..Len(q) : q[i] \in Frames
      BY <2>1, LenProperties, ElementOfSeq
    <2>3. n \in Int /\ n <= Len(q)
      BY <2>2, CacheAssumption
    <2> HIDE DEF n
    <2>4. \A i \in 1..n : q[i] \in Frames  BY <2>2, <2>3
    <2>5. SubSeq(q, 1, n) \in Seq(Frames)
      BY <2>3, <2>4, SubSeqProperties
    <2> QED  BY <2>5 DEF n, q
  <1>2. channel' \in [Conns -> Seq(Frames)]
    BY <1>1, Zenon DEF PushAll
  <1>3. lost' \in BOOLEAN
    BY DEF PushAll
  <1>4. \A c \in Conns : c \notin S \cap Serving => channel'[c] = channel[c]
    BY DEF PushAll
  <1> QED  BY <1>2, <1>3, <1>4

\* As long as nothing is lost, the frames are added whole.
LEMMA PushWhole ==
  ASSUME channel \in [Conns -> Seq(Frames)],
         NEW fs \in Seq(Frames), NEW S, PushAll(fs, S), ~lost'
  PROVE  \A c \in Conns : c \in S \cap Serving => channel'[c] = channel[c] \o fs
  <1> SUFFICES ASSUME NEW c \in Conns, c \in S \cap Serving
               PROVE  channel'[c] = channel[c] \o fs
    OBVIOUS
  <1> DEFINE q == channel[c] \o fs
  <1>1. q \in Seq(Frames) /\ Len(q) = Len(channel[c]) + Len(fs)
    BY ConcatProperties
  <1>2. ~(Len(channel[c]) + Len(fs) > Capacity)
    BY DEF PushAll
  <1>3. channel'[c] = SubSeq(q, 1, IF Len(q) > Capacity THEN Capacity ELSE Len(q))
    BY DEF PushAll
  <1> HIDE DEF q
  <1>4. channel'[c] = SubSeq(q, 1, Len(q))
    BY <1>1, <1>2, <1>3
  <1>5. channel'[c] = q
    BY <1>1, <1>4, SubSeqFull
  <1> QED  BY <1>5 DEF q

\* The shape of the frames on their way, action by action.
LEMMA SendShape ==
  ASSUME CacheShape, SendersDone, NEW w \in Senders, Send(w)
  PROVE  CacheShape' /\ SendersDone'
  <1> PICK m \in outbox[w] :
        /\ outbox' = [outbox EXCEPT ![w] = @ \ {m}]
        /\ channel' = IF m[2] \in Serving /\ Room(channel[m[2]])
                      THEN [channel EXCEPT ![m[2]] = Append(@, m[1])] ELSE channel
        /\ lost' = (lost \/ (m[2] \in Serving /\ ~Room(channel[m[2]])))
        /\ UNCHANGED <<vars, freed, cache, overlapped>>
    BY DEF Send
  <1>1. m[1] \in Frames /\ m[2] \in Conns
    BY DEF CacheShape
  <1>2. UNCHANGED <<task, sweeper>>
    BY DEF vars, taskVars, lifecycleVars
  <1>3. outbox' \in [Senders -> SUBSET (Frames \X Conns)]
    BY DEF CacheShape
  <1>4. channel' \in [Conns -> Seq(Frames)]
    <2>1. Append(channel[m[2]], m[1]) \in Seq(Frames)
      BY <1>1, AppendProperties DEF CacheShape
    <2> QED  BY <1>1, <2>1 DEF CacheShape
  <1>5. \A c \in Conns : task'[c] # "serving" => channel'[c] = <<>>
    BY <1>1, <1>2 DEF CacheShape, Serving
  <1>6. lost' \in BOOLEAN
    BY DEF CacheShape
  <1>7. CacheShape'
    BY <1>3, <1>4, <1>5, <1>6 DEF CacheShape
  <1>8. \A x \in Senders : outbox'[x] \subseteq outbox[x]
    BY DEF CacheShape
  <1>9. Conns \subseteq Senders /\ Sweeper \in Senders
    BY DEF Senders
  <1>10. \A c \in Conns :
       /\ task'[c] \in {"handshake", "closing", "releasing"} => outbox'[c] = {}
       /\ task'[c] # "releasing" => freed'[c] = {}
       /\ task'[c] = "handshake" => \A x \in Senders : \A n \in outbox'[x] : n[2] # c
    BY <1>2, <1>8, <1>9 DEF SendersDone
  <1>11. sweeper' = "claims" => outbox'[Sweeper] = {}
    BY <1>2, <1>8, <1>9 DEF SendersDone
  <1> QED  BY <1>7, <1>10, <1>11 DEF SendersDone

\* Receiving shortens one channel.
LEMMA ReceiveShape ==
  ASSUME CacheShape, SendersDone, NEW c \in Conns, Receive(c)
  PROVE  CacheShape' /\ SendersDone'
  <1> DEFINE p == Tail(channel[c])
             f == Head(channel[c])
  <1>1. f \in Frames /\ p \in Seq(Frames)
    BY HeadTailProperties DEF CacheShape, Receive
  <1>2. /\ cache' = [cache EXCEPT ![c] = Apply(@, f)]
        /\ channel' = [channel EXCEPT ![c] = p]
        /\ task[c] = "serving"
        /\ UNCHANGED <<task, sweeper, outbox, freed, overlapped, lost>>
    BY DEF Receive, Serving, vars, taskVars, lifecycleVars, historyVars
  <1> HIDE DEF p, f
  <1>3. Apply(cache[c], f) \in [Resources -> Ids \cup {None}]
    BY <1>1 DEF Apply, CacheShape, Frames
  <1>4. CacheShape'
    BY <1>1, <1>2, <1>3 DEF CacheShape
  <1>5. SendersDone'
    BY <1>2 DEF SendersDone
  <1> QED  BY <1>4, <1>5

\* A batch is addressed to members, whose handshake is over.
LEMMA MembersServed ==
  ASSUME IndexInv
  PROVE  \A c \in Members : c \in Conns /\ task[c] \in {"serving", "closing"}
  BY NoneAssumption
  DEF Members, Registered, IndexInv, IndexConsistent, BoundConnsActive, TypeOK

\* A task announces when the batch before is out, and then is in no state in
\* which SendersDone wants its outbox empty.
LEMMA AnnounceDone ==
  ASSUME IndexInv, CacheShape, SendersDone, NEW w \in Senders, NEW F, Announce(w, F, Members),
         w \in Conns => task'[w] \in {"serving", "free"},
         w = Sweeper => sweeper' # "claims",
         w # Sweeper => sweeper' = sweeper,
         \A c \in Conns : c # w => task'[c] = task[c],
         \A c \in Conns : task'[c] # "releasing" => freed'[c] = {}
  PROVE  SendersDone'
  <1>1. Conns \subseteq Senders /\ Sweeper \in Senders
    BY DEF Senders
  <1>2. \A x \in Senders : outbox'[x] = IF x = w THEN F \X Members ELSE outbox[x]
    BY DEF Announce, CacheShape
  <1>3. ASSUME NEW c \in Conns, task'[c] \in {"handshake", "closing", "releasing"}
        PROVE  c # w /\ outbox'[c] = {} /\ task[c] = task'[c]
    BY <1>1, <1>2, <1>3 DEF SendersDone
  <1>4. ASSUME NEW c \in Conns, task'[c] = "handshake",
               NEW x \in Senders, NEW m \in outbox'[x]
        PROVE  m[2] # c
    <2>1. task[c] = "handshake"  BY <1>3, <1>4
    <2>2. c \notin Members  BY <2>1, MembersServed
    <2>3. CASE x = w  BY <1>2, <1>4, <2>2, <2>3
    <2>4. CASE x # w  BY <1>2, <1>4, <2>1, <2>4 DEF SendersDone
    <2> QED  BY <2>3, <2>4
  <1>5. ASSUME sweeper' = "claims" PROVE outbox'[Sweeper] = {}
    BY <1>1, <1>2, <1>5 DEF SendersDone
  <1> QED  BY <1>3, <1>4, <1>5 DEF SendersDone

\* Every action keeps the frames where they belong.
LEMMA NextShape ==
  ASSUME IndexInv, BoundInv, CacheShape, SendersDone, CacheNext
  PROVE  CacheShape' /\ SendersDone'
  <1> USE DEF lifecycleVars, taskVars, cacheVars, historyVars
  <1>1. CASE CQuiet
    <2>1. UNCHANGED task /\ (sweeper' = "claims" => outbox[Sweeper] = {})
      BY <1>1 DEF CQuiet, Lifecycle, Start, StopBegin, ListenerExit, SweeperExit, StopClear,
           Tick, SweepColleagues, Notify, Heartbeat, SendersDone
    <2> QED  BY <1>1, <2>1 DEF CQuiet, CacheShape, SendersDone
  <1>2. CASE CSweepClaims
    <2> DEFINE F == {ReleaseFrame(r) : r \in Expired}
    <2>1. F \in SUBSET Frames  BY DEF ReleaseFrame, Frames, Expired, Claimed
    <2>2. Announce(Sweeper, F, Members)  BY <1>2 DEF CSweepClaims
    <2> HIDE DEF F
    <2>3. Sweeper \in Senders /\ Sweeper \notin Conns  BY CacheAssumption DEF Senders
    <2>4. UNCHANGED <<task, freed, channel, cache, lost>> /\ sweeper' = "idle"
      BY <1>2 DEF CSweepClaims, SweepClaims
    <2>5. overlapped' \in BOOLEAN  BY <1>2 DEF CSweepClaims, TableChanges, CacheShape
    <2>6. CacheShape'
      BY <2>1, <2>2, <2>3, <2>4, <2>5, AnnounceShape DEF CacheShape
    <2>7. SendersDone'
      BY <2>2, <2>3, <2>4, AnnounceDone DEF SendersDone
    <2> QED  BY <2>6, <2>7
  <1>3. ASSUME NEW w \in Senders, Send(w) PROVE CacheShape' /\ SendersDone'
    BY <1>3, SendShape
  <1>4. ASSUME NEW c \in Conns, CAccept(c) PROVE CacheShape' /\ SendersDone'
    <2>1. task[c] = "free" /\ task' = [task EXCEPT ![c] = "handshake"] /\ UNCHANGED sweeper
      BY <1>4 DEF CAccept, Accept
    <2> QED  BY <1>4, <2>1 DEF CAccept, CacheShape, SendersDone, IndexInv, TypeOK
  <1>5. ASSUME NEW c \in Conns, CHandshakeFail(c) PROVE CacheShape' /\ SendersDone'
    <2>1. task[c] = "handshake" /\ task' = [task EXCEPT ![c] = "free"] /\ UNCHANGED sweeper
      BY <1>5 DEF CHandshakeFail, HandshakeFail, RegisterRateLimited
    <2> QED  BY <1>5, <2>1 DEF CHandshakeFail, CacheShape, SendersDone, IndexInv, TypeOK
  <1>6. ASSUME NEW c \in Conns, CReaderExit(c) PROVE CacheShape' /\ SendersDone'
    <2>1. task' = [task EXCEPT ![c] = "closing"] /\ UNCHANGED sweeper
      BY <1>6 DEF CReaderExit, ReaderExit
    <2>2. outbox[c] = {} /\ UNCHANGED <<outbox, freed, overlapped, lost>> /\ task[c] = "serving"
      BY <1>6 DEF CReaderExit, ReaderExit
    <2>3. /\ channel' = [channel EXCEPT ![c] = <<>>]
          /\ cache' = [cache EXCEPT ![c] = [r \in Resources |-> None]]
      BY <1>6 DEF CReaderExit
    <2>4. channel' \in [Conns -> Seq(Frames)]
      BY <2>3 DEF CacheShape
    <2>5. CacheShape'
      BY <2>1, <2>2, <2>3, <2>4 DEF CacheShape, IndexInv, TypeOK
    <2>6. SendersDone'
      BY <2>1, <2>2 DEF SendersDone, IndexInv, TypeOK
    <2> QED  BY <2>5, <2>6
  <1>7. ASSUME NEW c \in Conns, CDisconnect(c) PROVE CacheShape' /\ SendersDone'
    <2> DEFINE R == ClaimsOf({byConn[c]} \ {None})
    <2>1. /\ freed' = [freed EXCEPT ![c] = R] /\ TableChanges(R)
          /\ UNCHANGED <<outbox, channel, cache, lost, sweeper>>
          /\ task[c] = "closing"
          /\ task' = [task EXCEPT ![c] = IF byConn[c] = None THEN "free" ELSE "releasing"]
      BY <1>7 DEF CDisconnect, Disconnect
    <2>2. R \subseteq Resources /\ (byConn[c] = None => R = {})
      BY DEF ClaimsOf
    <2> HIDE DEF R
    <2>3. CacheShape'
      BY <2>1, <2>2 DEF CacheShape, TableChanges, IndexInv, TypeOK
    <2>4. SendersDone'
      BY <2>1, <2>2 DEF SendersDone, CacheShape, IndexInv, TypeOK
    <2> QED  BY <2>3, <2>4
  <1>8. ASSUME NEW c \in Conns, CDisconnectDone(c) PROVE CacheShape' /\ SendersDone'
    <2> DEFINE F == {ReleaseFrame(r) : r \in freed[c]}
    <2>1. F \in SUBSET Frames  BY DEF ReleaseFrame, Frames, CacheShape
    <2>2. Announce(c, F, Members)  BY <1>8 DEF CDisconnectDone
    <2> HIDE DEF F
    <2>3. c \in Senders /\ c # Sweeper  BY CacheAssumption DEF Senders
    <2>4. /\ UNCHANGED <<sweeper, channel, cache, overlapped, lost>>
          /\ freed' = [freed EXCEPT ![c] = {}]
          /\ task[c] = "releasing" /\ task' = [task EXCEPT ![c] = "free"]
      BY <1>8 DEF CDisconnectDone, DisconnectDone
    <2>5. outbox' \in [Senders -> SUBSET (Frames \X Conns)]
      BY <2>1, <2>2, <2>3, AnnounceShape DEF CacheShape
    <2>6. CacheShape'
      BY <2>4, <2>5 DEF CacheShape, IndexInv, TypeOK
    <2>7. /\ task'[c] \in {"serving", "free"}
          /\ \A d \in Conns : d # c => task'[d] = task[d]
          /\ \A d \in Conns : task'[d] # "releasing" => freed'[d] = {}
      BY <2>4 DEF SendersDone, CacheShape, IndexInv, TypeOK
    <2>8. SendersDone'
      BY <2>2, <2>3, <2>4, <2>7, AnnounceDone
    <2> QED  BY <2>6, <2>8
  <1>9. ASSUME NEW c \in Conns, Receive(c) PROVE CacheShape' /\ SendersDone'
    BY <1>9, ReceiveShape
  <1>10. ASSUME NEW c \in Conns, NEW t \in Tabs, NEW i \in Ids,
                CRegisterRejected(c, t, i) \/ CRegisterAccepted(c, t, i)
         PROVE  CacheShape' /\ SendersDone'
    <2> DEFINE S == Members \ EvictedConns(t)
    <2>1. AnnounceEviction(t) /\ UNCHANGED <<outbox, freed>>
      BY <1>10 DEF CRegisterRejected, CRegisterAccepted
    <2>2. PushAll(EvictionFrames(t), S) /\ overlapped' \in BOOLEAN
      BY <2>1 DEF AnnounceEviction, EvictionFrames, TableChanges, CacheShape
    <2>3. /\ task[c] = "handshake" /\ UNCHANGED sweeper
          /\ task' = [task EXCEPT ![c] = "free"] \/ task' = [task EXCEPT ![c] = "serving"]
      BY <1>10 DEF CRegisterRejected, CRegisterAccepted, RegisterRejected, RegisterAccepted
    <2> HIDE DEF S
    <2>4. EvictionFrames(t) \in Seq(Frames)  BY EvictionFramesListed
    <2>5. /\ channel' \in [Conns -> Seq(Frames)] /\ lost' \in BOOLEAN
          /\ \A d \in Conns : d \notin S \cap Serving => channel'[d] = channel[d]
      BY <2>2, <2>4, PushShape DEF CacheShape
    <2>6. cache' \in [Conns -> [Resources -> Ids \cup {None}]]
      <3>1. CASE CRegisterRejected(c, t, i)
        BY <3>1 DEF CRegisterRejected, CacheShape
      <3>2. CASE CRegisterAccepted(c, t, i)
        <4>1. holder' \in [Resources -> Ids \cup {None}]
          BY <3>2 DEF CRegisterAccepted, RegisterAccepted, HolderWithout, IndexInv, TypeOK
        <4>2. Snapshot(holder', ttl') \in [Resources -> Ids \cup {None}]
          BY <4>1 DEF Snapshot
        <4>3. cache' = [cache EXCEPT ![c] = Snapshot(holder', ttl')]
          BY <3>2 DEF CRegisterAccepted
        <4> QED  BY <4>2, <4>3 DEF CacheShape
      <3> QED  BY <1>10, <3>1, <3>2
    <2>7. \A d \in Conns : task'[d] # "serving" => channel'[d] = <<>>
      BY <2>3, <2>5 DEF CacheShape, Serving, IndexInv, TypeOK
    <2>8. CacheShape'
      BY <2>1, <2>2, <2>5, <2>6, <2>7 DEF CacheShape
    <2>9. SendersDone'
      BY <2>1, <2>3 DEF SendersDone, IndexInv, TypeOK
    <2> QED  BY <2>8, <2>9
  <1>11. ASSUME NEW c \in Conns, NEW i \in Ids, NEW r \in Resources,
                CReleaseClaim(c, i, r) \/ \E d \in MinTtl..MaxTtl : CTryClaim(c, i, r, d)
         PROVE  CacheShape' /\ SendersDone'
    <2>1. \E F \in SUBSET Frames : Announce(c, F, Members)
      <3>1. ReleaseFrame(r) \in Frames /\ [resource |-> r, holder |-> i] \in Frames
        BY DEF ReleaseFrame, Frames
      <3> QED  BY <1>11, <3>1 DEF CReleaseClaim, CTryClaim
    <2>2. PICK F \in SUBSET Frames : Announce(c, F, Members)
      BY <2>1
    <2>3. c \in Senders /\ c # Sweeper  BY CacheAssumption DEF Senders
    <2>4. UNCHANGED <<task, sweeper, freed, channel, cache, lost>> /\ task[c] = "serving"
      BY <1>11 DEF CReleaseClaim, CTryClaim, ReleaseClaim, TryClaim, Serves
    <2>5. overlapped' \in BOOLEAN
      BY <1>11 DEF CReleaseClaim, CTryClaim, TableChanges, CacheShape
    <2>6. CacheShape'
      BY <2>2, <2>3, <2>4, <2>5, AnnounceShape DEF CacheShape
    <2>7. SendersDone'
      BY <2>2, <2>3, <2>4, AnnounceDone DEF SendersDone
    <2> QED  BY <2>6, <2>7
  <1> QED
    BY <1>1, <1>2, <1>3, <1>4, <1>5, <1>6, <1>7, <1>8, <1>9, <1>10, <1>11 DEF CacheNext

\* v may be told of r: it is what the table says, or nothing, where the claim
\* has expired.
Agrees(v, r) == v = holder[r] \/ (ttl[r] = 0 /\ v = None)

\* A frame about r is still to be sent to c.
ToCome(c, r) ==
  \/ \E w \in Senders : \E m \in outbox[w] : m[2] = c /\ m[1].resource = r
  \/ \E d \in Conns : r \in freed[d]

\* What is still to be sent to a member is true.
AnnouncedRight ==
  \A w \in Senders : \A m \in outbox[w] :
    m[2] \in Members => Agrees(m[1].holder, m[1].resource)

\* A claim that waits for its announcement is free.
FreedGone == \A c \in Conns : \A r \in freed[c] : holder[r] = None

\* What the last frame about r in c's channel says, or c's cache where there is
\* none, agrees with the table, or a frame about r is still to be sent.
InformedOf(c, r) ==
  \A v \in Ids \cup {None} :
    Told(channel[c], cache[c], r, v) => Agrees(v, r) \/ ToCome(c, r)

\* Every member in service is informed of every resource.
Informed == \A c \in Members \cap Serving : \A r \in Resources : InformedOf(c, r)

TruthInv == AnnouncedRight /\ FreedGone /\ Informed

\* Nothing is on its way while the table changes.
LEMMA QuietBefore ==
  ASSUME NEW S, S # {}, TableChanges(S), ~overlapped'
  PROVE  /\ \A w \in Senders : outbox[w] = {}
         /\ \A c \in Conns : freed[c] = {}
  BY DEF TableChanges, Announcing

\* A step that changes no claim, sends nothing and lets no connection join.
LEMMA QuietTruth ==
  ASSUME IndexInv, TruthInv, UNCHANGED <<outbox, freed, channel, cache, holder>>,
         \A r \in Resources : ttl[r] = 0 => ttl'[r] = 0,
         Members' \subseteq Members, Serving' \cap Members \subseteq Serving, CacheShape
  PROVE  TruthInv'
  <1>1. \A v : \A r \in Resources : Agrees(v, r) => Agrees(v, r)'
    BY DEF Agrees
  <1>2. \A c, r : ToCome(c, r)' <=> ToCome(c, r)
    BY DEF ToCome
  <1>3. AnnouncedRight'
    <2> SUFFICES ASSUME NEW w \in Senders, NEW m \in outbox[w], m[2] \in Members'
                 PROVE  Agrees(m[1].holder, m[1].resource)'
      BY DEF AnnouncedRight
    <2>1. m[1].resource \in Resources
      BY DEF CacheShape, Frames
    <2> QED  BY <1>1, <2>1 DEF AnnouncedRight, TruthInv
  <1>4. FreedGone'
    BY DEF FreedGone, TruthInv
  <1>5. Informed'
    BY <1>1, <1>2 DEF Informed, InformedOf, TruthInv
  <1> QED  BY <1>3, <1>4, <1>5 DEF TruthInv

\* One change of the table, and the batch that announces it.
LEMMA AnnounceTruth ==
  ASSUME IndexInv, CacheShape, TruthInv, NEW w \in Senders, NEW F \in SUBSET Frames,
         Announce(w, F, Members), UNCHANGED <<channel, cache, task>>,
         \A x \in Senders : outbox[x] = {}, \A c \in Conns : freed'[c] = {},
         Members' = Members,
         \A f \in F : Agrees(f.holder, f.resource)',
         \A r \in Resources :
           \/ \E f \in F : f.resource = r
           \/ holder'[r] = holder[r] /\ ttl'[r] = ttl[r] /\ \A c \in Conns : r \notin freed[c]
  PROVE  TruthInv'
  <1>1. \A x \in Senders : outbox'[x] = IF x = w THEN F \X Members ELSE {}
    BY DEF Announce, CacheShape
  <1>2. AnnouncedRight'
    BY <1>1 DEF AnnouncedRight
  <1>3. FreedGone'
    BY DEF FreedGone
  <1>4. ASSUME NEW c \in Members' \cap Serving', NEW r \in Resources
        PROVE  InformedOf(c, r)'
    <2>1. c \in Members \cap Serving
      BY <1>4 DEF Serving
    <2>2. CASE \E f \in F : f.resource = r
      <3>1. PICK f \in F : f.resource = r  BY <2>2
      <3>2. <<f, c>> \in outbox'[w]
        BY <1>1, <2>1
      <3>3. ToCome(c, r)'
        BY <3>1, <3>2 DEF ToCome
      <3> QED  BY <3>3 DEF InformedOf
    <2>3. CASE holder'[r] = holder[r] /\ ttl'[r] = ttl[r] /\ \A d \in Conns : r \notin freed[d]
      <3>1. ~ToCome(c, r)  BY <2>3 DEF ToCome
      <3>2. InformedOf(c, r)
        BY <2>1 DEF TruthInv, Informed
      <3> QED  BY <2>3, <3>1, <3>2 DEF InformedOf, Agrees
    <2> QED  BY <2>2, <2>3
  <1>5. Informed'
    BY <1>4 DEF Informed
  <1> QED  BY <1>2, <1>3, <1>5 DEF TruthInv

\* A frame changes hands: it is no longer to come, but in the channel.
LEMMA SendTruth ==
  ASSUME IndexInv, CacheShape, TruthInv, NEW w \in Senders, Send(w), ~lost'
  PROVE  TruthInv'
  <1> PICK m \in outbox[w] :
        /\ outbox' = [outbox EXCEPT ![w] = @ \ {m}]
        /\ channel' = IF m[2] \in Serving /\ Room(channel[m[2]])
                      THEN [channel EXCEPT ![m[2]] = Append(@, m[1])] ELSE channel
        /\ lost' = (lost \/ (m[2] \in Serving /\ ~Room(channel[m[2]])))
        /\ UNCHANGED <<vars, freed, cache, overlapped>>
    BY DEF Send
  <1>1. m[1] \in Frames /\ m[2] \in Conns /\ m = <<m[1], m[2]>>
    BY DEF CacheShape
  <1>2. UNCHANGED <<holder, ttl, task, freed, cache>> /\ Members' = Members /\ Serving' = Serving
    BY DEF vars, claimVars, taskVars, colleagueVars, Members, Registered, Serving
  <1>3. \A v, r : Agrees(v, r)' <=> Agrees(v, r)
    BY <1>2 DEF Agrees
  <1>4. \A x \in Senders : outbox'[x] = IF x = w THEN outbox[x] \ {m} ELSE outbox[x]
    BY DEF CacheShape
  <1>5. AnnouncedRight'
    BY <1>2, <1>3, <1>4 DEF AnnouncedRight, TruthInv
  <1>6. FreedGone'
    BY <1>2 DEF FreedGone, TruthInv
  <1>7. ASSUME NEW c \in Members \cap Serving, NEW r \in Resources, NEW v \in Ids \cup {None},
               Told(channel'[c], cache[c], r, v), ~Agrees(v, r)
        PROVE  ToCome(c, r)'
    <2>1. c \in Conns  BY DEF Serving
    <2>2. CASE m[2] = c /\ m[1].resource = r
      <3>1. channel'[c] = Append(channel[c], m[1])
        BY <1>1, <2>1, <2>2 DEF CacheShape
      <3>2. m[1].holder = v
        BY <1>1, <1>7, <2>1, <2>2, <3>1, ToldAppend DEF CacheShape
      <3>3. Agrees(m[1].holder, m[1].resource)
        BY <2>2 DEF AnnouncedRight, TruthInv
      <3> QED  BY <1>7, <2>2, <3>2, <3>3
    <2>3. CASE ~(m[2] = c /\ m[1].resource = r)
      <3>1. Told(channel[c], cache[c], r, v)
        <4>1. CASE m[2] = c
          <5>1. channel'[c] = Append(channel[c], m[1])
            BY <1>1, <2>1, <4>1 DEF CacheShape
          <5>2. channel[c] \in Seq(Frames)  BY <2>1 DEF CacheShape
          <5> QED  BY <1>1, <1>7, <2>3, <4>1, <5>1, <5>2, ToldAppend
        <4>2. CASE m[2] # c
          <5>1. channel'[c] = channel[c]
            BY <1>1, <2>1, <4>2 DEF CacheShape
          <5> QED  BY <1>7, <5>1
        <4> QED  BY <4>1, <4>2
      <3>2. ToCome(c, r)
        BY <1>7, <3>1 DEF TruthInv, Informed, InformedOf
      <3> QED  BY <1>2, <1>4, <2>3, <3>2 DEF ToCome
    <2> QED  BY <2>2, <2>3
  <1>8. Informed'
    BY <1>2, <1>3, <1>7 DEF Informed, InformedOf
  <1> QED  BY <1>5, <1>6, <1>8 DEF TruthInv

\* Receiving loses nothing that the colleague was told.
LEMMA ReceiveTruth ==
  ASSUME IndexInv, CacheShape, TruthInv, NEW c \in Conns, Receive(c)
  PROVE  TruthInv'
  <1> DEFINE p == Tail(channel[c])
             k == Apply(cache[c], Head(channel[c]))
  <1>1. /\ cache' = [cache EXCEPT ![c] = k] /\ channel' = [channel EXCEPT ![c] = p]
        /\ UNCHANGED <<vars, outbox, freed>> /\ channel[c] # <<>>
    BY DEF Receive
  <1>2. \A r \in Resources : \A v : Told(p, k, r, v) => Told(channel[c], cache[c], r, v)
    <2>1. channel[c] \in Seq(Frames) /\ cache[c] \in [Resources -> Ids \cup {None}]
      BY DEF CacheShape
    <2> QED  BY <1>1, <2>1, ToldReceive
  <1> HIDE DEF p, k
  <1>3. UNCHANGED <<holder, ttl, task, freed>> /\ Members' = Members /\ Serving' = Serving
    BY <1>1 DEF vars, claimVars, taskVars, colleagueVars, Members, Registered, Serving
  <1>4. \A v, r : Agrees(v, r)' <=> Agrees(v, r)
    BY <1>3 DEF Agrees
  <1>5. \A d, r : ToCome(d, r)' <=> ToCome(d, r)
    BY <1>1 DEF ToCome
  <1>6. \A d \in Serving : \A r \in Resources : \A v :
          Told(channel'[d], cache'[d], r, v) => Told(channel[d], cache[d], r, v)
    BY <1>1, <1>2 DEF CacheShape, Serving
  <1>7. AnnouncedRight' /\ FreedGone'
    BY <1>1, <1>3, <1>4 DEF AnnouncedRight, FreedGone, TruthInv
  <1>8. Informed'
    BY <1>3, <1>4, <1>5, <1>6 DEF Informed, InformedOf, TruthInv
  <1> QED  BY <1>7, <1>8 DEF TruthInv

\* disconnect() drops the claims and leaves their announcement for later.
LEMMA DisconnectTruth ==
  ASSUME IndexInv, CacheShape, SendersDone, TruthInv, NEW c \in Conns, CDisconnect(c), ~overlapped'
  PROVE  TruthInv'
  <1> DEFINE S == {byConn[c]} \ {None}
             R == ClaimsOf(S)
  <1>1. /\ freed' = [freed EXCEPT ![c] = R] /\ TableChanges(R)
        /\ UNCHANGED <<outbox, channel, cache>>
        /\ holder' = HolderWithout(S) /\ ttl' = TtlWithout(S)
        /\ task[c] = "closing"
    BY DEF CDisconnect, Disconnect
  <1>2. Members' \subseteq Members
    BY DEF CDisconnect, Disconnect, RemoveColleagues, Without, Members, Registered, IndexInv, TypeOK
  <1>3. Serving' \subseteq Serving
    BY DEF CDisconnect, Disconnect, Serving, IndexInv, TypeOK
  <1>4. /\ \A r \in R : r \in Resources /\ holder'[r] = None
        /\ \A r \in Resources \ R : holder'[r] = holder[r] /\ ttl'[r] = ttl[r]
    BY <1>1 DEF HolderWithout, TtlWithout, ClaimsOf
  <1>5. freed[c] = {}
    BY <1>1 DEF SendersDone
  <1>6. R # {} => (\A x \in Senders : outbox[x] = {}) /\ \A d \in Conns : freed[d] = {}
    BY <1>1, QuietBefore
  <1> HIDE DEF R, S
  <1>7. AnnouncedRight'
    <2> SUFFICES ASSUME NEW w \in Senders, NEW m \in outbox[w], m[2] \in Members'
                 PROVE  Agrees(m[1].holder, m[1].resource)'
      BY <1>1 DEF AnnouncedRight
    <2>1. R = {} /\ m[1].resource \in Resources
      BY <1>6 DEF CacheShape, Frames
    <2>2. Agrees(m[1].holder, m[1].resource)
      BY <1>2 DEF AnnouncedRight, TruthInv
    <2> QED  BY <1>4, <2>1, <2>2 DEF Agrees
  <1>8. FreedGone'
    <2> SUFFICES ASSUME NEW d \in Conns, NEW r \in freed'[d] PROVE holder'[r] = None
      BY DEF FreedGone
    <2>1. CASE d = c  BY <1>1, <1>4, <2>1 DEF CacheShape
    <2>2. CASE d # c
      <3>1. r \in freed[d]  BY <1>1, <2>2 DEF CacheShape
      <3>2. R = {} /\ r \in Resources  BY <1>6, <3>1 DEF CacheShape
      <3> QED  BY <1>4, <3>1, <3>2 DEF FreedGone, TruthInv
    <2> QED  BY <2>1, <2>2
  <1>9. ASSUME NEW d \in Members' \cap Serving', NEW r \in Resources
        PROVE  InformedOf(d, r)'
    <2>1. d \in Members \cap Serving  BY <1>2, <1>3
    <2>2. InformedOf(d, r)  BY <2>1 DEF Informed, TruthInv
    <2>3. CASE r \in R
      <3>1. ToCome(d, r)'
        BY <1>1, <2>3 DEF ToCome, CacheShape
      <3> QED  BY <3>1 DEF InformedOf
    <2>4. CASE r \notin R
      <3>1. ToCome(d, r) => ToCome(d, r)'
        BY <1>1, <1>5 DEF ToCome, CacheShape
      <3>2. \A v : Agrees(v, r) => Agrees(v, r)'
        BY <1>4, <2>4 DEF Agrees
      <3> QED  BY <1>1, <2>2, <3>1, <3>2 DEF InformedOf
    <2> QED  BY <2>3, <2>4
  <1>10. Informed'
    BY <1>9 DEF Informed
  <1> QED  BY <1>7, <1>8, <1>10 DEF TruthInv

\* The announcement follows.
LEMMA DisconnectDoneTruth ==
  ASSUME IndexInv, CacheShape, SendersDone, TruthInv, NEW c \in Conns, CDisconnectDone(c)
  PROVE  TruthInv'
  <1> DEFINE F == {ReleaseFrame(r) : r \in freed[c]}
  <1>1. /\ outbox' = [outbox EXCEPT ![c] = F \X Members]
        /\ freed' = [freed EXCEPT ![c] = {}]
        /\ UNCHANGED <<channel, cache, holder, ttl, connOf>>
        /\ task[c] = "releasing" /\ task' = [task EXCEPT ![c] = "free"]
    BY DEF CDisconnectDone, DisconnectDone, Announce, claimVars, colleagueVars
  <1>2. Members' = Members /\ Serving' \subseteq Serving
    BY <1>1 DEF Members, Registered, Serving, IndexInv, TypeOK
  <1>3. outbox[c] = {} /\ c \in Senders
    BY <1>1 DEF SendersDone, Senders
  <1>4. \A f \in F : holder[f.resource] = None /\ f.holder = None
    BY DEF ReleaseFrame, FreedGone, TruthInv
  <1>5. \A r \in freed[c] : ReleaseFrame(r) \in F /\ ReleaseFrame(r).resource = r
    BY DEF ReleaseFrame
  <1> HIDE DEF F
  <1>6. \A x \in Senders : outbox'[x] = IF x = c THEN F \X Members ELSE outbox[x]
    BY <1>1 DEF CacheShape
  <1>7. \A v, r : Agrees(v, r)' <=> Agrees(v, r)
    BY <1>1 DEF Agrees
  <1>8. AnnouncedRight'
    <2> SUFFICES ASSUME NEW x \in Senders, NEW m \in outbox'[x], m[2] \in Members
                 PROVE  Agrees(m[1].holder, m[1].resource)
      BY <1>2, <1>7 DEF AnnouncedRight
    <2>1. CASE x = c  BY <1>4, <1>6, <2>1 DEF Agrees
    <2>2. CASE x # c  BY <1>6, <2>2 DEF AnnouncedRight, TruthInv
    <2> QED  BY <2>1, <2>2
  <1>9. FreedGone'
    BY <1>1 DEF FreedGone, TruthInv, CacheShape
  <1>10. ASSUME NEW d \in Members \cap Serving, NEW r \in Resources, ToCome(d, r)
         PROVE  ToCome(d, r)'
    <2>1. CASE \E x \in Senders : \E m \in outbox[x] : m[2] = d /\ m[1].resource = r
      <3>1. PICK x \in Senders : \E m \in outbox[x] : m[2] = d /\ m[1].resource = r
        BY <2>1
      <3>2. outbox'[x] = outbox[x]  BY <1>3, <1>6, <3>1
      <3> QED  BY <3>1, <3>2 DEF ToCome
    <2>2. CASE r \in freed[c]
      <3>1. <<ReleaseFrame(r), d>> \in outbox'[c]
        BY <1>3, <1>5, <1>6, <2>2
      <3> QED  BY <1>3, <1>5, <2>2, <3>1 DEF ToCome
    <2>3. CASE \E e \in Conns \ {c} : r \in freed[e]
      BY <1>1, <2>3 DEF ToCome, CacheShape
    <2> QED  BY <1>10, <2>1, <2>2, <2>3 DEF ToCome
  <1>11. Informed'
    BY <1>1, <1>2, <1>7, <1>10 DEF Informed, InformedOf, TruthInv
  <1> QED  BY <1>8, <1>9, <1>11 DEF TruthInv

\* What an eviction tells, and whom: the rest of the table and of the
\* channels stays as it was.
LEMMA EvictionTruth ==
  ASSUME IndexInv, BoundInv, CacheShape, SendersDone, TruthInv, NEW c \in Conns, NEW t \in Tabs,
         AnnounceEviction(t), ~overlapped', ~lost', UNCHANGED <<outbox, freed>>,
         holder' = HolderWithout(Evicted(t)), ttl' = TtlWithout(Evicted(t)),
         task[c] = "handshake", Members' \subseteq (Members \ EvictedConns(t)) \cup {c},
         Serving' \subseteq Serving \cup {c},
         \A d \in Conns : d # c => cache'[d] = cache[d],
         c \in Serving' => cache'[c] = Snapshot(holder', ttl')
  PROVE  TruthInv'
  <1> DEFINE R == ClaimsOf(Evicted(t))
             fs == EvictionFrames(t)
             S == Members \ EvictedConns(t)
  <1>1. TableChanges(R) /\ PushAll(fs, S)
    BY DEF AnnounceEviction, EvictionFrames
  <1>2. /\ fs \in Seq(Frames)
        /\ \A n \in 1..Len(fs) : \E r \in R : fs[n] = ReleaseFrame(r)
        /\ \A r \in R : \E n \in 1..Len(fs) : fs[n] = ReleaseFrame(r)
    BY EvictionFramesListed
  <1>3. /\ \A r \in R : r \in Resources /\ holder'[r] = None
        /\ \A r \in Resources \ R : holder'[r] = holder[r] /\ ttl'[r] = ttl[r]
    BY DEF HolderWithout, TtlWithout, ClaimsOf
  <1>4. R # {} => (\A x \in Senders : outbox[x] = {}) /\ \A d \in Conns : freed[d] = {}
    BY <1>1, QuietBefore
  <1>5. c \notin Members  BY MembersServed
  <1> HIDE DEF R, fs, S
  <1>6. \A d \in Conns : d \in S \cap Serving => channel'[d] = channel[d] \o fs
    BY <1>1, <1>2, PushWhole DEF CacheShape
  <1>7. \A d \in Conns : d \notin S \cap Serving => channel'[d] = channel[d]
    BY <1>1, <1>2, PushShape DEF CacheShape
  <1>8. AnnouncedRight'
    <2> SUFFICES ASSUME NEW w \in Senders, NEW m \in outbox[w], m[2] \in Members'
                 PROVE  Agrees(m[1].holder, m[1].resource)'
      BY DEF AnnouncedRight
    <2>1. R = {} /\ m[1].resource \in Resources
      BY <1>4 DEF CacheShape, Frames
    <2>2. m[2] # c  BY DEF SendersDone
    <2>3. Agrees(m[1].holder, m[1].resource)
      BY <2>2 DEF AnnouncedRight, TruthInv
    <2> QED  BY <1>3, <2>1, <2>3 DEF Agrees
  <1>9. FreedGone'
    <2> SUFFICES ASSUME NEW d \in Conns, NEW r \in freed[d] PROVE holder'[r] = None
      BY DEF FreedGone
    <2>1. R = {} /\ r \in Resources  BY <1>4 DEF CacheShape
    <2> QED  BY <1>3, <2>1 DEF FreedGone, TruthInv
  <1>10. \A d, r : ToCome(d, r)' <=> ToCome(d, r)
    BY DEF ToCome
  <1>11. ASSUME NEW r \in Resources, c \in Serving' PROVE InformedOf(c, r)'
    <2>1. channel[c] = <<>> /\ c \notin S
      BY <1>5 DEF CacheShape, S
    <2>2. channel'[c] = <<>>
      BY <1>7, <2>1
    <2>3. ASSUME NEW v, Told(channel'[c], cache'[c], r, v) PROVE Agrees(v, r)'
      <3>1. v = cache'[c][r]  BY <2>2, <2>3 DEF Told
      <3>2. v = IF ttl'[r] > 0 THEN holder'[r] ELSE None
        BY <1>11, <3>1 DEF Snapshot
      <3>3. ttl'[r] \in Nat
        <4>1. ttl'[r] \in 0..MaxTtl
          BY BoundsAssumption DEF TtlWithout, IndexInv, TypeOK
        <4> QED  BY <4>1, BoundsAssumption
      <3> QED  BY <3>2, <3>3 DEF Agrees
    <2> QED  BY <2>3 DEF InformedOf
  <1>12. ASSUME NEW d \in Members' \cap Serving', d # c, NEW r \in Resources
         PROVE  InformedOf(d, r)'
    <2>1. d \in S \cap Serving /\ d \in Members /\ d \in Conns
      BY <1>12 DEF S, Serving
    <2>2. channel'[d] = channel[d] \o fs /\ channel[d] \in Seq(Frames) /\ cache'[d] = cache[d]
      BY <1>6, <1>12, <2>1 DEF CacheShape
    <2>3. InformedOf(d, r)  BY <2>1 DEF Informed, TruthInv
    <2>4. ASSUME NEW v \in Ids \cup {None}, Told(channel'[d], cache'[d], r, v), ~ToCome(d, r)
          PROVE  Agrees(v, r)'
      <3>1. \/ Mentions(fs, r, v)
            \/ Told(channel[d], cache[d], r, v) /\ \A n \in 1..Len(fs) : fs[n].resource # r
        BY <1>2, <2>2, <2>4, ToldConcat
      <3>2. CASE Mentions(fs, r, v)
        <4>1. PICK n \in 1..Len(fs) : fs[n].resource = r /\ fs[n].holder = v
          BY <3>2 DEF Mentions
        <4>2. PICK q \in R : fs[n] = ReleaseFrame(q)
          BY <1>2
        <4>3. r \in R /\ v = None
          BY <4>1, <4>2 DEF ReleaseFrame
        <4> QED  BY <1>3, <4>3 DEF Agrees
      <3>3. CASE Told(channel[d], cache[d], r, v) /\ \A n \in 1..Len(fs) : fs[n].resource # r
        <4>1. ReleaseFrame(r).resource = r  BY DEF ReleaseFrame
        <4>2. r \notin R  BY <1>2, <3>3, <4>1
        <4>3. Agrees(v, r)  BY <2>3, <2>4, <3>3 DEF InformedOf
        <4> QED  BY <1>3, <4>2, <4>3 DEF Agrees
      <3> QED  BY <3>1, <3>2, <3>3
    <2> QED  BY <1>10, <2>4 DEF InformedOf
  <1>13. Informed'
    BY <1>11, <1>12 DEF Informed
  <1> QED  BY <1>8, <1>9, <1>13 DEF TruthInv

\* Every action keeps the members informed.
LEMMA NextTruth ==
  ASSUME IndexInv, BoundInv, CacheShape, SendersDone, TruthInv, CacheNext, ~overlapped', ~lost'
  PROVE  TruthInv'
  <1> USE DEF lifecycleVars, taskVars, colleagueVars, indexVars, claimVars, cacheVars
  <1>1. CASE CQuiet
    <2>1. CASE StopClear
      <3>1. Members' = {} /\ \A r \in Resources : holder'[r] = None
        BY <2>1 DEF StopClear, RemoveColleagues, Without, Members, Registered, IndexInv, TypeOK
      <3>2. UNCHANGED freed  BY <1>1 DEF CQuiet
      <3> QED
        BY <3>1, <3>2 DEF TruthInv, AnnouncedRight, FreedGone, Informed, CacheShape
    <2>2. CASE ~StopClear
      <3>1. UNCHANGED <<outbox, freed, channel, cache>>  BY <1>1 DEF CQuiet
      <3>2. UNCHANGED <<holder, task>>
        BY <1>1, <2>2 DEF CQuiet, Lifecycle, Start, StopBegin, ListenerExit, SweeperExit, Tick,
             SweepColleagues, Notify, Heartbeat
      <3>3. \A r \in Resources : ttl[r] = 0 => ttl'[r] = 0
        BY <1>1, <2>2 DEF CQuiet, Lifecycle, Start, StopBegin, ListenerExit, SweeperExit, Tick,
             Down, SweepColleagues, Notify, Heartbeat
      <3>4. Members' \subseteq Members
        <4>1. CASE SweepColleagues
          BY <4>1 DEF SweepColleagues, Without, Members, Registered, IndexInv, TypeOK
        <4>2. CASE ~SweepColleagues
          <5>1. UNCHANGED connOf
            BY <1>1, <2>2, <4>2 DEF CQuiet, Lifecycle, Start, StopBegin, ListenerExit,
                 SweeperExit, Tick, Notify, Heartbeat
          <5> QED  BY <5>1 DEF Members, Registered
        <4> QED  BY <4>1, <4>2
      <3>5. Serving' = Serving  BY <3>2 DEF Serving
      <3> QED  BY <3>1, <3>2, <3>3, <3>4, <3>5, QuietTruth
    <2> QED  BY <2>1, <2>2
  <1>2. CASE CSweepClaims
    <2> DEFINE F == {ReleaseFrame(r) : r \in Expired}
    <2>1. Announce(Sweeper, F, Members) /\ TableChanges(Expired)
      BY <1>2 DEF CSweepClaims
    <2>2. UNCHANGED <<task, connOf, freed, channel, cache, ttl>> /\ holder' = Without(holder, Expired)
      BY <1>2 DEF CSweepClaims, SweepClaims
    <2>3. Members' = Members /\ Serving' = Serving
      BY <2>2 DEF Members, Registered, Serving
    <2>4. \A r \in Resources : holder'[r] = IF r \in Expired THEN None ELSE holder[r]
      BY <2>2 DEF Without, IndexInv, TypeOK
    <2>5. outbox[Sweeper] = {} /\ Sweeper \in Senders
      BY <1>2 DEF CSweepClaims, SweepClaims, SendersDone, Senders
    <2>6. CASE Expired = {}
      <3>1. F = {}  BY <2>6
      <3>2. outbox' = outbox
        BY <2>1, <2>5, <3>1 DEF Announce, CacheShape
      <3>3. holder' = holder
        BY <2>2, <2>6 DEF Without, IndexInv, TypeOK
      <3> QED  BY <2>2, <2>3, <3>2, <3>3, QuietTruth
    <2>7. CASE Expired # {}
      <3>1. (\A x \in Senders : outbox[x] = {}) /\ \A d \in Conns : freed[d] = {}
        BY <2>1, <2>7, QuietBefore
      <3>2. F \in SUBSET Frames /\ \A f \in F : f.resource \in Expired /\ f.holder = None
        BY DEF ReleaseFrame, Frames, Expired, Claimed
      <3>3. ASSUME NEW r \in Expired PROVE \E f \in F : f.resource = r
        <4>1. ReleaseFrame(r) \in F /\ ReleaseFrame(r).resource = r
          BY DEF ReleaseFrame
        <4> QED  BY <4>1
      <3> HIDE DEF F
      <3>4. \A f \in F : Agrees(f.holder, f.resource)'
        BY <2>4, <3>2 DEF Agrees, Expired, Claimed
      <3>5. \A r \in Resources :
               \/ \E f \in F : f.resource = r
               \/ holder'[r] = holder[r] /\ ttl'[r] = ttl[r] /\ \A d \in Conns : r \notin freed[d]
        BY <2>2, <2>4, <3>1, <3>3
      <3> QED
        BY <2>1, <2>2, <2>3, <2>5, <3>1, <3>2, <3>4, <3>5, AnnounceTruth
    <2> QED  BY <2>6, <2>7
  <1>3. ASSUME NEW w \in Senders, Send(w) PROVE TruthInv'
    BY <1>3, SendTruth
  <1>4. ASSUME NEW c \in Conns, CAccept(c) \/ CHandshakeFail(c) PROVE TruthInv'
    <2>1. /\ UNCHANGED <<outbox, freed, channel, cache, holder, ttl, connOf>>
          /\ task' = [task EXCEPT ![c] = "handshake"] \/ task' = [task EXCEPT ![c] = "free"]
      BY <1>4 DEF CAccept, CHandshakeFail, Accept, HandshakeFail, RegisterRateLimited
    <2>2. Members' = Members /\ Serving' \subseteq Serving
      BY <2>1 DEF Members, Registered, Serving, IndexInv, TypeOK
    <2> QED  BY <2>1, <2>2, QuietTruth
  <1>5. ASSUME NEW c \in Conns, CReaderExit(c) PROVE TruthInv'
    <2>1. /\ UNCHANGED <<outbox, freed, holder, ttl, connOf>>
          /\ task' = [task EXCEPT ![c] = "closing"]
          /\ \A d \in Conns : d # c => channel'[d] = channel[d] /\ cache'[d] = cache[d]
      BY <1>5 DEF CReaderExit, ReaderExit, CacheShape
    <2>2. Members' = Members /\ Serving' \subseteq Serving \ {c} /\ Serving \subseteq Conns
      BY <2>1 DEF Members, Registered, Serving, IndexInv, TypeOK
    <2>3. \A v, r : Agrees(v, r)' <=> Agrees(v, r)
      BY <2>1 DEF Agrees
    <2>4. \A d, r : ToCome(d, r)' <=> ToCome(d, r)
      BY <2>1 DEF ToCome
    <2>5. AnnouncedRight' /\ FreedGone'
      BY <2>1, <2>2, <2>3 DEF AnnouncedRight, FreedGone, TruthInv
    <2>6. Informed'
      BY <2>1, <2>2, <2>3, <2>4 DEF Informed, InformedOf, TruthInv
    <2> QED  BY <2>5, <2>6 DEF TruthInv
  <1>6. ASSUME NEW c \in Conns, CDisconnect(c) PROVE TruthInv'
    BY <1>6, DisconnectTruth
  <1>7. ASSUME NEW c \in Conns, CDisconnectDone(c) PROVE TruthInv'
    BY <1>7, DisconnectDoneTruth
  <1>8. ASSUME NEW c \in Conns, Receive(c) PROVE TruthInv'
    BY <1>8, ReceiveTruth
  <1>9. ASSUME NEW c \in Conns, NEW t \in Tabs, NEW i \in Ids, CRegisterRejected(c, t, i)
        PROVE  TruthInv'
    <2>1. /\ AnnounceEviction(t) /\ UNCHANGED <<outbox, freed, cache>>
          /\ RegisterRejected(c, t, i)
      BY <1>9 DEF CRegisterRejected
    <2>2. /\ task[c] = "handshake" /\ task' = [task EXCEPT ![c] = "free"]
          /\ holder' = HolderWithout(Evicted(t)) /\ ttl' = TtlWithout(Evicted(t))
          /\ connOf' = Without(connOf, Evicted(t))
      BY <2>1 DEF RegisterRejected, RemoveColleagues
    <2>3. Members' \subseteq Members \ EvictedConns(t)
      BY <2>2, NoneAssumption
      DEF Without, Members, Registered, EvictedConns, Evicted, IndexInv, IndexConsistent, TypeOK
    <2>4. Serving' \subseteq Serving /\ c \notin Serving'
      BY <2>2 DEF Serving, IndexInv, TypeOK
    <2> QED  BY <2>1, <2>2, <2>3, <2>4, EvictionTruth
  <1>10. ASSUME NEW c \in Conns, NEW t \in Tabs, NEW i \in Ids, CRegisterAccepted(c, t, i)
         PROVE  TruthInv'
    <2>1. /\ AnnounceEviction(t) /\ UNCHANGED <<outbox, freed>>
          /\ RegisterAccepted(c, t, i)
          /\ cache' = [cache EXCEPT ![c] = Snapshot(holder', ttl')]
      BY <1>10 DEF CRegisterAccepted
    <2>2. /\ task[c] = "handshake" /\ task' = [task EXCEPT ![c] = "serving"]
          /\ holder' = HolderWithout(Evicted(t)) /\ ttl' = TtlWithout(Evicted(t))
          /\ connOf' = [Without(connOf, Evicted(t)) EXCEPT ![i] = c]
      BY <2>1 DEF RegisterAccepted
    <2>3. Members' \subseteq (Members \ EvictedConns(t)) \cup {c}
      <3>1. ASSUME NEW j \in Ids, connOf'[j] # None, connOf'[j] # c
            PROVE  connOf'[j] = connOf[j] /\ j \notin Evicted(t)
        BY <2>2, <3>1 DEF Without, IndexInv, TypeOK
      <3>2. ASSUME NEW j \in Ids, connOf[j] # None, j \notin Evicted(t)
            PROVE  connOf[j] \in Members \ EvictedConns(t)
        BY <3>2, NoneAssumption
        DEF Members, Registered, EvictedConns, Evicted, IndexInv, IndexConsistent, TypeOK
      <3>3. Members' = {connOf'[j] : j \in {x \in Ids : connOf'[x] # None}}
        BY DEF Members, Registered
      <3> QED  BY <3>1, <3>2, <3>3
    <2>4. Serving' \subseteq Serving \cup {c}
      BY <2>2 DEF Serving, IndexInv, TypeOK
    <2>5. /\ \A d \in Conns : d # c => cache'[d] = cache[d]
          /\ cache'[c] = Snapshot(holder', ttl')
      BY <2>1 DEF CacheShape
    <2> QED  BY <2>1, <2>2, <2>3, <2>4, <2>5, EvictionTruth
  <1>11. ASSUME NEW c \in Conns, NEW i \in Ids, NEW r \in Resources,
                CReleaseClaim(c, i, r) \/ \E d \in MinTtl..MaxTtl : CTryClaim(c, i, r, d)
         PROVE  TruthInv'
    <2>1. \E f \in Frames : Announce(c, {f}, Members) /\ f.resource = r /\ f.holder = holder'[r]
      <3>1. CASE CReleaseClaim(c, i, r)
        <4>1. ReleaseFrame(r) \in Frames  BY DEF ReleaseFrame, Frames
        <4> QED  BY <3>1, <4>1 DEF CReleaseClaim, ReleaseClaim, ReleaseFrame, IndexInv, TypeOK
      <3>2. ASSUME NEW d \in MinTtl..MaxTtl, CTryClaim(c, i, r, d)
            PROVE  Announce(c, {[resource |-> r, holder |-> i]}, Members) /\ holder'[r] = i
        BY <3>2 DEF CTryClaim, TryClaim, IndexInv, TypeOK
      <3>3. [resource |-> r, holder |-> i] \in Frames  BY DEF Frames
      <3> QED  BY <1>11, <3>1, <3>2, <3>3
    <2>2. PICK f \in Frames : Announce(c, {f}, Members) /\ f.resource = r /\ f.holder = holder'[r]
      BY <2>1
    <2>3. /\ UNCHANGED <<task, connOf, freed, channel, cache>> /\ TableChanges({r})
          /\ \A q \in Resources : q # r => holder'[q] = holder[q] /\ ttl'[q] = ttl[q]
      BY <1>11 DEF CReleaseClaim, CTryClaim, ReleaseClaim, TryClaim, IndexInv, TypeOK
    <2>4. (\A x \in Senders : outbox[x] = {}) /\ \A d \in Conns : freed[d] = {}
      BY <2>3, QuietBefore
    <2>5. Members' = Members  BY <2>3 DEF Members, Registered
    <2>6. c \in Senders  BY DEF Senders
    <2>7. \A g \in {f} : Agrees(g.holder, g.resource)'
      BY <2>2 DEF Agrees
    <2>8. \A q \in Resources :
             \/ \E g \in {f} : g.resource = q
             \/ holder'[q] = holder[q] /\ ttl'[q] = ttl[q] /\ \A d \in Conns : q \notin freed[d]
      BY <2>2, <2>3, <2>4
    <2> DEFINE F == {f}
    <2>9. /\ F \in SUBSET Frames /\ Announce(c, F, Members)
          /\ \A g \in F : Agrees(g.holder, g.resource)'
          /\ \A q \in Resources :
               \/ \E g \in F : g.resource = q
               \/ holder'[q] = holder[q] /\ ttl'[q] = ttl[q] /\ \A d \in Conns : q \notin freed[d]
      BY <2>2, <2>7, <2>8
    <2> HIDE DEF F
    <2> QED  BY <2>3, <2>4, <2>5, <2>6, <2>9, AnnounceTruth
  <1> QED
    BY <1>1, <1>2, <1>3, <1>4, <1>5, <1>6, <1>7, <1>8, <1>9, <1>10, <1>11 DEF CacheNext

\* The inductive invariant of CacheSpec.  CachesConvergeSerially looks at one
\* moment, when everything has arrived; what has to be kept is what everybody
\* will know once it has.
CacheInv ==
  /\ IndexInv /\ BoundInv /\ CacheShape /\ SendersDone
  /\ ~overlapped /\ ~lost => TruthInv

\* A lost frame or an overlap is never forgotten.
LEMMA HistoryGrows ==
  ASSUME CacheShape, CacheNext
  PROVE  (overlapped => overlapped') /\ (lost => lost')
  <1> USE DEF cacheVars, historyVars
  <1>1. CASE CQuiet \/ CSweepClaims
    BY <1>1 DEF CQuiet, CSweepClaims, TableChanges, CacheShape
  <1>2. ASSUME NEW w \in Senders, Send(w) PROVE (overlapped => overlapped') /\ (lost => lost')
    BY <1>2 DEF Send, CacheShape
  <1>3. ASSUME NEW c \in Conns,
               \/ CAccept(c) \/ CHandshakeFail(c) \/ CReaderExit(c)
               \/ CDisconnect(c) \/ CDisconnectDone(c) \/ Receive(c)
        PROVE (overlapped => overlapped') /\ (lost => lost')
    BY <1>3 DEF CAccept, CHandshakeFail, CReaderExit, CDisconnect, CDisconnectDone, Receive,
                TableChanges, CacheShape
  <1>4. ASSUME NEW c \in Conns, NEW t \in Tabs, NEW i \in Ids,
               CRegisterRejected(c, t, i) \/ CRegisterAccepted(c, t, i)
        PROVE  (overlapped => overlapped') /\ (lost => lost')
    BY <1>4 DEF CRegisterRejected, CRegisterAccepted, AnnounceEviction, TableChanges, PushAll
  <1>5. ASSUME NEW c \in Conns, NEW i \in Ids, NEW r \in Resources,
               CReleaseClaim(c, i, r) \/ \E d \in MinTtl..MaxTtl : CTryClaim(c, i, r, d)
        PROVE  (overlapped => overlapped') /\ (lost => lost')
    BY <1>5 DEF CReleaseClaim, CTryClaim, TableChanges, CacheShape
  <1> QED
    BY <1>1, <1>2, <1>3, <1>4, <1>5 DEF CacheNext

\* Nobody is connected and nothing is on its way.
LEMMA InitCacheInv == CacheInit => CacheInv
  <1> SUFFICES ASSUME CacheInit PROVE CacheInv
    OBVIOUS
  <1>1. IndexInv
    BY InitIndexInv DEF CacheInit
  <1>2. BoundInv
    <2>1. Registered = {} /\ Claimed = {}  BY DEF CacheInit, Init, Registered, Claimed
    <2> QED  BY <2>1, FS_EmptySet, BoundsAssumption DEF BoundInv
  <1>3. CacheShape /\ SendersDone
    <2>1. channel \in [Conns -> Seq(Frames)] /\ \A c \in Conns : channel[c] = <<>>
      BY DEF CacheInit
    <2> QED
      BY <2>1 DEF CacheInit, Init, CacheShape, SendersDone, Senders
  <1>4. TruthInv
    BY DEF CacheInit, Init, TruthInv, AnnouncedRight, FreedGone, Informed, Members, Registered
  <1> QED  BY <1>1, <1>2, <1>3, <1>4 DEF CacheInv

\* The invariant is inductive.
LEMMA NextCacheInv == CacheInv /\ [CacheNext]_allVars => CacheInv'
  <1> SUFFICES ASSUME CacheInv, [CacheNext]_allVars PROVE CacheInv'
    OBVIOUS
  <1>1. CASE CacheNext
    <2>1. [Next]_vars  BY <1>1, CacheNextIsNext
    <2>2. IndexInv' /\ BoundInv'
      BY <2>1, NextTypeOK, NextIndexConsistent, NextBounded DEF CacheInv, IndexInv
    <2>3. CacheShape' /\ SendersDone'
      BY <1>1, NextShape DEF CacheInv
    <2>4. ASSUME ~overlapped', ~lost' PROVE TruthInv'
      <3>1. ~overlapped /\ ~lost  BY <1>1, <2>4, HistoryGrows DEF CacheInv
      <3> QED  BY <1>1, <2>4, <3>1, NextTruth DEF CacheInv
    <2> QED  BY <2>2, <2>3, <2>4 DEF CacheInv
  <1>2. CASE UNCHANGED allVars
    <2>1. UNCHANGED vars /\ UNCHANGED cacheVars
      BY <1>2 DEF allVars
    <2>2. [Next]_vars  BY <2>1
    <2>3. IndexInv' /\ BoundInv'
      BY <2>2, NextTypeOK, NextIndexConsistent, NextBounded DEF CacheInv, IndexInv
    <2>4. UNCHANGED <<task, sweeper, connOf, holder, ttl>>
      BY <2>1 DEF vars, lifecycleVars, taskVars, colleagueVars, claimVars
    <2> QED
      BY <2>1, <2>3, <2>4
      DEF CacheInv, CacheShape, SendersDone, cacheVars, TruthInv, AnnouncedRight, FreedGone, Informed,
          InformedOf, ToCome, Agrees, Members, Registered, Serving
  <1> QED  BY <1>1, <1>2

\* When everything has arrived, what a colleague was told is its cache.
LEMMA InvConverges == CacheInv => CachesConvergeSerially
  <1> SUFFICES ASSUME CacheInv, ~overlapped, ~lost, Settled, NEW c \in Members \cap Serving,
                      NEW r \in Resources
               PROVE  cache[c][r] = holder[r] \/ (ttl[r] = 0 /\ cache[c][r] = None)
    BY DEF CachesConvergeSerially, CacheAgrees
  <1> DEFINE v == cache[c][r]
  <1>1. c \in Conns /\ v \in Ids \cup {None}
    BY DEF Serving, CacheInv, CacheShape
  <1>2. channel[c] = <<>> /\ ~ToCome(c, r)
    BY DEF Settled, Announcing, ToCome
  <1>3. Told(channel[c], cache[c], r, v)
    BY <1>2 DEF Told
  <1>4. Agrees(v, r)
    BY <1>1, <1>2, <1>3 DEF CacheInv, TruthInv, Informed, InformedOf
  <1> QED  BY <1>4 DEF Agrees

\* As long as no frame was lost and no two changes of the table overlapped,
\* a colleague to whom everything has arrived agrees with the coordinator,
\* however many colleagues, resources and frames there are.  The run looks at
\* the behaviours of SerialSpec, which are among those of CacheSpec.
THEOREM CachesConverge == CacheSpec => []CachesConvergeSerially
  BY InitCacheInv, NextCacheInv, InvConverges, PTL DEF CacheSpec
=============================================================================
