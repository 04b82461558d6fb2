---------------------------- MODULE SwarmRegistry ----------------------------
(***************************************************************************)
(* The swarm coordinator's registry: the state behind the RwLock of        *)
(* src-tauri/src/swarm/coordinator.rs (struct Inner) and every critical    *)
(* section that changes it.  One action is one critical section; the       *)
(* per-connection task of socket.rs supplies the order in which a          *)
(* connection may run them.                                                *)
(*                                                                         *)
(* Inner.by_id is spread over tabOf, connOf, status and age: colleague i   *)
(* is in by_id exactly when connOf[i] # None.  Inner.claims is spread over *)
(* holder and ttl in the same way.                                         *)
(*                                                                         *)
(* Time is discrete.  Deadlines are kept as the distance to now: age grows *)
(* up to DeadAge, ttl and cooldown shrink to 0, and Tick moves them all.   *)
(***************************************************************************)
EXTENDS Naturals, FiniteSets

CONSTANTS
  Ids,            \* colleague ids (COPILOT_COLLEAGUE_ID)
  Tabs,           \* terminal tab ids (PUTZ_TAB_ID)
  Conns,          \* connections; a finished one may be reused for a new one
  Resources,      \* names that can be claimed
  None,           \* "absent from the map"
  MaxColleagues,  \* MAX_COLLEAGUES
  MaxClaims,      \* MAX_CLAIMS
  StaleAge,       \* STALE_TIMEOUT, in ticks
  DeadAge,        \* DEAD_TIMEOUT, in ticks
  EvictionGap,    \* TAB_EVICTION_MIN_INTERVAL, in ticks
  MinTtl, MaxTtl  \* MIN_CLAIM_TTL and MAX_CLAIM_TTL, in ticks

ASSUME NoneAssumption == None \notin Ids \cup Tabs \cup Conns
ASSUME BoundsAssumption ==
  /\ MaxColleagues \in Nat \ {0} /\ MaxClaims \in Nat \ {0}
  /\ StaleAge \in Nat \ {0} /\ DeadAge \in Nat /\ StaleAge < DeadAge
  /\ EvictionGap \in Nat
  /\ MinTtl \in Nat \ {0} /\ MaxTtl \in Nat /\ MinTtl <= MaxTtl

VARIABLES
  phase,      \* lifecycle: "off", "on", or "stopping" (inside stop())
  listening,  \* the accept loop is running
  sweeper,    \* the sweep loop: "none", "idle", or between its two sweeps
  task,       \* [Conns -> where handle_connection is]
  cancelled,  \* [Conns -> the connection's CancellationToken has fired]
  tabOf, connOf, status, age,  \* by_id, one function per field used
  byConn,     \* [Conns -> Ids or None]
  byTab,      \* [Tabs -> Ids or None]
  cooldown,   \* [Tabs -> ticks until the tab may evict again], last_eviction
  holder, ttl \* claims: [Resources -> Ids or None] and the time to expiry

lifecycleVars == <<phase, listening, sweeper>>
taskVars      == <<task, cancelled>>
colleagueVars == <<tabOf, connOf, status, age>>
indexVars     == <<byConn, byTab, cooldown>>
claimVars     == <<holder, ttl>>
vars == <<lifecycleVars, taskVars, colleagueVars, indexVars, claimVars>>

Phases   == {"off", "on", "stopping"}
Sweeps   == {"none", "idle", "claims"}
Tasks    == {"free", "handshake", "serving", "closing", "releasing"}
Statuses == {"idle", "working", "stale"}

TypeOK ==
  /\ phase \in Phases /\ listening \in BOOLEAN /\ sweeper \in Sweeps
  /\ task \in [Conns -> Tasks] /\ cancelled \in [Conns -> BOOLEAN]
  /\ tabOf \in [Ids -> Tabs \cup {None}] /\ connOf \in [Ids -> Conns \cup {None}]
  /\ status \in [Ids -> Statuses] /\ age \in [Ids -> 0..DeadAge]
  /\ byConn \in [Conns -> Ids \cup {None}] /\ byTab \in [Tabs -> Ids \cup {None}]
  /\ cooldown \in [Tabs -> 0..EvictionGap]
  /\ holder \in [Resources -> Ids \cup {None}] /\ ttl \in [Resources -> 0..MaxTtl]

Registered == {i \in Ids : connOf[i] # None}
Claimed    == {r \in Resources : holder[r] # None}

-----------------------------------------------------------------------------
(* Effects shared by several critical sections, as new values of by_id and *)
(* of claims.                                                              *)

Without(f, S) == [x \in DOMAIN f |-> IF x \in S THEN None ELSE f[x]]

\* The claims of the colleagues in S are dropped from the table.
HolderWithout(S) == [r \in Resources |-> IF holder[r] \in S THEN None ELSE holder[r]]
TtlWithout(S)    == [r \in Resources |-> IF holder[r] \in S THEN 0 ELSE ttl[r]]

\* The colleagues in S leave by_id.
RemoveColleagues(S) ==
  /\ tabOf' = Without(tabOf, S) /\ connOf' = Without(connOf, S)
  /\ status' = [i \in Ids |-> IF i \in S THEN "idle" ELSE status[i]]
  /\ age' = [i \in Ids |-> IF i \in S THEN 0 ELSE age[i]]

Init ==
  /\ phase = "off" /\ listening = FALSE /\ sweeper = "none"
  /\ task = [c \in Conns |-> "free"] /\ cancelled = [c \in Conns |-> FALSE]
  /\ tabOf = [i \in Ids |-> None] /\ connOf = [i \in Ids |-> None]
  /\ status = [i \in Ids |-> "idle"] /\ age = [i \in Ids |-> 0]
  /\ byConn = [c \in Conns |-> None] /\ byTab = [t \in Tabs |-> None]
  /\ cooldown = [t \in Tabs |-> 0]
  /\ holder = [r \in Resources |-> None] /\ ttl = [r \in Resources |-> 0]

-----------------------------------------------------------------------------
(* Lifecycle: start() and stop(), serialised by the lifecycle mutex.       *)

Start ==
  /\ phase = "off"
  /\ phase' = "on" /\ listening' = TRUE /\ sweeper' = "idle"
  /\ UNCHANGED <<taskVars, colleagueVars, indexVars, claimVars>>

\* Mutation: stop() fires the tokens of served connections only.
StopBeginServedOnly ==
  /\ phase # "stopping"
  /\ phase' = "stopping"
  /\ cancelled' = [c \in Conns |-> task[c] = "serving"]
  /\ UNCHANGED <<listening, sweeper, task, colleagueVars, indexVars, claimVars>>

\* stop() fires the token, which every connection of this start() shares,
\* and clears the enabled flag.  It may be called while disabled; the token
\* is then gone and the connections left over were cancelled before.
StopBegin ==
  /\ phase # "stopping"
  /\ phase' = "stopping"
  /\ cancelled' = [c \in Conns |-> task[c] # "free"]
  /\ UNCHANGED <<listening, sweeper, task, colleagueVars, indexVars, claimVars>>

\* The two background tasks see the token, or are aborted after
\* STOP_HANDLE_TIMEOUT; stop() goes on only when both are gone.
ListenerExit ==
  /\ phase = "stopping" /\ listening
  /\ listening' = FALSE
  /\ UNCHANGED <<phase, sweeper, taskVars, colleagueVars, indexVars, claimVars>>

SweeperExit ==
  /\ phase = "stopping" /\ sweeper # "none"
  /\ sweeper' = "none"
  /\ UNCHANGED <<phase, listening, taskVars, colleagueVars, indexVars, claimVars>>

StopClear ==
  /\ phase = "stopping" /\ ~listening /\ sweeper = "none"
  /\ phase' = "off"
  /\ RemoveColleagues(Ids)
  /\ byConn' = [c \in Conns |-> None] /\ byTab' = [t \in Tabs |-> None]
  /\ cooldown' = [t \in Tabs |-> 0]
  /\ holder' = [r \in Resources |-> None] /\ ttl' = [r \in Resources |-> 0]
  /\ UNCHANGED <<listening, sweeper, taskVars>>

-----------------------------------------------------------------------------
(* The connection task.                                                    *)

\* The accept loop races its token against accept(), so it may still take a
\* connection after stop() has fired it.
Accept(c) ==
  /\ listening /\ task[c] = "free"
  /\ task' = [task EXCEPT ![c] = "handshake"]
  /\ cancelled' = [cancelled EXCEPT ![c] = phase # "on"]
  /\ UNCHANGED <<lifecycleVars, colleagueVars, indexVars, claimVars>>

\* REGISTER_DEADLINE, a frame that is not register, or end of stream.
HandshakeFail(c) ==
  /\ task[c] = "handshake"
  /\ task' = [task EXCEPT ![c] = "free"]
  /\ UNCHANGED <<lifecycleVars, cancelled, colleagueVars, indexVars, claimVars>>

\* The colleague a register on tab t replaces, if any.
Evicted(t) == {byTab[t]} \ {None}

RateLimited(t) == byTab[t] # None /\ cooldown[t] > 0

\* Mutation: an off-by-one in the capacity check.
RegistryFullLate(t, i) ==
  LET rest == Registered \ Evicted(t)
  IN  i \notin rest /\ Cardinality(rest) > MaxColleagues

\* by_id after the eviction no longer holds the predecessor; both refusals
\* are decided against that state.
RegistryFull(t, i) ==
  LET rest == Registered \ Evicted(t)
  IN  i \notin rest /\ Cardinality(rest) >= MaxColleagues

BoundElsewhere(t, i) == i \in Registered \ Evicted(t) /\ tabOf[i] # t

CooldownAfter(t) ==
  IF byTab[t] = None THEN cooldown ELSE [cooldown EXCEPT ![t] = EvictionGap]

\* Mutation: the eviction forgets by_conn.
EvictedConnsKept(t) == {}

EvictedConns(t) == {c \in Conns : \E i \in Evicted(t) : connOf[i] = c}

RegisterRateLimited(c, t) ==
  /\ task[c] = "handshake" /\ RateLimited(t)
  /\ task' = [task EXCEPT ![c] = "free"]
  /\ UNCHANGED <<lifecycleVars, cancelled, colleagueVars, indexVars, claimVars>>

\* register() refuses the newcomer after it has already evicted the
\* predecessor, its index entries and its claims.
RegisterRejected(c, t, i) ==
  /\ task[c] = "handshake" /\ ~RateLimited(t)
  /\ RegistryFull(t, i) \/ BoundElsewhere(t, i)
  /\ task' = [task EXCEPT ![c] = "free"]
  /\ RemoveColleagues(Evicted(t))
  /\ byConn' = Without(byConn, EvictedConns(t))
  /\ byTab' = [byTab EXCEPT ![t] = None]
  /\ cooldown' = CooldownAfter(t)
  /\ holder' = HolderWithout(Evicted(t)) /\ ttl' = TtlWithout(Evicted(t))
  /\ UNCHANGED <<lifecycleVars, cancelled>>

RegisterAccepted(c, t, i) ==
  /\ task[c] = "handshake" /\ ~RateLimited(t)
  /\ ~RegistryFull(t, i) /\ ~BoundElsewhere(t, i)
  /\ task' = [task EXCEPT ![c] = "serving"]
  /\ tabOf' = [Without(tabOf, Evicted(t)) EXCEPT ![i] = t]
  /\ connOf' = [Without(connOf, Evicted(t)) EXCEPT ![i] = c]
  /\ status' = [j \in Ids |-> IF j \in Evicted(t) \cup {i} THEN "idle" ELSE status[j]]
  /\ age' = [j \in Ids |-> IF j \in Evicted(t) \cup {i} THEN 0 ELSE age[j]]
  /\ byConn' = [Without(byConn, EvictedConns(t)) EXCEPT ![c] = i]
  /\ byTab' = [byTab EXCEPT ![t] = i]
  /\ cooldown' = CooldownAfter(t)
  /\ holder' = HolderWithout(Evicted(t)) /\ ttl' = TtlWithout(Evicted(t))
  /\ UNCHANGED <<lifecycleVars, cancelled>>

\* The reader stops: end of stream, a bad frame, a disconnect frame, a failed
\* write of the ack, or the token.
ReaderExit(c) ==
  /\ task[c] = "serving"
  /\ task' = [task EXCEPT ![c] = "closing"]
  /\ UNCHANGED <<lifecycleVars, cancelled, colleagueVars, indexVars, claimVars>>

\* disconnect(), first critical section.  The claims go with the by_conn
\* entry; by_id and by_tab only if this connection still owns them.
Owned(c) == {i \in Ids : i = byConn[c] /\ connOf[i] = c}

Disconnect(c) ==
  /\ task[c] = "closing"
  /\ task' = [task EXCEPT ![c] = IF byConn[c] = None THEN "free" ELSE "releasing"]
  /\ byConn' = [byConn EXCEPT ![c] = None]
  /\ holder' = HolderWithout({byConn[c]} \ {None})
  /\ ttl' = TtlWithout({byConn[c]} \ {None})
  /\ RemoveColleagues(Owned(c))
  /\ byTab' = [t \in Tabs |->
       IF \E i \in Owned(c) : tabOf[i] = t /\ byTab[t] = i THEN None ELSE byTab[t]]
  /\ UNCHANGED <<lifecycleVars, cancelled, cooldown>>

\* disconnect() again holds the lock, to collect the peers it will tell.
DisconnectDone(c) ==
  /\ task[c] = "releasing"
  /\ task' = [task EXCEPT ![c] = "free"]
  /\ UNCHANGED <<lifecycleVars, cancelled, colleagueVars, indexVars, claimVars>>

-----------------------------------------------------------------------------
(* Frames dispatched while the connection is served.  A frame of a         *)
(* connection that by_conn no longer knows changes nothing.                *)

Serves(c, i) == task[c] = "serving" /\ byConn[c] = i /\ i # None

Heartbeat(c, i, s) ==
  /\ Serves(c, i) /\ connOf[i] # None
  /\ s \in {"idle", "working"}
  /\ age' = [age EXCEPT ![i] = 0]
  /\ status' = [status EXCEPT ![i] = s]
  /\ UNCHANGED <<lifecycleVars, taskVars, tabOf, connOf, indexVars, claimVars>>

\* notify() refreshes last_seen but leaves the status alone.
Notify(c, i) ==
  /\ Serves(c, i) /\ connOf[i] # None
  /\ age' = [age EXCEPT ![i] = 0]
  /\ UNCHANGED <<lifecycleVars, taskVars, tabOf, connOf, status, indexVars, claimVars>>

\* Mutation: try_claim takes over the claim of another colleague.
HeldByOtherIgnored(r, i) == FALSE

HeldByOther(r, i) == holder[r] \notin {None, i} /\ ttl[r] > 0

\* An expired claim that the sweeper has not removed yet still takes a slot.
ClaimTableFull(r) == holder[r] = None /\ Cardinality(Claimed) >= MaxClaims

TryClaim(c, i, r, d) ==
  /\ Serves(c, i) /\ d \in MinTtl..MaxTtl
  /\ ~HeldByOther(r, i) /\ ~ClaimTableFull(r)
  /\ holder' = [holder EXCEPT ![r] = i]
  /\ ttl' = [ttl EXCEPT ![r] = d]
  /\ UNCHANGED <<lifecycleVars, taskVars, colleagueVars, indexVars>>

ReleaseClaim(c, i, r) ==
  /\ Serves(c, i) /\ holder[r] = i
  /\ holder' = [holder EXCEPT ![r] = None]
  /\ ttl' = [ttl EXCEPT ![r] = 0]
  /\ UNCHANGED <<lifecycleVars, taskVars, colleagueVars, indexVars>>

-----------------------------------------------------------------------------
(* The sweep loop: sweep_once, then sweep_expired_claims, two critical     *)
(* sections with anything in between.                                      *)

\* Mutation: a colleague already marked stale is skipped.
DeadNotStale == {i \in Registered : age[i] >= DeadAge /\ status[i] # "stale"}

Dead == {i \in Registered : age[i] >= DeadAge}

SweepColleagues ==
  /\ sweeper = "idle"
  /\ sweeper' = "claims"
  /\ tabOf' = Without(tabOf, Dead) /\ connOf' = Without(connOf, Dead)
  /\ status' = [i \in Ids |->
       IF i \in Dead THEN "idle"
       ELSE IF i \in Registered /\ age[i] >= StaleAge THEN "stale"
       ELSE status[i]]
  /\ age' = [i \in Ids |-> IF i \in Dead THEN 0 ELSE age[i]]
  /\ byConn' = Without(byConn, {connOf[i] : i \in Dead})
  /\ byTab' = Without(byTab, {tabOf[i] : i \in Dead})
  /\ UNCHANGED <<phase, listening, taskVars, cooldown, claimVars>>

\* Mutation: only the claims of present colleagues expire.
ExpiredOfMembers == {r \in Claimed : ttl[r] = 0 /\ holder[r] \in Registered}

Expired == {r \in Claimed : ttl[r] = 0}

SweepClaims ==
  /\ sweeper = "claims"
  /\ sweeper' = "idle"
  /\ holder' = Without(holder, Expired)
  /\ UNCHANGED <<phase, listening, taskVars, colleagueVars, indexVars, ttl>>

\* One unit of time passes for every deadline.
Down(n) == IF n = 0 THEN 0 ELSE n - 1

Tick ==
  /\ age' = [i \in Ids |->
       IF i \in Registered /\ age[i] < DeadAge THEN age[i] + 1 ELSE age[i]]
  /\ ttl' = [r \in Resources |-> Down(ttl[r])]
  /\ cooldown' = [t \in Tabs |-> Down(cooldown[t])]
  /\ UNCHANGED <<lifecycleVars, taskVars, tabOf, connOf, status, byConn, byTab, holder>>

-----------------------------------------------------------------------------
Lifecycle == Start \/ StopBegin \/ ListenerExit \/ SweeperExit \/ StopClear

Connection(c) ==
  \/ Accept(c) \/ HandshakeFail(c)
  \/ \E t \in Tabs : RegisterRateLimited(c, t)
  \/ \E t \in Tabs, i \in Ids : RegisterRejected(c, t, i) \/ RegisterAccepted(c, t, i)
  \/ ReaderExit(c) \/ Disconnect(c) \/ DisconnectDone(c)

Dispatch(c) ==
  \E i \in Ids :
    \/ \E s \in Statuses : Heartbeat(c, i, s)
    \/ Notify(c, i)
    \/ \E r \in Resources, d \in MinTtl..MaxTtl : TryClaim(c, i, r, d)
    \/ \E r \in Resources : ReleaseClaim(c, i, r)

Next ==
  \/ Lifecycle
  \/ \E c \in Conns : Connection(c) \/ Dispatch(c)
  \/ SweepColleagues \/ SweepClaims
  \/ Tick

Spec == Init /\ [][Next]_vars

\* The runtime drives every task: time passes, the sweeper's timer fires, a
\* handshake ends (REGISTER_DEADLINE), a cancelled reader sees its token, and
\* a reader that stopped runs disconnect().  Nothing makes a client talk, or a
\* connection that is not cancelled end.  The write of the ack is assumed to
\* finish: SwarmListener is about the client that does not read it.
Fairness ==
  /\ WF_vars(Tick) /\ WF_vars(SweepColleagues) /\ WF_vars(SweepClaims)
  /\ WF_vars(ListenerExit) /\ WF_vars(SweeperExit) /\ WF_vars(StopClear)
  /\ \A c \in Conns :
       /\ WF_vars(task[c] = "handshake" /\ Connection(c))
       /\ WF_vars(cancelled[c] /\ ReaderExit(c))
       /\ WF_vars(Disconnect(c) \/ DisconnectDone(c))

FairSpec == Spec /\ Fairness

-----------------------------------------------------------------------------
(* Properties.                                                             *)

\* by_id, by_conn and by_tab describe the same set of colleagues: each entry
\* of one is matched by entries of the other two that name each other.  Every
\* method that checks "does this connection still own this colleague" relies
\* on it (register, disconnect and sweep_once each maintain the three maps by
\* hand).
IndexConsistent ==
  /\ \A i \in Ids : connOf[i] # None =>
       /\ byConn[connOf[i]] = i
       /\ tabOf[i] # None /\ byTab[tabOf[i]] = i
  /\ \A c \in Conns : byConn[c] # None => connOf[byConn[c]] = c
  /\ \A t \in Tabs : byTab[t] # None =>
       connOf[byTab[t]] # None /\ tabOf[byTab[t]] = t

\* The two tables never outgrow MAX_COLLEAGUES and MAX_CLAIMS, although
\* register() checks the first only after it has evicted a predecessor.
TablesBounded ==
  /\ Cardinality(Registered) <= MaxColleagues
  /\ Cardinality(Claimed) <= MaxClaims

\* The disconnect() of one connection never takes away the registration or the
\* claims of a colleague that is served by another connection: the old
\* connection of a colleague that re-registered in its tab ends harmlessly.
OldConnectionHarmless ==
  [][\A c \in Conns : task[c] = "closing" /\ task'[c] # "closing" =>
       \A i \in Ids : connOf[i] \notin {None, c} =>
         /\ connOf'[i] = connOf[i] /\ tabOf'[i] = tabOf[i]
         /\ \A r \in Resources : holder[r] = i => holder'[r] = i]_vars

\* A claim whose holder has left the registry is freed in the end, at the
\* latest by the TTL sweep, unless the same colleague comes back.
OrphanClaimFreed ==
  \A r \in Resources :
    holder[r] # None /\ holder[r] \notin Registered
      ~> holder[r] = None \/ holder[r] \in Registered

\* A colleague that has been silent for DEAD_TIMEOUT is evicted by the sweep
\* unless it speaks again.
SilentColleagueLeaves ==
  \A i \in Ids : age[i] = DeadAge ~> age[i] < DeadAge

\* stop() leaves an empty registry in the end: a handshake that outlives
\* stop() can still register, but its token has fired and it disconnects.
StopDrains ==
  phase = "off" ~> phase # "off" \/ (Registered = {} /\ Claimed = {})

\* Seen from outside, the claim table is a table of leases: a resource is
\* leased only when its lease is free, only to a member, and never passes from
\* one colleague to another directly.  A claim that expired but was not swept
\* counts as free.
LeaseOwner == [r \in Resources |-> IF ttl[r] > 0 THEN holder[r] ELSE None]
Lease == INSTANCE SwarmLease WITH owner <- LeaseOwner, member <- Registered
ImplementsLease == Lease!Spec

-----------------------------------------------------------------------------
(* What comments of the code say and the code does not do.                 *)

\* "claims must be released immediately, otherwise they leak until the TTL
\* sweeper runs" (register), "Caches on peer colleagues converge with the
\* holder's exit instead of waiting for the TTL sweeper" (disconnect): no
\* claim is held by a colleague that is not registered.  sweep_once evicts
\* a silent colleague without releasing its claims.
HoldersRegistered == \A r \in Resources : holder[r] \in Registered \cup {None}
=============================================================================
