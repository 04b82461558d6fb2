------------------------------ MODULE SwarmCache ------------------------------
(***************************************************************************)
(* The claim table of SwarmRegistry together with the claim caches of the  *)
(* colleagues (registry.mjs, _claims).  register_ack carries a snapshot of *)
(* the table; every later change is broadcast as a claim or a release      *)
(* frame.  Most broadcasts are collected under the coordinator's lock and  *)
(* sent after it is released, one try_send per recipient, each by the task *)
(* that made the change: frames of two changes may reach a colleague in    *)
(* either order, and a full back-channel loses them.                       *)
(*                                                                         *)
(* Every action is an action of SwarmRegistry together with the frames it  *)
(* causes, or moves one frame.                                             *)
(***************************************************************************)
EXTENDS SwarmRegistry, SequencesExt

CONSTANTS
  Sweeper,   \* the sweep task, a sender next to the connections' tasks
  Capacity   \* BACKCHANNEL_CAPACITY

ASSUME CacheAssumption == Sweeper \notin Conns /\ Capacity \in Nat \ {0}

VARIABLES
  outbox,     \* [Conns + Sweeper -> <<frame, connection>> pairs still to send]
  freed,      \* [Conns -> claims disconnect() dropped but has not announced]
  channel,    \* [Conns -> frames between the coordinator and the colleague]
  cache,      \* [Conns -> [Resources -> Ids or None]], the colleague's _claims
  overlapped, \* history: the table changed while a change was being announced
  lost        \* history: a try_send to a live connection failed

cacheVars   == <<outbox, freed, channel, cache, overlapped, lost>>
historyVars == <<overlapped, lost>>
allVars     == <<vars, cacheVars>>

Senders == Conns \cup {Sweeper}
Serving == {c \in Conns : task[c] = "serving"}

\* A claim frame names its holder; holder None is a release frame, whose
\* holder the colleague does not look at.
Frames == [resource : Resources, holder : Ids \cup {None}]
ReleaseFrame(r) == [resource |-> r, holder |-> None]

CacheTypeOK ==
  /\ TypeOK
  /\ outbox \in [Senders -> SUBSET (Frames \X Conns)]
  /\ freed \in [Conns -> SUBSET Resources]
  /\ \A c \in Conns : /\ channel[c] \in Seq(Frames) /\ Len(channel[c]) <= Capacity
                      /\ task[c] # "serving" => channel[c] = <<>>
  /\ cache \in [Conns -> [Resources -> Ids \cup {None}]]
  /\ overlapped \in BOOLEAN /\ lost \in BOOLEAN

CacheInit ==
  /\ Init
  /\ outbox = [w \in Senders |-> {}] /\ freed = [c \in Conns |-> {}]
  /\ channel = [c \in Conns |-> <<>>]
  /\ cache = [c \in Conns |-> [r \in Resources |-> None]]
  /\ overlapped = FALSE /\ lost = FALSE

-----------------------------------------------------------------------------
\* The connections of all colleagues in by_id.
Members == {connOf[i] : i \in Registered}

\* Some change of the table has not reached every back-channel yet.
Announcing == \/ \E w \in Senders : outbox[w] # {}
              \/ \E c \in Conns : freed[c] # {}

\* The table changes now: note whether an earlier change is still under way.
TableChanges(S) == overlapped' = (overlapped \/ (Announcing /\ S # {}))

\* broadcast_frame_to for every frame of F and recipient of S, still to be
\* sent by w.  Frames of one batch are about different resources, so the order
\* inside a batch does not matter to a cache.
Announce(w, F, S) == outbox' = [outbox EXCEPT ![w] = F \X S]

\* Mutation: the ack carries no claims.
SnapshotEmpty(h, t) == [r \in Resources |-> None]

\* collect_claim_views: the claims that have not expired.
Snapshot(h, t) == [r \in Resources |-> IF t[r] > 0 THEN h[r] ELSE None]

\* try_send would succeed.
Room(q) == Len(q) < Capacity

\* A try_send of the frames fs to every connection of S, under the lock.
PushAll(fs, S) ==
  /\ channel' = [c \in Conns |->
       IF c \in S \cap Serving
       THEN LET q == channel[c] \o fs
            IN  SubSeq(q, 1, IF Len(q) > Capacity THEN Capacity ELSE Len(q))
       ELSE channel[c]]
  /\ lost' = (lost \/ \E c \in S \cap Serving : Len(channel[c]) + Len(fs) > Capacity)

-----------------------------------------------------------------------------
(* Registering and leaving.                                                *)

\* A slot is used again only when nothing addressed to its former connection
\* is left.
CAccept(c) ==
  /\ Accept(c)
  /\ outbox[c] = {} /\ \A w \in Senders : \A m \in outbox[w] : m[2] # c
  /\ UNCHANGED cacheVars

CHandshakeFail(c) ==
  /\ HandshakeFail(c) \/ \E t \in Tabs : RegisterRateLimited(c, t)
  /\ UNCHANGED cacheVars

ClaimsOf(S) == {r \in Resources : holder[r] \in S}

\* The releases of an evicted colleague are sent while the lock is held.
AnnounceEviction(t) ==
  /\ TableChanges(ClaimsOf(Evicted(t)))
  /\ PushAll(SetToSeq({ReleaseFrame(r) : r \in ClaimsOf(Evicted(t))}),
             Members \ EvictedConns(t))

CRegisterRejected(c, t, i) ==
  /\ RegisterRejected(c, t, i)
  /\ AnnounceEviction(t)
  /\ UNCHANGED <<outbox, freed, cache>>

\* The ack is written before the back-channel is drained, so its snapshot is
\* the first thing the colleague sees.
CRegisterAccepted(c, t, i) ==
  /\ RegisterAccepted(c, t, i)
  /\ AnnounceEviction(t)
  /\ cache' = [cache EXCEPT ![c] = Snapshot(holder', ttl')]
  /\ UNCHANGED <<outbox, freed>>

\* A frame is dispatched to the end before the next one is read, and before
\* the reader looks at its token.
CReaderExit(c) ==
  /\ ReaderExit(c) /\ outbox[c] = {}
  /\ channel' = [channel EXCEPT ![c] = <<>>]
  /\ cache' = [cache EXCEPT ![c] = [r \in Resources |-> None]]
  /\ UNCHANGED <<outbox, freed, historyVars>>

CDisconnect(c) ==
  /\ Disconnect(c)
  /\ LET R == ClaimsOf({byConn[c]} \ {None})
     IN  freed' = [freed EXCEPT ![c] = R] /\ TableChanges(R)
  /\ UNCHANGED <<outbox, channel, cache, lost>>

CDisconnectDone(c) ==
  /\ DisconnectDone(c)
  /\ Announce(c, {ReleaseFrame(r) : r \in freed[c]}, Members)
  /\ freed' = [freed EXCEPT ![c] = {}]
  /\ UNCHANGED <<channel, cache, historyVars>>

-----------------------------------------------------------------------------
(* Claims.                                                                 *)

CTryClaim(c, i, r, d) ==
  /\ TryClaim(c, i, r, d) /\ outbox[c] = {}
  /\ TableChanges({r})
  /\ Announce(c, {[resource |-> r, holder |-> i]}, Members)
  /\ UNCHANGED <<freed, channel, cache, lost>>

CReleaseClaim(c, i, r) ==
  /\ ReleaseClaim(c, i, r) /\ outbox[c] = {}
  /\ TableChanges({r})
  /\ Announce(c, {ReleaseFrame(r)}, Members)
  /\ UNCHANGED <<freed, channel, cache, lost>>

CSweepClaims ==
  /\ SweepClaims
  /\ TableChanges(Expired)
  /\ Announce(Sweeper, {ReleaseFrame(r) : r \in Expired}, Members)
  /\ UNCHANGED <<freed, channel, cache, lost>>

\* Actions of the registry that no claim frame goes with.
CQuiet ==
  /\ \/ Lifecycle \/ Tick
     \/ SweepColleagues /\ outbox[Sweeper] = {}
     \/ \E c \in Conns, i \in Ids :
          outbox[c] = {} /\ (Notify(c, i) \/ \E s \in Statuses : Heartbeat(c, i, s))
  /\ UNCHANGED cacheVars

-----------------------------------------------------------------------------
(* Frames on their way.                                                    *)

\* One try_send of broadcast_frame_to.
Send(w) ==
  \E m \in outbox[w] :
    LET f == m[1]
        c == m[2]
        room == Room(channel[c])
    IN  /\ outbox' = [outbox EXCEPT ![w] = @ \ {m}]
        /\ channel' = IF c \in Serving /\ room
                      THEN [channel EXCEPT ![c] = Append(@, f)] ELSE channel
        /\ lost' = (lost \/ (c \in Serving /\ ~room))
        /\ UNCHANGED <<vars, freed, cache, overlapped>>

\* _onFrame: claim upserts, release deletes.
Apply(k, f) == [k EXCEPT ![f.resource] = f.holder]

Receive(c) ==
  /\ c \in Serving /\ channel[c] # <<>>
  /\ cache' = [cache EXCEPT ![c] = Apply(@, Head(channel[c]))]
  /\ channel' = [channel EXCEPT ![c] = Tail(@)]
  /\ UNCHANGED <<vars, outbox, freed, historyVars>>

CacheNext ==
  \/ CQuiet \/ CSweepClaims
  \/ \E w \in Senders : Send(w)
  \/ \E c \in Conns :
       \/ CAccept(c) \/ CHandshakeFail(c) \/ CReaderExit(c)
       \/ CDisconnect(c) \/ CDisconnectDone(c) \/ Receive(c)
       \/ \E t \in Tabs, i \in Ids : CRegisterRejected(c, t, i) \/ CRegisterAccepted(c, t, i)
       \/ \E i \in Ids, r \in Resources :
            CReleaseClaim(c, i, r) \/ \E d \in MinTtl..MaxTtl : CTryClaim(c, i, r, d)

CacheSpec == CacheInit /\ [][CacheNext]_allVars

\* The executions in which no frame is lost and no change of the table is made
\* while another is being announced.
SerialSpec == CacheInit /\ [][CacheNext /\ ~overlapped' /\ ~lost']_allVars

-----------------------------------------------------------------------------
(* Properties.                                                             *)

\* Every frame about the table has been received by every member.
Settled == ~Announcing /\ \A c \in Serving : channel[c] = <<>>

\* The cache of a colleague agrees with the table; an expired claim that is
\* not swept yet may be missing.
CacheAgrees(c) ==
  \A r \in Resources : \/ cache[c][r] = holder[r]
                       \/ ttl[r] = 0 /\ cache[c][r] = None

\* As long as no frame is lost and changes of the table are announced one
\* after the other (SerialSpec), every member's cache equals the table whenever
\* all frames have arrived: the snapshot in register_ack and the broadcasts
\* that follow it fit together without a gap, across evictions, disconnects
\* and sweeps.
CachesConvergeSerially ==
  ~overlapped /\ ~lost /\ Settled => \A c \in Members \cap Serving : CacheAgrees(c)
=============================================================================
