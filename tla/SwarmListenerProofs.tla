------------------------- MODULE SwarmListenerProofs -------------------------
(* Theorems about SwarmListener, for any number of connections and any cap, *)
(* and about SwarmRoster, for any number of status changes.                 *)
EXTENDS SwarmListener, SwarmRoster, FiniteSetTheorems, TLAPS

\* What the accept loop knows of the counter.  Between fetch_add and the test
\* only handlers change it, and they only count down: the ticket is a bound
\* for the counter and covers the connections in the handshake.  At rest the
\* counter is within the cap.
TicketCovers ==
  IF loop = "reserved"
  THEN inflight <= ticket /\ Cardinality(Handshaking) < ticket
  ELSE inflight <= MaxInflight

SlotInv ==
  TypeOK /\ IsFiniteSet(Handshaking) /\ SlotsCovered /\ HandshakesCapped /\ TicketCovers

-----------------------------------------------------------------------------
LEMMA InitSlotInv == Init => SlotInv
  <1> SUFFICES ASSUME Init PROVE SlotInv
    OBVIOUS
  <1>1. Handshaking = {}
    BY DEF Init, Handshaking
  <1>2. cancel \in BOOLEAN /\ quit \in [Conns -> BOOLEAN] /\ member \in [Conns -> BOOLEAN]
    BY Zenon DEF Init
  <1>3. TypeOK
    BY <1>2, ListenerAssumption DEF Init, TypeOK, Stages
  <1> QED
    BY <1>1, <1>3, FS_EmptySet, ListenerAssumption
    DEF Init, SlotInv, SlotsCovered, HandshakesCapped, TicketCovers

\* A connection enters the handshake, or leaves it.
LEMMA HandshakeEnters ==
  ASSUME NEW c \in Conns, TypeOK, IsFiniteSet(Handshaking), stage[c] # "handshake",
         stage' = [stage EXCEPT ![c] = "handshake"]
  PROVE  /\ IsFiniteSet(Handshaking')
         /\ Cardinality(Handshaking') = Cardinality(Handshaking) + 1
  <1>1. Handshaking' = Handshaking \cup {c} /\ c \notin Handshaking
    BY DEF TypeOK, Handshaking
  <1> QED  BY <1>1, FS_AddElement

LEMMA HandshakeLeaves ==
  ASSUME NEW c \in Conns, NEW s, TypeOK, IsFiniteSet(Handshaking),
         stage[c] = "handshake", s # "handshake", stage' = [stage EXCEPT ![c] = s]
  PROVE  /\ IsFiniteSet(Handshaking')
         /\ Cardinality(Handshaking') = Cardinality(Handshaking) - 1
         /\ Cardinality(Handshaking) \in Nat \ {0}
  <1>1. Handshaking' = Handshaking \ {c} /\ c \in Handshaking
    BY DEF TypeOK, Handshaking
  <1>2. Cardinality(Handshaking) \in Nat /\ Cardinality(Handshaking) # 0
    BY <1>1, FS_CardinalityType, FS_EmptySet
  <1> QED  BY <1>1, <1>2, FS_RemoveElement

\* A step that is about connections past the handshake.
LEMMA HandshakeUntouched ==
  ASSUME NEW c \in Conns, NEW s, TypeOK,
         \/ UNCHANGED stage
         \/ /\ stage[c] # "handshake" /\ s # "handshake"
            /\ stage' = [stage EXCEPT ![c] = s]
  PROVE  Handshaking' = Handshaking
  BY DEF TypeOK, Handshaking

-----------------------------------------------------------------------------
\* One step preserves SlotInv: first the accept loop, then the steps of a
\* handler that give a slot back or keep it, then everything that concerns
\* neither the counter nor the handshake.
LEMMA NextSlotInv == SlotInv /\ [Next]_vars => SlotInv'
  <1> SUFFICES ASSUME SlotInv, [Next]_vars PROVE SlotInv'
    OBVIOUS
  <1> DEFINE n == Cardinality(Handshaking)
  <1>0. n \in Nat /\ inflight \in Nat /\ ticket \in Nat /\ MaxInflight \in Nat \ {0}
    BY FS_CardinalityType, ListenerAssumption DEF SlotInv, TypeOK
  <1>1. CASE Cancel
    <2>1. Handshaking' = Handshaking  BY <1>1 DEF Cancel, connVars, Handshaking
    <2>2. TypeOK'  BY <1>1 DEF Cancel, loopVars, connVars, SlotInv, TypeOK
    <2> QED
      BY <1>1, <2>1, <2>2
      DEF Cancel, loopVars, SlotInv, SlotsCovered, HandshakesCapped, TicketCovers
  <1>2. CASE Reserve
    <2>1. Handshaking' = Handshaking  BY <1>2 DEF Reserve, connVars, Handshaking
    <2>2. inflight <= MaxInflight /\ n <= inflight /\ n <= MaxInflight
      BY <1>2, <1>0 DEF Reserve, SlotInv, TicketCovers, SlotsCovered, HandshakesCapped
    <2>3. TypeOK'
      BY <1>2, <1>0, <2>2 DEF Reserve, connVars, SlotInv, TypeOK
    <2> QED
      BY <1>2, <1>0, <2>1, <2>2, <2>3
      DEF Reserve, SlotInv, SlotsCovered, HandshakesCapped, TicketCovers
  <1>3. CASE Drop
    <2>1. Handshaking' = Handshaking  BY <1>3 DEF Drop, connVars, Handshaking
    <2>2. inflight >= n + 1 /\ inflight <= MaxInflight + 1 /\ n <= MaxInflight
      BY <1>3, <1>0 DEF Drop, SlotInv, SlotsCovered, TypeOK, HandshakesCapped
    <2>3. TypeOK'
      BY <1>3, <1>0, <2>2 DEF Drop, connVars, SlotInv, TypeOK
    <2> QED
      BY <1>3, <1>0, <2>1, <2>2, <2>3
      DEF Drop, SlotInv, SlotsCovered, HandshakesCapped, TicketCovers
  <1>4. ASSUME NEW c \in Conns, SpawnHandler(c) PROVE SlotInv'
    <2>1. IsFiniteSet(Handshaking') /\ Cardinality(Handshaking') = n + 1
      BY <1>4, HandshakeEnters DEF SpawnHandler, SlotInv
    <2>2. /\ inflight >= n + 1 /\ inflight <= ticket /\ n < ticket
          /\ ticket <= MaxInflight
      BY <1>4, <1>0 DEF SpawnHandler, OverCap, SlotInv, SlotsCovered, TicketCovers
    <2>3. TypeOK'
      BY <1>4, <1>0 DEF SpawnHandler, SlotInv, TypeOK, Stages
    <2> QED
      BY <1>4, <1>0, <2>1, <2>2, <2>3
      DEF SpawnHandler, SlotInv, SlotsCovered, HandshakesCapped, TicketCovers
  <1>5. CASE LoopExit
    <2>1. Handshaking' = Handshaking  BY <1>5 DEF LoopExit, connVars, Handshaking
    <2>2. TypeOK'  BY <1>5 DEF LoopExit, connVars, SlotInv, TypeOK
    <2> QED
      BY <1>5, <2>1, <2>2
      DEF LoopExit, SlotInv, SlotsCovered, HandshakesCapped, TicketCovers
  <1>6. ASSUME NEW c \in Conns, HandshakeFail(c) \/ Register(c) PROVE SlotInv'
    <2>1. /\ IsFiniteSet(Handshaking') /\ Cardinality(Handshaking') = n - 1
          /\ n \in Nat \ {0}
      BY <1>6, HandshakeLeaves DEF HandshakeFail, Register, SlotInv
    <2>2. /\ inflight' \in {inflight, inflight - 1}
          /\ loop' = loop /\ ticket' = ticket
      BY <1>6 DEF HandshakeFail, Register, GuardDrop, loopVars
    <2>3. inflight >= n
      BY <1>0 DEF SlotInv, SlotsCovered
    <2>4. inflight' \in 0..(MaxInflight + 1)
      BY <1>0, <2>1, <2>2, <2>3 DEF SlotInv, TypeOK
    <2>5. CASE HandshakeFail(c)
      <3>1. TypeOK'
        BY <2>4, <2>5 DEF HandshakeFail, loopVars, SlotInv, TypeOK, Stages
      <3> QED
        BY <1>0, <2>1, <2>2, <2>3, <3>1
        DEF SlotInv, SlotsCovered, HandshakesCapped, TicketCovers
    <2>6. CASE Register(c)
      <3>1. TypeOK'
        BY <2>4, <2>6 DEF Register, loopVars, SlotInv, TypeOK, Stages
      <3> QED
        BY <1>0, <2>1, <2>2, <2>3, <3>1
        DEF SlotInv, SlotsCovered, HandshakesCapped, TicketCovers
    <2> QED  BY <1>6, <2>5, <2>6
  <1>7. ASSUME NEW c \in Conns,
               \/ AckWritten(c) \/ AckFailed(c) \/ ReaderExit(c) \/ Disconnect(c)
               \/ Joined(c) \/ WriterTask(c) \/ Push(c) \/ Evict(c)
        PROVE SlotInv'
    <2>1. Handshaking' = Handshaking
      BY <1>7, HandshakeUntouched
      DEF SlotInv, AckWritten, AckFailed, ReaderExit, Disconnect, Joined,
          WriterTask, WriteFrame, WriteFails, WriterExit, Push, Evict
    <2>2. UNCHANGED <<loop, ticket, inflight, cancel>>
      BY <1>7
      DEF AckWritten, AckFailed, ReaderExit, Disconnect, Joined, WriterTask,
          WriteFrame, WriteFails, WriterExit, Push, Evict, loopVars
    <2>3. TypeOK'
      <3> USE ListenerAssumption DEF SlotInv, TypeOK, Stages, loopVars
      <3>1. CASE AckWritten(c)  BY <3>1 DEF AckWritten
      <3>2. CASE AckFailed(c)  BY <3>2 DEF AckFailed
      <3>3. CASE ReaderExit(c)  BY <3>3 DEF ReaderExit
      <3>4. CASE Disconnect(c)  BY <3>4 DEF Disconnect
      <3>5. CASE Joined(c)  BY <3>5 DEF Joined
      <3>6. CASE WriteFrame(c)  BY <3>6 DEF WriteFrame
      <3>7. CASE WriteFails(c)  BY <3>7 DEF WriteFails
      <3>8. CASE WriterExit(c)  BY <3>8 DEF WriterExit
      <3>9. CASE Push(c)  BY <3>9 DEF Push
      <3>10. CASE Evict(c)  BY <3>10 DEF Evict
      <3> QED
        BY <1>7, <3>1, <3>2, <3>3, <3>4, <3>5, <3>6, <3>7, <3>8, <3>9, <3>10
        DEF WriterTask
    <2> QED
      BY <2>1, <2>2, <2>3 DEF SlotInv, SlotsCovered, HandshakesCapped, TicketCovers
  <1>8. CASE UNCHANGED vars
    <2>1. Handshaking' = Handshaking  BY <1>8 DEF vars, connVars, Handshaking
    <2>2. TypeOK'  BY <1>8 DEF vars, loopVars, connVars, SlotInv, TypeOK
    <2> QED
      BY <1>8, <2>1, <2>2
      DEF vars, loopVars, SlotInv, SlotsCovered, HandshakesCapped, TicketCovers
  <1> QED
    BY <1>1, <1>2, <1>3, <1>4, <1>5, <1>6, <1>7, <1>8
    DEF Next, AcceptLoop, Handler

-----------------------------------------------------------------------------
LEMMA SlotInvariant == Spec => []SlotInv
  BY InitSlotInv, NextSlotInv, PTL DEF Spec

\* TypeOK, and with it: the counter stays between 0 and one above the cap, so
\* fetch_sub never wraps.
THEOREM ListenerTypeCorrect == Spec => []TypeOK
  <1>1. SlotInv => TypeOK  BY DEF SlotInv
  <1> QED  BY <1>1, SlotInvariant, PTL

\* The counter covers every connection that is in the handshake.
THEOREM SlotsAreCovered == Spec => []SlotsCovered
  <1>1. SlotInv => SlotsCovered  BY DEF SlotInv
  <1> QED  BY <1>1, SlotInvariant, PTL

\* At most MAX_INFLIGHT_PRE_REGISTER connections are in the handshake, however
\* many connect at once.
THEOREM HandshakesAreCapped == Spec => []HandshakesCapped
  <1>1. SlotInv => HandshakesCapped  BY DEF SlotInv
  <1> QED  BY <1>1, SlotInvariant, PTL

-----------------------------------------------------------------------------
(* The roster throttle.                                                    *)

\* The slot names a task that has still to look at roster_dirty.  Without this
\* an update that finds the slot taken could rely on a task that is past it.
SlotIsAlive == pending # None => timer[pending] \in {"asleep", "awake"}

DirtyInv == RosterTypeOK /\ SlotIsAlive /\ DirtyIsScheduled

-----------------------------------------------------------------------------
LEMMA InitDirtyInv == RosterInit => DirtyInv
  <1> SUFFICES ASSUME RosterInit PROVE DirtyInv
    OBVIOUS
  <1>1. RosterTypeOK
    <2>1. Empty \in Rosters
      BY DEF Empty, Rosters
    <2>2. frame \in [Timers -> Rosters] /\ roster \in [Members -> Rosters]
      BY <2>1 DEF RosterInit
    <2>3. dirty \in BOOLEAN /\ lost \in BOOLEAN /\ pending \in Timers \cup {None}
          /\ status \in Rosters
      BY <2>1, Zenon DEF RosterInit
    <2> QED
      BY <2>2, <2>3, RosterAssumption DEF RosterInit, RosterTypeOK
  <1> QED
    BY <1>1 DEF RosterInit, DirtyInv, SlotIsAlive, DirtyIsScheduled

\* Every action keeps the variables in their types.
LEMMA NextRosterTypeOK == RosterTypeOK /\ [RosterNext]_rosterVars => RosterTypeOK'
  <1> SUFFICES ASSUME RosterTypeOK, [RosterNext]_rosterVars PROVE RosterTypeOK'
    OBVIOUS
  <1> USE RosterAssumption DEF RosterTypeOK, Rosters, Empty, taskVars
  <1>1. ASSUME NEW m \in Members, Join(m) PROVE RosterTypeOK'
    BY <1>1 DEF Join
  <1>2. ASSUME NEW m \in Members, Leave(m) PROVE RosterTypeOK'
    BY <1>2 DEF Leave
  <1>3. ASSUME NEW u \in Updaters, Schedule(u) PROVE RosterTypeOK'
    BY <1>3 DEF Schedule
  <1>4. ASSUME NEW u \in Updaters, NEW m \in Members, NEW v \in Values,
               UpdateStatus(u, m, v)
        PROVE RosterTypeOK'
    BY <1>4 DEF UpdateStatus
  <1>5. ASSUME NEW k \in Timers, Wake(k) PROVE RosterTypeOK'
    BY <1>5 DEF Wake
  <1>6. ASSUME NEW k \in Timers, Collect(k) PROVE RosterTypeOK'
    BY <1>6 DEF Collect, SlotFreed, Recipients, Present
  <1>7. ASSUME NEW k \in Timers, Sent(k) PROVE RosterTypeOK'
    BY <1>7 DEF Sent
  <1>8. ASSUME NEW k \in Timers, NEW m \in Members, Send(k, m) PROVE RosterTypeOK'
    BY <1>8 DEF Send
  <1>9. CASE Stop  BY <1>9 DEF Stop, DirtyAfterStop
  <1>10. CASE UNCHANGED rosterVars  BY <1>10 DEF rosterVars
  <1> QED
    BY <1>1, <1>2, <1>3, <1>4, <1>5, <1>6, <1>7, <1>8, <1>9, <1>10 DEF RosterNext

LEMMA NextDirtyInv == DirtyInv /\ [RosterNext]_rosterVars => DirtyInv'
  <1> SUFFICES ASSUME DirtyInv, [RosterNext]_rosterVars PROVE DirtyInv'
    OBVIOUS
  <1>0. RosterTypeOK'  BY NextRosterTypeOK DEF DirtyInv
  <1> SUFFICES SlotIsAlive' /\ DirtyIsScheduled'
    BY <1>0 DEF DirtyInv
  <1> USE RosterAssumption DEF DirtyInv, RosterTypeOK, SlotIsAlive, DirtyIsScheduled, taskVars
  <1>1. ASSUME NEW m \in Members, Join(m) \/ Leave(m)
        PROVE SlotIsAlive' /\ DirtyIsScheduled'
    BY <1>1 DEF Join, Leave
  <1>2. ASSUME NEW u \in Updaters, Schedule(u) PROVE SlotIsAlive' /\ DirtyIsScheduled'
    <2>1. CASE pending # None
      BY <1>2, <2>1 DEF Schedule
    <2>2. CASE pending = None
      <3> PICK k \in Timers :
            timer[k] = "none" /\ pending' = k /\ timer' = [timer EXCEPT ![k] = "asleep"]
        BY <1>2, <2>2 DEF Schedule
      <3> QED  OBVIOUS
    <2> QED  BY <2>1, <2>2
  <1>3. ASSUME NEW u \in Updaters, NEW m \in Members, NEW v \in Values,
               UpdateStatus(u, m, v)
        PROVE SlotIsAlive' /\ DirtyIsScheduled'
    BY <1>3 DEF UpdateStatus
  <1>4. ASSUME NEW k \in Timers, Wake(k) PROVE SlotIsAlive' /\ DirtyIsScheduled'
    <2>1. timer'[k] = "awake" /\ \A j \in Timers \ {k} : timer'[j] = timer[j]
      BY <1>4 DEF Wake
    <2> QED  BY <1>4, <2>1 DEF Wake
  <1>5. ASSUME NEW k \in Timers, Collect(k) PROVE SlotIsAlive' /\ DirtyIsScheduled'
    BY <1>5 DEF Collect, SlotFreed
  <1>6. ASSUME NEW k \in Timers, Sent(k) PROVE SlotIsAlive' /\ DirtyIsScheduled'
    <2>1. timer[k] = "sending" /\ \A j \in Timers \ {k} : timer'[j] = timer[j]
      BY <1>6 DEF Sent
    <2> QED  BY <1>6, <2>1 DEF Sent
  <1>7. ASSUME NEW k \in Timers, NEW m \in Members, Send(k, m)
        PROVE SlotIsAlive' /\ DirtyIsScheduled'
    BY <1>7 DEF Send
  <1>8. CASE Stop  BY <1>8 DEF Stop, DirtyAfterStop
  <1>9. CASE UNCHANGED rosterVars  BY <1>9 DEF rosterVars
  <1> QED
    BY <1>1, <1>2, <1>3, <1>4, <1>5, <1>6, <1>7, <1>8, <1>9 DEF RosterNext

-----------------------------------------------------------------------------
\* A status change that has not been sent is never forgotten, whatever falls
\* between the three critical sections of an update, the throttle and stop().
THEOREM ChangesAreScheduled == RosterSpec => []DirtyIsScheduled
  <1>1. DirtyInv => DirtyIsScheduled  BY DEF DirtyInv
  <1> QED  BY <1>1, InitDirtyInv, NextDirtyInv, PTL DEF RosterSpec
=============================================================================
