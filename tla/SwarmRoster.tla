----------------------------- MODULE SwarmRoster -----------------------------
(***************************************************************************)
(* Command status of the colleagues and the rosters the colleagues keep:   *)
(* update_status, the coalescing throttle of schedule_roster_broadcast and *)
(* broadcast_roster_now, the part of stop() that cancels it, and the       *)
(* roster a colleague is given when it registers (coordinator.rs).  A      *)
(* colleague here is one registration; the coordinator runs until it is    *)
(* stopped, and may be started again.                                      *)
(***************************************************************************)
EXTENDS Naturals, FiniteSets

CONSTANTS
  Members,     \* colleagues that may register
  Values,      \* what a status snapshot can say; the first one is Fresh
  Fresh,       \* the status of a colleague that has just registered
  Absent,      \* not in the roster
  Updaters,    \* concurrent swarm_update_status calls
  Timers,      \* throttle tasks
  None,
  MaxJoins, MaxUpdates  \* bounds: registrations and changes of status

ASSUME RosterAssumption ==
  /\ Fresh \in Values /\ Absent \notin Values /\ None \notin Timers
  /\ MaxJoins \in Nat /\ MaxUpdates \in Nat

VARIABLES
  status,     \* [Members -> Values or Absent]: by_id
  dirty,      \* roster_dirty
  pending,    \* pending_broadcast: a task or None
  timer,      \* [Timers -> "none", "asleep", "awake" or "sending"]
  frame,      \* [Timers -> the roster the task is sending]
  left,       \* [Timers -> recipients it has still to serve]
  updater,    \* [Updaters -> "idle" or "changed" (between its two locks)]
  roster,     \* [Members -> the roster the colleague has]
  lost,       \* history: a back-channel was full
  joins, updates  \* counters for the bounds

rosterVars == <<status, dirty, pending, timer, frame, left, updater, roster, lost, joins, updates>>
taskVars == <<timer, frame, left>>

Rosters == [Members -> Values \cup {Absent}]
Empty   == [m \in Members |-> Absent]

RosterTypeOK ==
  /\ status \in Rosters /\ dirty \in BOOLEAN /\ pending \in Timers \cup {None}
  /\ timer \in [Timers -> {"none", "asleep", "awake", "sending"}]
  /\ frame \in [Timers -> Rosters] /\ left \in [Timers -> SUBSET Members]
  /\ \A k \in Timers : timer[k] # "sending" => left[k] = {}
  /\ updater \in [Updaters -> {"idle", "changed"}]
  /\ roster \in [Members -> Rosters]
  /\ lost \in BOOLEAN /\ joins \in 0..MaxJoins /\ updates \in 0..MaxUpdates

Present == {m \in Members : status[m] # Absent}

RosterInit ==
  /\ status = Empty /\ dirty = FALSE /\ pending = None
  /\ timer = [k \in Timers |-> "none"] /\ frame = [k \in Timers |-> Empty]
  /\ left = [k \in Timers |-> {}] /\ updater = [u \in Updaters |-> "idle"]
  /\ roster = [m \in Members |-> Empty]
  /\ lost = FALSE /\ joins = 0 /\ updates = 0

-----------------------------------------------------------------------------
\* register(): the roster in the ack lists the newcomer too; nobody else is
\* told.
Join(m) ==
  /\ status[m] = Absent /\ joins < MaxJoins
  /\ joins' = joins + 1
  /\ status' = [status EXCEPT ![m] = Fresh]
  /\ roster' = [roster EXCEPT ![m] = status']
  /\ left' = [k \in Timers |-> left[k] \ {m}]
  /\ UNCHANGED <<dirty, pending, timer, frame, updater, lost, updates>>

\* disconnect(), an eviction or the sweep; what is sent to the colleague after
\* it is lost with its channel.
Leave(m) ==
  /\ status[m] # Absent
  /\ status' = [status EXCEPT ![m] = Absent]
  /\ left' = [k \in Timers |-> left[k] \ {m}]
  /\ UNCHANGED <<dirty, pending, timer, frame, updater, roster, lost, joins, updates>>

-----------------------------------------------------------------------------
(* swarm_update_status.                                                    *)

\* The first critical section.  A snapshot that changes nothing ends the call.
UpdateStatus(u, m, v) ==
  /\ updater[u] = "idle" /\ status[m] \notin {Absent, v} /\ updates < MaxUpdates
  /\ updates' = updates + 1
  /\ status' = [status EXCEPT ![m] = v]
  /\ dirty' = TRUE
  /\ updater' = [updater EXCEPT ![u] = "changed"]
  /\ UNCHANGED <<pending, taskVars, roster, lost, joins>>

\* schedule_roster_broadcast, with a lock of its own.
Schedule(u) ==
  /\ updater[u] = "changed"
  /\ updater' = [updater EXCEPT ![u] = "idle"]
  /\ \/ pending # None /\ UNCHANGED <<pending, timer>>
     \/ /\ pending = None
        /\ \E k \in Timers : /\ timer[k] = "none"
                             /\ pending' = k /\ timer' = [timer EXCEPT ![k] = "asleep"]
  /\ UNCHANGED <<status, dirty, frame, left, roster, lost, joins, updates>>

-----------------------------------------------------------------------------
(* The throttle task.                                                      *)

\* ROSTER_BROADCAST_DEBOUNCE has passed; the task waits for the lock.  Sending
\* one roster to at most MAX_COLLEAGUES channels takes less than that.
Wake(k) ==
  /\ timer[k] = "asleep" /\ \A j \in Timers : timer[j] # "sending"
  /\ timer' = [timer EXCEPT ![k] = "awake"]
  /\ UNCHANGED <<status, dirty, pending, frame, left, updater, roster, lost, joins, updates>>

\* Mutation: the slot is never given back.
SlotKept(k) == pending

\* broadcast_roster_now gives the slot back before it sends.
SlotFreed(k) == None

Recipients == IF dirty THEN Present ELSE {}

\* broadcast_roster_now, under the lock.
Collect(k) ==
  /\ timer[k] = "awake"
  /\ pending' = SlotFreed(k)
  /\ dirty' = FALSE
  /\ timer' = [timer EXCEPT ![k] = IF dirty THEN "sending" ELSE "none"]
  /\ frame' = [frame EXCEPT ![k] = IF dirty THEN status ELSE Empty]
  /\ left' = [left EXCEPT ![k] = Recipients]
  /\ UNCHANGED <<status, updater, roster, lost, joins, updates>>

\* One try_send, and the colleague's roster_update handler.
Send(k, m) ==
  /\ timer[k] = "sending" /\ m \in left[k]
  /\ left' = [left EXCEPT ![k] = @ \ {m}]
  /\ \/ roster' = [roster EXCEPT ![m] = frame[k]] /\ UNCHANGED lost
     \/ lost' = TRUE /\ UNCHANGED roster
  /\ UNCHANGED <<status, dirty, pending, timer, frame, updater, joins, updates>>

Sent(k) ==
  /\ timer[k] = "sending" /\ left[k] = {}
  /\ timer' = [timer EXCEPT ![k] = "none"]
  /\ frame' = [frame EXCEPT ![k] = Empty]
  /\ UNCHANGED <<status, dirty, pending, left, updater, roster, lost, joins, updates>>

-----------------------------------------------------------------------------
\* Mutation: the flag survives stop().
DirtyAfterStopKept == dirty

DirtyAfterStop == FALSE

\* The critical section of stop().  abort() ends a sleeping task; one that has
\* woken up may still run broadcast_roster_now.
Stop ==
  /\ pending' = None /\ dirty' = DirtyAfterStop
  /\ timer' = [k \in Timers |->
       IF k = pending /\ timer[k] = "asleep" THEN "none" ELSE timer[k]]
  /\ status' = Empty
  /\ left' = [k \in Timers |-> {}]
  /\ UNCHANGED <<frame, updater, roster, lost, joins, updates>>

RosterNext ==
  \/ \E m \in Members : Join(m) \/ Leave(m)
  \/ \E u \in Updaters : Schedule(u) \/ \E m \in Members, v \in Values : UpdateStatus(u, m, v)
  \/ \E k \in Timers : Wake(k) \/ Collect(k) \/ Sent(k) \/ \E m \in Members : Send(k, m)
  \/ Stop

RosterSpec == RosterInit /\ [][RosterNext]_rosterVars

\* The runtime runs a task that is ready; nothing makes anybody join, leave,
\* report a status or stop the coordinator.
RosterFairness ==
  /\ \A u \in Updaters : WF_rosterVars(Schedule(u))
  /\ \A k \in Timers : WF_rosterVars(Wake(k)) /\ WF_rosterVars(Collect(k) \/ Sent(k))
  /\ \A k \in Timers, m \in Members : WF_rosterVars(Send(k, m))

RosterFairSpec == RosterSpec /\ RosterFairness

-----------------------------------------------------------------------------
(* Properties.                                                             *)

\* A change that has not been sent is never forgotten: while roster_dirty is
\* set, a task that will look at it exists or an update is about to schedule
\* one.  The flag, the slot and the task are changed under three locks.
DirtyIsScheduled ==
  dirty => \/ \E k \in Timers : timer[k] \in {"asleep", "awake"}
           \/ \E u \in Updaters : updater[u] = "changed"

\* If no back-channel overflows, every colleague learns the latest status of
\* every other one, however updates fall between the throttle's windows,
\* unless one of the two leaves.
UpdatesReachEverybody ==
  \A m, d \in Members :
    m \in Present /\ status[d] \notin {Absent, Fresh}
      ~> \/ m \notin Present \/ status[d] \in {Absent, Fresh}
         \/ roster[m][d] = status[d] \/ lost
=============================================================================
