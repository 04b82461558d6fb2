---------------------------- MODULE SwarmListener ----------------------------
(***************************************************************************)
(* The accept loop of src-tauri/src/swarm/socket.rs and the tasks it       *)
(* spawns: handle_connection with its reader and its writer, the shared    *)
(* counter of connections that have not registered yet, and the two        *)
(* cancellation tokens.  What the frames say is left to SwarmRegistry and  *)
(* SwarmCache; here a frame is one slot of the back-channel.               *)
(***************************************************************************)
EXTENDS Naturals, FiniteSets

CONSTANTS
  Conns,        \* connections; the slot of a finished one is used again
  MaxInflight,  \* MAX_INFLIGHT_PRE_REGISTER
  Capacity      \* BACKCHANNEL_CAPACITY

ASSUME ListenerAssumption == MaxInflight \in Nat \ {0} /\ Capacity \in Nat \ {0}

VARIABLES
  cancel,    \* the token of this start() has fired
  loop,      \* accept loop: "accept", "reserved" (between fetch_add and what
             \* follows it) or "exited"
  ticket,    \* the n that fetch_add returned to the loop
  inflight,  \* the shared counter
  stage,     \* [Conns -> how far handle_connection is]
  writer,    \* [Conns -> "none", "running" or "gone"]
  quit,      \* [Conns -> the connection's own token has fired]
  member,    \* [Conns -> the coordinator holds the connection's sender]
  queued     \* [Conns -> frames in the back-channel]

loopVars == <<loop, ticket>>
connVars == <<stage, writer, quit, member, queued>>
vars     == <<cancel, loopVars, inflight, connVars>>

Stages == {"free", "handshake", "ack", "serving", "closing", "draining"}

TypeOK ==
  /\ cancel \in BOOLEAN /\ loop \in {"accept", "reserved", "exited"}
  /\ ticket \in 0..(MaxInflight + 1) /\ inflight \in 0..(MaxInflight + 1)
  /\ stage \in [Conns -> Stages] /\ writer \in [Conns -> {"none", "running", "gone"}]
  /\ quit \in [Conns -> BOOLEAN] /\ member \in [Conns -> BOOLEAN]
  /\ queued \in [Conns -> 0..Capacity]

Handshaking == {c \in Conns : stage[c] = "handshake"}

Init ==
  /\ cancel = FALSE /\ loop = "accept" /\ ticket = 0 /\ inflight = 0
  /\ stage = [c \in Conns |-> "free"] /\ writer = [c \in Conns |-> "none"]
  /\ quit = [c \in Conns |-> FALSE] /\ member = [c \in Conns |-> FALSE]
  /\ queued = [c \in Conns |-> 0]

-----------------------------------------------------------------------------
(* The accept loop.                                                        *)

Cancel ==
  /\ ~cancel /\ cancel' = TRUE
  /\ UNCHANGED <<loopVars, inflight, connVars>>

Reserve ==
  /\ loop = "accept"
  /\ loop' = "reserved" /\ ticket' = inflight + 1 /\ inflight' = inflight + 1
  /\ UNCHANGED <<cancel, connVars>>

\* Mutation: the cap admits one connection too many.
OverCapByTwo(n) == n > MaxInflight + 1

OverCap(n) == n > MaxInflight

Drop ==
  /\ loop = "reserved" /\ OverCap(ticket)
  /\ loop' = "accept" /\ ticket' = 0 /\ inflight' = inflight - 1
  /\ UNCHANGED <<cancel, connVars>>

SpawnHandler(c) ==
  /\ loop = "reserved" /\ ~OverCap(ticket)
  /\ stage[c] = "free"
  /\ loop' = "accept" /\ ticket' = 0
  /\ stage' = [stage EXCEPT ![c] = "handshake"]
  /\ UNCHANGED <<cancel, inflight, writer, quit, member, queued>>

LoopExit ==
  /\ loop = "accept" /\ cancel
  /\ loop' = "exited"
  /\ UNCHANGED <<cancel, ticket, inflight, connVars>>

-----------------------------------------------------------------------------
(* handle_connection.                                                      *)

\* Drop for InflightGuard.
GuardDrop(n, armed) == IF armed THEN n - 1 ELSE n

\* REGISTER_DEADLINE, a frame that is not register, end of stream, or a
\* register() that returns an error.
HandshakeFail(c) ==
  /\ stage[c] = "handshake"
  /\ stage' = [stage EXCEPT ![c] = "free"]
  /\ inflight' = GuardDrop(inflight, TRUE)
  /\ UNCHANGED <<cancel, loopVars, writer, quit, member, queued>>

\* register() succeeds; the guard is disarmed and then dropped.
Register(c) ==
  /\ stage[c] = "handshake"
  /\ stage' = [stage EXCEPT ![c] = "ack"]
  /\ inflight' = GuardDrop(inflight, FALSE)
  /\ member' = [member EXCEPT ![c] = TRUE]
  /\ UNCHANGED <<cancel, loopVars, writer, quit, queued>>

\* The ack is written without a timeout and without watching a token: both
\* steps wait for the client to read or to go away.
AckWritten(c) ==
  /\ stage[c] = "ack"
  /\ stage' = [stage EXCEPT ![c] = "serving"]
  /\ writer' = [writer EXCEPT ![c] = "running"]
  /\ UNCHANGED <<cancel, loopVars, inflight, quit, member, queued>>

AckFailed(c) ==
  /\ stage[c] = "ack"
  /\ stage' = [stage EXCEPT ![c] = "free"]
  /\ member' = [member EXCEPT ![c] = FALSE]
  /\ queued' = [queued EXCEPT ![c] = 0]
  /\ UNCHANGED <<cancel, loopVars, inflight, writer, quit>>

\* The reader ends and fires the connection's token: when it sees the global
\* token, or because of the client (end of stream, a bad frame, disconnect).
ReaderExit(c) ==
  /\ stage[c] = "serving"
  /\ stage' = [stage EXCEPT ![c] = "closing"]
  /\ quit' = [quit EXCEPT ![c] = TRUE]
  /\ UNCHANGED <<cancel, loopVars, inflight, writer, member, queued>>

Disconnect(c) ==
  /\ stage[c] = "closing"
  /\ stage' = [stage EXCEPT ![c] = "draining"]
  /\ member' = [member EXCEPT ![c] = FALSE]
  /\ UNCHANGED <<cancel, loopVars, inflight, writer, quit, queued>>

\* The writer has been joined; rx and the queued frames go with it.
Joined(c) ==
  /\ stage[c] = "draining" /\ writer[c] = "gone"
  /\ stage' = [stage EXCEPT ![c] = "free"]
  /\ writer' = [writer EXCEPT ![c] = "none"]
  /\ quit' = [quit EXCEPT ![c] = FALSE]
  /\ queued' = [queued EXCEPT ![c] = 0]
  /\ UNCHANGED <<cancel, loopVars, inflight, member>>

-----------------------------------------------------------------------------
(* The writer task and the coordinator's side of the back-channel.         *)

\* try_send: the frame is lost when the channel is full or its rx is gone.
Push(c) ==
  /\ member[c] /\ writer[c] # "gone" /\ queued[c] < Capacity
  /\ queued' = [queued EXCEPT ![c] = @ + 1]
  /\ UNCHANGED <<cancel, loopVars, inflight, stage, writer, quit, member>>

\* The coordinator drops the sender on its own: the sweep, an eviction by a
\* register on the same tab, or stop().
Evict(c) ==
  /\ member[c]
  /\ member' = [member EXCEPT ![c] = FALSE]
  /\ UNCHANGED <<cancel, loopVars, inflight, stage, writer, quit, queued>>

WriteFrame(c) ==
  /\ writer[c] = "running" /\ queued[c] > 0
  /\ queued' = [queued EXCEPT ![c] = @ - 1]
  /\ UNCHANGED <<cancel, loopVars, inflight, stage, writer, quit, member>>

\* WRITE_TIMEOUT or a write error.
WriteFails(c) ==
  /\ writer[c] = "running" /\ queued[c] > 0
  /\ writer' = [writer EXCEPT ![c] = "gone"]
  /\ UNCHANGED <<cancel, loopVars, inflight, stage, quit, member, queued>>

\* A branch of the writer's select! that ends it is ready.
WriterEnds(c) == cancel \/ quit[c] \/ (queued[c] = 0 /\ ~member[c])

WriterExit(c) ==
  /\ writer[c] = "running" /\ WriterEnds(c)
  /\ writer' = [writer EXCEPT ![c] = "gone"]
  /\ UNCHANGED <<cancel, loopVars, inflight, stage, quit, member, queued>>

-----------------------------------------------------------------------------
AcceptLoop == Reserve \/ Drop \/ (\E c \in Conns : SpawnHandler(c)) \/ LoopExit

Handler(c) ==
  \/ HandshakeFail(c) \/ Register(c) \/ AckWritten(c) \/ AckFailed(c)
  \/ ReaderExit(c) \/ Disconnect(c) \/ Joined(c)

WriterTask(c) == WriteFrame(c) \/ WriteFails(c) \/ WriterExit(c)

Next ==
  \/ Cancel \/ AcceptLoop
  \/ \E c \in Conns : Handler(c) \/ WriterTask(c) \/ Push(c) \/ Evict(c)

Spec == Init /\ [][Next]_vars

\* Mutation: the reader is given the connection's token for the global one, and
\* so waits for itself.
ReaderSeesQuit(c) == quit[c] /\ ReaderExit(c)

ReaderSeesCancel(c) == cancel /\ ReaderExit(c)

\* Tasks that can run do: the loop's own steps, the handshake within its
\* deadline, the steps of a task that is not waiting for the client.  Nothing
\* makes a client connect, read the ack, talk or hang up.
Fairness ==
  /\ WF_vars(Drop) /\ WF_vars(\E c \in Conns : SpawnHandler(c)) /\ SF_vars(LoopExit)
  /\ \A c \in Conns :
       /\ WF_vars(HandshakeFail(c) \/ Register(c))
       /\ WF_vars(ReaderSeesCancel(c))
       /\ WF_vars(Disconnect(c)) /\ WF_vars(Joined(c))
       /\ WF_vars(WriterTask(c))

FairSpec == Spec /\ Fairness

-----------------------------------------------------------------------------
(* Properties.                                                             *)

\* The counter never falls below the number of connections that occupy a slot
\* (the loop's own reservation included), whatever order the loop's fetch_add
\* and the handlers' fetch_sub come in: it cannot wrap below zero, and so the
\* cap holds.
SlotsCovered ==
  inflight >= Cardinality(Handshaking) + (IF loop = "reserved" THEN 1 ELSE 0)

\* No more than MAX_INFLIGHT_PRE_REGISTER connections are in the handshake at
\* once.
HandshakesCapped == Cardinality(Handshaking) <= MaxInflight

\* Once the token has fired, every connection that got past its ack ends,
\* whatever the client does: the reader does not wait for a client that says
\* nothing, and the handler's join of the writer returns.
StopEndsServed ==
  \A c \in Conns :
    cancel /\ stage[c] \in {"serving", "closing", "draining"} ~> stage[c] = "free"
=============================================================================
