----------------------------- MODULE SwarmClient -----------------------------
(***************************************************************************)
(* A colleague's connection to the coordinator: ClientRegistry of          *)
(* extensions/copilot-swarm/src/registry.mjs over SwarmSocket.  One action *)
(* is one callback, timer or call on the Node event loop; the other end is *)
(* the environment: the coordinator comes and goes, answers late or never, *)
(* refuses a register, and may dismiss a colleague with a disconnect frame *)
(* (coordinator.rs: eviction, heartbeat timeout).                          *)
(*                                                                         *)
(* The length of the reconnect delay, the roster, the claim cache and the  *)
(* inbox are left out.                                                     *)
(***************************************************************************)
EXTENDS Naturals, FiniteSets

CONSTANTS
  Socks,       \* SwarmSocket objects; a closed one stands for a new one later
  Reqs,        \* requests, each made at most once
  None,
  MaxPending,  \* MAX_PENDING_REQUESTS
  MaxStarts    \* bound: how often start() is called

ASSUME ClientAssumption ==
  /\ None \notin Socks /\ Socks # {} /\ IsFiniteSet(Socks)
  /\ MaxPending \in Nat \ {0} /\ MaxStarts \in Nat

VARIABLES
  up,         \* the coordinator accepts connections
  link,       \* [Socks -> state of the socket as the client sees it]
  hello,      \* [Socks -> register frames sent, none after the ack]
  cur,        \* _sock
  registered, stopped, heartbeat,  \* _registered, _stopped, _heartbeat # null
  timers,     \* reconnect timers that are armed
  tracked,    \* _reconnectTimer # null
  closed,     \* the terminal event "closed" has been emitted
  result,     \* [Reqs -> "new", "waiting" (in _pending), "ok" or "failed"]
  asked,      \* [Reqs -> the socket the answer is still to come from, or None]
  starts      \* calls of start() so far

netVars   == <<link, hello>>
stateVars == <<cur, registered, stopped, heartbeat, closed>>
timerVars == <<timers, tracked>>
reqVars   == <<result, asked>>
vars      == <<up, netVars, stateVars, timerVars, reqVars, starts>>

\* "ended": end() was called; "destroyed": destroy() was called, its close
\* event is still to come; "dead": the other end is gone, likewise.
Links == {"none", "connecting", "open", "ended", "destroyed", "dead"}

TypeOK ==
  /\ up \in BOOLEAN /\ link \in [Socks -> Links] /\ hello \in [Socks -> 0..2]
  /\ cur \in Socks \cup {None}
  /\ registered \in BOOLEAN /\ stopped \in BOOLEAN /\ heartbeat \in BOOLEAN
  /\ timers \in 0..Cardinality(Socks) /\ tracked \in BOOLEAN /\ closed \in BOOLEAN
  /\ result \in [Reqs -> {"new", "waiting", "ok", "failed"}]
  /\ asked \in [Reqs -> Socks \cup {None}]
  /\ starts \in 0..MaxStarts

Waiting == {q \in Reqs : result[q] = "waiting"}
InUse   == {s \in Socks : link[s] # "none"}

Init ==
  /\ up = TRUE /\ link = [s \in Socks |-> "none"] /\ hello = [s \in Socks |-> 0]
  /\ cur = None /\ registered = FALSE /\ stopped = FALSE /\ heartbeat = FALSE
  /\ timers = 0 /\ tracked = FALSE /\ closed = FALSE
  /\ result = [q \in Reqs |-> "new"] /\ asked = [q \in Reqs |-> None]
  /\ starts = 0

\* Frames still arrive: what the other end sent before it went away is read
\* first.
Readable(s) == link[s] \in {"open", "ended", "dead"}

-----------------------------------------------------------------------------
(* Connecting.                                                             *)

Connect(s) ==
  /\ link[s] = "none"
  /\ link' = [link EXCEPT ![s] = IF up THEN "connecting" ELSE "dead"]
  /\ hello' = [hello EXCEPT ![s] = 0]
  /\ cur' = s /\ registered' = FALSE

Start(s) ==
  /\ starts < MaxStarts /\ starts' = starts + 1
  /\ cur = None /\ ~stopped
  /\ Connect(s)
  /\ UNCHANGED <<up, stopped, heartbeat, closed, timerVars, reqVars>>

\* The frame goes to _sock, whichever socket has connected.
OnConnect(s) ==
  /\ link[s] = "connecting"
  /\ link' = [link EXCEPT ![s] = "open"]
  /\ cur # None
  /\ hello' = [hello EXCEPT ![cur] = IF @ < 2 THEN @ + 1 ELSE @]
  /\ UNCHANGED <<up, stateVars, timerVars, reqVars, starts>>

\* register_ack, which starts the heartbeat; it may still arrive after end().
OnAck(s) ==
  /\ Readable(s) /\ hello[s] > 0
  /\ hello' = [hello EXCEPT ![s] = 0]
  /\ registered' = TRUE /\ heartbeat' = TRUE
  /\ UNCHANGED <<up, link, cur, stopped, closed, timerVars, reqVars, starts>>

-----------------------------------------------------------------------------
(* Closing.                                                                *)

\* Mutation: only a client that had registered tries again.
TryAgainRegistered == ~stopped /\ registered

TryAgain == ~stopped

\* Mutation: requests in flight survive the connection.
FailNone == {}

\* _onClose fails every request in flight.
FailAll == Waiting

\* SwarmSocket emits close once.
AfterClose(s) == "none"

\* _onClose, for whichever socket has closed.
OnClose(s) ==
  /\ link[s] \in {"ended", "destroyed", "dead"}
  /\ link' = [link EXCEPT ![s] = AfterClose(s)]
  /\ hello' = [hello EXCEPT ![s] = 0]
  /\ cur' = None /\ registered' = FALSE /\ heartbeat' = FALSE
  /\ result' = [q \in Reqs |-> IF q \in FailAll THEN "failed" ELSE result[q]]
  /\ asked' = [q \in Reqs |-> IF asked[q] = s THEN None ELSE asked[q]]
  /\ \/ TryAgain /\ timers' = timers + 1 /\ tracked' = TRUE /\ UNCHANGED closed
     \/ ~TryAgain /\ closed' = stopped /\ UNCHANGED timerVars
  /\ UNCHANGED <<up, stopped, starts>>

ReconnectFires ==
  /\ timers > 0
  /\ timers' = timers - 1 /\ tracked' = FALSE
  /\ \/ stopped /\ UNCHANGED <<netVars, cur, registered>>
     \/ ~stopped /\ \E s \in Socks : Connect(s)
  /\ UNCHANGED <<up, stopped, heartbeat, closed, reqVars, starts>>

\* A frame that does not decode: SwarmSocket destroys itself.
OnWireError(s) ==
  /\ Readable(s)
  /\ link' = [link EXCEPT ![s] = "destroyed"]
  /\ UNCHANGED <<up, hello, stateVars, timerVars, reqVars, starts>>

\* A disconnect frame: no reconnect after a clean kick.  destroy() is called
\* on _sock.
OnKicked(s) ==
  /\ Readable(s) /\ registered /\ cur # None
  /\ stopped' = TRUE
  /\ link' = [link EXCEPT ![cur] = IF @ = "none" THEN @ ELSE "destroyed"]
  /\ UNCHANGED <<up, hello, cur, registered, heartbeat, closed, timerVars, reqVars, starts>>

\* Mutation: shutdown() leaves the reconnect timer armed and forgets it.
ClearNoTimer == timers

ClearTimer == IF tracked THEN timers - 1 ELSE timers

Shutdown ==
  /\ stopped' = TRUE /\ heartbeat' = FALSE
  /\ timers' = ClearTimer /\ tracked' = FALSE
  /\ link' = [s \in Socks |->
       IF s = cur /\ link[s] \in {"connecting", "open"} THEN "ended" ELSE link[s]]
  /\ UNCHANGED <<up, hello, cur, registered, closed, reqVars, starts>>

-----------------------------------------------------------------------------
(* Requests.                                                               *)

PendingFull == Cardinality(Waiting) >= MaxPending

\* request(): a frame written after end() never leaves.
Request(q) ==
  /\ result[q] = "new" /\ registered /\ cur # None /\ ~PendingFull
  /\ link[cur] \in {"open", "ended", "dead"}
  /\ result' = [result EXCEPT ![q] = "waiting"]
  /\ asked' = [asked EXCEPT ![q] = IF link[cur] = "open" THEN cur ELSE None]
  /\ UNCHANGED <<up, netVars, stateVars, timerVars, starts>>

\* request() on a socket that destroy() has closed: send() throws.
RequestThrows(q) ==
  /\ result[q] = "new" /\ registered /\ cur # None /\ ~PendingFull
  /\ link[cur] = "destroyed"
  /\ result' = [result EXCEPT ![q] = "failed"]
  /\ UNCHANGED <<up, netVars, stateVars, timerVars, asked, starts>>

\* tool_response: dropped when the request is not pending any more.
OnResponse(q, ok) ==
  /\ asked[q] # None /\ Readable(asked[q])
  /\ asked' = [asked EXCEPT ![q] = None]
  /\ result' = IF q \in Waiting
               THEN [result EXCEPT ![q] = IF ok THEN "ok" ELSE "failed"] ELSE result
  /\ UNCHANGED <<up, netVars, stateVars, timerVars, starts>>

\* Mutation: a timeout is noticed only while the socket is open.
TimesOutWhileOpen(q) == q \in Waiting /\ \E s \in Socks : s = cur /\ link[s] = "connecting"

TimesOut(q) == q \in Waiting

OnTimeout(q) ==
  /\ TimesOut(q)
  /\ result' = [result EXCEPT ![q] = "failed"]
  /\ UNCHANGED <<up, netVars, stateVars, timerVars, asked, starts>>

-----------------------------------------------------------------------------
(* The other end.                                                          *)

\* The coordinator stops, or Putz quits: every connection dies.
GoDown ==
  /\ up /\ up' = FALSE
  /\ link' = [s \in Socks |-> IF link[s] \in {"connecting", "open"} THEN "dead" ELSE link[s]]
  /\ UNCHANGED <<hello, stateVars, timerVars, reqVars, starts>>

ComeUp ==
  /\ ~up /\ up' = TRUE
  /\ UNCHANGED <<netVars, stateVars, timerVars, reqVars, starts>>

\* register() returns an error (rate_limited, registry full), or the register
\* came too late or twice.
Refuse(s) ==
  /\ link[s] = "open" /\ (hello[s] > 0 \/ s # cur \/ ~registered)
  /\ link' = [link EXCEPT ![s] = "dead"] /\ hello' = [hello EXCEPT ![s] = 0]
  /\ UNCHANGED <<up, stateVars, timerVars, reqVars, starts>>

Next ==
  \/ \E s \in Socks :
       \/ Start(s) \/ OnConnect(s) \/ OnAck(s) \/ OnClose(s) \/ OnKicked(s) \/ OnWireError(s)
       \/ Refuse(s)
  \/ ReconnectFires \/ Shutdown \/ GoDown \/ ComeUp
  \/ \E q \in Reqs :
       \/ Request(q) \/ RequestThrows(q) \/ OnTimeout(q)
       \/ \E ok \in BOOLEAN : OnResponse(q, ok)

Spec == Init /\ [][Next]_vars

\* Timers fire, and the network reports what happened to a socket.  A register
\* that is made again and again is accepted some time (strong fairness): the
\* backoff outgrows TAB_EVICTION_MIN_INTERVAL, and the registry is assumed not
\* to stay full.
Fairness ==
  /\ WF_vars(ReconnectFires)
  /\ \A s \in Socks : WF_vars(OnConnect(s)) /\ WF_vars(OnClose(s)) /\ SF_vars(OnAck(s))
  /\ \A q \in Reqs : WF_vars(OnTimeout(q))

FairSpec == Spec /\ Fairness

-----------------------------------------------------------------------------
(* Properties.                                                             *)

\* The client has one connection, or waits to reconnect, or neither: never two
\* sockets, a socket and an armed timer, or two timers.  _sock, _registered
\* and _onClose do not say which socket they mean and rely on it.
SingleConnection ==
  /\ Cardinality(InUse) + timers <= 1
  /\ (tracked <=> timers > 0)
  /\ \A s \in InUse : cur = s

\* A request waits only on the connection it was made on: when that is lost it
\* is not left to its timeout, and heartbeats are sent only while registered.
WaitsOnConnection ==
  (Waiting # {} \/ heartbeat) => registered /\ cur # None /\ link[cur] # "none"

\* "closed" is terminal: nothing can happen to the client after it.
ClosedIsTerminal ==
  closed => stopped /\ InUse = {} /\ timers = 0 /\ ~heartbeat /\ Waiting = {}

\* Every request is settled: by its answer, its timeout or the end of the
\* connection.
RequestsSettle == \A q \in Reqs : result[q] = "waiting" ~> result[q] # "waiting"

\* A client that was started registers again and again as long as the
\* coordinator stays up, until it is shut down or dismissed: no order of close
\* events, refusals and timers leaves it without a connection and a timer.
Reconnects == <>[]up => []<>(registered \/ stopped \/ starts = 0)
=============================================================================
