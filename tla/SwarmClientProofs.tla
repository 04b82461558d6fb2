-------------------------- MODULE SwarmClientProofs --------------------------
(* Theorems about SwarmClient, for any number of sockets and requests and  *)
(* any cap, under the way extension.mjs uses it: start() is called once.   *)
EXTENDS SwarmClient, FiniteSetTheorems, TLAPS

ClientTypes ==
  /\ up \in BOOLEAN /\ link \in [Socks -> Links] /\ hello \in [Socks -> 0..2]
  /\ cur \in Socks \cup {None}
  /\ registered \in BOOLEAN /\ stopped \in BOOLEAN /\ heartbeat \in BOOLEAN
  /\ tracked \in BOOLEAN /\ closed \in BOOLEAN
  /\ result \in [Reqs -> {"new", "waiting", "ok", "failed"}]
  /\ asked \in [Reqs -> Socks \cup {None}]
  /\ starts \in 0..MaxStarts

\* The only socket in use is _sock, and the timer is armed only when there is
\* none.  SingleConnection counts; this says which socket it is.
OneSocket ==
  /\ timers \in 0..1 /\ (tracked <=> timers > 0)
  /\ \A s \in InUse : cur = s
  /\ timers = 1 => InUse = {}
  /\ starts = 0 => InUse = {} /\ timers = 0

ClientInv ==
  ClientTypes /\ OneSocket /\ WaitsOnConnection /\ ClosedIsTerminal

-----------------------------------------------------------------------------
LEMMA InitClientInv == Init => ClientInv
  <1> SUFFICES ASSUME Init PROVE ClientInv
    OBVIOUS
  <1>1. InUse = {} /\ Waiting = {}
    BY DEF Init, InUse, Waiting
  <1>2. ClientTypes
    <2>1. up \in BOOLEAN /\ registered \in BOOLEAN /\ stopped \in BOOLEAN
          /\ heartbeat \in BOOLEAN /\ tracked \in BOOLEAN /\ closed \in BOOLEAN
      BY Zenon DEF Init
    <2> QED  BY <2>1, ClientAssumption DEF Init, ClientTypes, Links
  <1>3. OneSocket
    BY <1>1 DEF Init, OneSocket
  <1>4. WaitsOnConnection /\ ClosedIsTerminal
    BY <1>1 DEF Init, WaitsOnConnection, ClosedIsTerminal
  <1> QED  BY <1>2, <1>3, <1>4 DEF ClientInv

\* Every action keeps the variables in their types.
LEMMA NextClientTypes == ClientTypes /\ OneSocket /\ [Next]_vars => ClientTypes'
  <1> SUFFICES ASSUME ClientTypes, OneSocket, [Next]_vars PROVE ClientTypes'
    OBVIOUS
  <1> USE ClientAssumption
      DEF ClientTypes, Links, netVars, stateVars, timerVars, reqVars
  <1>0. ASSUME NEW s \in Socks, Connect(s)
        PROVE  /\ link' \in [Socks -> Links] /\ hello' \in [Socks -> 0..2]
               /\ cur' \in Socks \cup {None} /\ registered' \in BOOLEAN
    <2>1. link' \in [Socks -> Links]
      <3>1. (IF up THEN "connecting" ELSE "dead") \in Links
        BY DEF Links
      <3> QED  BY <1>0, <3>1, Zenon DEF Connect
    <2>2. registered' \in BOOLEAN
      BY <1>0, Zenon DEF Connect
    <2>3. hello' \in [Socks -> 0..2] /\ cur' \in Socks \cup {None}
      BY <1>0 DEF Connect
    <2> QED  BY <2>1, <2>2, <2>3, Zenon
  <1>1. ASSUME NEW s \in Socks, Start(s) PROVE ClientTypes'
    <2>1. Connect(s) /\ starts' \in 0..MaxStarts
      BY <1>1 DEF Start
    <2> QED  BY <1>0, <1>1, <2>1 DEF Start
  <1>2. ASSUME NEW s \in Socks, OnConnect(s) PROVE ClientTypes'
    BY <1>2 DEF OnConnect
  <1>3. ASSUME NEW s \in Socks, OnAck(s) PROVE ClientTypes'
    BY <1>3 DEF OnAck
  <1>4. ASSUME NEW s \in Socks, OnClose(s) PROVE ClientTypes'
    <2>1. closed' \in BOOLEAN /\ tracked' \in BOOLEAN
      BY <1>4, Zenon DEF OnClose, TryAgain
    <2>2. registered' \in BOOLEAN /\ heartbeat' \in BOOLEAN
      BY <1>4, Zenon DEF OnClose
    <2>3. /\ link' \in [Socks -> Links] /\ hello' \in [Socks -> 0..2]
          /\ result' \in [Reqs -> {"new", "waiting", "ok", "failed"}]
          /\ asked' \in [Reqs -> Socks \cup {None}]
      BY <1>4 DEF OnClose, AfterClose
    <2>4. UNCHANGED <<up, stopped, starts>> /\ cur' = None
      BY <1>4 DEF OnClose
    <2> QED  BY <2>1, <2>2, <2>3, <2>4
  <1>5. ASSUME NEW s \in Socks, OnKicked(s) PROVE ClientTypes'
    BY <1>5 DEF OnKicked
  <1>6. ASSUME NEW s \in Socks, OnWireError(s) PROVE ClientTypes'
    BY <1>6 DEF OnWireError
  <1>7. ASSUME NEW s \in Socks, Refuse(s) PROVE ClientTypes'
    BY <1>7 DEF Refuse
  <1>8. CASE ReconnectFires
    <2>1. CASE UNCHANGED <<netVars, cur, registered>>
      BY <1>8, <2>1 DEF ReconnectFires
    <2>2. ASSUME NEW s \in Socks, Connect(s) PROVE ClientTypes'
      BY <1>0, <1>8, <2>2 DEF ReconnectFires
    <2> QED  BY <1>8, <2>1, <2>2 DEF ReconnectFires
  <1>9. CASE Shutdown  BY <1>9 DEF Shutdown
  <1>10. CASE GoDown  BY <1>10 DEF GoDown
  <1>11. CASE ComeUp  BY <1>11 DEF ComeUp
  <1>12. ASSUME NEW q \in Reqs, Request(q) \/ RequestThrows(q) \/ OnTimeout(q)
         PROVE ClientTypes'
    BY <1>12 DEF Request, RequestThrows, OnTimeout
  <1>13. ASSUME NEW q \in Reqs, NEW ok \in BOOLEAN, OnResponse(q, ok)
         PROVE ClientTypes'
    BY <1>13 DEF OnResponse
  <1>14. CASE UNCHANGED vars  BY <1>14 DEF vars
  <1> QED
    BY <1>1, <1>2, <1>3, <1>4, <1>5, <1>6, <1>7, <1>8, <1>9, <1>10, <1>11, <1>12,
       <1>13, <1>14
    DEF Next

-----------------------------------------------------------------------------
\* One attempt to connect, made while nothing is in use and no timer is armed
\* any more: by start() the first time, or by the timer.
LEMMA ConnectKeepsInv ==
  ASSUME ClientInv, NEW s \in Socks, Connect(s), InUse = {},
         timers' = 0, ~tracked', starts' # 0,
         UNCHANGED <<stopped, heartbeat, closed, result>>, ~stopped
  PROVE  OneSocket' /\ WaitsOnConnection' /\ ClosedIsTerminal'
  <1>1. InUse' = {s} /\ cur' = s
    BY DEF ClientInv, ClientTypes, InUse, Connect
  <1>2. Waiting = {} /\ ~heartbeat
    BY DEF ClientInv, ClientTypes, WaitsOnConnection, InUse
  <1>3. Waiting' = {} /\ ~heartbeat'
    BY <1>2 DEF Waiting
  <1>4. ~closed'
    BY DEF ClientInv, ClosedIsTerminal
  <1> QED
    BY <1>1, <1>3, <1>4 DEF OneSocket, WaitsOnConnection, ClosedIsTerminal

\* A step that keeps the set of sockets in use, _sock, the timer and the
\* terminal event.
LEMMA SameSocketKeepsInv ==
  ASSUME ClientInv, ClientTypes', InUse' = InUse,
         UNCHANGED <<cur, timers, tracked, closed, starts>>,
         stopped => stopped'
  PROVE  /\ OneSocket'
         /\ (Waiting' \subseteq Waiting /\ (heartbeat' => heartbeat)
              /\ (registered => registered'))
              => WaitsOnConnection' /\ ClosedIsTerminal'
  <1>1. OneSocket'
    BY DEF ClientInv, OneSocket
  <1>2. ASSUME Waiting' \subseteq Waiting, heartbeat' => heartbeat, registered => registered'
        PROVE  WaitsOnConnection' /\ ClosedIsTerminal'
    <2>1. WaitsOnConnection'
      BY <1>2 DEF ClientInv, ClientTypes, WaitsOnConnection, InUse
    <2>2. ClosedIsTerminal'
      BY <1>2 DEF ClientInv, ClosedIsTerminal
    <2> QED  BY <2>1, <2>2
  <1> QED  BY <1>1, <1>2

LEMMA NextSocketInv ==
  ASSUME MaxStarts <= 1, ClientInv, [Next]_vars
  PROVE  OneSocket' /\ WaitsOnConnection' /\ ClosedIsTerminal'
  <1>0. ClientTypes'  BY NextClientTypes DEF ClientInv
  <1> DEFINE Goal == OneSocket' /\ WaitsOnConnection' /\ ClosedIsTerminal'
  <1>1. ASSUME NEW s \in Socks, Start(s) PROVE Goal
    <2>1. starts = 0 /\ starts' = 1 /\ InUse = {} /\ timers = 0 /\ ~tracked
      BY <1>1, ClientAssumption DEF Start, ClientInv, ClientTypes, OneSocket
    <2>2. /\ Connect(s) /\ ~stopped
          /\ UNCHANGED <<stopped, heartbeat, closed, result, timers, tracked>>
      BY <1>1 DEF Start, timerVars, reqVars
    <2> QED  BY <2>1, <2>2, ConnectKeepsInv
  <1>2. ASSUME NEW s \in Socks,
               OnConnect(s) \/ OnKicked(s) \/ OnWireError(s) \/ Refuse(s)
        PROVE Goal
    <2>1. InUse' = InUse
      BY <1>2, ClientAssumption
      DEF OnConnect, OnKicked, OnWireError, Refuse, InUse, Readable, ClientInv, ClientTypes, Links
    <2>2. /\ UNCHANGED <<cur, timers, tracked, closed, starts, result, heartbeat, registered>>
          /\ stopped => stopped'
      BY <1>2
      DEF OnConnect, OnKicked, OnWireError, Refuse, stateVars, timerVars, reqVars
    <2>3. Waiting' = Waiting  BY <2>2 DEF Waiting
    <2> QED  BY <1>0, <2>1, <2>2, <2>3, SameSocketKeepsInv
  <1>3. ASSUME NEW s \in Socks, OnAck(s) PROVE Goal
    <2>1. InUse' = InUse /\ Waiting' = Waiting
      BY <1>3 DEF OnAck, InUse, Waiting, reqVars
    <2>2. UNCHANGED <<link, cur, timers, tracked, closed, starts, stopped, result>>
      BY <1>3 DEF OnAck, timerVars, reqVars
    <2>3. s \in InUse /\ cur = s
      BY <1>3 DEF OnAck, Readable, InUse, ClientInv, OneSocket
    <2>4. WaitsOnConnection'
      BY <1>3, <2>2, <2>3, ClientAssumption DEF OnAck, WaitsOnConnection, InUse
    <2>5. ClosedIsTerminal'
      BY <2>1, <2>2, <2>3 DEF ClientInv, ClosedIsTerminal
    <2> QED  BY <1>0, <2>1, <2>2, <2>4, <2>5, SameSocketKeepsInv
  <1>4. ASSUME NEW s \in Socks, OnClose(s) PROVE Goal
    <2>1. s \in InUse /\ InUse = {s} /\ timers = 0 /\ ~tracked /\ starts # 0 /\ ~closed
      BY <1>4 DEF OnClose, InUse, ClientInv, OneSocket, ClosedIsTerminal
    <2>2. InUse' = {}
      BY <1>4, <2>1 DEF OnClose, AfterClose, InUse, ClientInv, ClientTypes
    <2>3. Waiting' = {} /\ ~heartbeat'
      BY <1>4 DEF OnClose, FailAll, Waiting
    <2>4. WaitsOnConnection'
      BY <2>3 DEF WaitsOnConnection
    <2>5. CASE TryAgain /\ timers' = timers + 1 /\ tracked' = TRUE /\ UNCHANGED closed
      BY <1>4, <2>1, <2>2, <2>4, <2>5 DEF OnClose, OneSocket, ClosedIsTerminal
    <2>6. CASE ~TryAgain /\ closed' = stopped /\ UNCHANGED timerVars
      BY <1>4, <2>1, <2>2, <2>3, <2>4, <2>6
      DEF OnClose, OneSocket, ClosedIsTerminal, TryAgain, timerVars
    <2> QED  BY <1>4, <2>5, <2>6 DEF OnClose
  <1>5. CASE ReconnectFires
    <2>1. timers = 1 /\ timers' = 0 /\ InUse = {} /\ starts' # 0 /\ ~tracked' /\ ~closed
      BY <1>5 DEF ReconnectFires, ClientInv, OneSocket, ClosedIsTerminal
    <2>2. CASE stopped /\ UNCHANGED <<netVars, cur, registered>>
      <3>1. InUse' = {} /\ Waiting' = Waiting
        BY <1>5, <2>1, <2>2 DEF ReconnectFires, netVars, reqVars, InUse, Waiting
      <3>2. UNCHANGED <<link, cur, registered, heartbeat, closed, stopped>>
        BY <1>5, <2>2 DEF ReconnectFires, netVars
      <3>3. WaitsOnConnection'
        BY <3>1, <3>2 DEF ClientInv, WaitsOnConnection
      <3> QED  BY <2>1, <3>1, <3>2, <3>3 DEF OneSocket, ClosedIsTerminal
    <2>3. ASSUME ~stopped, NEW s \in Socks, Connect(s) PROVE Goal
      BY <1>5, <2>1, <2>3, ConnectKeepsInv DEF ReconnectFires, reqVars
    <2> QED  BY <1>5, <2>2, <2>3 DEF ReconnectFires
  <1>6. CASE Shutdown
    <2>1. InUse' = InUse
      BY <1>6 DEF Shutdown, InUse, ClientInv, ClientTypes
    <2>2. timers' = 0 /\ ~tracked'
      BY <1>6 DEF Shutdown, ClearTimer, ClientInv, OneSocket
    <2>3. /\ stopped' /\ ~heartbeat'
          /\ UNCHANGED <<cur, registered, closed, result, starts>>
      BY <1>6 DEF Shutdown, reqVars
    <2>4. Waiting' = Waiting  BY <2>3 DEF Waiting
    <2>5. OneSocket'
      BY <2>1, <2>2, <2>3 DEF ClientInv, OneSocket
    <2>6. WaitsOnConnection'
      BY <1>0, <2>1, <2>3, <2>4 DEF ClientInv, ClientTypes, WaitsOnConnection, InUse
    <2>7. ClosedIsTerminal'
      BY <2>1, <2>2, <2>3, <2>4 DEF ClientInv, ClosedIsTerminal
    <2> QED  BY <2>5, <2>6, <2>7
  <1>7. CASE GoDown \/ ComeUp
    <2>1. InUse' = InUse
      BY <1>7 DEF GoDown, ComeUp, netVars, InUse, ClientInv, ClientTypes
    <2>2. /\ UNCHANGED <<cur, timers, tracked, closed, starts, result, heartbeat, registered>>
          /\ stopped => stopped'
      BY <1>7 DEF GoDown, ComeUp, stateVars, timerVars, reqVars
    <2>3. Waiting' = Waiting  BY <2>2 DEF Waiting
    <2> QED  BY <1>0, <2>1, <2>2, <2>3, SameSocketKeepsInv
  <1>8. ASSUME NEW q \in Reqs, Request(q) PROVE Goal
    <2>1. InUse' = InUse  BY <1>8 DEF Request, netVars, InUse
    <2>2. UNCHANGED <<link, cur, timers, tracked, closed, starts, stopped, registered>>
      BY <1>8 DEF Request, netVars, stateVars, timerVars
    <2>3. registered /\ cur # None /\ cur \in InUse
      BY <1>8 DEF Request, InUse, ClientInv, ClientTypes
    <2>4. WaitsOnConnection'
      BY <2>2, <2>3 DEF WaitsOnConnection, InUse
    <2>5. ClosedIsTerminal'
      BY <2>2, <2>3 DEF ClientInv, ClosedIsTerminal
    <2> QED  BY <1>0, <2>1, <2>2, <2>4, <2>5, SameSocketKeepsInv
  <1>9. ASSUME NEW q \in Reqs,
               \/ RequestThrows(q) \/ OnTimeout(q)
               \/ \E ok \in BOOLEAN : OnResponse(q, ok)
        PROVE Goal
    <2>1. InUse' = InUse
      BY <1>9 DEF RequestThrows, OnTimeout, OnResponse, netVars, InUse
    <2>2. UNCHANGED <<cur, timers, tracked, closed, starts, heartbeat, registered, stopped>>
      BY <1>9 DEF RequestThrows, OnTimeout, OnResponse, netVars, stateVars, timerVars
    <2>3. Waiting' \subseteq Waiting
      BY <1>9 DEF RequestThrows, OnTimeout, OnResponse, Waiting, ClientInv, ClientTypes
    <2> QED  BY <1>0, <2>1, <2>2, <2>3, SameSocketKeepsInv
  <1>10. CASE UNCHANGED vars
    <2>1. InUse' = InUse /\ Waiting' = Waiting
      BY <1>10 DEF vars, netVars, reqVars, InUse, Waiting
    <2>2. UNCHANGED <<cur, timers, tracked, closed, starts, heartbeat, registered, stopped>>
      BY <1>10 DEF vars, stateVars, timerVars
    <2> QED  BY <1>0, <2>1, <2>2, SameSocketKeepsInv
  <1> QED
    BY <1>1, <1>2, <1>3, <1>4, <1>5, <1>6, <1>7, <1>8, <1>9, <1>10 DEF Next

LEMMA ClientInvariant == ASSUME MaxStarts <= 1 PROVE Spec => []ClientInv
  <1>1. ClientInv /\ [Next]_vars => ClientInv'
    BY NextClientTypes, NextSocketInv DEF ClientInv
  <1> QED  BY <1>1, InitClientInv, PTL DEF Spec

-----------------------------------------------------------------------------
\* A client that is started once never has two connections, a connection and
\* an armed timer, or two timers.
THEOREM OneConnection == ASSUME MaxStarts <= 1 PROVE Spec => []SingleConnection
  <1>1. ClientInv => SingleConnection
    <2> SUFFICES ASSUME ClientInv PROVE SingleConnection
      OBVIOUS
    <2>1. timers \in 0..1 /\ (tracked <=> timers > 0) /\ \A s \in InUse : cur = s
      BY DEF ClientInv, OneSocket
    <2>2. CASE InUse = {}
      BY <2>1, <2>2, FS_EmptySet DEF SingleConnection
    <2>3. CASE InUse # {}
      <3>1. InUse = {} \cup {cur} /\ timers = 0
        BY <2>1, <2>3 DEF ClientInv, OneSocket
      <3>2. Cardinality(InUse) = 1
        BY <3>1, FS_EmptySet, FS_AddElement
      <3> QED  BY <2>1, <3>1, <3>2 DEF SingleConnection
    <2> QED  BY <2>2, <2>3
  <1> QED  BY <1>1, ClientInvariant, PTL

\* No request outlives the connection it was made on, and no heartbeat is sent
\* without one.
THEOREM RequestsWaitOnConnection ==
  ASSUME MaxStarts <= 1 PROVE Spec => []WaitsOnConnection
  <1>1. ClientInv => WaitsOnConnection  BY DEF ClientInv
  <1> QED  BY <1>1, ClientInvariant, PTL

\* After "closed" nothing can happen to the client any more.
THEOREM ClosedStaysClosed == ASSUME MaxStarts <= 1 PROVE Spec => []ClosedIsTerminal
  <1>1. ClientInv => ClosedIsTerminal  BY DEF ClientInv
  <1> QED  BY <1>1, ClientInvariant, PTL
=============================================================================
