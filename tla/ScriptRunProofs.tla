-------------------------- MODULE ScriptRunProofs --------------------------
(***************************************************************************)
(* Proofs about PtySessions and ScriptRun: the table of sessions and the   *)
(* shells agree whatever interleaves, the table outgrows its limit by the  *)
(* calls in flight only, and a run's sends are reported truly, stop after  *)
(* a stop and never lose the terminal's answer.                            *)
(***************************************************************************)
EXTENDS ScriptRun, FiniteSetTheorems, TLAPS

-----------------------------------------------------------------------------
(* The table and the shells.                                               *)

\* Whoever waits for a shell under the mutex is the reader thread that holds it.
ReaperHoldsLock == \A s \in Sessions : stage[s] = "reaping" <=> lock = <<"reader", s>>

\* A session out of the table has no shell, but for the one that is reaped.
NoShellLeft ==
  \A s \in Sessions \ sessions : stage[s] \in {"inserted", "reading", "ended", "done"} => ~alive[s]

PtyInv ==
  /\ PtyTypeOK /\ ReaperHoldsLock /\ NoShellLeft
  /\ \A s \in sessions : stage[s] \in InTable

LEMMA PtyInitInv == PtyInit => PtyInv
  BY DEF PtyInit, PtyInv, PtyTypeOK, ReaperHoldsLock, NoShellLeft, Stages, Free

\* The invariant gives the property.
LEMMA PtyInvImplies == PtyInv => TableMatchesShells
  BY DEF PtyInv, PtyTypeOK, ReaperHoldsLock, NoShellLeft, TableMatchesShells, Unlocked, Free,
         Threaded

\* The steps of spawn().
LEMMA SpawnKeepsPtyInv ==
  ASSUME PtyInv, NEW s \in Sessions,
         SpawnChecked(s) \/ SpawnRefused(s) \/ SpawnStarted(s) \/ SpawnAbandoned(s)
           \/ SpawnInserted(s) \/ SpawnReturns(s)
  PROVE  PtyInv'
<1> USE DEF PtyInv, PtyTypeOK, ReaperHoldsLock, NoShellLeft, Stages, Spawning, Threaded, InTable
<1>1. CASE SpawnChecked(s) BY <1>1 DEF SpawnChecked
<1>2. CASE SpawnRefused(s) BY <1>2 DEF SpawnRefused
<1>3. CASE SpawnStarted(s) BY <1>3 DEF SpawnStarted
<1>4. CASE SpawnAbandoned(s) BY <1>4 DEF SpawnAbandoned
<1>5. CASE SpawnInserted(s) BY <1>5 DEF SpawnInserted
<1>6. CASE SpawnReturns(s) BY <1>6 DEF SpawnReturns
<1> QED BY <1>1, <1>2, <1>3, <1>4, <1>5, <1>6

\* The steps of the reader thread.
LEMMA ReaderKeepsPtyInv ==
  ASSUME PtyInv, NEW s \in Sessions, ReaderEnds(s) \/ ReaderRemoves(s) \/ ReaderReaps(s)
  PROVE  PtyInv'
<1> USE DEF PtyInv, PtyTypeOK, ReaperHoldsLock, NoShellLeft, Stages, Spawning, Threaded, InTable
<1>1. CASE ReaderEnds(s) BY <1>1 DEF ReaderEnds
<1>2. CASE ReaderRemoves(s)
  <2>1. CASE s \in sessions /\ alive[s]
    BY <1>2, <2>1 DEF ReaderRemoves, Unlocked, Free
  <2>2. CASE ~(s \in sessions /\ alive[s])
    BY <1>2, <2>2 DEF ReaderRemoves, Unlocked, Free
  <2> QED BY <2>1, <2>2
<1>3. CASE ReaderReaps(s) BY <1>3 DEF ReaderReaps, Free
<1> QED BY <1>1, <1>2, <1>3

\* Closing, and what happens outside the program.
LEMMA CloseKeepsPtyInv ==
  ASSUME PtyInv,
         (\E s \in Sessions : Close(s) \/ ShellExits(s) \/ TerminalCloses(s)) \/ CloseAll
  PROVE  PtyInv'
<1> USE DEF PtyInv, PtyTypeOK, ReaperHoldsLock, NoShellLeft, Stages, Spawning, Threaded, InTable
<1>1. ASSUME NEW s \in Sessions, Close(s) PROVE PtyInv' BY <1>1 DEF Close
<1>2. ASSUME NEW s \in Sessions, ShellExits(s) PROVE PtyInv' BY <1>2 DEF ShellExits
<1>3. ASSUME NEW s \in Sessions, TerminalCloses(s) PROVE PtyInv' BY <1>3 DEF TerminalCloses
<1>4. CASE CloseAll BY <1>4 DEF CloseAll
<1> QED BY <1>1, <1>2, <1>3, <1>4

\* A blocked writer holds the mutex, never in the reader's name.
LEMMA WriterKeepsPtyInv ==
  ASSUME PtyInv, NEW w \in Writers, NEW s \in Sessions, WriterStep(w, s)
  PROVE  PtyInv'
<1> USE PtyAssumption DEF PtyInv, PtyTypeOK, ReaperHoldsLock, NoShellLeft
<1>1. CASE WriteBlocks(w, s) BY <1>1 DEF WriteBlocks, Unlocked, Free
<1>2. ASSUME NEW taken \in BOOLEAN, WriteReturns(w, s, taken) PROVE PtyInv'
  BY <1>2 DEF WriteReturns, Free
<1> QED BY <1>1, <1>2 DEF WriterStep

LEMMA PtyKeepsPtyInv == PtyInv /\ (PtyNext \/ UNCHANGED ptyVars) => PtyInv'
<1> SUFFICES ASSUME PtyInv, PtyNext \/ UNCHANGED ptyVars PROVE PtyInv'
  OBVIOUS
<1>1. CASE UNCHANGED ptyVars
  BY <1>1 DEF ptyVars, PtyInv, PtyTypeOK, ReaperHoldsLock, NoShellLeft
<1>2. ASSUME NEW s \in Sessions, SessionStep(s) PROVE PtyInv'
  BY <1>2, SpawnKeepsPtyInv, ReaderKeepsPtyInv, CloseKeepsPtyInv DEF SessionStep
<1>3. ASSUME NEW s \in Sessions, NEW w \in Writers, WriterStep(w, s) PROVE PtyInv'
  BY <1>3, WriterKeepsPtyInv
<1>4. CASE CloseAll BY <1>4, CloseKeepsPtyInv
<1> QED BY <1>1, <1>2, <1>3, <1>4 DEF PtyNext

\* Script runs touch the sessions only by steps that PtySessions allows.
LEMMA ScriptStepsArePtySteps == PtyTypeOK /\ [Next]_vars => PtyNext \/ UNCHANGED ptyVars
<1> SUFFICES ASSUME PtyTypeOK, [Next]_vars PROVE PtyNext \/ UNCHANGED ptyVars
  OBVIOUS
<1> USE ScriptAssumption
<1>1. CASE UNCHANGED vars BY <1>1 DEF vars
<1>2. CASE PtyStep BY <1>2 DEF PtyStep, PtyNext
<1>3. ASSUME NEW s \in Sessions, Output(s) \/ \E r \in Runs : RunStarts(r, s)
      PROVE  UNCHANGED ptyVars
  BY <1>3 DEF Output, RunStarts
<1>4. ASSUME NEW r \in Runs, RunReturns(r) \/ Stop(r) \/ ScriptStep(r) PROVE UNCHANGED ptyVars
  BY <1>4, Zenon DEF RunReturns, Stop, ScriptStep, ScriptBegins, CallThrows, CallBegins,
       ConversionThrows, CallSend, CallSendAndCapture, CallDisconnect, CallWaitFor, CallSleep, Answered, PollEnds, ScriptEnds, Ask
<1>5. ASSUME NEW r \in Runs, HandlerStep(r) PROVE PtyNext \/ UNCHANGED ptyVars
  <2>1. CASE HandlerWrites(r)
    <3>1. CASE WriteBlocks(r, target[r])
      BY <3>1 DEF WriteBlocks, PtyTypeOK, PtyNext, WriterStep
    <3> QED BY <2>1, <3>1 DEF HandlerWrites, WriteTaken, WriteFails
  <2>2. CASE HandlerWritten(r)
    <3>1. PICK taken \in BOOLEAN : WriteReturns(r, target[r], taken)
      BY <2>2 DEF HandlerWritten
    <3>2. target[r] \in Sessions BY <3>1 DEF WriteReturns, PtyTypeOK, Free
    <3> QED BY <3>1, <3>2 DEF PtyNext, WriterStep
  <2>3. CASE HandlerCloses(r)
    <3>1. CASE Close(target[r]) BY <3>1 DEF Close, PtyTypeOK, PtyNext, SessionStep
    <3> QED BY <2>3, <3>1 DEF HandlerCloses
  <2>4. CASE HandlerQuiet(r) \/ HandlerLeaves(r) BY <2>4 DEF HandlerQuiet, HandlerLeaves
  <2> QED BY <1>5, <2>1, <2>2, <2>3, <2>4 DEF HandlerStep
<1> QED BY <1>1, <1>2, <1>3, <1>4, <1>5 DEF Next

LEMMA PtyInvHolds == Spec => []PtyInv
<1>1. Init => PtyInv BY PtyInitInv DEF Init
<1>2. PtyInv /\ [Next]_vars => PtyInv'
  BY PtyKeepsPtyInv, ScriptStepsArePtySteps DEF PtyInv
<1> QED BY <1>1, <1>2, PTL DEF Spec

\* No entry of the table is without its reader thread, and a session that left
\* the table leaves no shell running: for any number of sessions, writers and
\* script runs.
THEOREM TableMatches == Spec => []TableMatchesShells
  BY PtyInvHolds, PtyInvImplies, PTL
-----------------------------------------------------------------------------
(* The limit of the table.                                                 *)

\* The sessions of the table and the calls on their way to it, together.
BoundInv == Cardinality(sessions) + Cardinality(Spawners) <= MaxSessions + MaxSpawners - 1

LEMMA Finite ==
  ASSUME PtyTypeOK
  PROVE  /\ IsFiniteSet(sessions) /\ Cardinality(sessions) \in Nat
         /\ IsFiniteSet(Spawners) /\ Cardinality(Spawners) \in Nat
<1>1. sessions \subseteq Sessions /\ Spawners \subseteq Sessions BY DEF PtyTypeOK, Spawners
<1> QED BY <1>1, FS_Subset, FS_CardinalityType, PtyAssumption

\* Neither set grows in a step but those of spawn().
LEMMA ShrinkingKeepsBound ==
  ASSUME PtyTypeOK, BoundInv, sessions' \subseteq sessions, Spawners' \subseteq Spawners
  PROVE  BoundInv'
<1>1. /\ Cardinality(sessions') <= Cardinality(sessions) /\ Cardinality(sessions') \in Nat
      /\ Cardinality(Spawners') <= Cardinality(Spawners) /\ Cardinality(Spawners') \in Nat
  BY Finite, FS_Subset, FS_CardinalityType
<1> QED BY <1>1, Finite, PtyAssumption DEF BoundInv

LEMMA PtyKeepsBound == PtyInv /\ BoundInv /\ (PtyNext \/ UNCHANGED ptyVars) => BoundInv'
<1> SUFFICES ASSUME PtyInv, BoundInv, PtyNext \/ UNCHANGED ptyVars PROVE BoundInv'
  OBVIOUS
<1> USE DEF PtyInv
<1>1. CASE UNCHANGED ptyVars BY <1>1, ShrinkingKeepsBound DEF ptyVars, Spawners
<1>2. ASSUME NEW s \in Sessions, SpawnChecked(s) PROVE BoundInv'
  <2>1. Spawners' = Spawners \cup {s} /\ s \notin Spawners /\ sessions' = sessions
    BY <1>2 DEF SpawnChecked, Spawners, Spawning, PtyTypeOK
  <2>2. Cardinality(Spawners') = Cardinality(Spawners) + 1
    BY <2>1, Finite, FS_AddElement
  <2>3. Cardinality(Spawners) < MaxSpawners /\ Cardinality(sessions) < MaxSessions
    BY <1>2 DEF SpawnChecked
  <2>4. Cardinality(sessions') = Cardinality(sessions) BY <2>1
  <2> QED BY <2>2, <2>3, <2>4, Finite, PtyAssumption DEF BoundInv
<1>3. ASSUME NEW s \in Sessions, SpawnInserted(s) PROVE BoundInv'
  <2>1. Spawners' = Spawners \ {s} /\ s \in Spawners /\ sessions' = sessions \cup {s}
    BY <1>3 DEF SpawnInserted, Spawners, Spawning, PtyTypeOK
  <2>2. s \notin sessions BY <1>3 DEF SpawnInserted, InTable
  <2>3. /\ Cardinality(Spawners') = Cardinality(Spawners) - 1
        /\ Cardinality(sessions') = Cardinality(sessions) + 1
    BY <2>1, <2>2, Finite, FS_AddElement, FS_RemoveElement
  <2> QED BY <2>3, Finite, PtyAssumption DEF BoundInv
<1>4. ASSUME NEW s \in Sessions,
             \/ SpawnRefused(s) \/ SpawnStarted(s) \/ SpawnAbandoned(s) \/ SpawnReturns(s)
             \/ ReaderEnds(s) \/ ReaderRemoves(s) \/ ReaderReaps(s)
      PROVE BoundInv'
  <2>1. sessions' \subseteq sessions
    BY <1>4 DEF SpawnRefused, SpawnStarted, SpawnAbandoned, SpawnReturns, ReaderEnds, ReaderRemoves,
         ReaderReaps
  <2>2. Spawners' \subseteq Spawners
    BY <1>4 DEF SpawnRefused, SpawnStarted, SpawnAbandoned, SpawnReturns, ReaderEnds, ReaderRemoves,
         ReaderReaps, Spawners, Spawning, PtyTypeOK
  <2> QED BY <2>1, <2>2, ShrinkingKeepsBound
<1>5. ASSUME NEW s \in Sessions, Close(s) \/ ShellExits(s) \/ TerminalCloses(s) PROVE BoundInv'
  <2>1. sessions' \subseteq sessions /\ Spawners' = Spawners
    BY <1>5 DEF Close, ShellExits, TerminalCloses, Spawners
  <2> QED BY <2>1, ShrinkingKeepsBound
<1>6. CASE CloseAll
  <2>1. sessions' \subseteq sessions /\ Spawners' = Spawners BY <1>6 DEF CloseAll, Spawners
  <2> QED BY <2>1, ShrinkingKeepsBound
<1>7. ASSUME NEW s \in Sessions, NEW w \in Writers, WriterStep(w, s) PROVE BoundInv'
  <2>1. sessions' = sessions /\ Spawners' = Spawners
    BY <1>7 DEF WriterStep, WriteBlocks, WriteReturns, Spawners
  <2> QED BY <2>1, ShrinkingKeepsBound
<1> QED BY <1>1, <1>2, <1>3, <1>4, <1>5, <1>6, <1>7 DEF PtyNext, SessionStep

\* The table outgrows MAX_SESSIONS by less than the number of calls of spawn()
\* that the window has in flight, for any limit and any number of calls.
THEOREM TableStaysBounded == Spec => []SessionsBounded
<1>1. Init => BoundInv
  <2> SUFFICES ASSUME Init PROVE BoundInv
    OBVIOUS
  <2>1. sessions = {} /\ Spawners = {} BY DEF Init, PtyInit, Spawners, Spawning
  <2>2. Cardinality({}) = 0 BY FS_EmptySet
  <2> QED BY <2>1, <2>2, PtyAssumption DEF BoundInv
<1>2. PtyInv /\ BoundInv /\ [Next]_vars => BoundInv'
  BY PtyKeepsBound, ScriptStepsArePtySteps DEF PtyInv
<1>3. PtyInv /\ BoundInv => SessionsBounded
  BY Finite, PtyAssumption DEF PtyInv, BoundInv, SessionsBounded
<1> QED BY <1>1, <1>2, <1>3, PtyInvHolds, PTL DEF Spec
-----------------------------------------------------------------------------
(* The runs.                                                               *)

RunTypeOK ==
  /\ pc \in [Runs -> {"idle"} \cup Active \cup Over]
  /\ cancelled \in [Runs -> BOOLEAN]
  /\ command \in [Runs -> {"none", "queued", "ok", "error"}]
  /\ handler \in [Runs -> {"none", "listening", "writing", "leaving", "gone"}]
  /\ heard \in [Runs -> BOOLEAN] /\ reply \in [Runs -> BOOLEAN]
  /\ stack \in [Runs -> Seq([id : Int, what : Calling])] /\ calls \in [Runs -> Int]
  /\ owed \in [Runs -> Int] /\ begun \in [Runs -> SUBSET Int] /\ late \in [Runs -> SUBSET Int]

\* The sends among the calls of a stack.
SendsOf(q) == {q[k].id : k \in {i \in DOMAIN q : q[i].what \in Sending}}

\* A text is written but unreported exactly while its good answer is on the way;
\* a text waits only for the innermost call; after a stop, the sends under way
\* were under way before; and output after a text of sendAndCapture is in the
\* buffer.
RunInv(r) ==
  /\ owed[r] = IF pc[r] \in Sending /\ command[r] = "ok" THEN 1 ELSE 0
  /\ command[r] # "none" => pc[r] \in Asking
  /\ handler[r] = "writing" => pc[r] \in Sending /\ command[r] = "queued"
  /\ pc[r] \in Sending => stack[r] # <<>> /\ Head(stack[r]).what = pc[r]
  /\ pc[r] \in Polling => stack[r] # <<>>
  /\ late[r] \subseteq begun[r]
  /\ cancelled[r] => SendsOf(stack[r]) \subseteq begun[r]
  /\ ~cancelled[r] => late[r] = {}
  /\ reply[r] => Capturing(r) /\ heard[r]

RunsInv == RunTypeOK /\ \A r \in Runs : RunInv(r)

Entry == [id : Int, what : Calling]

LEMMA SendsHaveIds == ASSUME NEW q \in Seq(Entry) PROVE SendsOf(q) \subseteq Int
<1>1. \A k \in DOMAIN q : q[k] \in Entry
  OBVIOUS
<1>2. \A e \in Entry : e.id \in Int
  BY DEF Entry
<1> QED BY <1>1, <1>2, Zenon DEF SendsOf

\* A call that returns or throws leaves the others under way.
LEMMA PopKeepsStack ==
  ASSUME NEW q \in Seq(Entry), q # <<>>
  PROVE  /\ Tail(q) \in Seq(Entry) /\ SendsOf(Tail(q)) \subseteq SendsOf(q)
         /\ Head(q) \in Entry /\ (Head(q).what \in Sending => Head(q).id \in SendsOf(q))
<1>1. Tail(q) \in Seq(Entry) /\ Head(q) = q[1] /\ 1 \in DOMAIN q /\ q[1] \in Entry
  OBVIOUS
<1>2. \A k \in DOMAIN Tail(q) : k + 1 \in DOMAIN q /\ Tail(q)[k] = q[k + 1]
  OBVIOUS
<1>3. SendsOf(Tail(q)) \subseteq SendsOf(q)
  BY <1>2 DEF SendsOf
<1>4. Head(q).what \in Sending => Head(q).id \in SendsOf(q)
  BY <1>1 DEF SendsOf
<1> QED BY <1>1, <1>3, <1>4

LEMMA RunsInitInv == Init => RunsInv
  BY DEF Init, RunsInv, RunTypeOK, RunInv, Capturing, Sending, Asking, Calling, Active, Polling

LEMMA RunsInvImplies == RunsInv => SendsReportTruly /\ AnswersAreHeard
  BY DEF RunsInv, RunTypeOK, RunInv, SendsReportTruly, AnswersAreHeard, Sending, Asking

\* The manager's steps.
LEMMA ManagerKeepsRunsInv ==
  ASSUME RunsInv, NEW r \in Runs,
         (\E s \in Sessions : RunStarts(r, s)) \/ RunReturns(r) \/ Stop(r)
  PROVE  RunsInv'
<1> USE DEF RunsInv, RunTypeOK, RunInv, Entry, history, Capturing, Sending, Asking, Calling, Active,
            Over, Polling
<1>1. ASSUME NEW s \in Sessions, RunStarts(r, s) PROVE RunsInv' BY <1>1 DEF RunStarts
<1>2. CASE RunReturns(r) BY <1>2 DEF RunReturns
<1>3. CASE Stop(r)
  <2>1. SendsUnderWay(r) = SendsOf(stack[r]) BY DEF SendsUnderWay, SendsOf
  <2>2. SendsOf(stack[r]) \subseteq Int
    <3>1. stack[r] \in Seq(Entry) OBVIOUS
    <3> QED BY <3>1, SendsHaveIds
  <2>3. CASE cancelled[r] BY <1>3, <2>3 DEF Stop
  <2>4. CASE ~cancelled[r] BY <1>3, <2>1, <2>2, <2>4 DEF Stop
  <2> QED BY <2>3, <2>4
<1> QED BY <1>1, <1>2, <1>3

\* The innermost call returns or throws.
LEMMA ReturnKeepsStack ==
  ASSUME RunsInv, NEW r \in Runs, stack[r] # <<>>, CallReturns(r)
  PROVE  /\ stack' \in [Runs -> Seq(Entry)]
         /\ \A x \in Runs \ {r} : stack'[x] = stack[x]
         /\ SendsOf(stack'[r]) \subseteq SendsOf(stack[r])
<1>1. stack \in [Runs -> Seq(Entry)] BY DEF RunsInv, RunTypeOK, Entry
<1>2. stack' = [stack EXCEPT ![r] = Tail(stack[r])] BY DEF CallReturns
<1>3. Tail(stack[r]) \in Seq(Entry) /\ SendsOf(Tail(stack[r])) \subseteq SendsOf(stack[r])
  BY <1>1, PopKeepsStack
<1> QED BY <1>1, <1>2, <1>3

\* A call that returns or throws leads back to the script.
LEMMA ReturnKeepsRunsInv ==
  ASSUME RunsInv, NEW r \in Runs, stack[r] # <<>>, CallReturns(r),
         pc' \in [Runs -> {"idle"} \cup Active \cup Over], pc'[r] = "eval",
         command' \in [Runs -> {"none", "queued", "ok", "error"}], command'[r] = "none",
         heard' \in [Runs -> BOOLEAN], reply' \in [Runs -> BOOLEAN], ~reply'[r],
         owed' \in [Runs -> Int], owed'[r] = 0, handler'[r] # "writing",
         \A x \in Runs \ {r} : /\ pc'[x] = pc[x] /\ command'[x] = command[x]
                               /\ heard'[x] = heard[x] /\ reply'[x] = reply[x] /\ owed'[x] = owed[x],
         UNCHANGED <<cancelled, handler, calls, begun, late>>
  PROVE  RunsInv'
<1>1. /\ stack' \in [Runs -> Seq(Entry)]
      /\ \A x \in Runs \ {r} : stack'[x] = stack[x]
      /\ SendsOf(stack'[r]) \subseteq SendsOf(stack[r])
  BY ReturnKeepsStack, Zenon
<1>2. RunTypeOK'
  BY <1>1 DEF RunsInv, RunTypeOK, Entry
<1>3. ASSUME NEW x \in Runs \ {r} PROVE RunInv(x)'
  <2>1. /\ pc'[x] = pc[x] /\ command'[x] = command[x] /\ handler'[x] = handler[x]
        /\ heard'[x] = heard[x] /\ reply'[x] = reply[x] /\ owed'[x] = owed[x]
        /\ stack'[x] = stack[x] /\ cancelled'[x] = cancelled[x]
        /\ begun'[x] = begun[x] /\ late'[x] = late[x]
    BY <1>1
  <2>2. RunInv(x)
    BY DEF RunsInv
  <2> QED  BY <2>1, <2>2 DEF RunInv, Capturing
<1>4. RunInv(r)'
  <2>1. RunInv(r) /\ cancelled'[r] = cancelled[r] /\ begun'[r] = begun[r] /\ late'[r] = late[r]
    BY DEF RunsInv
  <2> QED  BY <1>1, <2>1 DEF RunInv, Sending, Asking, Polling
<1> QED  BY <1>2, <1>3, <1>4 DEF RunsInv

\* The steps of the script's thread that make a call or convert its arguments.
LEMMA CallKeepsRunsInv ==
  ASSUME RunsInv, NEW r \in Runs,
         \/ CallThrows(r) \/ (\E what \in Calling : CallBegins(r, what)) \/ ConversionThrows(r)
         \/ CallSend(r) \/ CallSendAndCapture(r) \/ CallDisconnect(r)
         \/ CallWaitFor(r) \/ CallSleep(r)
  PROVE  RunsInv'
<1> USE DEF RunsInv, RunTypeOK, RunInv, Entry, history, Capturing, Sending, Asking, Calling, Active,
            Over, Polling
<1>1. CASE CallThrows(r) BY <1>1 DEF CallThrows, Calls
<1>2. ASSUME NEW what \in Calling, CallBegins(r, what) PROVE RunsInv'
  <2>1. /\ <<[id |-> calls[r] + 1, what |-> what]>> \o stack[r] \in Seq(Entry)
        /\ stack' \in [Runs -> Seq(Entry)] /\ ~cancelled[r] /\ pc[r] = "eval"
        /\ \A x \in Runs \ {r} : stack'[x] = stack[x]
    BY <1>2 DEF CallBegins, Calls
  <2> QED BY <1>2, <2>1 DEF CallBegins, Calls
<1>3. CASE ConversionThrows(r) BY <1>3, ReturnKeepsRunsInv DEF ConversionThrows
<1>4. CASE CallSend(r)
  <2>1. CASE Ask(r, "send") BY <1>4, <2>1 DEF CallSend, Converted, Ask
  <2>2. CASE CannotAsk(r) /\ CallReturns(r)
    BY <1>4, <2>2, ReturnKeepsRunsInv DEF CallSend, Converted, CannotAsk
  <2> QED BY <1>4, <2>1, <2>2 DEF CallSend
<1>5. CASE CallSendAndCapture(r)
  <2>1. CASE Ask(r, "capture") BY <1>5, <2>1 DEF CallSendAndCapture, Converted, Ask
  <2>2. CASE CannotAsk(r) /\ CallReturns(r)
    BY <1>5, <2>2, ReturnKeepsRunsInv DEF CallSendAndCapture, Converted, CannotAsk
  <2> QED BY <1>5, <2>1, <2>2 DEF CallSendAndCapture
<1>6. CASE CallDisconnect(r)
  <2>1. CASE Ask(r, "disconnect") BY <1>6, <2>1 DEF CallDisconnect, Calls, Ask
  <2>2. CASE CannotAsk(r) /\ stack' = stack
    BY <1>6, <2>2 DEF CallDisconnect, Calls, CannotAsk
  <2> QED BY <1>6, <2>1, <2>2 DEF CallDisconnect
<1>7. CASE CallWaitFor(r) BY <1>7 DEF CallWaitFor, Converted
<1>8. CASE CallSleep(r) BY <1>8 DEF CallSleep, Converted
<1> QED BY <1>1, <1>2, <1>3, <1>4, <1>5, <1>6, <1>7, <1>8

\* The other steps of the script's thread.
LEMMA ScriptKeepsRunsInv ==
  ASSUME RunsInv, NEW r \in Runs, ScriptStep(r)
  PROVE  RunsInv'
<1> USE DEF RunsInv, RunTypeOK, RunInv, Entry, history, Capturing, Sending, Asking, Calling, Active,
            Over, Polling
<1>1. CASE ScriptBegins(r) BY <1>1 DEF ScriptBegins
<1>2. CASE Answered(r)
  <2>1. CASE /\ pc[r] = "capture" /\ command[r] = "ok"
             /\ pc' = [pc EXCEPT ![r] = "capturing"] /\ stack' = stack
    BY <1>2, <2>1 DEF Answered
  <2>3. CASE /\ pc[r] = "disconnect" /\ pc' = [pc EXCEPT ![r] = "eval"] /\ stack' = stack
    BY <1>2, <2>3 DEF Answered
  <2>2. CASE /\ pc[r] # "disconnect" /\ ~(pc[r] = "capture" /\ command[r] = "ok")
             /\ pc' = [pc EXCEPT ![r] = "eval"] /\ CallReturns(r)
    <3>1. pc[r] \in Sending /\ command[r] \in {"ok", "error"} /\ stack[r] # <<>>
      BY <1>2, <2>2 DEF Answered
    <3>2. ~reply[r] /\ handler[r] # "writing"
      BY <2>2, <3>1
    <3>3. owed' \in [Runs -> Int] /\ owed'[r] = 0 /\ \A x \in Runs \ {r} : owed'[x] = owed[x]
      <4>1. owed \in [Runs -> Int] /\ owed[r] = IF command[r] = "ok" THEN 1 ELSE 0
        BY <3>1
      <4>2. owed' = [owed EXCEPT ![r] = IF command[r] = "ok" THEN owed[r] - 1 ELSE owed[r]]
        BY <1>2, <3>1, Zenon DEF Answered
      <4> QED  BY <4>1, <4>2
    <3>4. /\ command' = [command EXCEPT ![r] = "none"]
          /\ UNCHANGED <<cancelled, handler, heard, calls, reply, begun, late>>
      BY <1>2, Zenon DEF Answered
    <3>5. /\ pc' \in [Runs -> {"idle"} \cup Active \cup Over] /\ pc'[r] = "eval"
          /\ command' \in [Runs -> {"none", "queued", "ok", "error"}] /\ command'[r] = "none"
          /\ \A x \in Runs \ {r} : pc'[x] = pc[x] /\ command'[x] = command[x]
      BY <2>2, <3>4
    <3>6. /\ heard' \in [Runs -> BOOLEAN] /\ reply' \in [Runs -> BOOLEAN] /\ ~reply'[r]
          /\ handler'[r] # "writing"
          /\ \A x \in Runs \ {r} : heard'[x] = heard[x] /\ reply'[x] = reply[x]
      BY <3>2, <3>4
    <3> HIDE DEF RunsInv, RunTypeOK, RunInv, Active, Over
    <3> QED  BY <2>2, <3>1, <3>3, <3>4, <3>5, <3>6, ReturnKeepsRunsInv
  <2> QED BY <1>2, <2>1, <2>2, <2>3, Zenon DEF Answered
<1>3. CASE PollEnds(r)
  <2>1. pc[r] \in Polling /\ stack[r] # <<>> /\ CallReturns(r)
    BY <1>3 DEF PollEnds
  <2>2. command[r] = "none" /\ owed[r] = 0 /\ handler[r] # "writing"
    BY <2>1
  <2>3. /\ pc' \in [Runs -> {"idle"} \cup Active \cup Over] /\ pc'[r] = "eval"
        /\ reply' \in [Runs -> BOOLEAN] /\ ~reply'[r]
        /\ \A x \in Runs \ {r} : pc'[x] = pc[x] /\ reply'[x] = reply[x]
        /\ UNCHANGED <<cancelled, command, handler, heard, calls, owed, begun, late>>
    BY <1>3 DEF PollEnds
  <2>4. /\ command \in [Runs -> {"none", "queued", "ok", "error"}]
        /\ heard \in [Runs -> BOOLEAN] /\ owed \in [Runs -> Int]
    OBVIOUS
  <2> HIDE DEF RunsInv, RunTypeOK, RunInv, Active, Over
  <2> QED  BY <2>1, <2>2, <2>3, <2>4, ReturnKeepsRunsInv
<1>4. CASE ScriptEnds(r) BY <1>4 DEF ScriptEnds
<1> QED BY <1>1, <1>2, <1>3, <1>4, CallKeepsRunsInv, Zenon DEF ScriptStep

\* The steps of the handler task.
LEMMA HandlerKeepsRunsInv ==
  ASSUME RunsInv, NEW r \in Runs, HandlerStep(r)
  PROVE  RunsInv'
<1> USE DEF RunsInv, RunTypeOK, RunInv, Entry, history, Capturing, Sending, Asking, Calling, Active,
            Over, Polling
\* A text that is written belongs to the innermost call.
<1>0. ASSUME pc[r] \in Sending, cancelled[r]
      PROVE  Head(stack[r]).id \in begun[r] /\ begun[r] \in SUBSET Int
  <2>1. stack[r] \in Seq(Entry) /\ stack[r] # <<>> /\ Head(stack[r]).what \in Sending
    BY <1>0
  <2>2. Head(stack[r]).id \in SendsOf(stack[r]) BY <2>1, PopKeepsStack
  <2> QED BY <1>0, <2>2
<1>1. CASE HandlerWrites(r)
  <2>1. pc[r] \in Sending /\ command[r] = "queued" /\ handler[r] = "listening" /\ owed[r] = 0
    BY <1>1 DEF HandlerWrites, Taken
  <2>2. CASE Answer(r, "ok") /\ CountText(r) /\ handler' = handler
    BY <1>0, <1>1, <2>1, <2>2 DEF HandlerWrites, Answer, CountText
  <2>3. CASE Answer(r, "error") /\ UNCHANGED <<handler, owed, late>>
    BY <1>1, <2>1, <2>3 DEF HandlerWrites, Answer
  <2>4. CASE handler' = [handler EXCEPT ![r] = "writing"] /\ UNCHANGED <<command, owed, late>>
    BY <1>1, <2>1, <2>4 DEF HandlerWrites
  <2> QED BY <1>1, <2>2, <2>3, <2>4 DEF HandlerWrites
<1>2. CASE HandlerWritten(r)
  <2>1. pc[r] \in Sending /\ command[r] = "queued" /\ owed[r] = 0
    BY <1>2 DEF HandlerWritten, Taken
  <2>2. CASE Answer(r, "ok") /\ CountText(r)
    BY <1>0, <1>2, <2>1, <2>2 DEF HandlerWritten, Taken, Answer, CountText
  <2>3. CASE Answer(r, "error") /\ UNCHANGED <<owed, late>>
    BY <1>2, <2>1, <2>3 DEF HandlerWritten, Taken, Answer
  <2> QED BY <1>2, <2>2, <2>3 DEF HandlerWritten
<1>3. CASE HandlerCloses(r) BY <1>3 DEF HandlerCloses, Taken, Answer
<1>4. CASE HandlerQuiet(r) BY <1>4 DEF HandlerQuiet
<1>5. CASE HandlerLeaves(r) BY <1>5 DEF HandlerLeaves
<1> QED BY <1>1, <1>2, <1>3, <1>4, <1>5 DEF HandlerStep

LEMMA NextKeepsRunsInv == RunsInv /\ [Next]_vars => RunsInv'
<1> SUFFICES ASSUME RunsInv, [Next]_vars PROVE RunsInv'
  OBVIOUS
<1>1. CASE UNCHANGED vars \/ PtyStep
  <2>1. UNCHANGED runVars BY <1>1, Zenon DEF vars, PtyStep
  <2>2. /\ pc' = pc /\ cancelled' = cancelled /\ command' = command /\ handler' = handler
        /\ heard' = heard /\ stack' = stack /\ calls' = calls /\ reply' = reply /\ owed' = owed
        /\ begun' = begun /\ late' = late
    BY <2>1 DEF runVars, history
  <2> QED BY <2>2, Zenon DEF RunsInv, RunTypeOK, RunInv, Capturing
<1>2. ASSUME NEW s \in Sessions, Output(s) PROVE RunsInv'
  BY <1>2 DEF Output, RunsInv, RunTypeOK, RunInv, Capturing, Active, Asking, Sending, Polling
<1> QED BY <1>1, <1>2, ManagerKeepsRunsInv, ScriptKeepsRunsInv, HandlerKeepsRunsInv DEF Next

LEMMA RunsInvHolds == Spec => []RunsInv
<1> QED BY RunsInitInv, NextKeepsRunsInv, PTL DEF Spec

\* Whatever the handler task does and whoever closes the session, a script is
\* told that a text was sent if and only if it was written, and once; and after a
\* stop it writes no text but those of the sends that were under way.  This
\* holds for scripts of any length, however deep their conversions call.
THEOREM SendsAreReportedTruly == Spec => []SendsReportTruly
  BY RunsInvHolds, RunsInvImplies, PTL

\* sendAndCapture misses no output that follows its text.
THEOREM NoAnswerIsLost == Spec => []AnswersAreHeard
  BY RunsInvHolds, RunsInvImplies, PTL
=============================================================================
