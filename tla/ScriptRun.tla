----------------------------- MODULE ScriptRun -----------------------------
(***************************************************************************)
(* A script run of src-tauri/src/scripting, over the sessions of           *)
(* PtySessions: the thread that executes the script and calls the putz API *)
(* (engine.rs), the handler task that carries out its commands (manager.rs *)
(* and ipc/scripting.rs), and stop().  What the script computes is left    *)
(* open: it makes any calls, catches any errors, and ends how it likes.    *)
(* The arguments of a call are converted after its check for a stop, and a *)
(* conversion runs script code (toString, valueOf) that may call again.    *)
(* Log messages are left out, so the command channel holds at most the one *)
(* command whose answer the script is waiting for.                         *)
(***************************************************************************)
EXTENDS PtySessions, Integers, Sequences

CONSTANTS
  Runs,      \* run ids; Writers contains them
  MaxRuns,   \* MAX_CONCURRENT_RUNS
  MaxCalls   \* how many calls of the API a script makes

ASSUME ScriptAssumption == Runs \subseteq Writers /\ MaxRuns \in Nat /\ MaxCalls \in Nat

VARIABLES
  runners,    \* the runs in the manager's table; none is ever taken out
  pc,         \* [Runs -> what the script is doing]
  target,     \* [Runs -> the session of the run, NoSession before it starts]
  cancelled,  \* [Runs -> the flag that stop() sets]
  command,    \* [Runs -> the command in the channel, or its answer]
  handler,    \* [Runs -> the handler task]
  heard,      \* [Runs -> the output buffer is not empty]
  stack,      \* [Runs -> the calls under way, the innermost first]
  calls,      \* [Runs -> calls made]
  reply,      \* history: [Runs -> there was output since the text of the capture
              \* that goes on was written]
  owed,       \* history: [Runs -> texts written minus texts reported as sent]
  begun,      \* history: [Runs -> the sends under way at stop()]
  late        \* history: [Runs -> the sends whose text was written after it]

history == <<reply, owed, begun, late>>
runVars == <<runners, pc, target, cancelled, command, handler, heard, stack, calls, history>>
vars    == <<ptyVars, runVars>>

Sending == {"send", "capture"}
Asking  == Sending \cup {"disconnect"}
Over    == {"completed", "stopped", "failed"}
Polling == {"waiting", "capturing"}
Calling == Sending \cup {"wait", "sleep"}
Active  == {"starting", "eval"} \cup Asking \cup Polling

NoSession == "no session"

TypeOK ==
  /\ PtyTypeOK
  /\ runners \subseteq Runs
  /\ pc \in [Runs -> {"idle"} \cup Active \cup Over]
  /\ target \in [Runs -> Sessions \cup {NoSession}]
  /\ cancelled \in [Runs -> BOOLEAN]
  /\ command \in [Runs -> {"none", "queued", "ok", "error"}]
  /\ handler \in [Runs -> {"none", "listening", "writing", "leaving", "gone"}]
  /\ heard \in [Runs -> BOOLEAN]
  /\ calls \in [Runs -> 0..MaxCalls]
  /\ stack \in [Runs -> Seq([id : 1..MaxCalls, what : Calling])]
  /\ reply \in [Runs -> BOOLEAN] /\ owed \in [Runs -> Int]
  /\ begun \in [Runs -> SUBSET (1..MaxCalls)] /\ late \in [Runs -> SUBSET (1..MaxCalls)]

Init ==
  /\ PtyInit
  /\ runners = {}
  /\ pc = [r \in Runs |-> "idle"] /\ target = [r \in Runs |-> NoSession]
  /\ cancelled = [r \in Runs |-> FALSE] /\ command = [r \in Runs |-> "none"]
  /\ handler = [r \in Runs |-> "none"] /\ heard = [r \in Runs |-> FALSE]
  /\ calls = [r \in Runs |-> 0] /\ stack = [r \in Runs |-> <<>>]
  /\ reply = [r \in Runs |-> FALSE] /\ owed = [r \in Runs |-> 0]
  /\ begun = [r \in Runs |-> {}] /\ late = [r \in Runs |-> {}]

-----------------------------------------------------------------------------
(* The manager.                                                            *)

\* run(): the front end names a session it knows, which may be closed by now.
\* The listener, the handler task and the script's thread are started.
RunStarts(r, s) ==
  /\ pc[r] = "idle" /\ stage[s] \in Threaded
  /\ Cardinality(runners) < MaxRuns
  /\ pc' = [pc EXCEPT ![r] = "starting"] /\ target' = [target EXCEPT ![r] = s]
  /\ handler' = [handler EXCEPT ![r] = "listening"]
  /\ UNCHANGED <<ptyVars, runners, cancelled, command, heard, stack, calls, history>>

\* Only now is the run in the table, where stop() finds it.
RunReturns(r) ==
  /\ pc[r] # "idle" /\ r \notin runners
  /\ runners' = runners \cup {r}
  /\ UNCHANGED <<ptyVars, pc, target, cancelled, command, handler, heard, stack, calls, history>>

SendsUnderWay(r) ==
  {stack[r][k].id : k \in {i \in DOMAIN stack[r] : stack[r][i].what \in Sending}}

Stop(r) ==
  /\ r \in runners
  /\ cancelled' = [cancelled EXCEPT ![r] = TRUE]
  /\ begun' = IF cancelled[r] THEN begun ELSE [begun EXCEPT ![r] = SendsUnderWay(r)]
  /\ UNCHANGED <<ptyVars, runners, pc, target, command, handler, heard, stack, calls, reply, owed, late>>

-----------------------------------------------------------------------------
(* The script's thread.  A call that throws leads back to "eval": the      *)
(* script may catch the error.  So does the conversion of an argument.     *)

ScriptBegins(r) ==
  /\ pc[r] = "starting"
  /\ pc' = [pc EXCEPT ![r] = IF cancelled[r] THEN "stopped" ELSE "eval"]
  /\ UNCHANGED <<ptyVars, runners, target, cancelled, command, handler, heard, stack, calls, history>>

Calls(r) ==
  /\ pc[r] = "eval" /\ calls[r] < MaxCalls
  /\ calls' = [calls EXCEPT ![r] = @ + 1]

\* Every call but disconnect() throws at once after a stop.
CallThrows(r) ==
  /\ Calls(r) /\ cancelled[r]
  /\ UNCHANGED <<ptyVars, runners, pc, target, cancelled, command, handler, heard, stack, history>>

\* Otherwise it is under way, and its arguments are converted: script code runs.
CallBegins(r, what) ==
  /\ Calls(r) /\ ~cancelled[r]
  /\ stack' = [stack EXCEPT ![r] = <<[id |-> calls[r] + 1, what |-> what]>> \o @]
  /\ UNCHANGED <<ptyVars, runners, pc, target, cancelled, command, handler, heard, history>>

CallReturns(r) == stack' = [stack EXCEPT ![r] = Tail(@)]

\* An argument does not convert, or its script code throws.
ConversionThrows(r) ==
  /\ pc[r] = "eval" /\ stack[r] # <<>> /\ CallReturns(r)
  /\ UNCHANGED <<ptyVars, runners, pc, target, cancelled, command, handler, heard, calls, history>>

\* The arguments are converted: the call does what it is for.
Converted(r, what) == pc[r] = "eval" /\ stack[r] # <<>> /\ Head(stack[r]).what = what

\* A command goes to the handler if its receiver still exists, or the call throws.
Ask(r, what) ==
  /\ handler[r] # "gone" /\ stack' = stack
  /\ pc' = [pc EXCEPT ![r] = what]
  /\ command' = [command EXCEPT ![r] = "queued"]

CannotAsk(r) == handler[r] = "gone" /\ UNCHANGED <<pc, command>>

CallSend(r) ==
  /\ Converted(r, "send")
  /\ Ask(r, "send") \/ (CannotAsk(r) /\ CallReturns(r))
  /\ UNCHANGED <<ptyVars, runners, target, cancelled, handler, heard, calls, history>>

CallSendAndCapture(r) ==
  /\ Converted(r, "capture")
  /\ heard' = [heard EXCEPT ![r] = FALSE]
  /\ Ask(r, "capture") \/ (CannotAsk(r) /\ CallReturns(r))
  /\ UNCHANGED <<ptyVars, runners, target, cancelled, handler, calls, history>>

\* disconnect() has no argument, and asks for no stop.
CallDisconnect(r) ==
  /\ Calls(r)
  /\ Ask(r, "disconnect") \/ (CannotAsk(r) /\ stack' = stack)
  /\ UNCHANGED <<ptyVars, runners, target, cancelled, handler, heard, history>>

CallWaitFor(r) ==
  /\ Converted(r, "wait")
  /\ heard' = [heard EXCEPT ![r] = FALSE] /\ pc' = [pc EXCEPT ![r] = "waiting"]
  /\ UNCHANGED <<ptyVars, runners, target, cancelled, command, handler, stack, calls, history>>

\* A sleep waits for the stop and for its end only.
CallSleep(r) ==
  /\ Converted(r, "sleep")
  /\ pc' = [pc EXCEPT ![r] = "waiting"]
  /\ UNCHANGED <<ptyVars, runners, target, cancelled, command, handler, heard, stack, calls, history>>

\* Mutation: the buffer is emptied when the text was sent, as waitFor does.
AnsweredThenCleared(r) ==
  /\ pc[r] \in Asking /\ command[r] \in {"ok", "error"}
  /\ \/ /\ pc[r] = "capture" /\ command[r] = "ok"
        /\ pc' = [pc EXCEPT ![r] = "capturing"] /\ stack' = stack
        /\ heard' = [heard EXCEPT ![r] = FALSE]
     \/ /\ ~(pc[r] = "capture" /\ command[r] = "ok") /\ heard' = heard
        /\ pc' = [pc EXCEPT ![r] = "eval"]
        /\ IF pc[r] = "disconnect" THEN stack' = stack ELSE CallReturns(r)
  /\ owed' = [owed EXCEPT ![r] =
                IF pc[r] \in Sending /\ command[r] = "ok" THEN @ - 1 ELSE @]
  /\ command' = [command EXCEPT ![r] = "none"]
  /\ UNCHANGED <<ptyVars, runners, target, cancelled, handler, calls, reply, begun, late>>

\* result_rx.recv(): the call returns or throws what its command was answered;
\* a capture begins when its text was sent.
Answered(r) ==
  /\ pc[r] \in Asking /\ command[r] \in {"ok", "error"}
  /\ \/ /\ pc[r] = "capture" /\ command[r] = "ok"
        /\ pc' = [pc EXCEPT ![r] = "capturing"] /\ stack' = stack
     \/ /\ ~(pc[r] = "capture" /\ command[r] = "ok")
        /\ pc' = [pc EXCEPT ![r] = "eval"]
        /\ IF pc[r] = "disconnect" THEN stack' = stack ELSE CallReturns(r)
  /\ owed' = [owed EXCEPT ![r] =
                IF pc[r] \in Sending /\ command[r] = "ok" THEN @ - 1 ELSE @]
  /\ command' = [command EXCEPT ![r] = "none"]
  /\ UNCHANGED <<ptyVars, runners, target, cancelled, handler, heard, calls, reply, begun, late>>

\* A wait polls for the stop, for its pattern and for its timeout.
PollEnds(r) ==
  /\ pc[r] \in Polling /\ CallReturns(r)
  /\ pc' = [pc EXCEPT ![r] = "eval"] /\ reply' = [reply EXCEPT ![r] = FALSE]
  /\ UNCHANGED <<ptyVars, runners, target, cancelled, command, handler, heard, calls, owed, begun, late>>

\* The listener is removed with this.
ScriptEnds(r) ==
  /\ pc[r] = "eval" /\ stack[r] = <<>>
  /\ \E how \in {"completed", IF cancelled[r] THEN "stopped" ELSE "failed"} :
       pc' = [pc EXCEPT ![r] = how]
  /\ UNCHANGED <<ptyVars, runners, target, cancelled, command, handler, heard, stack, calls, history>>

-----------------------------------------------------------------------------
(* The handler task.                                                       *)

Answer(r, what) == command' = [command EXCEPT ![r] = what]

Taken(r, what) == handler[r] = what /\ command[r] = "queued"

CountText(r) ==
  /\ owed' = [owed EXCEPT ![r] = @ + 1]
  /\ late' = [late EXCEPT ![r] = IF cancelled[r] THEN @ \cup {Head(stack[r]).id} ELSE @]

HandlerWrites(r) ==
  /\ Taken(r, "listening") /\ pc[r] \in Sending /\ reply' = reply
  /\ \/ WriteTaken(target[r]) /\ Answer(r, "ok") /\ CountText(r) /\ handler' = handler
     \/ WriteFails(target[r]) /\ Answer(r, "error") /\ UNCHANGED <<handler, owed, late>>
     \/ /\ WriteBlocks(r, target[r])
        /\ handler' = [handler EXCEPT ![r] = "writing"] /\ UNCHANGED <<command, owed, late>>
  /\ UNCHANGED <<runners, pc, target, cancelled, heard, stack, calls, begun>>

HandlerWritten(r) ==
  /\ Taken(r, "writing") /\ reply' = reply
  /\ handler' = [handler EXCEPT ![r] = "listening"]
  /\ \/ WriteReturns(r, target[r], TRUE) /\ Answer(r, "ok") /\ CountText(r)
     \/ WriteReturns(r, target[r], FALSE) /\ Answer(r, "error") /\ UNCHANGED <<owed, late>>
  /\ UNCHANGED <<runners, pc, target, cancelled, heard, stack, calls, begun>>

HandlerCloses(r) ==
  /\ Taken(r, "listening") /\ pc[r] = "disconnect"
  /\ \/ Close(target[r]) /\ Answer(r, "ok")
     \/ /\ Unlocked /\ target[r] \notin sessions /\ UNCHANGED ptyVars
        /\ Answer(r, "error")
  /\ UNCHANGED <<runners, pc, target, cancelled, handler, heard, stack, calls, history>>

\* recv_timeout() found the channel empty for 100 ms, or without a sender: the
\* loop ends, and with it the receiver.
HandlerQuiet(r) ==
  /\ handler[r] = "listening" /\ command[r] # "queued"
  /\ handler' = [handler EXCEPT ![r] = "leaving"]
  /\ UNCHANGED <<ptyVars, runners, pc, target, cancelled, command, heard, stack, calls, history>>

\* Mutation: a command that was sent in between counts as carried out.
HandlerLeavesContent(r) ==
  /\ handler[r] = "leaving"
  /\ handler' = [handler EXCEPT ![r] = "gone"]
  /\ command' = [command EXCEPT ![r] = IF @ = "queued" THEN "ok" ELSE @]
  /\ UNCHANGED <<ptyVars, runners, pc, target, cancelled, heard, stack, calls, history>>

\* Mutation: the receiver outlives the task, and with it the command.
HandlerLeavesQueue(r) ==
  /\ handler[r] = "leaving"
  /\ handler' = [handler EXCEPT ![r] = "gone"]
  /\ UNCHANGED <<ptyVars, runners, pc, target, cancelled, command, heard, stack, calls, history>>

\* A command that was sent in between is dropped: its answer is an error.
HandlerLeaves(r) ==
  /\ handler[r] = "leaving"
  /\ handler' = [handler EXCEPT ![r] = "gone"]
  /\ command' = [command EXCEPT ![r] = IF @ = "queued" THEN "error" ELSE @]
  /\ UNCHANGED <<ptyVars, runners, pc, target, cancelled, heard, stack, calls, history>>

-----------------------------------------------------------------------------
(* The rest of the program.                                                *)

Capturing(r) == pc[r] = "capturing" \/ (pc[r] = "capture" /\ command[r] = "ok")

\* The reader thread emits output, which the listeners of the session's runs
\* append to their buffers before it reads on.
Output(s) ==
  /\ stage[s] = "reading"
  /\ heard' = [r \in Runs |-> heard[r] \/ (target[r] = s /\ pc[r] \in Active)]
  /\ reply' = [r \in Runs |-> reply[r] \/ (target[r] = s /\ Capturing(r))]
  /\ UNCHANGED <<ptyVars, runners, pc, target, cancelled, command, handler, stack, calls, owed, begun, late>>

PtyStep ==
  /\ \/ \E s \in Sessions : SessionStep(s) \/ \E w \in Writers \ Runs : WriterStep(w, s)
     \/ CloseAll
  /\ UNCHANGED runVars

ScriptStep(r) ==
  \/ ScriptBegins(r) \/ CallThrows(r) \/ (\E what \in Calling : CallBegins(r, what))
  \/ ConversionThrows(r) \/ CallSend(r) \/ CallSendAndCapture(r)
  \/ CallDisconnect(r) \/ CallWaitFor(r) \/ CallSleep(r)
  \/ Answered(r) \/ PollEnds(r) \/ ScriptEnds(r)

HandlerStep(r) ==
  HandlerWrites(r) \/ HandlerWritten(r) \/ HandlerCloses(r) \/ HandlerQuiet(r) \/ HandlerLeaves(r)

Next ==
  \/ PtyStep
  \/ \E s \in Sessions : Output(s) \/ \E r \in Runs : RunStarts(r, s)
  \/ \E r \in Runs : RunReturns(r) \/ Stop(r) \/ ScriptStep(r) \/ HandlerStep(r)

Spec == Init /\ [][Next]_vars

-----------------------------------------------------------------------------
(* What a run promises.                                                    *)

\* When the script is not waiting for the answer to a command, every text that
\* was reported as sent has been written to the terminal once, and no other text
\* has, whatever the handler task was doing when it left and whoever closed the
\* session (engine.rs:229, manager.rs:295).  After a stop a run writes no text
\* but those of the sends that were under way: the one whose answer it waits
\* for, and those whose argument is being converted (engine.rs:210).
SendsReportTruly ==
  \A r \in Runs : /\ pc[r] \notin Asking => owed[r] = 0
                 /\ late[r] \subseteq begun[r]

\* sendAndCapture never misses what the terminal answers: the buffer is emptied
\* before the text is sent (engine.rs:346).
AnswersAreHeard == \A r \in Runs : pc[r] = "capturing" /\ reply[r] => heard[r]

-----------------------------------------------------------------------------
(* Liveness.  A thread that waits for the mutex gets it if it is free again *)
(* and again; shells, terminals, users and scripts do what they like.      *)

ReaderStep(s) == SpawnReturns(s) \/ ReaderEnds(s) \/ ReaderReaps(s)

FairSpec ==
  /\ Spec
  /\ \A s \in Sessions : /\ WF_vars(ReaderStep(s) /\ UNCHANGED runVars)
                         /\ SF_vars(ReaderRemoves(s) /\ UNCHANGED runVars)
  /\ \A r \in Runs : /\ WF_vars(ScriptBegins(r) \/ Answered(r) \/ PollEnds(r))
                     /\ WF_vars(HandlerWritten(r) \/ HandlerQuiet(r) \/ HandlerLeaves(r))
                     /\ SF_vars(HandlerWrites(r) \/ HandlerCloses(r))

MutexComesFree == []<>Unlocked

\* Whoever closed it and in whatever order, a session whose terminal is closed
\* gets its exit event (manager.rs:554), unless a call keeps the mutex for ever.
ExitReported ==
  MutexComesFree => \A s \in Sessions :
    (stage[s] \in {"inserted", "reading"} /\ ~tty[s]) ~> (stage[s] = "done")

\* Every call of the API that has its arguments returns, with what it asked for
\* or with an error, whether the handler task answers it, has left, or leaves as the command
\* arrives (engine.rs:229).  A stop is heard at the next call: nothing else ends
\* a script, so this says nothing of one that computes for ever.
CallsReturn ==
  MutexComesFree => \A r \in Runs : (pc[r] \in Asking \cup Polling) ~> (pc[r] = "eval")
=============================================================================
