---------------------------- MODULE PtySessions ----------------------------
(***************************************************************************)
(* PtyManager of src-tauri/src/pty/manager.rs: the table of sessions under *)
(* its one mutex, the shells, and the reader thread of each session.  Of a *)
(* terminal's data nothing is kept but whether a write finds room.  The    *)
(* shell (alive) and its side of the terminal (tty) are outside the        *)
(* program: a shell may end some time before its terminal closes, and may  *)
(* close the terminal and run on.  resize and get_cwd take the mutex and   *)
(* change nothing of this, so they are not actions.                        *)
(***************************************************************************)
EXTENDS Naturals, FiniteSets

CONSTANTS
  Sessions,     \* session ids
  Writers,      \* who writes to terminals: the window, and script runs
  MaxSessions,  \* MAX_SESSIONS
  MaxSpawners   \* how many calls of pty_spawn the window has in flight

ASSUME PtyAssumption ==
  /\ IsFiniteSet(Sessions)
  /\ MaxSessions \in Nat \ {0} /\ MaxSpawners \in Nat \ {0}
  /\ "reader" \notin Writers

VARIABLES
  sessions,  \* the keys of the table
  lock,      \* Free, or <<who, s>>: the mutex held across a blocking call for
             \* session s, by a writer or by the reader thread of s
  stage,     \* [Sessions -> how far spawn() and then the reader thread are]
  alive,     \* [Sessions -> the shell runs]
  tty        \* [Sessions -> somebody has the shell's side of the terminal open]

ptyVars == <<sessions, lock, stage, alive, tty>>

Free == <<>>

Spawning == {"checked", "started"}
Threaded == {"reading", "ended", "reaping", "done"}  \* the id was returned
Stages   == {"none", "failed", "inserted"} \cup Spawning \cup Threaded

PtyTypeOK ==
  /\ sessions \subseteq Sessions
  /\ lock \in {Free} \cup ((Writers \cup {"reader"}) \X Sessions)
  /\ stage \in [Sessions -> Stages]
  /\ alive \in [Sessions -> BOOLEAN] /\ tty \in [Sessions -> BOOLEAN]

Spawners == {s \in Sessions : stage[s] \in Spawning}
Unlocked == lock = Free

PtyInit ==
  /\ sessions = {} /\ lock = Free
  /\ stage = [s \in Sessions |-> "none"]
  /\ alive = [s \in Sessions |-> FALSE] /\ tty = [s \in Sessions |-> FALSE]

-----------------------------------------------------------------------------
(* spawn(): the limit is checked under the mutex, which is then given up   *)
(* until the session is put into the table.                                *)

SpawnChecked(s) ==
  /\ Unlocked /\ stage[s] = "none"
  /\ Cardinality(Spawners) < MaxSpawners
  /\ Cardinality(sessions) < MaxSessions
  /\ stage' = [stage EXCEPT ![s] = "checked"]
  /\ UNCHANGED <<sessions, lock, alive, tty>>

\* Validation, openpty() or spawn_command() fails: nothing has been started.
SpawnRefused(s) ==
  /\ stage[s] = "checked"
  /\ stage' = [stage EXCEPT ![s] = "failed"]
  /\ UNCHANGED <<sessions, lock, alive, tty>>

SpawnStarted(s) ==
  /\ stage[s] = "checked"
  /\ stage' = [stage EXCEPT ![s] = "started"]
  /\ alive' = [alive EXCEPT ![s] = TRUE] /\ tty' = [tty EXCEPT ![s] = TRUE]
  /\ UNCHANGED <<sessions, lock>>

\* The reader or the writer cannot be had: the terminal is dropped, the shell
\* is left to its hangup signal.
SpawnAbandoned(s) ==
  /\ stage[s] = "started"
  /\ stage' = [stage EXCEPT ![s] = "failed"] /\ tty' = [tty EXCEPT ![s] = FALSE]
  /\ UNCHANGED <<sessions, lock, alive>>

SpawnInserted(s) ==
  /\ Unlocked /\ stage[s] = "started"
  /\ sessions' = sessions \cup {s} /\ stage' = [stage EXCEPT ![s] = "inserted"]
  /\ UNCHANGED <<lock, alive, tty>>

SpawnReturns(s) ==
  /\ stage[s] = "inserted"
  /\ stage' = [stage EXCEPT ![s] = "reading"]
  /\ UNCHANGED <<sessions, lock, alive, tty>>

-----------------------------------------------------------------------------
(* The reader thread.  The exit event is sent on the step to "done".       *)

ReaderEnds(s) ==
  /\ stage[s] = "reading" /\ ~tty[s]
  /\ stage' = [stage EXCEPT ![s] = "ended"]
  /\ UNCHANGED <<sessions, lock, alive, tty>>

\* Mutation: the thread ends at once when the session was closed already.
ReaderRemovesOwn(s) ==
  /\ Unlocked /\ stage[s] = "ended" /\ s \in sessions
  /\ sessions' = sessions \ {s}
  /\ stage' = [stage EXCEPT ![s] = "reaping"] /\ lock' = <<"reader", s>>
  /\ UNCHANGED <<alive, tty>>

\* The session leaves the table; child.wait() keeps the mutex while the shell
\* runs on.  A session that close() removed has nothing to wait for.
ReaderRemoves(s) ==
  /\ Unlocked /\ stage[s] = "ended"
  /\ sessions' = sessions \ {s}
  /\ \/ /\ s \in sessions /\ alive[s]
        /\ stage' = [stage EXCEPT ![s] = "reaping"] /\ lock' = <<"reader", s>>
     \/ /\ ~(s \in sessions /\ alive[s])
        /\ stage' = [stage EXCEPT ![s] = "done"] /\ lock' = lock
  /\ UNCHANGED <<alive, tty>>

ReaderReaps(s) ==
  /\ stage[s] = "reaping" /\ ~alive[s]
  /\ stage' = [stage EXCEPT ![s] = "done"] /\ lock' = Free
  /\ UNCHANGED <<sessions, alive, tty>>

-----------------------------------------------------------------------------
(* write(): the mutex is kept while the terminal has no room.              *)

\* The text is taken at once; only the answer shows it.  A terminal that the
\* shell has closed may take it still, or refuse it.
WriteTaken(s) == Unlocked /\ s \in sessions /\ UNCHANGED ptyVars

WriteFails(s) == Unlocked /\ ~(s \in sessions /\ tty[s]) /\ UNCHANGED ptyVars

WriteBlocks(w, s) ==
  /\ Unlocked /\ s \in sessions /\ tty[s]
  /\ lock' = <<w, s>>
  /\ UNCHANGED <<sessions, stage, alive, tty>>

\* The shell reads, or nobody will any more.
WriteReturns(w, s, taken) ==
  /\ lock = <<w, s>> /\ (tty[s] => taken)
  /\ lock' = Free
  /\ UNCHANGED <<sessions, stage, alive, tty>>

-----------------------------------------------------------------------------
(* close() and, when the window is closed, close_all().  kill() returns    *)
(* when the shell is dead or has been sent SIGKILL.                        *)

Close(s) ==
  /\ Unlocked /\ s \in sessions /\ stage[s] \in Threaded
  /\ sessions' = sessions \ {s} /\ alive' = [alive EXCEPT ![s] = FALSE]
  /\ UNCHANGED <<lock, stage, tty>>

\* Mutation: the table is emptied without the shells being killed.
CloseAllForgets ==
  /\ Unlocked /\ sessions' = {}
  /\ UNCHANGED <<lock, stage, alive, tty>>

CloseAll ==
  /\ Unlocked
  /\ sessions' = {}
  /\ alive' = [s \in Sessions |-> alive[s] /\ s \notin sessions]
  /\ UNCHANGED <<lock, stage, tty>>

-----------------------------------------------------------------------------
(* The world outside.                                                      *)

ShellExits(s) ==
  /\ alive[s] /\ alive' = [alive EXCEPT ![s] = FALSE]
  /\ UNCHANGED <<sessions, lock, stage, tty>>

TerminalCloses(s) ==
  /\ tty[s] /\ tty' = [tty EXCEPT ![s] = FALSE]
  /\ UNCHANGED <<sessions, lock, stage, alive>>

SessionStep(s) ==
  \/ SpawnChecked(s) \/ SpawnRefused(s) \/ SpawnStarted(s) \/ SpawnAbandoned(s)
  \/ SpawnInserted(s) \/ SpawnReturns(s)
  \/ ReaderEnds(s) \/ ReaderRemoves(s) \/ ReaderReaps(s)
  \/ Close(s) \/ ShellExits(s) \/ TerminalCloses(s)

WriterStep(w, s) == WriteBlocks(w, s) \/ \E taken \in BOOLEAN : WriteReturns(w, s, taken)

PtyNext ==
  \/ \E s \in Sessions : SessionStep(s) \/ \E w \in Writers : WriterStep(w, s)
  \/ CloseAll

-----------------------------------------------------------------------------
(* What the table promises.                                                *)

InTable == {"inserted", "reading", "ended"}

\* An entry of the table has a reader thread that will remove it, and, when the
\* mutex is free, a session that left the table has left no shell behind.  The
\* entry is made by spawn() (manager.rs:263) and removed by close(), close_all()
\* and the reader thread, in any order.
TableMatchesShells ==
  /\ \A s \in sessions : stage[s] \in InTable
  /\ Unlocked => \A s \in Sessions \ sessions :
                   stage[s] \in {"inserted"} \cup Threaded => ~alive[s]

\* The two locks of spawn() let the table grow past its limit, but by no more
\* than the calls that passed the check together (manager.rs:117).
SessionsBounded == Cardinality(sessions) <= MaxSessions + MaxSpawners - 1
=============================================================================
