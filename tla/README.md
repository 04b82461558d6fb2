# Putz: TLA+ specifications and proofs

Putz is a desktop terminal (Tauri: a Rust process and a TypeScript/React window) whose
tabs can run AI agents that coordinate through a local *swarm* service.  This directory
holds the specifications of its concurrent and its stateful parts, the TLC configurations that
model-check them on small instances and the proofs that TLAPS checks for every
value of the constants.

    tlc -config SwarmRegistry.cfg MCSwarmRegistry           # one run of the table below
    tlapm SwarmRegistryProofs.tla                           # the proofs of one module

## 1. Inventory

| Part | Source | State | Operations | Talks to |
|---|---|---|---|---|
| Swarm coordinator | `src-tauri/src/swarm/coordinator.rs` | `Inner` behind one `RwLock`: `by_id`, `by_conn`, `by_tab`, `last_eviction`, `claims`, `roster_dirty`; the throttle slot; the lifecycle mutex | `start`, `stop`, `register`, `disconnect`, `heartbeat`, `notify`, `send_to`, `try_claim`, `release_claim`, `update_status`, `sweep_once`, `sweep_expired_claims` | connection tasks call it; it sends on their back-channels |
| Socket listener and connection tasks | `swarm/socket.rs` | in-flight counter, two cancellation tokens, one bounded back-channel per connection | accept loop, `handle_connection`, reader, writer | coordinator; Node clients |
| Node client | `extensions/copilot-swarm/src/{registry,socket}.mjs` | `_sock`, `_registered`, `_stopped`, the reconnect timer, the heartbeat, `_pending`, roster, claim cache, inbox | `start`, socket events, frames, `request`, `shutdown` | coordinator; the agent's tools |
| Node extension | `extensions/copilot-swarm/src/{extension,tools,hooks}.mjs` | nearly none | tool calls, hooks | client |
| Swarm wire format | `swarm/wire.rs`, `protocol.mjs` | decoder buffer | encode, decode | both ends of the socket |
| Swarm front end | `src/hooks/useSwarmRoster.ts`, `src/lib/swarm/*` | roster, last status sent, inbox | refresh, push, spawn | IPC commands and events |
| PTY sessions | `src-tauri/src/pty/*` | session table, one reader thread per session | create, write, resize, close | window events; the shell |
| Terminal front end | `src/components/Terminal/*` | xterm instance, command blocks | attach, dispose, OSC marks | PTY events, status pipeline |
| Scripting | `src-tauri/src/scripting/*` | run table, engine thread and command thread per run, script index and files | run, stop, save, delete, record | PTY, window |
| Layout, tabs, workspaces | `src/stores/layoutStore.ts`, `workspaceStore.ts`, `src/utils/layoutPersistence.ts` | split tree, region map with tabs, PTY calls under way, saved layout per workspace, debounce timer | add, close, move, activate, split, materialize, switch, capture, boot | PTY sessions, React's mounts, localStorage |
| Bookmarks | `src/stores/bookmarksStore.ts`, the bar and the panel | bookmarks, folders, commands, groups, one `sortIndex` each | add, remove, move, reorder, drag, export, import | localStorage, panel, bar |
| Canvas editor | `src/lib/canvas/engine/**` | expressions, their order, layers, undo and redo stacks, the gesture under way, clipboard | edit, delete, group, nest, reorder, drag, undo, paste, load, import | pointer, keyboard, the draw.io tab |
| Draw.io tab | `src/components/DrawioEditor/DrawioEditor.tsx` | pages, page shown, cache of left pages, remembered mtime | load, check, reload, save, switch and add pages | file commands; other programs that write the file; the canvas store |
| Broadcast, settings, theme, highlight | stores under `src/stores`, `src-tauri/src/{theme,highlight}` | JSON documents | edit, save | IPC |
| Shell integration installer | `src-tauri/src/shell_integration` | marked block in an rc file | install, uninstall | the user's files |

How they interact.  A client connects to the Unix socket; the listener spawns a task
that has to see a `register` frame within a deadline.  `register()` enters the colleague
in the coordinator's maps, evicting the colleague that was bound to the same tab.  From
then on the reader task dispatches one frame after the other to the coordinator, and a
writer task drains the colleague's back-channel.  Claims (advisory leases on resource
names) change under the coordinator's lock and are announced to every colleague, mostly
after the lock has been dropped.  A sweep task evicts silent colleagues and drops expired
claims.  A status that the terminal reports goes through `update_status` and a coalescing
throttle to every colleague's roster.

What is hard, and where the properties aim:

- **Coordinator**: three indices kept in step by hand on four paths; a replaced
  connection whose `disconnect()` runs after its colleague has registered again; a
  handshake that outlives `stop()`; limits checked after an eviction; claims whose holder
  is gone; takeover of an expired claim before it is swept.
- **Listener**: a counter that the loop increments before it tests it and the handlers
  decrement whenever they like; a writer that dies alone; clients that do not read.
- **Claim announcements**: several tasks announcing different changes at once, each after
  its lock.
- **Status throttle**: a flag, a slot and a task changed under three locks, and cancelled
  by `stop()`.
- **Node client**: callbacks that do not say which socket they belong to; reconnect timer
  against `shutdown()`, kick and a second `start()`; answer against timeout against close.
- **PTY**: limit tested and used under different locks; `close`, `close_all` and the reader
  thread removing one session in any order; `child.wait()` and blocking writes under the table's
  lock.
- **Scripting**: three threads and two channels per run, over a session that anybody may close; a
  handler task that leaves after a quiet 100 ms; output that arrives before the script looks for
  it; files and index that a crash or an error can leave different.
- **Front end**: overlapping asynchronous refreshes; a value noted as sent before it was;
  a tree and a tab table that must agree.

- **Layout**: a shell is started with an `await`, and its answer meets a layout that has
  changed; a restored terminal is woken from two sides; workspaces are captured in the middle
  of that; the layout on disk follows through a debounce.
- **Canvas**: one document, two stacks of snapshots and gestures that change the document
  outside the stacks; references (bindings, parents, order) that every operation, every
  snapshot and the clipboard must keep whole.
- **Draw.io tab**: pages, their cache and the canvas store hold one document together; a file
  that is read, stamped, written and stamped again while others write it.
- **Bookmarks**: four kinds of items share one numbering, renumbered by hand from several places.

`PROJECT.json` lists all parts, also those no module is about, and each hazard at its line.

## 2. Modules

| Module | What it models | Extends |
|---|---|---|
| `SwarmRegistry` | the coordinator's tables: lifecycle, connection tasks as callers, registration, claims, sweep | |
| `SwarmLease` | abstract: what a claim table promises its users | |
| `SwarmCache` | the registry composed with the frames its changes cause, the back-channels and the colleagues' claim caches | `SwarmRegistry` |
| `SwarmListener` | accept loop, in-flight counter, handler, reader, writer, tokens | |
| `SwarmRoster` | status updates, throttle, rosters | |
| `SwarmClient` | the Node client against a coordinator that comes and goes | |
| `WindowLayout` | regions, tabs, split tree, the shells behind the tabs | |
| `Workspaces` | workspaces over that layout: switch, capture, snapshot, restart | `WindowLayout` |
| `CanvasStore` | the canvas document, history, clipboard and pointer gestures | |
| `CanvasTimeline` | abstract: what undo and redo promise | |
| `Bookmarks` | bookmarks, folders, commands, groups and their order | |
| `DrawioEditor` | one draw.io tab and the file behind it | |
| `PtySessions` | the session table under its mutex, spawn, reader threads, shells and terminals | |
| `ScriptRun` | script runs over those sessions: script thread, handler task, listener, stop | `PtySessions` |
| `MC*` | model values and symmetry for TLC | the module it is named after |
| `*Proofs` | theorems | the module it is named after, `TLAPS` (`SwarmRegistryProofs`: `SwarmCache`, and so also `SwarmRegistry`; `SwarmListenerProofs`: also `SwarmRoster`) |

### SwarmRegistry

One action per critical section (one holding of the `RwLock`).  `by_id` is the functions
`tabOf`, `connOf`, `status`, `age`: colleague `i` is in the map when `connOf[i] # None`.
`claims` is `holder` and `ttl`.  Instants are kept as distances to now: `age` counts up to
`DeadAge` and stops there, `ttl` and `cooldown` count down to 0, and `Tick` moves them all,
so the state space is finite without a bound on time.

`register()` is three actions, one per outcome, and each contains the whole handler: the
rate limit leaves everything alone; the two refusals (registry full, colleague bound to
another tab) come *after* the eviction of the tab's former colleague and leave that
eviction behind; success enters all three maps.  `disconnect()` is two actions because it
gives the lock up in between.  `stop()` is the token (`StopBegin`), the end of the two background
tasks, and `StopClear`.  `Accept` may still happen after the token has fired, since the
loop's `select!` is free to take the connection.  `send_to` and `broadcast_notify` change only
`last_seen`; `Notify` stands for them.  Names, capabilities and messages are left out.

### SwarmCache

Each action is an action of `SwarmRegistry` with the frames it causes.  `outbox[w]` holds
what task `w` has collected under the lock and has still to `try_send`; the releases of an
eviction are pushed under the lock, as in the code.  `freed` carries the claims between the
two locks of `disconnect()`.  A frame is a resource and a holder (`None` for a release, whose holder the
client ignores).  `overlapped` and `lost` are history variables: a change was made while
another was being announced, and a full back-channel dropped a frame.

### SwarmListener

`Reserve` is `fetch_add`, and `ticket` its result; `Drop` and `SpawnHandler` follow.
`GuardDrop` is the `Drop` of `InflightGuard`, armed or disarmed.  The handler goes through
`handshake`, `ack`, `serving`, `closing`, `draining`; the writer runs beside it.  Writing the
ack has neither timeout nor token, so `AckWritten` and `AckFailed` wait for the client.

### SwarmRoster

`UpdateStatus` and `Schedule` are the two critical sections of one call; a throttle task
sleeps, wakes, collects under the lock and sends one colleague after the other.  `Stop`
aborts a sleeping task only: one that has woken runs on, as tokio's `abort` allows.  The
status snapshot is one abstract value.  `Wake` assumes that sending one roster to at most
`MAX_COLLEAGUES` channels with `try_send` takes less than the debounce of the next task.

### SwarmClient

One action per callback on the Node event loop.  `cur` is `_sock`; the actions use it exactly
where the code does, so an event of one socket acts on whichever socket `_sock` then is.
`timers` counts the armed timers and `tracked` is `_reconnectTimer # null`: the two can
differ, and that is what a second `start()` would exploit.  `MaxStarts` bounds the calls of `start()`.

### WindowLayout and Workspaces

The split tree is kept as the sequence of its leaves: splitting puts a leaf next to another,
removing one lets its sibling take the place; directions and ratios say nothing about which
tabs there are.  An operation that starts a shell is two actions, one up to the `await` and
one for the answer (`AddTerminalTab` and `AddTerminalTabDone`, `SplitRegion` and
`SplitRegionDone`, `Wake` and `MaterializeDone` or `SpawnFailed`).  `spawns` holds the calls
between the two with what the code captured before the `await`, the old layout of a split
among them: `torn` records that such a split replaced a layout it had not seen.  `live` and
`exited` are the PTY manager's sessions; `ShellExits` is heard only by a mounted terminal.

`Workspaces` adds the saved layouts.  The workspace store writes itself to localStorage at
each change, so `savedLayout` is also what a crash leaves.  `Restart` is a crash at any point
followed by the boot code: shells are dead, terminals become pending, placeholders mount one
after the other (`MountStep`).  Only the workspace on the screen is rendered: the placeholders of
another one wait in `unmounted` until it is switched to.  `ScheduleAutoCapture` is part of every action, as the store
subscription is.

`savedLayout` is a function on the workspaces that have been saved (`null` in the code is a workspace
outside its domain); `WindowOf` is what each workspace would show now, the screen for the active
one.  Ids are UUIDs, so an operation takes a new id from those nothing refers to any more
(`FreshTabs`, `FreshSessions`, `FreshRegions`), the layouts that splits under way remember and the calls for tabs
that have gone included; `OneOf` takes any one of them, since they are alike.  Where the finite instance has
none left the operation does not happen.  `Boots` is what localStorage may hold at first, anything
`captureLayoutState` can have written (`BootsAssumption`).

### CanvasStore

An expression has a place, the rest of its look, a binding, a parent and a layer; two
expressions at one place overlap, contain each other or snap.  An operation is one action,
its snapshot, its flags and its trailing normalisation included.  A pointer gesture is
`Press`, any number of `Preview`s (which change the document and not the history) and an end
(`EndMove`, `EndResize`, `EndPoint`); keyboard shortcuts may come in between, since the code
keeps the gesture in a ref of its own.  `CanvasTimeline` is the abstract specification: one
timeline of documents with a cursor.  The refinement maps the undo stack, the document and the
reversed redo stack to it.  A paste or a duplicate of more than `MaxHistory` copies records more
documents than are kept, so that nothing leads back to the one it started from: `Overrun` of
`CanvasTimeline` says so.  (The proof of the refinement found this; the run never adds more than
`MaxHistory` at once.)  `Files` are documents the application can have written: their order, bindings
and parents hold together (`FilesAssumption`), and the ids they mention count as handed out.  The
cells of an imported draw.io file have no parent.

### Bookmarks

`items` maps an id to its container (`in`), its `sortIndex` (`at`) and its row in the store's array
(`row`), by which equal indexes are sorted (`Before`), since JavaScript's sort is stable.
Renumbering, "next index", the index the bar computes from a drop (`DropIndex`) and the one the
panel computes are operators.  A path is its own id, since the store refuses a path twice.

`importBookmarks` checks a file item by item and nothing between the items: a bookmark may name
a folder that is nowhere, and items may share an index or have a negative one
(`bookmarksStore.ts:1040`).  `Import` therefore takes any file of `Imports` in place of the bookmarks
and folders (the commands stay), and `FilesAssumption` asks of a file and of what is on disk (`Boots`)
only that each item is well-formed and that the rows are those of arrays.  The exported file is
the store's own and is not kept in the model.

### DrawioEditor

A page is one abstract value; `doc` is the document the user believes to edit, kept by the
edits alone.  `calls` is the queue of file commands: a load is a read and a stat, a save a
write and a stat, a check a stat that may lead to a load.  Each of them may be rejected: the file
is missing or is not text, or the write fails at once or half way.  A failed load shows the error
and keeps `lastMtime` (`LoadFails`), a failed check does nothing, a failed write or stat of a save is
logged.  `OtherWrites` is another program, which writes anything, or deletes the file.  A write
leaves *any* mtime of `1..MaxMtime`, equal to the former one or lower: `editor.rs:59` truncates to
milliseconds, and a copy can keep an older time.  `base` is a history variable: the file that
`lastMtime` was remembered for, whether the file was written between the call and its stat
(`raced`), and whether its last write left an mtime that no check can see (`quiet`).

### PtySessions and ScriptRun

`lock` is free or held across a blocking call: a write for which the terminal has no room, or the
`child.wait()` of a reader thread.  Everything else under the mutex is one action.  `stage` is how
far `spawn()` has come with a session and then its reader thread; `alive` and `tty` are the shell
and its side of the terminal, which end in any order, as processes do.  Of the output only its
arrival is kept.

`ScriptRun` composes this with runs.  The script may make any call at any time, catch every error
and end as it likes.  A call checks for a stop (`CallBegins`), then converts its arguments, and only
then acts (`CallSend`, `CallSendAndCapture`, `CallWaitFor`, `CallSleep`): the conversion runs script
code (`toString`), which may make further calls, so `stack` holds the calls under way, and a stop
may come while any of them is between its check and its command.  A call that needs the handler task puts a command into the channel
(`Ask`) and waits (`Answered`); the handler takes it, and its write or close is the one of
`PtySessions`, blocking included.  The task leaves in two steps (`HandlerQuiet`,
`HandlerLeaves`), because a command may be sent after `recv_timeout` has given up and before
the receiver is dropped.  `owed`, `begun`, `late` and `reply` are history
variables; `begun` is the set of sends under way at the first stop, `late` those whose text was written
after it.

## 3. Runs

| Run | Instance | Shows |
|---|---|---|
| `registry` | 2 ids, 2 tabs, 2 connections, 1 resource, `MAX_COLLEAGUES` 1, `MAX_CLAIMS` 1 | `TablesBounded`, `IndexConsistent`, `OldConnectionHarmless`, `OrphanClaimFreed`, `SilentColleagueLeaves`, `StopDrains`, and that `SwarmRegistry` refines `SwarmLease` (`ImplementsLease`) |
| `listener` | 3 connections, cap 2, channel 2 | `HandshakesCapped`, `StopEndsServed` |
| `cache_serial` | 2 ids, 2 tabs, 2 connections, 1 resource, channel 1 | `CachesConvergeSerially` |
| `client` | 2 sockets, 3 requests, cap 2 | `SingleConnection`, `WaitsOnConnection`, `ClosedIsTerminal`, `RequestsSettle`, `Reconnects` |
| `roster` | 2 colleagues, 2 updaters, 3 tasks, 3 values | `DirtyIsScheduled`, `UpdatesReachEverybody` |
| `workspaces` | 2 workspaces, 5 regions, 6 tabs, 5 sessions, 2 user operations or restarts | `TypeOK`, `LayoutConsistent`, `NoTabLosesItsShell`, `DiskFollowsStore`, `OnlyStrandedAreDead`, `PendingTabsWake` |
| `canvas` | 5 expressions, 1 group, 2 layers, 2 places, history 2, 3 user operations | `HistoryConsistent`, `OrderCoversDoc`, `NoDanglingReference`, `ParentsAcyclic`, and that `CanvasStore` refines `CanvasTimeline` (`WalksTimeline`) |
| `bookmarks` | 3 paths, 2 folders, 2 commands, 1 group, 2 files to import, 3 operations | `OnlyImportsHide`, `OnlyImportsTie`, `MovesAsAsked`, `ChildrenKeepTheirOrder` |
| `drawio` | 3 pages, 2 mtimes, 2 file calls in flight, 4 steps of users and other programs | `PagesMakeDocument`, `StaleOnlyIfRacedOrQuiet`, `ChangeIsLoaded` |
| `scripts` | 1 session, 1 run of 3 calls, the window | `TableMatchesShells`, `SendsReportTruly`, `AnswersAreHeard`, `ExitReported`, `CallsReturn` |

Each module has a type invariant.  The run of `Workspaces` checks its; most of the others are part
of the inductive invariants of section 4, that of `CanvasStore` in the stronger form `CanvasInv`.

Two more runs, `registry_orphan_claims` and `drawio_wipe`, each find the one property
violated that a comment of the code states.  They are the findings of section 5.

### Bounds

- *Ids, tabs, connections.*  The hazards of the tables need a colleague, its successor on the
  same tab and an old connection that is still closing: two ids, two tabs and two connections
  contain that.  A registry can only be full when there are more tabs than slots, so it has one
  slot.  A finished connection's slot is used again, so the number of connections over a behaviour
  is not bounded.  The safety properties are theorems, for any number of each.
- *Sessions and runs.*  `scripts` has one session, since the liveness check of two takes too long:
  its hazards are between the actors of one session and the mutex they share.  The invariants are
  theorems for any numbers; TLC also found them to hold with two sessions, two spawns at once and
  a script of two calls.  `MaxCalls` 3 is a call before, one while and one after the handler task
  leaves, and also a send whose argument sends, around a stop.
- *Time.*  `StaleAge` 1, `DeadAge` 2, `MinTtl` 1, `MaxTtl` 2, `EvictionGap` 1: every order of
  the deadlines occurs.  In `cache_serial` the TTL is 1, so that expiry does happen.
- *Channels.*  A capacity of 1 or 2 makes overflow happen at once.
- *Counters.*  `MaxStarts`, `MaxJoins` and `MaxUpdates` are the only bounds in the guards of the
  swarm modules; the two of `SwarmRoster` allow a colleague to leave and come back while an
  update is in flight.
- *User operations.*  `MaxOps` and `MaxSteps` bound what the user (or another program) does in
  a behaviour; the environment (answers, mounts, timers, pointer moves, file calls) is not
  counted.  The documents, layouts and stores a behaviour starts from are therefore rich: a
  saved drawing with a bound arrow and a container that is loaded, two saved workspaces with
  two regions, a bookmark store with folders and clashing indexes, files to import with a bookmark
  whose folder is nowhere and with equal and negative indexes.  `MaxSpawns` allows one
  shell of a user operation to be under way, besides those of restored terminals; `MaxCalls`
  two chains of file calls, `MaxMtime` 2 an mtime that is older than, equal to or newer than another.  With `MaxHistory` 2 the third step overflows the undo stack.
- `CHECK_DEADLOCK FALSE` is used where the system may stop: the listener after its token, the
  client after `closed`, the window, canvas, bookmarks and draw.io tab when the user does
  nothing more (the bound on operations), the scripts when the session and the run are over.  In `cache_serial` it is needed because `SerialSpec` is restricted to
  the serial executions, some of which cannot go on.

Symmetry is used in runs without liveness only, over sets whose members no constant distinguishes.

### Fairness

- `SwarmRegistry`: time passes; the sweep timer and the background tasks' exits happen; a
  handshake ends (`REGISTER_DEADLINE`); a cancelled reader sees its token; `disconnect()` is
  run to its end.  All are steps of tokio tasks that wait for a timer, a token or the lock.
  Nothing is assumed of clients: none has to talk or hang up.  The write of the ack is
  assumed to finish here; `SwarmListener` is about the client that does not read it.
- `SwarmListener`: weak fairness for steps a task can take without its client, and strong
  fairness for `LoopExit`, because the loop's `select!` between the token and `accept` is
  random and sees the token again and again.
- `SwarmClient`: timers fire and the network reports each socket's fate; strong fairness for
  the ack of a register that is sent again and again (the backoff outgrows
  `TAB_EVICTION_MIN_INTERVAL`, and the registry is assumed not to stay full).
- `SwarmRoster`: tasks that can run do.  Nobody has to join, leave or report.
- `Workspaces`: a call of `pty_spawn` is answered, in the order of the calls
  (`AnswerStep(1)`), and React mounts the placeholders it has rendered (`MountStep`).  The
  debounce timer needs no fairness: `DiskFollowsStore` speaks of what holds once it has fired.
- `DrawioEditor`: file commands are answered (`Serve`).  The user does not have to do anything.
- `ScriptRun`: weak fairness for what a thread can do by itself, strong fairness for taking the
  mutex, which others take and give up in between.  Nothing is assumed of shells, terminals, users
  and scripts: a script may compute for ever.  Both liveness properties are stated under
  `MutexComesFree`, because a blocked write or a child that does not end keeps the mutex.
- `CanvasStore` and `Bookmarks` have no liveness property: everything in them is one
  synchronous call.

### What the positive runs do not say

`CachesConvergeSerially` is about executions in which changes of the claim table are
announced one at a time and no frame is lost; outside them caches do diverge, and nothing
repairs them until the next frame about the same resource.
`StopEndsServed` speaks of connections past their ack only: the write of the ack watches no token.
It needs the reader's token and not the writer's: `Disconnect` closes the channel, so a writer that
watched no token would end too.
`UpdatesReachEverybody` gives up once a back-channel has overflowed (`lost`).
`SingleConnection` holds for a client started once (`MaxStarts` 1).
`LayoutConsistent` and `NoTabLosesItsShell` stop where a split has put an old layout back
(`torn`), which the code does: `splitRegion` builds the tree from what it read before the `await`.
`NoDanglingReference` leaves out what came from the clipboard: a pasted copy keeps the binding
and the parent of its original, whether they are there or not.
`WalksTimeline` allows what the code does: unrecorded changes of the present (z-order, layers,
previews), a refused update that forgets what could be redone, and a gesture whose recorded start
is not what was on the screen last.
`OnlyImportsHide` and `OnlyImportsTie` are about everything but an import: a file does bring
bookmarks that no list shows and items that share an index, and the store keeps them.  The lists
of the second are the root, each folder and all commands; commands and groups do share indexes with
bookmarks.
`MovesAsAsked` is about the place that the store is handed.  The bar and the panel count other
items than the store and may hand over another place than the one the user drops on (section 5).
Import aside, an item moves alone even among equal indexes, because renumbering sorts as the lists do.
`SendsReportTruly` does not say that at most one text follows a stop: a `toString` may send while
the send it is an argument of is under way, and each send under way may still write.
`CallsReturn` is about calls that have their arguments: `stop()` ends neither a script that makes no
call nor a conversion that computes for ever.  `CallsReturn` and `ExitReported` assume that the mutex
comes free; no property is about a call that keeps it for ever.
`AnswersAreHeard` is about `sendAndCapture`; what comes between `send` and `waitFor` can be lost.
`StaleOnlyIfRacedOrQuiet` names the two ways to be stale that the code cannot exclude: a write between a
file call and its stat, and a write that leaves an mtime not above the remembered one.  Both happen.
`ChangeIsLoaded` is about what a check is going to see; it ends when an older file or none takes the
place of the change, or when the load fails and the tab shows the error, which it keeps.
`OrderCoversDoc` compares sets: an id twice in the order is not noticed.
`PendingTabsWake` is about the workspace on the screen.

## 4. Theorems

| Theorem | Says | Inductive invariant |
|---|---|---|
| `IndexSafety` | `by_id`, `by_conn`, `by_tab` always describe the same colleagues | `IndexInv` |
| `OldConnectionIsHarmless` | the `disconnect()` of one connection never harms a colleague served by another | `IndexInv` |
| `TablesStayBounded` | the two tables stay within their caps | with finiteness of the tables |
| `RegistryImplementsLease` | every behaviour of the coordinator is one of `SwarmLease` | `TypeOK`, `IndexConsistent` |
| `ListenerTypeCorrect`, `SlotsAreCovered`, `HandshakesAreCapped` | the counter covers the handshakes, never wraps, and the cap holds | `SlotInv` |
| `ChangesAreScheduled` | a status change is never forgotten | `DirtyInv` |
| `OneConnection`, `RequestsWaitOnConnection`, `ClosedStaysClosed` | the client's invariants, for a client started once | `ClientInv` |
| `DrawioTypeCorrect`, `SavesTheDocument` | what a save would write is the document the user has edited | `DrawioInv` |
| `NoThirdWayToGoStale` | a file that a check would not load is the one loaded or saved, or a write fell between a call and its stat, or its last write left an mtime no check can see | `DrawioInv` |
| `CachesConverge` | as long as no frame is lost and changes do not overlap, a colleague to whom everything has arrived agrees with the claim table | `CacheInv` |
| `BookmarksTypeCorrect` | items stay well-formed, the rows of each array distinct, whatever is imported | `TypeOK` |
| `NothingElseHides`, `NothingElseTies` | no step but an import makes a bookmark disappear from all lists, or two items of a list share an index | `TypeOK` |
| `EveryMoveIsAsAsked`, `ChildrenStayInOrder` | a move puts its item where the store is told and changes no other order, equal indexes included; the children of a removed folder come last, in their order | `TypeOK` |
| `InductiveInvariant`, `TypeCorrect` (canvas) | document, snapshots, gesture, clipboard and layers stay what they are | `CanvasInv` |
| `HistoryHolds`, `OrderHolds`, `ReferencesHold`, `ParentsHold` | the canvas invariants of the run, for any number of expressions and any `MaxHistory` | `CanvasInv` |
| `TimelineWalked` | every behaviour of the canvas store is one of `CanvasTimeline` | `CanvasInv` |
| `InductiveInvariant`, `TypeCorrect` (`WorkspacesProofs`) | every window and every snapshot is well formed, on the screen, behind it and on disk | `WsInv` |
| `LayoutStaysConsistent` | tree and map of regions agree until a split overwrites a layout it had not seen; no tab and no session is in two places, in any workspace | `WsInv` |
| `ShellsAreKept`, `DeadTabsWereStranded` | no tab loses its shell, and one without a shell was captured while its shell was being spawned | `WsInv` |
| `DiskFollows` | what the debounce timer has left on disk is what is on the screen | `WsInv` |
| `TableMatches` | an entry of the session table has its reader thread, and a session that left it left no shell behind | `PtyInv` |
| `TableStaysBounded` | the table outgrows `MAX_SESSIONS` by at most the concurrent spawns less one | `BoundInv` |
| `SendsAreReportedTruly`, `NoAnswerIsLost` | what a script is told of its sends is true, no text is written after a stop but by the sends that were under way, and a capture has what the terminal answered | `RunsInv` |

All rest only on the named assumptions of the constants (and `MaxStarts <= 1` for the
client: a second `start()` during the reconnect delay opens a second connection).

- **IndexInv.**  `IndexConsistent` is not inductive alone: a new connection could be given a
  key that is still in `by_conn`.  `BoundConnsActive` adds that a connection in `by_conn` is
  served or about to run `disconnect()`.  With that, an evicted connection has no entry any
  more, which is why its late `disconnect()` finds nothing: `OldConnectionIsHarmless`.
- **Lease refinement.**  The owner of a lease is the holder of an unexpired claim, the members
  are the registered colleagues.  Accepted registrations are `Join`, refused ones and
  departures `Leave`, claims `Grant`, releases, expiry and the passing of time `Lapse`; the
  rest stutter.  A takeover of an expired claim is a `Grant` of a free lease.
- **SlotInv.**  Between `fetch_add` and the test only handlers change the counter, and they
  only count down, so the ticket bounds the counter and exceeds the handshakes
  (`TicketCovers`).  If the ticket is within the cap, so is the number of handshakes after
  the spawn.
- **DirtyInv.**  The step that could lose a change is an update that finds the slot taken;
  `SlotIsAlive` says a taken slot names a task that has still to look at the flag.
- **ClientInv.**  `SingleConnection` counts; the proof uses `OneSocket`, the same fact in the
  form of quantifiers (at most one socket, and it is `_sock`; no armed timer beside it), from
  which the cardinality follows.

- **DrawioInv.**  `PagesMakeDocument` needs that only a document with a page can be edited
  (`EditableHasPages`), and both need that what a pending call carries is of its kind
  (`CallsOK`), which also says that a call that has been raced is marked so.  As long as the file has
  not been written since the stat, and not between the two calls, it is what `base` names.
- **Bookmarks.**  `TypeOK` is inductive, and nothing stronger is true of a store that has taken a
  file.  Its part `RowsApart` makes `Before` a strict total order of each list, ties included: the
  places of a list are exactly 0 to its length less one, which the proof takes apart as a bijection
  because `Place` counts the items before one.  Renumbering by `Place` therefore keeps the order and
  unties, and with it a move leads to the place asked for.  The next index exceeds every index of
  the list (`NextSortIndex`), so what is added or appended ties with nothing.
- **PtyInv, BoundInv.**  Which stages a session can be in when the mutex is held, and by whom, is
  part of `PtyInv`; it makes every step of `ScriptRun` a step of `PtySessions` or none
  (`ScriptStepsArePtySteps`), so the table's theorems hold below any runs.  The limit is proved by
  counting the table and the spawns that passed the check together.
- **RunsInv.**  It ties the script's place, the command in the channel and the handler's place
  together, and counts for each combination what is owed: one text while its answer is on the way.  The
  sends on the stack after a stop were under way at it, since no call begins after a stop.

- **CacheInv.**  `CachesConvergeSerially` looks at one moment, when everything has arrived.  What is
  kept is what every member *will* know: the last frame about a resource in its channel, or its
  cache where there is none (`Told`), agrees with the table, or a frame about it is still to be
  sent (`ToCome`); and what is to be sent is true (`AnnouncedRight`, `FreedGone`).  Sending and
  receiving a frame, and the batch of an eviction, then are lemmas about sequences
  (`ToldAppend`, `ToldReceive`, `ToldConcat`).  `SendersDone` says that a task that leaves the
  dispatch loop has nothing left to send and that nothing is addressed to a connection that has not
  registered: without it a stale frame could follow the snapshot of an ack.  The batch of an
  eviction can be listed because `BoundInv` keeps the claim table finite.
- **CanvasInv.**  The four invariants of the run are not inductive.  `HistInv` makes every snapshot
  as good as the document, since undo puts it back.  `DocInv` keeps to the ids handed out (`born`):
  without that a new id could be one that an old snapshot still mentions.  `ClipInv` says the
  same of the clipboard, whose copies outlive their originals; `NoDanglingReference` therefore
  speaks of what did not come out of it (the flag `clip`).  `DragInv` and `LayerInv` keep the gesture and the
  layers in their types.  `Acyclic` is stated with the ancestors
  of an expression as a recursive function; `ClearWays` turns it into the existence, for each
  expression, of a set that holds its way up and not itself, which the lemmas per kind of step
  (`Loosened`, `Extended`, `Overlaid`, `Nested`) keep.
- **WsInv.**  The five invariants of the run look at windows; none of them survives a step alone.
  A switch puts a snapshot on the screen, so every snapshot must be as good as the screen
  (`Behind`), and tabs must be once in all windows *and* in all that is saved, which differ for the
  active workspace.  A late answer puts a remembered layout back, so that the layouts in
  `spawns` must be trees of distinct regions too (`Calls`); only terminals have a session or
  wait for one (`Mute`), since a tab that kept one over a restart could share it with a running tab.  Layout operations,
  answers, mounts and exits of shells, sixteen kinds of step, are first reduced to the same three facts
  about the screen (`ScreenStep`): the tree is kept (`TreeKept`), each tab was there or is new
  (`TabsCame`), and what was closed is shown no more (`ShellsKept`).  `LayoutStepKeeps`
  derives the invariant of all workspaces from these alone.  Captures and disk reads are images of
  a window under a map of its tabs that keeps ids and at most drops sessions (`Echo`, `Image`); restarts
  are proved for every state, so that a crash at any point is covered.
- **Canvas refinement.**  Recorded operations are `Record` with one document, paste and duplicate
  with one per copy; z-order, layers and previews are `Amend`; undo, redo and loading move or
  restart the timeline.

Model-checked only: the liveness properties (`OrphanClaimFreed`, `SilentColleagueLeaves`, `StopDrains`,
`StopEndsServed`, `RequestsSettle`, `Reconnects`, `UpdatesReachEverybody`, `PendingTabsWake`,
`ChangeIsLoaded`, `ExitReported`, `CallsReturn`), since neither fairness nor `ENABLED` is
within the prover's reach.  Every other property of a passing run is a theorem.  No module declares a RECURSIVE operator.

## 5. Findings

| Run | What the code does | What it says |
|---|---|---|
| `registry_orphan_claims` | `sweep_once` evicts a silent colleague and keeps its claims, for up to 12 hours | claims of an evicted colleague "must be released immediately" (`coordinator.rs:558`) |
| `drawio_wipe` | Cmd+S before the first load is done, or after it failed, writes a file without a diagram | "saves back to .drawio XML on Cmd+S" what it has read (`DrawioEditor.tsx:4`) |

Seen on the way and kept in the models, without a run of their own:

- *Swarm.*  A handshake in flight while `stop()` runs registers in the cleared tables and
  leaves them later (`StopDrains` covers the end of it, `socket.rs:485`).  A client that does not
  read its ack keeps its task alive after `stop()` (`socket.rs:527`).  The in-flight guard is
  disarmed on success and never decrements, so that registrations use up the slots
  (`socket.rs:523`, against `:468`).  A writer that timed out leaves its reader serving
  (`socket.rs:557`, against `:605`).  Frames sent after the lock can overtake each other
  (`coordinator.rs:1157`, against `wire.rs:135`).  A second `start()` during the reconnect delay
  opens a second connection (`registry.mjs:130`, against `:128`).  Joins and leaves are not
  pushed (`coordinator.rs:635`, against `registry.mjs:229`).  A roster lists its recipient
  (`coordinator.rs:639`, against `registry.mjs:118`).
- *Window.*  A shell whose tab or region went away during its start runs on without a tab
  (`layoutStore.ts:392`, `:487`), as do those of a removed workspace (`workspaceStore.ts:401`).
  The exit of a shell in a background workspace is heard by nobody (`RegionView.tsx:314`).
- *Canvas.*  Point drags record the previewed state (`useManipulationInteraction.ts:730`); a
  refused update forgets what could be redone (`canvasStore.ts:574`); removing a layer is not in
  the history (`:1638`).
- *Bookmarks.*  An imported bookmark whose folder is nowhere is in the store and in no list
  (`bookmarksStore.ts:1040`).  A command dragged past a group, and a bookmark dropped between folders, land
  elsewhere than shown, since the bar and the panel count other items than the store
  (`BookmarksBar.tsx:1434`, `BookmarksPanel.tsx:467`).
- *Terminals and scripts.*  The handler task of a run ends at its first quiet 100 ms, so that a
  script that waits, sleeps or computes that long can send nothing any more
  (`scripting/manager.rs:295`); finished runs stay in the table and count against the limit, so
  that after 32 runs none starts (`:225`); `disconnect()` works after a stop (`engine.rs:475`);
  `waitFor` drops what came before it (`engine.rs:276`); a script without calls cannot be stopped
  (`:164`); a blocked write or `child.wait()` holds up every session (`pty/manager.rs:301`,
  `:536`).
- *Draw.io.*  A failed write is only logged (`DrawioEditor.tsx:252`); a reload discards unsaved
  edits (`:201`); the error of a failed load stays when a later load succeeds (`:142`); an mtime that
  is equal or older hides a change (`:196`).

## 6. Not modelled

- Rendering, menus, geometry, routing, the stencil catalogue and the draw.io format: no
  interleaving, and data that a bounded model would say nothing about.  They are most of the
  TypeScript of the repository.
- Git graph, audio, Copilot and performance commands: stateless calls.
- Binding the socket and its file permissions; spawn recipes (data); logging.
- Terminal front end, swarm front end, shell integration, the script store and the keystroke
  recorder: not yet (section 7).  Their hazards: events may come before anybody listens
  (`pty/manager.rs:516`); the script index and the files may differ after an error or a crash
  (`scripting/manager.rs:135`, `:197`, `:449`); overlapping refreshes (`useSwarmRoster.ts:81`); a
  status noted as sent before it was (`statusPusher.ts:99`).
- PTY and scripts: the data, resizing, working directories, patterns, logs, `get_run_status`.
- Canvas: `applyLayout` (`canvasStore.ts:1977`) and `applyRemoteOperation` (`:736`), which nothing in
  the application calls; camera, tools, the selection as state, jetty and segment drags, rotation, layer
  visibility, presentation mode.  Window: titles, tab positions, ratios, pop-out windows, reordering
  within a region, migration of old snapshots.  Bookmarks: names, limits, migration, files
  that name an id or a path twice.
- Node client: the client that does not reconnect (`autoReconnect: false`, `registry.mjs:347`; the
  extension does not set it) and the catches of a frame that cannot be encoded (`:157`, `:542`).
- Hazards without a property: a duplicated id in the order of an imported canvas document
  and a mutex that is kept for ever (`PROJECT.json` says why).
- Within the swarm: message contents and routing, name and capability checks,
  the length of delays, the inbox ring, the client's event emission.

## 7. Plan

1. `SwarmSession`: `SwarmClient` composed with the coordinator's claims: answers after the
   timeout, claims lost by a reconnect.
2. `StatusPipeline`: the pusher, the coordinator, and the front end's overlapping refreshes.
3. `PtySessions` composed with the sessions of `WindowLayout`; the script store with crashes
   between its files.
4. `CommandBlocks`, the frame decoder, the installer.

Theorems to come: invariants of those compositions, and steps towards the liveness properties
that are invariants themselves (what must be under way while something is owed).
Each module keeps parameters as constants with named
assumptions, one action per operation and no RECURSIVE operator.
