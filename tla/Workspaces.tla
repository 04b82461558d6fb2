----------------------------- MODULE Workspaces -----------------------------
(* Workspaces over one window layout (workspaceStore.ts), the debounced    *)
(* capture of the layout, and the restoration after a restart              *)
(* (layoutPersistence.ts).  The workspace store writes all of itself to    *)
(* localStorage at every change, so that a restart finds what is in it.    *)
EXTENDS WindowLayout

CONSTANTS
  WorkspaceIds,
  Boots,          \* what localStorage may hold at first: [order, active, saved, fresh]
  MaxOps          \* bound: user operations and restarts in a behaviour

ASSUME WorkspaceAssumption == MaxOps \in Nat

VARIABLES
  order,          \* the workspaces, as listed
  activeWorkspaceId,
  savedLayout,    \* workspace -> snapshot, for those that have been saved
  saveTimer,      \* the debounce timer is armed
  stranded,       \* ghost: tabs captured while their shell was being spawned
  ops             \* bound

wsVars == <<order, activeWorkspaceId, savedLayout, stranded>>
vars   == <<layoutVars, spawns, ptyVars, unmounted, torn, wsVars, saveTimer, ops>>

OneEmptyRegion(r) == [layout |-> <<r>>, focused |-> r,
                      regions |-> [x \in {r} |-> [tabs |-> <<>>, activeTabId |-> None]]]

MapTabs(rs, Op(_)) ==
  [r \in DOMAIN rs |-> [rs[r] EXCEPT !.tabs = [k \in DOMAIN @ |-> Op(@[k])]]]

\* captureLayoutState drops pendingRestore.
Awake(tab) == [tab EXCEPT !.pending = FALSE]
Capture == [layout |-> layout, focused |-> focusedRegionId, regions |-> MapTabs(regions, Awake)]
Captured == [w \in DOMAIN savedLayout \cup {activeWorkspaceId} |->
               IF w = activeWorkspaceId THEN Capture ELSE savedLayout[w]]

\* Mutation: a terminal read from disk keeps its dead session.
NotAsleep(tab) == tab

\* A snapshot read from disk: its shells are dead, its terminals pending.
Asleep(tab) == IF tab.view = Terminal THEN [tab EXCEPT !.pending = TRUE, !.session = None]
               ELSE tab
FromDisk(snap) == [layout |-> snap.layout, focused |-> snap.focused,
                   regions |-> MapTabs(snap.regions, Asleep)]

\* What the auto-capture compares: regions, tabs and the focus, no sessions.
Shape(rs, focused) ==
  <<[r \in DOMAIN rs |-> [tabs |-> [k \in DOMAIN rs[r].tabs |-> rs[r].tabs[k].id],
                          activeTabId |-> rs[r].activeTabId]], focused>>

\* Mutation: only a new or a removed region is noticed.
ScheduleOnRegions == saveTimer' = (saveTimer \/ DOMAIN regions' # DOMAIN regions)

ScheduleAutoCapture ==
  saveTimer' = (saveTimer \/ Shape(regions', focusedRegionId') # Shape(regions, focusedRegionId))

WakeCalls(rs) ==
  UNION {{Wake(r, tab.id) : tab \in {x \in Range(rs[r].tabs) : x.pending}} : r \in DOMAIN rs}

\* The snapshot of w, or one empty region r.
Stored(w, r) == IF w \in DOMAIN savedLayout THEN savedLayout[w] ELSE OneEmptyRegion(r)

\* restoreLayoutState: what is stored is shown, its pending terminals are woken.
Show(w, r) ==
  LET s == Stored(w, r)
  IN  /\ layout' = s.layout /\ regions' = s.regions /\ focusedRegionId' = s.focused
      /\ spawns' = spawns \o SetToSeq(WakeCalls(s.regions))

PendingTabs(rs) == {tab.id : tab \in {x \in TabsIn(rs) : x.pending}}

SwitchTo(w, r) ==
  /\ Show(w, r)
  /\ savedLayout' = Captured
  /\ activeWorkspaceId' = w
  /\ stranded' = stranded \cup PendingTabs(regions)
  /\ UNCHANGED <<ptyVars, unmounted, torn>>

SwitchWorkspace(w, r) ==
  /\ w \in Range(order) \ {activeWorkspaceId}
  /\ SwitchTo(w, r)
  /\ UNCHANGED order

\* A new workspace is switched to at once.
AddWorkspace(w, r) ==
  /\ w \notin Range(order)
  /\ SwitchTo(w, r)
  /\ order' = Append(order, w)

\* The shells of a removed workspace go on without a tab.
RemoveWorkspace(w, r) ==
  /\ w \in Range(order) /\ Len(order) > 1
  /\ order' = Leaving(order, w)
  /\ savedLayout' = [x \in DOMAIN savedLayout \ {w} |-> savedLayout[x]]
  /\ IF w = activeWorkspaceId
     THEN activeWorkspaceId' = Head(order') /\ Show(Head(order'), r)
     ELSE UNCHANGED <<activeWorkspaceId, layoutVars, spawns>>
  /\ UNCHANGED <<stranded, ptyVars, unmounted, torn>>

\* The debounce timer fires, or the window is about to close (flushNow).
CaptureActiveWorkspace ==
  /\ savedLayout' = Captured
  /\ saveTimer' = FALSE
  /\ UNCHANGED <<layoutVars, spawns, ptyVars, unmounted, torn, order, activeWorkspaceId, stranded>>

\* A layout that names a region that is not there is replaced by one region.
Sane(s) ==
  LET some == CHOOSE r \in DOMAIN s.regions : TRUE
      whole == Range(s.layout) \subseteq DOMAIN s.regions
  IN  [layout  |-> IF whole THEN s.layout ELSE <<some>>,
       focused |-> IF whole /\ s.focused \in DOMAIN s.regions THEN s.focused ELSE some,
       regions |-> s.regions]

\* The application comes up from what is on disk, its placeholders not mounted
\* yet; without a tab to restore it opens a terminal.
BootsFrom(ws, active, saved, r) ==
  LET disk == [w \in DOMAIN saved |-> FromDisk(saved[w])]
      none == active \notin DOMAIN saved \/ TabsIn(disk[active].regions) = {}
      s    == IF none THEN OneEmptyRegion(r) ELSE Sane(disk[active])
  IN  /\ order' = ws /\ activeWorkspaceId' = active /\ savedLayout' = disk
      /\ layout' = s.layout /\ regions' = s.regions /\ focusedRegionId' = s.focused
      /\ spawns' = IF none THEN <<[kind |-> "tab", region |-> r]>> ELSE <<>>
      /\ unmounted' = UNION {PendingTabs(disk[w].regions) : w \in DOMAIN disk}
      /\ live' = {} /\ exited' = {} /\ stranded' = {}
      /\ saveTimer' = ~none

Restart(r) == BootsFrom(order, activeWorkspaceId, savedLayout, r) /\ UNCHANGED torn

-----------------------------------------------------------------------------
(* Ids are UUIDs: a new one is none of those anything still refers to, and *)
(* which of those it is does not matter.                                   *)

Saved   == Range(savedLayout)
AllTabs == TabsIn(regions) \cup UNION {TabsIn(s.regions) : s \in Saved}

FreshTabs == TabIds \ ({tab.id : tab \in AllTabs} \cup unmounted \cup
               {spawns[k].tab : k \in {j \in DOMAIN spawns : spawns[j].kind = "restore"}})
FreshSessions == Sessions \ (live \cup exited \cup {tab.session : tab \in AllTabs})
Awaiting(call) == IF call.kind = "split" THEN Range(call.seen) ELSE {call.region}
FreshRegions == RegionIds \ (DOMAIN regions \cup Range(layout)
               \cup (UNION {DOMAIN s.regions \cup Range(s.layout) : s \in Saved})
               \cup (UNION {Awaiting(spawns[k]) : k \in DOMAIN spawns}))

OneOf(ids) == IF ids = {} THEN {} ELSE {CHOOSE id \in ids : TRUE}

LayoutOp ==
  \/ SplitRegion
  \/ \E r \in DOMAIN regions :
       \/ AddTerminalTab(r) \/ CloseRegion(r) \/ SetFocusedRegion(r)
       \/ \E v \in Views, new \in OneOf(FreshTabs) : AddUniqueTab(r, v, new) \/ AddTab(r, v, new)
       \/ \E t \in TabIds :
            \/ CloseTab(r, t) \/ ActivateTab(r, t)
            \/ \E to \in DOMAIN regions : \E at \in 1..(Len(regions[to].tabs) + 1) :
                 MoveTab(r, t, to, at)
            \/ \E p \in {"before", "after"}, new \in OneOf(FreshRegions) : SplitTabToNew(r, t, new, p)

WorkspaceOp ==
  \E w \in WorkspaceIds, new \in OneOf(FreshRegions) :
    SwitchWorkspace(w, new) \/ AddWorkspace(w, new) \/ RemoveWorkspace(w, new)

\* The answer to the k-th pty_spawn under way.
Answer(k) ==
  \/ \E s \in OneOf(FreshSessions) :
       \/ MaterializeDone(k, s)
       \/ \E t \in OneOf(FreshTabs) :
            \/ AddTerminalTabDone(k, t, s)
            \/ \E n \in OneOf(FreshRegions) : SplitRegionDone(k, n, t, s)
  \/ SpawnFailed(k)

AnswerStep(k) ==
  k \in DOMAIN spawns /\ Answer(k) /\ ScheduleAutoCapture /\ UNCHANGED <<wsVars, ops>>
MountStep ==
  (\E t \in TabIds : Mount(t)) /\ ScheduleAutoCapture /\ UNCHANGED <<wsVars, ops>>

User ==
  /\ ops < MaxOps /\ ops' = ops + 1
  /\ \/ LayoutOp /\ UNCHANGED wsVars /\ ScheduleAutoCapture
     \/ WorkspaceOp /\ ScheduleAutoCapture
     \/ \E new \in OneOf(FreshRegions) : Restart(new)

Environment ==
  \/ \E k \in DOMAIN spawns : AnswerStep(k)
  \/ MountStep
  \/ /\ \E s \in Sessions, heard \in BOOLEAN : ShellExits(s, heard)
     /\ ScheduleAutoCapture /\ UNCHANGED <<wsVars, ops>>
  \/ saveTimer /\ CaptureActiveWorkspace /\ UNCHANGED ops

Next == User \/ Environment

-----------------------------------------------------------------------------
(* What a window is like, and what an earlier run has left on disk.        *)

WellTyped(win) ==
  /\ win.layout \in Seq(RegionIds) /\ win.focused \in RegionIds
  /\ DOMAIN win.regions \subseteq RegionIds
  /\ \A r \in DOMAIN win.regions : Shows(win.regions[r])

TreeMatches(win) ==
  /\ IsInjective(win.layout)
  /\ Range(win.layout) = DOMAIN win.regions
  /\ win.focused \in DOMAIN win.regions

\* No two tabs are one tab or show one session: in a sequence of tabs, in a
\* window and in all windows.
Unlike(a, b) == a.id # b.id /\ (a.session # None => a.session # b.session)
Apart(A, B)  == \A a \in A, b \in B : Unlike(a, b)
OnceIn(tabs) == \A i, k \in DOMAIN tabs : i # k => Unlike(tabs[i], tabs[k])
EachOnce(rs) ==
  /\ \A r \in DOMAIN rs : OnceIn(rs[r].tabs)
  /\ \A q, r \in DOMAIN rs : q # r => Apart(Range(rs[q].tabs), Range(rs[r].tabs))
AllOnce(windows) ==
  /\ \A w \in DOMAIN windows : EachOnce(windows[w].regions)
  /\ \A v, w \in DOMAIN windows :
       v # w => Apart(TabsIn(windows[v].regions), TabsIn(windows[w].regions))

\* A snapshot is written by captureLayoutState: nothing in it is pending, and only
\* terminals have sessions.
ASSUME BootsAssumption ==
  \A b \in Boots :
    /\ b.order \in Seq(WorkspaceIds) /\ IsInjective(b.order)
    /\ b.active \in Range(b.order) /\ DOMAIN b.saved \subseteq Range(b.order)
    /\ b.fresh \in RegionIds
    /\ \A w \in DOMAIN b.saved :
         /\ WellTyped(b.saved[w]) /\ TreeMatches(b.saved[w])
         /\ \A tab \in TabsIn(b.saved[w].regions) :
              ~tab.pending /\ (tab.view # Terminal => tab.session = None)
    /\ AllOnce(b.saved)

Init ==
  /\ \E b \in Boots :
       LET first == b.active \notin DOMAIN b.saved
           s     == IF first THEN OneEmptyRegion(b.fresh) ELSE FromDisk(b.saved[b.active])
       IN  /\ order = b.order /\ activeWorkspaceId = b.active
           /\ savedLayout = [w \in DOMAIN b.saved |-> FromDisk(b.saved[w])]
           /\ layout = s.layout /\ regions = s.regions /\ focusedRegionId = s.focused
           /\ spawns = IF first THEN <<[kind |-> "tab", region |-> b.fresh]>> ELSE <<>>
           /\ unmounted = UNION {PendingTabs(savedLayout[w].regions) : w \in DOMAIN savedLayout}
           /\ saveTimer = ~first
  /\ live = {} /\ exited = {} /\ stranded = {} /\ torn = FALSE
  /\ ops = 0

\* pty_spawn answers, one call after the other, and React mounts what it renders.
Fairness == WF_vars(AnswerStep(1)) /\ WF_vars(MountStep)

Spec == Init /\ [][Next]_vars /\ Fairness
-----------------------------------------------------------------------------
(* Properties. *)

\* The windows there are: the one on the screen, and the workspaces behind it.
Screen   == [layout |-> layout, regions |-> regions, focused |-> focusedRegionId]
WindowOf == [w \in DOMAIN savedLayout \cup {activeWorkspaceId} |->
               IF w = activeWorkspaceId THEN Screen ELSE savedLayout[w]]
Windows  == Range(WindowOf)

\* The parts are what their names say, on the screen, behind it and on disk; a
\* region with tabs shows one of them, whatever was closed, moved or split off.
TypeOK ==
  /\ \A win \in Windows \cup Saved : WellTyped(win)
  /\ live \subseteq Sessions /\ exited \subseteq Sessions /\ unmounted \subseteq TabIds
  /\ IsInjective(order) /\ activeWorkspaceId \in Range(order)
  /\ DOMAIN savedLayout \subseteq Range(order)
  /\ saveTimer \in BOOLEAN /\ torn \in BOOLEAN

\* The layout tree and the map of regions name the same regions, each once, and
\* the focus is one of them, in every workspace and whatever answers arrive
\* late, as long as no split has replaced a layout it had not seen.
TreeMatchesRegions == ~torn => \A win \in Windows : TreeMatches(win)

\* Moving, splitting, switching and waking never duplicate a tab, and no two
\* tabs show the same session.
TabsOnce == AllOnce(WindowOf)

\* Closing, moving and splitting tabs change tree, regions and tabs by hand
\* (layoutStore.ts:942): none of them leaves one of the three behind.
LayoutConsistent == TreeMatchesRegions /\ TabsOnce

\* A session is closed only with its tab: what a tab shows either runs or has
\* ended by itself, even when two calls woke the tab and one was too late.
NoTabLosesItsShell ==
  ~torn => \A win \in Windows : \A tab \in TabsIn(win.regions) :
             tab.session \in live \cup exited \cup {None}

\* Once the debounce timer has fired, a crash loses nothing of the layout.
DiskFollowsStore ==
  LET kept == activeWorkspaceId \in DOMAIN savedLayout
      disk == savedLayout[activeWorkspaceId]
  IN  ~saveTimer =>
        \/ /\ kept
           /\ disk.layout = layout
           /\ Shape(disk.regions, disk.focused) = Shape(regions, focusedRegionId)
        \/ TabsIn(regions) = {} /\ (kept => TabsIn(disk.regions) = {})

\* The only tabs left without a shell are those captured, by a switch of the
\* workspace, while their shell was being spawned.
OnlyStrandedAreDead ==
  \A tab \in TabsIn(regions) :
    tab.view = Terminal /\ ~tab.pending /\ tab.session = None => tab.id \in stranded

\* A restored terminal on the screen gets its shell or goes away.
PendingTabsWake ==
  \A t \in TabIds : (t \in PendingTabs(regions)) ~> (t \notin PendingTabs(regions))
=============================================================================
