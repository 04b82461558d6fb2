---------------------------- MODULE WindowLayout ----------------------------
(* The window layout store (layoutStore.ts): regions, their tabs, and the  *)
(* PTY sessions of the terminal tabs.  A PTY is spawned with an await:     *)
(* anything may happen to the layout before the answer.                    *)
(*                                                                         *)
(* The layout tree is kept as the sequence of its leaves from left to      *)
(* right: splitting a leaf puts the new one next to it, removing a leaf    *)
(* lets its sibling take the place.  Directions, ratios, titles and the    *)
(* position of the tab bar are not modelled.                               *)
EXTENDS Integers, Sequences, FiniteSets, SequencesExt, Functions

CONSTANTS
  RegionIds, TabIds, Sessions,
  Views,          \* what a tab without a shell shows: a file, the settings, ...
  UniqueViews,    \* those a region shows in one tab only
  MaxSpawns,      \* bound: user operations waiting for a PTY
  None

Terminal == "terminal"

ASSUME LayoutAssumption ==
  /\ UniqueViews \subseteq Views /\ Terminal \notin Views
  /\ None \notin RegionIds \cup TabIds \cup Sessions
  /\ MaxSpawns \in Nat

VARIABLES
  layout,         \* leaves of the layout tree, left to right
  regions,        \* region id -> [tabs, activeTabId]
  focusedRegionId,
  spawns,         \* calls of pty_spawn under way and what their answer is for
  live,           \* sessions the PTY manager runs
  exited,         \* sessions whose shell ended by itself
  unmounted,      \* pending tabs whose placeholder has not been mounted yet
  torn            \* ghost: a split replaced a layout it had not seen

layoutVars == <<layout, regions, focusedRegionId>>
ptyVars    == <<live, exited>>

\* session: None for a tab without a shell or one whose shell belonged to an
\* earlier run of the application.
Tab    == [id : TabIds, view : Views \cup {Terminal}, session : Sessions \cup {None},
           pending : BOOLEAN]
Region == [tabs : Seq(Tab), activeTabId : TabIds \cup {None}]

Ids(tabs)      == {tabs[k].id : k \in DOMAIN tabs}
Shows(region)  == /\ region \in Region
                  /\ IF region.tabs = <<>> THEN region.activeTabId = None
                     ELSE region.activeTabId \in Ids(region.tabs)
TabsIn(rs)     == UNION {Range(rs[r].tabs) : r \in DOMAIN rs}
IndexOf(tabs, t) == CHOOSE k \in DOMAIN tabs : tabs[k].id = t
Dropped(tabs, t) == RemoveAt(tabs, IndexOf(tabs, t))
TabOf(r, t)    == regions[r].tabs[IndexOf(regions[r].tabs, t)]

\* Mutation: the closed tab stays the active one.
StaysActive(region, t) == region.activeTabId

\* The tab that becomes active when t leaves: the one that takes its place.
NextActive(region, t) ==
  LET rest == Dropped(region.tabs, t)
      k    == IndexOf(region.tabs, t)
  IN  IF rest = <<>> THEN None
      ELSE IF region.activeTabId # t THEN region.activeTabId
      ELSE rest[IF k <= Len(rest) THEN k ELSE Len(rest)].id

Without(region, t) == [tabs |-> Dropped(region.tabs, t), activeTabId |-> NextActive(region, t)]
Showing(region, tab) == [tabs |-> Append(region.tabs, tab), activeTabId |-> tab.id]

Put(r, region) == [x \in DOMAIN regions \cup {r} |-> IF x = r THEN region ELSE regions[x]]
Only(rs)       == [x \in rs |-> regions[x]]

Where(seq, x)   == CHOOSE i \in DOMAIN seq : seq[i] = x
Leaving(seq, x) == IF x \in Range(seq) THEN RemoveAt(seq, Where(seq, x)) ELSE seq

\* The leaf n next to the leaf r.
SplitLeaf(leaves, r, n, position) ==
  InsertAt(leaves, IF position = "before" THEN Where(leaves, r) ELSE Where(leaves, r) + 1, n)

-----------------------------------------------------------------------------
(* Opening. *)

UserMaySpawn == Cardinality({k \in DOMAIN spawns : spawns[k].kind # "restore"}) < MaxSpawns

AddTerminalTab(r) ==
  /\ r \in DOMAIN regions /\ UserMaySpawn
  /\ spawns' = Append(spawns, [kind |-> "tab", region |-> r])
  /\ UNCHANGED <<layoutVars, ptyVars, unmounted, torn>>

\* The answer to the k-th call.  If the region has gone the update throws, and
\* nobody closes the session.
AddTerminalTabDone(k, t, s) ==
  LET r == spawns[k].region
  IN  /\ spawns[k].kind = "tab"
      /\ spawns' = RemoveAt(spawns, k)
      /\ live' = live \cup {s}
      /\ regions' = IF r \in DOMAIN regions
                    THEN Put(r, Showing(regions[r], [id |-> t, view |-> Terminal,
                                                     session |-> s, pending |-> FALSE]))
                    ELSE regions
      /\ UNCHANGED <<layout, focusedRegionId, exited, unmounted, torn>>

\* A tab that shows v is activated if the region has one, else it is added.
AddUniqueTab(r, v, t) ==
  /\ r \in DOMAIN regions /\ v \in UniqueViews
  /\ LET shown == {tab \in Range(regions[r].tabs) : tab.view = v}
     IN  regions' = Put(r, IF shown # {}
                           THEN [regions[r] EXCEPT !.activeTabId = (CHOOSE tab \in shown : TRUE).id]
                           ELSE Showing(regions[r], [id |-> t, view |-> v, session |-> None,
                                                     pending |-> FALSE]))
  /\ UNCHANGED <<layout, focusedRegionId, spawns, ptyVars, unmounted, torn>>

\* Diff and search tabs: as many as asked for.
AddTab(r, v, t) ==
  /\ r \in DOMAIN regions /\ v \in Views \ UniqueViews
  /\ regions' = Put(r, Showing(regions[r], [id |-> t, view |-> v, session |-> None,
                                            pending |-> FALSE]))
  /\ UNCHANGED <<layout, focusedRegionId, spawns, ptyVars, unmounted, torn>>

-----------------------------------------------------------------------------
(* Restored terminals: a tab is pending until a shell has been spawned for *)
(* it, which its placeholder asks for when it is mounted.                  *)

Wakeable(rs, r, t) == r \in DOMAIN rs /\ \E tab \in Range(rs[r].tabs) : tab.id = t /\ tab.pending
Woken(tab, s) == [tab EXCEPT !.session = s, !.pending = FALSE]
Wake(r, t) == [kind |-> "restore", region |-> r, tab |-> t]

\* Mutation: a placeholder behind the active tab does not ask for its shell.
MountActive(t) ==
  /\ t \in unmounted
  /\ unmounted' = unmounted \ {t}
  /\ \E r \in DOMAIN regions :
       /\ Wakeable(regions, r, t)
       /\ spawns' = IF regions[r].activeTabId = t THEN Append(spawns, Wake(r, t)) ELSE spawns
  /\ UNCHANGED <<layoutVars, ptyVars, torn>>

\* Only the workspace on the screen is rendered: a tab of another one waits.
Mount(t) ==
  /\ t \in unmounted
  /\ unmounted' = unmounted \ {t}
  /\ \E r \in DOMAIN regions : Wakeable(regions, r, t) /\ spawns' = Append(spawns, Wake(r, t))
  /\ UNCHANGED <<layoutVars, ptyVars, torn>>

\* The tab gets the session.  If it has gone or another call was faster, the
\* session is closed at once; if its region has gone, it is forgotten.
MaterializeDone(k, s) ==
  LET r == spawns[k].region
      t == spawns[k].tab
  IN  /\ spawns[k].kind = "restore"
      /\ spawns' = RemoveAt(spawns, k)
      /\ live' = IF r \in DOMAIN regions /\ ~Wakeable(regions, r, t) THEN live
                 ELSE live \cup {s}
      /\ regions' = IF Wakeable(regions, r, t)
                    THEN [regions EXCEPT ![r].tabs[IndexOf(regions[r].tabs, t)] = Woken(@, s)]
                    ELSE regions
      /\ UNCHANGED <<layout, focusedRegionId, exited, unmounted, torn>>

\* pty_spawn fails: nothing happens, but a restored tab goes away, whether or
\* not another call has woken it meanwhile.
SpawnFailed(k) ==
  /\ spawns' = RemoveAt(spawns, k)
  /\ LET c == spawns[k]
     IN  IF c.kind = "restore" /\ c.region \in DOMAIN regions
            /\ c.tab \in Ids(regions[c.region].tabs)
         THEN LET rest == Dropped(regions[c.region].tabs, c.tab)
              IN  regions' = Put(c.region,
                    [tabs |-> rest,
                     activeTabId |-> IF regions[c.region].activeTabId # c.tab
                                     THEN regions[c.region].activeTabId
                                     ELSE IF rest = <<>> THEN None ELSE rest[1].id])
         ELSE UNCHANGED regions
  /\ UNCHANGED <<layout, focusedRegionId, ptyVars, unmounted, torn>>

-----------------------------------------------------------------------------
(* Splitting and closing. *)

\* splitRegion remembers the layout and the focused region for the answer.
SplitRegion ==
  /\ focusedRegionId \in DOMAIN regions /\ regions[focusedRegionId].tabs # <<>>
  /\ UserMaySpawn
  /\ spawns' = Append(spawns, [kind |-> "split", region |-> focusedRegionId, seen |-> layout])
  /\ UNCHANGED <<layoutVars, ptyVars, unmounted, torn>>

\* The remembered layout, with the new region in it, takes the place of whatever
\* the layout is by now.
SplitRegionDone(k, n, t, s) ==
  LET c == spawns[k]
  IN  /\ c.kind = "split"
      /\ spawns' = RemoveAt(spawns, k)
      /\ IF c.region \in Range(c.seen)
         THEN /\ live' = live \cup {s}
              /\ layout' = SplitLeaf(c.seen, c.region, n, "after")
              /\ regions' = Put(n, [tabs |-> <<[id |-> t, view |-> Terminal, session |-> s,
                                                pending |-> FALSE]>>,
                                    activeTabId |-> t])
              /\ focusedRegionId' = n
              /\ torn' = (torn \/ c.seen # layout)
         ELSE UNCHANGED <<layoutVars, live, torn>>
      /\ UNCHANGED <<exited, unmounted>>

SplitTabToNew(r, t, n, position) ==
  /\ r \in DOMAIN regions /\ t \in Ids(regions[r].tabs)
  /\ Len(regions[r].tabs) > 1
  /\ r \in Range(layout)
  /\ layout' = SplitLeaf(layout, r, n, position)
  /\ regions' = [x \in DOMAIN regions \cup {n} |->
                   IF x = r THEN Without(regions[r], t)
                   ELSE IF x = n THEN [tabs |-> <<TabOf(r, t)>>, activeTabId |-> t]
                   ELSE regions[x]]
  /\ focusedRegionId' = n
  /\ unmounted' = IF TabOf(r, t).pending THEN unmounted \cup {t} ELSE unmounted
  /\ UNCHANGED <<spawns, ptyVars, torn>>

\* Mutation: the leaf of the region stays in the tree.
CollapseMapOnly(r) ==
  /\ regions' = Only(DOMAIN regions \ {r})
  /\ focusedRegionId' = Head(layout)
  /\ UNCHANGED layout

\* closeRegion, given the sessions that have been closed before.
Collapse(r) ==
  IF r \in Range(layout)
  THEN /\ layout' = Leaving(layout, r)
       /\ regions' = Only(DOMAIN regions \ {r})
       /\ focusedRegionId' = Head(layout')
  ELSE UNCHANGED layoutVars

SessionsOf(tabs) == {tabs[k].session : k \in DOMAIN tabs}

CloseRegion(r) ==
  /\ r \in DOMAIN regions /\ Len(layout) > 1
  /\ live' = live \ SessionsOf(regions[r].tabs)
  /\ Collapse(r)
  /\ UNCHANGED <<spawns, exited, unmounted, torn>>

\* Mutation: the sessions of the whole region are closed.
CloseTabAndSiblings(r, t) ==
  /\ r \in DOMAIN regions /\ t \in Ids(regions[r].tabs)
  /\ live' = live \ SessionsOf(regions[r].tabs)
  /\ IF Len(regions[r].tabs) = 1 /\ Len(layout) > 1
     THEN Collapse(r)
     ELSE regions' = Put(r, Without(regions[r], t)) /\ UNCHANGED <<layout, focusedRegionId>>
  /\ UNCHANGED <<spawns, exited, unmounted, torn>>

\* The last tab of a region takes the region with it, unless it is the only one.
CloseTab(r, t) ==
  /\ r \in DOMAIN regions /\ t \in Ids(regions[r].tabs)
  /\ live' = live \ {TabOf(r, t).session}
  /\ IF Len(regions[r].tabs) = 1 /\ Len(layout) > 1
     THEN Collapse(r)
     ELSE /\ regions' = Put(r, Without(regions[r], t))
          /\ UNCHANGED <<layout, focusedRegionId>>
  /\ UNCHANGED <<spawns, exited, unmounted, torn>>

\* The shell ends by itself: onExit closes its tab.  The tab stays if its region
\* is in a workspace in the background or nobody listened for the exit yet.
ShellExits(s, heard) ==
  /\ s \in live
  /\ LET homes == {<<r, tab.id>> : r \in DOMAIN regions,
                                  tab \in {x \in TabsIn(regions) : x.session = s}}
         home  == {h \in homes : h[2] \in Ids(regions[h[1]].tabs)}
     IN  IF heard /\ home # {}
         THEN \E h \in home : CloseTab(h[1], h[2])
         ELSE /\ live' = live \ {s} /\ exited' = exited \cup {s}
              /\ UNCHANGED <<layoutVars, spawns, unmounted, torn>>

-----------------------------------------------------------------------------
(* Moving and focusing. *)

ActivateTab(r, t) ==
  /\ r \in DOMAIN regions /\ t \in Ids(regions[r].tabs)
  /\ regions' = [regions EXCEPT ![r].activeTabId = t]
  /\ focusedRegionId' = r
  /\ UNCHANGED <<layout, spawns, ptyVars, unmounted, torn>>

\* A region that loses its last tab collapses.
MoveTab(from, t, to, at) ==
  /\ from \in DOMAIN regions /\ to \in DOMAIN regions
  /\ t \in Ids(regions[from].tabs)
  /\ LET tab   == TabOf(from, t)
         rest  == Dropped(regions[from].tabs, t)
         into  == IF from = to THEN rest ELSE regions[to].tabs
         moved == [tabs |-> InsertAt(into, at, tab), activeTabId |-> t]
     IN  /\ at \in 1..(Len(into) + 1)
         /\ IF from = to
            THEN regions' = Put(to, moved) /\ UNCHANGED <<layout, focusedRegionId, unmounted>>
            ELSE /\ IF rest = <<>>
                    THEN /\ regions' = [Only(DOMAIN regions \ {from}) EXCEPT ![to] = moved]
                         /\ layout' = IF Len(layout) > 1 THEN Leaving(layout, from) ELSE layout
                    ELSE /\ regions' = [regions EXCEPT ![from] = Without(@, t), ![to] = moved]
                         /\ UNCHANGED layout
                 /\ focusedRegionId' = to
                 /\ unmounted' = IF tab.pending THEN unmounted \cup {t} ELSE unmounted
  /\ UNCHANGED <<spawns, ptyVars, torn>>

SetFocusedRegion(r) ==
  /\ r \in DOMAIN regions
  /\ focusedRegionId' = r
  /\ UNCHANGED <<layout, regions, spawns, ptyVars, unmounted, torn>>
=============================================================================
