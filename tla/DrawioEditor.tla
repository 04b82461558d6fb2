---------------------------- MODULE DrawioEditor ----------------------------
(* One .drawio tab (DrawioEditor.tsx): the pages read from the file, the   *)
(* page shown in the canvas store, the cache of the pages left, and the    *)
(* file calls of loads, checks and saves.  The content of a page is a      *)
(* number, 0 for an empty page; another program may write the file.  The   *)
(* backend serves file calls in the order they are made, and the code that *)
(* awaits an answer runs with the call: whatever the user does in between  *)
(* could as well have come before.  A call may fail, and a write may leave *)
(* any mtime: milliseconds can be equal, and a copy can keep an older one. *)
EXTENDS Naturals, Sequences

CONSTANTS
  None,
  Unreadable,     \* a file that drawioToPages refuses, such as a compressed one
  NotText,        \* a file that file_read rejects: not UTF-8, or not ours to read
  Missing,        \* no file: file_read and file_mtime reject
  MaxOps,         \* bound: what the user and the other program do
  MaxCalls,       \* bound: file calls under way when the user starts another
  MaxPages,       \* bound: pages of the document
  MaxMtime        \* bound: the mtimes a write may leave, in any order

ASSUME DrawioAssumption ==
  /\ MaxOps \in Nat /\ MaxCalls \in Nat /\ MaxPages \in Nat \ {0, 1} /\ MaxMtime \in Nat \ {0}
  /\ {Unreadable, NotText, Missing} \cap Seq(Nat) = {}

VARIABLES
  disk,           \* the file: pages (or what is wrong with it) and mtime (0 for no file)
  pages, activePageIndex, pageCache,
  live,           \* what the canvas store holds
  lastMtime, loading, error, isActive,
  calls,          \* the file calls made and not served yet, first to last
  doc,            \* ghost: the document the user has been shown and has edited
  base,           \* ghost: [of, raced, quiet], the file lastMtime is taken for
  ops             \* bound, and the source of new contents

view == <<pages, activePageIndex, pageCache, live>>
vars == <<disk, view, lastMtime, loading, error, isActive, calls, doc, base, ops>>

NoCache == [i \in {} |-> 0]
Cached(i, c) == [j \in DOMAIN pageCache \cup {i} |-> IF j = i THEN c ELSE pageCache[j]]

\* The calls: a read and a stat for a load, a write and a stat for a save.
\* "raced" (ghost) says that the file was written between the two.
Call(name, of) == [name |-> name, of |-> of, raced |-> FALSE]
Raced(q) == [k \in DOMAIN q |-> [q[k] EXCEPT !.raced = (@ \/ q[k].name \in {"loaded", "saved"})]]

\* The file is written, or deleted.  "quiet" (ghost) says that no check can
\* tell: the mtime it is left with is not above the one remembered.
Mtimes == 1..MaxMtime
Written(p, m) ==
  /\ disk' = [pages |-> p, mtime |-> m]
  /\ base' = [base EXCEPT !.quiet = (m <= lastMtime)]

StartLoad(q) == Append(q, Call("read", None))
StartCheck(q) == Append(q, Call("check", None))

BuildAllPages ==
  [i \in DOMAIN pages |-> IF i = activePageIndex THEN live
                          ELSE IF i \in DOMAIN pageCache THEN pageCache[i]
                          ELSE pages[i]]

-----------------------------------------------------------------------------
(* The backend serves the first call.                                      *)

First(name) == calls # <<>> /\ Head(calls).name = name

\* The first load done, or failed, an active tab checks the file once more.
LoadDone ==
  /\ loading' = FALSE
  /\ calls' = IF loading /\ isActive THEN StartCheck(Tail(calls)) ELSE Tail(calls)
  /\ UNCHANGED <<disk, isActive>>

\* The read or the stat rejects: the tab shows the error, and keeps it.
LoadFails ==
  /\ error' = TRUE /\ LoadDone
  /\ UNCHANGED <<view, lastMtime, doc, base>>

Reads ==
  /\ First("read")
  /\ IF disk.pages \in {NotText, Missing} THEN LoadFails
     ELSE /\ calls' = Append(Tail(calls), Call("loaded", disk.pages))
          /\ UNCHANGED <<disk, view, lastMtime, loading, error, isActive, doc, base>>

Show(got) ==
  /\ pages' = got /\ live' = got[1] /\ activePageIndex' = 1 /\ pageCache' = NoCache

\* The mtime is remembered for what the call before read or wrote.
TakesMtime(of) ==
  /\ base' = [of |-> of, raced |-> Head(calls).raced, quiet |-> FALSE]
  /\ lastMtime' = disk.mtime

Parses(file) ==
  LET got == IF file = <<>> THEN <<0>> ELSE file
  IN  IF file = Unreadable THEN error' = TRUE /\ UNCHANGED <<view, doc>>
      ELSE Show(got) /\ doc' = got /\ UNCHANGED error

Loaded ==
  /\ First("loaded")
  /\ IF disk.pages = Missing THEN LoadFails
     ELSE TakesMtime(Head(calls).of) /\ Parses(Head(calls).of) /\ LoadDone

\* Mutation: a file is read again only when it got older.
ChecksForOlder ==
  /\ First("check")
  /\ calls' = IF disk.mtime < lastMtime THEN StartLoad(Tail(calls)) ELSE Tail(calls)
  /\ UNCHANGED <<disk, view, lastMtime, loading, error, isActive, doc, base>>

\* Mutation: the check remembers what it saw.
ChecksAndRemembers ==
  /\ First("check")
  /\ lastMtime' = disk.mtime
  /\ calls' = IF disk.mtime > lastMtime THEN StartLoad(Tail(calls)) ELSE Tail(calls)
  /\ UNCHANGED <<disk, view, loading, error, isActive, doc, base>>

\* A stat that rejects starts nothing.  (No file has no mtime.)
Checks ==
  /\ First("check")
  /\ calls' = IF disk.mtime > lastMtime THEN StartLoad(Tail(calls)) ELSE Tail(calls)
  /\ UNCHANGED <<disk, view, lastMtime, loading, error, isActive, doc, base>>

\* A write that fails, at once or half way, is logged, and that is all.
Writes ==
  /\ First("write")
  /\ \/ /\ \E m \in Mtimes : Written(Head(calls).of, m)
        /\ calls' = Append(Raced(Tail(calls)), Call("saved", Head(calls).of))
     \/ /\ \E p \in {<<>>, Unreadable}, m \in Mtimes : Written(p, m)
        /\ calls' = Raced(Tail(calls))
     \/ UNCHANGED <<disk, base>> /\ calls' = Tail(calls)
  /\ UNCHANGED <<view, lastMtime, loading, error, isActive, doc>>

Saved ==
  /\ First("saved")
  /\ IF disk.pages = Missing THEN UNCHANGED <<lastMtime, base>> ELSE TakesMtime(Head(calls).of)
  /\ calls' = Tail(calls)
  /\ UNCHANGED <<disk, view, loading, error, isActive, doc>>

Serve == (Reads \/ Loaded \/ Checks \/ Writes \/ Saved) /\ UNCHANGED ops

-----------------------------------------------------------------------------
(* The user.  Until the first load is done, and once one has failed, the   *)
(* canvas and the page bar are not there; the keyboard shortcut is.        *)

New == ops + 1
CanEdit == isActive /\ ~loading /\ ~error

Edit ==
  /\ CanEdit
  /\ live' = New /\ doc' = [doc EXCEPT ![activePageIndex] = New]
  /\ UNCHANGED <<pages, activePageIndex, pageCache, disk, lastMtime, loading, error, isActive,
                 calls, base>>

\* Mutation: a page left for the second time is not stored again.
SwitchPageKeepingFirst(i) ==
  /\ CanEdit /\ i # activePageIndex
  /\ pageCache' = IF activePageIndex \in DOMAIN pageCache THEN pageCache ELSE Cached(activePageIndex, live)
  /\ live' = IF i \in DOMAIN pageCache' THEN pageCache'[i] ELSE pages[i]
  /\ activePageIndex' = i
  /\ UNCHANGED <<pages, disk, lastMtime, loading, error, isActive, calls, doc, base>>

SwitchPage(i) ==
  /\ CanEdit /\ i # activePageIndex
  /\ pageCache' = Cached(activePageIndex, live)
  /\ live' = IF i \in DOMAIN pageCache' THEN pageCache'[i] ELSE pages[i]
  /\ activePageIndex' = i
  /\ UNCHANGED <<pages, disk, lastMtime, loading, error, isActive, calls, doc, base>>

AddPage ==
  /\ CanEdit /\ Len(pages) < MaxPages
  /\ pages' = Append(pages, 0) /\ activePageIndex' = Len(pages) + 1
  /\ pageCache' = Cached(activePageIndex, live) /\ live' = 0
  /\ doc' = Append(doc, 0)
  /\ UNCHANGED <<disk, lastMtime, loading, error, isActive, calls, base>>

SaveToDisk ==
  /\ isActive /\ Len(calls) < MaxCalls
  /\ calls' = Append(calls, Call("write", BuildAllPages))
  /\ UNCHANGED <<disk, view, lastMtime, loading, error, isActive, doc, base>>

Activate ==
  /\ ~isActive /\ isActive' = TRUE /\ Len(calls) < MaxCalls
  /\ calls' = IF loading THEN calls ELSE StartCheck(calls)
  /\ UNCHANGED <<disk, view, lastMtime, loading, error, doc, base>>

Deactivate ==
  /\ isActive /\ isActive' = FALSE
  /\ UNCHANGED <<disk, view, lastMtime, loading, error, calls, doc, base>>

\* The file is opened again: the tab is shown, and told so.
Reactivate ==
  /\ isActive' = TRUE /\ Len(calls) < MaxCalls
  /\ calls' = IF ~isActive /\ ~loading THEN StartCheck(StartCheck(calls)) ELSE StartCheck(calls)
  /\ UNCHANGED <<disk, view, lastMtime, loading, error, doc, base>>

\* Another program writes the file, or deletes it.
OtherWrites ==
  /\ \/ \E p \in {Unreadable, NotText, <<>>, <<New>>, <<New, 0>>}, m \in Mtimes : Written(p, m)
     \/ Written(Missing, 0)
  /\ calls' = Raced(calls)
  /\ UNCHANGED <<view, lastMtime, loading, error, isActive, doc>>

Op ==
  /\ ops < MaxOps /\ ops' = ops + 1
  /\ \/ Edit \/ \E i \in DOMAIN pages : SwitchPage(i)
     \/ AddPage \/ SaveToDisk \/ Activate \/ Deactivate \/ Reactivate \/ OtherWrites

Next == Serve \/ Op

Init ==
  /\ \/ \E p \in {<<MaxOps + 1>>, <<MaxOps + 1, MaxOps + 2>>, <<>>, Unreadable, NotText},
           m \in Mtimes : disk = [pages |-> p, mtime |-> m]
     \/ disk = [pages |-> Missing, mtime |-> 0]
  /\ pages = <<>> /\ activePageIndex = 1 /\ pageCache = NoCache /\ live = 0
  /\ lastMtime = 0 /\ loading = TRUE /\ error = FALSE /\ isActive \in BOOLEAN
  /\ calls = StartLoad(<<>>)
  /\ doc = <<>> /\ ops = 0
  /\ base = [of |-> None, raced |-> FALSE, quiet |-> disk.pages = Missing]

Spec == Init /\ [][Next]_vars /\ WF_vars(Serve)

-----------------------------------------------------------------------------
(* Properties                                                              *)

IsDocument(d) == d \in Seq(Nat) /\ Len(d) <= MaxPages

\* The document and its parts are what their names say, one page is shown,
\* and the cache is for pages of the document.
TypeOK ==
  /\ disk.mtime \in 0..MaxMtime
  /\ disk.pages \in {Unreadable, NotText, Missing} \/ IsDocument(disk.pages)
  /\ IsDocument(pages) /\ IsDocument(doc) /\ live \in Nat
  /\ activePageIndex \in 1..MaxPages /\ (pages # <<>> => activePageIndex \in DOMAIN pages)
  /\ pageCache = [i \in DOMAIN pageCache |-> pageCache[i]]
  /\ DOMAIN pageCache \subseteq DOMAIN pages /\ \A i \in DOMAIN pageCache : pageCache[i] \in Nat
  /\ lastMtime \in 0..MaxMtime
  /\ loading \in BOOLEAN /\ error \in BOOLEAN /\ isActive \in BOOLEAN
  /\ loading => pages = <<>>

\* What a save would write is the document the user sees and has edited, page
\* by page, however pages were left, revisited, added and reloaded.
PagesMakeDocument == BuildAllPages = doc

\* The remembered mtime belongs to what was last read or written.  If the
\* file holds something else and a check will not tell, then it was written
\* between the call and its stat, or since, with an mtime that is not newer.
StaleOnlyIfRacedOrQuiet ==
  base.of # disk.pages /\ disk.mtime <= lastMtime => base.raced \/ base.quiet

\* A change a check is going to see is loaded in the end, unless it gives way
\* to an older file or none - or the tab tells the user of a failed load.
ChangeIsLoaded ==
  \A m \in Mtimes :
    (~error /\ lastMtime < m /\ m <= disk.mtime /\ \E k \in DOMAIN calls : calls[k].name = "check")
      ~> (lastMtime >= m \/ disk.mtime < m \/ error)

\* Nothing is written to a file that has not been shown.
WritesOnlyWhatItShowed == \A k \in DOMAIN calls : calls[k].name = "write" => pages # <<>>
=============================================================================
