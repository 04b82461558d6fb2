------------------------- MODULE DrawioEditorProofs -------------------------
(* Theorems about DrawioEditor, for any number of steps, calls and pages:  *)
(* what a save would write is the document, and a file goes stale without  *)
(* a check telling in two ways only.                                       *)
EXTENDS DrawioEditor, SequenceTheorems, TLAPS

CallType == [name  : {"read", "loaded", "check", "write", "saved"},
             of    : Seq(Nat) \cup {None, Unreadable},
             raced : BOOLEAN]

\* What a call carries, when the file holds f.
CallOK(c, f) ==
  /\ c.name = "loaded" => c.of = Unreadable \/ IsDocument(c.of)
  /\ c.name \in {"write", "saved"} => IsDocument(c.of)
  /\ c.name \in {"loaded", "saved"} /\ ~c.raced => c.of = f

CallsOK(q, f) == q \in Seq(CallType) /\ \A k \in DOMAIN q : CallOK(q[k], f)

\* The page bar and the canvas are there only for a document with a page.
EditableHasPages == ~loading /\ ~error => pages # <<>>

\* The ghost is a record with its three fields.
BaseOK == base = [of |-> base.of, raced |-> base.raced, quiet |-> base.quiet]

DrawioInv ==
  /\ TypeOK
  /\ BaseOK
  /\ CallsOK(calls, disk.pages)
  /\ EditableHasPages
  /\ PagesMakeDocument
  /\ StaleOnlyIfRacedOrQuiet

-----------------------------------------------------------------------------
(* The queue of calls.                                                     *)

LEMMA TailKeepsCalls ==
  ASSUME NEW q, NEW f, CallsOK(q, f), q # <<>>
  PROVE  CallsOK(Tail(q), f) /\ Head(q) \in CallType /\ CallOK(Head(q), f)
  <1>1. q \in Seq(CallType) /\ Head(q) = q[1] /\ 1 \in DOMAIN q /\ Tail(q) \in Seq(CallType)
    BY DEF CallsOK
  <1>2. \A k \in DOMAIN Tail(q) : k + 1 \in DOMAIN q /\ Tail(q)[k] = q[k + 1]
    BY <1>1
  <1>3. \A k \in DOMAIN Tail(q) : CallOK(Tail(q)[k], f)
    BY <1>2, Zenon DEF CallsOK
  <1>4. Head(q) \in CallType
    BY <1>1
  <1>5. CallOK(Head(q), f)
    BY <1>1, Zenon DEF CallsOK
  <1> QED  BY <1>1, <1>3, <1>4, <1>5 DEF CallsOK

LEMMA AppendKeepsCalls ==
  ASSUME NEW q, NEW f, CallsOK(q, f), NEW c \in CallType, CallOK(c, f)
  PROVE  CallsOK(Append(q, c), f)
  <1>1. q \in Seq(CallType) /\ Append(q, c) \in Seq(CallType)
    BY DEF CallsOK
  <1>2. \A k \in DOMAIN Append(q, c) :
         (k \in DOMAIN q /\ Append(q, c)[k] = q[k]) \/ Append(q, c)[k] = c
    BY <1>1
  <1> QED  BY <1>1, <1>2, Zenon DEF CallsOK

\* Once the file is written, whatever is under way counts as raced.
LEMMA RacedKeepsCalls ==
  ASSUME NEW q, NEW f, NEW g, CallsOK(q, f)
  PROVE  CallsOK(Raced(q), g)
  <1>1. q \in Seq(CallType)
    BY DEF CallsOK
  <1>2. DOMAIN Raced(q) = DOMAIN q
    BY DEF Raced
  <1>3. ASSUME NEW k \in DOMAIN q
        PROVE  /\ Raced(q)[k] \in CallType
               /\ Raced(q)[k].name = q[k].name /\ Raced(q)[k].of = q[k].of
               /\ Raced(q)[k].raced = (q[k].raced \/ q[k].name \in {"loaded", "saved"})
    <2>1. q[k] \in CallType
      BY <1>1
    <2>2. Raced(q)[k] = [q[k] EXCEPT !.raced = (@ \/ q[k].name \in {"loaded", "saved"})]
      BY DEF Raced
    <2> QED  BY <2>1, <2>2 DEF CallType
  <1>4. Raced(q) \in Seq(CallType)
    <2>1. PICK n \in Nat : DOMAIN q = 1..n
      BY <1>1
    <2>2. Raced(q) = [k \in 1..n |-> Raced(q)[k]]
      BY <2>1 DEF Raced
    <2>3. Raced(q) \in [1..n -> CallType]
      BY <1>3, <2>1, <2>2
    <2> QED  BY <2>3, SeqDef
  <1>5. ASSUME NEW k \in DOMAIN q PROVE CallOK(Raced(q)[k], g)
    BY <1>3, Zenon DEF CallsOK, CallOK
  <1> QED  BY <1>2, <1>4, <1>5 DEF CallsOK

LEMMA PlainCall ==
  ASSUME NEW n \in {"read", "check"}, NEW f
  PROVE  Call(n, None) \in CallType /\ CallOK(Call(n, None), f)
  BY DEF Call, CallType, CallOK

-----------------------------------------------------------------------------
LEMMA InitDrawioInv == Init => DrawioInv
  <1> SUFFICES ASSUME Init PROVE DrawioInv
    OBVIOUS
  <1> USE DrawioAssumption
  <1>1. CallsOK(<<>>, disk.pages) /\ calls = Append(<<>>, Call("read", None))
    BY DEF Init, StartLoad, CallsOK
  <1>2. CallsOK(calls, disk.pages)
    BY <1>1, AppendKeepsCalls, PlainCall
  <1>3. /\ disk.mtime \in 0..MaxMtime /\ (disk.pages # Missing => disk.mtime > 0)
        /\ disk.pages \in {Unreadable, NotText, Missing} \/ IsDocument(disk.pages)
    <2>1. CASE \E p \in {<<MaxOps + 1>>, <<MaxOps + 1, MaxOps + 2>>, <<>>, Unreadable, NotText},
                  m \in Mtimes : disk = [pages |-> p, mtime |-> m]
      <3>1. PICK p \in {<<MaxOps + 1>>, <<MaxOps + 1, MaxOps + 2>>, <<>>, Unreadable, NotText},
                 m \in Mtimes : disk = [pages |-> p, mtime |-> m]
        BY <2>1
      <3>2. disk.pages = p /\ disk.mtime = m
        BY <3>1
      <3>3. IsDocument(<<MaxOps + 1>>) /\ IsDocument(<<MaxOps + 1, MaxOps + 2>>) /\ IsDocument(<<>>)
        BY DEF IsDocument
      <3> QED  BY <3>2, <3>3 DEF Mtimes
    <2>2. CASE disk = [pages |-> Missing, mtime |-> 0]
      BY <2>2
    <2> QED  BY <2>1, <2>2, Zenon DEF Init
  <1>4. TypeOK
    <2>1. loading \in BOOLEAN /\ error \in BOOLEAN /\ isActive \in BOOLEAN
      BY Zenon DEF Init
    <2>2. /\ pageCache = [i \in DOMAIN pageCache |-> pageCache[i]]
          /\ DOMAIN pageCache \subseteq DOMAIN pages
          /\ \A i \in DOMAIN pageCache : pageCache[i] \in Nat
      BY DEF Init, NoCache
    <2>3. /\ IsDocument(pages) /\ IsDocument(doc) /\ live \in Nat
          /\ activePageIndex \in 1..MaxPages /\ pages = <<>>
          /\ lastMtime \in 0..MaxMtime
      BY <1>3 DEF Init, IsDocument
    <2> QED  BY <1>3, <2>1, <2>2, <2>3, Zenon DEF TypeOK
  <1>5. PagesMakeDocument /\ StaleOnlyIfRacedOrQuiet /\ EditableHasPages /\ BaseOK
    <2>1. PagesMakeDocument /\ EditableHasPages
      BY DEF Init, PagesMakeDocument, BuildAllPages, EditableHasPages
    <2>2. base = [of |-> None, raced |-> FALSE, quiet |-> disk.pages = Missing] /\ lastMtime = 0
      BY Zenon DEF Init
    <2>3. BaseOK
      BY <2>2 DEF BaseOK
    <2>4. CASE disk.pages = Missing
      <3>1. base.quiet = (disk.pages = Missing)
        BY <2>2, Zenon
      <3>2. base.quiet
        BY <2>4, <3>1, Zenon
      <3> QED  BY <2>1, <2>3, <3>2, Zenon DEF StaleOnlyIfRacedOrQuiet
    <2>5. CASE disk.pages # Missing
      <3>1. ~(disk.mtime <= lastMtime)
        BY <1>3, <2>2, <2>5
      <3> QED  BY <2>1, <2>3, <3>1, Zenon DEF StaleOnlyIfRacedOrQuiet
    <2> QED  BY <2>4, <2>5
  <1> QED  BY <1>2, <1>4, <1>5 DEF DrawioInv

-----------------------------------------------------------------------------
(* The backend's steps.                                                    *)

LEMMA InvParts ==
  DrawioInv => /\ TypeOK /\ BaseOK /\ CallsOK(calls, disk.pages) /\ EditableHasPages
               /\ PagesMakeDocument /\ StaleOnlyIfRacedOrQuiet
  BY DEF DrawioInv

\* A load that fails changes nothing of what is shown and remembered.
LEMMA LoadFailsInv == ASSUME DrawioInv, calls # <<>>, LoadFails PROVE DrawioInv'
  <1>1. CallsOK(Tail(calls), disk.pages)
    BY TailKeepsCalls DEF DrawioInv
  <1>2. CallsOK(StartCheck(Tail(calls)), disk.pages)
    BY <1>1, AppendKeepsCalls, PlainCall DEF StartCheck
  <1>3. disk' = disk /\ loading' = FALSE /\ error' = TRUE /\ UNCHANGED <<isActive, view, lastMtime, doc, base>>
    BY DEF LoadFails, LoadDone
  <1>4. CallsOK(calls', disk'.pages)
    BY <1>1, <1>2, <1>3 DEF LoadFails, LoadDone
  <1> QED  BY <1>3, <1>4 DEF DrawioInv, TypeOK, EditableHasPages, PagesMakeDocument,
                             BuildAllPages, StaleOnlyIfRacedOrQuiet, BaseOK, view

LEMMA ReadsInv == DrawioInv /\ Reads => DrawioInv'
  <1> SUFFICES ASSUME DrawioInv, Reads PROVE DrawioInv'
    OBVIOUS
  <1>1. CASE disk.pages \in {NotText, Missing}
    BY <1>1, LoadFailsInv DEF Reads, First
  <1>2. CASE disk.pages \notin {NotText, Missing}
    <2>1. Call("loaded", disk.pages) \in CallType
          /\ CallOK(Call("loaded", disk.pages), disk.pages)
      BY <1>2 DEF DrawioInv, TypeOK, Call, CallType, CallOK, IsDocument
    <2>2. CallsOK(calls', disk'.pages)
      BY <1>2, <2>1, TailKeepsCalls, AppendKeepsCalls DEF DrawioInv, Reads, First
    <2> QED  BY <1>2, <2>2 DEF DrawioInv, Reads, TypeOK, EditableHasPages, PagesMakeDocument,
                              BuildAllPages, StaleOnlyIfRacedOrQuiet, BaseOK, view
  <1> QED  BY <1>1, <1>2

LEMMA ChecksInv == DrawioInv /\ Checks => DrawioInv'
  <1> SUFFICES ASSUME DrawioInv, Checks PROVE DrawioInv'
    OBVIOUS
  <1>1. CallsOK(calls', disk'.pages)
    BY PlainCall, TailKeepsCalls, AppendKeepsCalls DEF DrawioInv, BaseOK, Checks, First, StartLoad
  <1> QED  BY <1>1 DEF DrawioInv, BaseOK, Checks, TypeOK, EditableHasPages, PagesMakeDocument,
                       BuildAllPages, StaleOnlyIfRacedOrQuiet, BaseOK, view

\* The other program or a save wrote the file, and nothing else changed.
LEMMA NewDiskInv ==
  ASSUME DrawioInv, NEW p, NEW m \in 0..MaxMtime, Written(p, m),
         p \in {Unreadable, NotText, Missing} \/ IsDocument(p), CallsOK(calls', p),
         UNCHANGED <<view, lastMtime, loading, error, isActive, doc>>
  PROVE  DrawioInv'
  <1>1. /\ disk'.pages = p /\ disk'.mtime = m /\ lastMtime' = lastMtime
        /\ lastMtime \in 0..MaxMtime /\ MaxMtime \in Nat
    BY DrawioAssumption DEF DrawioInv, TypeOK, Written
  <1>2. TypeOK'
    BY <1>1 DEF DrawioInv, TypeOK, IsDocument, view
  <1>3. StaleOnlyIfRacedOrQuiet'
    <2>1. CASE m <= lastMtime
      <3>1. base' = [base EXCEPT !.quiet = TRUE]
        BY <2>1 DEF Written
      <3> QED  BY <3>1, <1>1 DEF DrawioInv, BaseOK, StaleOnlyIfRacedOrQuiet
    <2>2. CASE m > lastMtime
      BY <1>1, <2>2 DEF StaleOnlyIfRacedOrQuiet
    <2> QED  BY <1>1, <2>1, <2>2
  <1>4. BaseOK'
    BY DEF DrawioInv, BaseOK, Written
  <1> QED  BY <1>1, <1>2, <1>3, <1>4 DEF DrawioInv, EditableHasPages, PagesMakeDocument, BuildAllPages, view

LEMMA WritesInv == DrawioInv /\ Writes => DrawioInv'
  <1> SUFFICES ASSUME DrawioInv, Writes PROVE DrawioInv'
    OBVIOUS
  <1> DEFINE of == Head(calls).of
  <1>1. IsDocument(of) /\ of \in Seq(Nat) /\ CallsOK(Tail(calls), disk.pages)
    BY TailKeepsCalls DEF DrawioInv, Writes, First, CallOK, IsDocument
  <1>m. Mtimes \subseteq 0..MaxMtime
    BY DrawioAssumption DEF Mtimes
  <1>2. CASE /\ \E m \in Mtimes : Written(of, m)
             /\ calls' = Append(Raced(Tail(calls)), Call("saved", of))
    <2>1. Call("saved", of) \in CallType /\ CallOK(Call("saved", of), of)
      BY <1>1 DEF Call, CallType, CallOK
    <2>2. CallsOK(calls', of)
      BY <1>1, <1>2, <2>1, RacedKeepsCalls, AppendKeepsCalls
    <2> QED  BY <1>1, <1>2, <1>m, <2>2, NewDiskInv DEF Writes
  <1>3. CASE /\ \E p \in {<<>>, Unreadable}, m \in Mtimes : Written(p, m)
             /\ calls' = Raced(Tail(calls))
    <2>1. PICK p \in {<<>>, Unreadable}, m \in Mtimes : Written(p, m)
      BY <1>3
    <2>2. IsDocument(<<>>)
      BY DrawioAssumption DEF IsDocument
    <2>3. CallsOK(calls', p)
      BY <1>1, <1>3, RacedKeepsCalls
    <2> QED  BY <1>m, <2>1, <2>2, <2>3, NewDiskInv DEF Writes
  <1>4. CASE UNCHANGED <<disk, base>> /\ calls' = Tail(calls)
    BY <1>1, <1>4 DEF DrawioInv, BaseOK, Writes, TypeOK, EditableHasPages, PagesMakeDocument,
                      BuildAllPages, StaleOnlyIfRacedOrQuiet, BaseOK, view
  <1> QED  BY <1>2, <1>3, <1>4 DEF Writes

\* What is remembered of a load or a save is the file, or was raced.
LEMMA TakesMtimeInv ==
  ASSUME DrawioInv, First("loaded") \/ First("saved"), TakesMtime(Head(calls).of), UNCHANGED disk
  PROVE  StaleOnlyIfRacedOrQuiet' /\ lastMtime' \in 0..MaxMtime /\ BaseOK'
  <1>1. CallOK(Head(calls), disk.pages)
    BY TailKeepsCalls DEF DrawioInv, First
  <1>2. /\ base' = [of |-> Head(calls).of, raced |-> Head(calls).raced, quiet |-> FALSE]
        /\ lastMtime' = disk.mtime
    BY DEF TakesMtime
  <1> QED  BY <1>1, <1>2 DEF StaleOnlyIfRacedOrQuiet, BaseOK, CallOK, First, DrawioInv, TypeOK

LEMMA SavedInv == DrawioInv /\ Saved => DrawioInv'
  <1> SUFFICES ASSUME DrawioInv, Saved PROVE DrawioInv'
    OBVIOUS
  <1>1. StaleOnlyIfRacedOrQuiet' /\ lastMtime' \in 0..MaxMtime /\ BaseOK'
    <2>1. CASE disk.pages = Missing
      BY <2>1 DEF Saved, DrawioInv, StaleOnlyIfRacedOrQuiet, BaseOK, TypeOK
    <2>2. CASE disk.pages # Missing
      BY <2>2, TakesMtimeInv DEF Saved
    <2> QED  BY <2>1, <2>2
  <1>2. CallsOK(calls', disk'.pages)
    BY TailKeepsCalls DEF DrawioInv, Saved, First
  <1> QED  BY <1>1, <1>2 DEF DrawioInv, Saved, TypeOK, EditableHasPages, PagesMakeDocument,
                             BuildAllPages, view

LEMMA LoadedInv == DrawioInv /\ Loaded => DrawioInv'
  <1> SUFFICES ASSUME DrawioInv, Loaded PROVE DrawioInv'
    OBVIOUS
  <1> DEFINE file == Head(calls).of
             got  == IF file = <<>> THEN <<0>> ELSE file
  <1> USE DrawioAssumption
  <1>0. CASE disk.pages = Missing
    BY <1>0, LoadFailsInv DEF Loaded, First
  <1>n. SUFFICES ASSUME disk.pages # Missing PROVE DrawioInv'
    BY <1>0
  <1>1. file = Unreadable \/ IsDocument(file)
    BY TailKeepsCalls DEF DrawioInv, Loaded, First, CallOK
  <1>d. UNCHANGED <<disk, isActive>> /\ loading' = FALSE /\ TakesMtime(file) /\ Parses(file)
    BY <1>n DEF Loaded, LoadDone
  <1>2. StaleOnlyIfRacedOrQuiet' /\ lastMtime' \in 0..MaxMtime /\ BaseOK'
    BY <1>d, TakesMtimeInv DEF Loaded
  <1>3. CallsOK(calls', disk'.pages)
    BY <1>n, TailKeepsCalls, AppendKeepsCalls, PlainCall DEF DrawioInv, Loaded, LoadDone, First, StartCheck
  <1>4. CASE file = Unreadable
    BY <1>d, <1>2, <1>3, <1>4 DEF DrawioInv, Parses, TypeOK, EditableHasPages, PagesMakeDocument,
                            BuildAllPages, view
  <1>5. CASE file # Unreadable
    <2>1. IsDocument(got) /\ got # <<>> /\ 1 \in DOMAIN got /\ got[1] \in Nat
      BY <1>1, <1>5 DEF IsDocument
    <2>2. /\ pages' = got /\ live' = got[1] /\ activePageIndex' = 1 /\ pageCache' = NoCache
          /\ doc' = got /\ loading' = FALSE
          /\ UNCHANGED <<disk, error, isActive>>
      BY <1>5, <1>d, Zenon DEF Parses, Show
    <2>3. DOMAIN pageCache' = {} /\ pageCache' = [i \in DOMAIN pageCache' |-> pageCache'[i]]
      BY <2>2 DEF NoCache
    <2>4. TypeOK'
      <3>1. loading' \in BOOLEAN
        BY <2>2
      <3> QED  BY <1>2, <2>1, <2>2, <2>3, <3>1 DEF DrawioInv, TypeOK
    <2>5. PagesMakeDocument'
      <3>1. got = [i \in DOMAIN got |-> got[i]]
        BY <2>1 DEF IsDocument
      <3> QED  BY <2>1, <2>2, <2>3, <3>1 DEF PagesMakeDocument, BuildAllPages
    <2>6. EditableHasPages'
      BY <2>1, <2>2 DEF EditableHasPages
    <2> QED  BY <1>2, <1>3, <2>4, <2>5, <2>6 DEF DrawioInv
  <1> QED  BY <1>4, <1>5

LEMMA ServeInv == DrawioInv /\ Serve => DrawioInv'
  BY ReadsInv, ChecksInv, WritesInv, SavedInv, LoadedInv DEF Serve

-----------------------------------------------------------------------------
(* The user's steps and the other program's.                               *)

\* The document as a sequence of the pages.
LEMMA DocOfPages ==
  ASSUME DrawioInv
  PROVE  /\ pages \in Seq(Nat) /\ doc \in Seq(Nat) /\ Len(doc) = Len(pages)
         /\ DOMAIN doc = DOMAIN pages
         /\ \A i \in DOMAIN pages : doc[i] = IF i = activePageIndex THEN live
                                           ELSE IF i \in DOMAIN pageCache THEN pageCache[i]
                                           ELSE pages[i]
  <1>1. DOMAIN doc = DOMAIN pages
    BY DEF DrawioInv, PagesMakeDocument, BuildAllPages
  <1> QED  BY <1>1 DEF DrawioInv, TypeOK, IsDocument, PagesMakeDocument, BuildAllPages

LEMMA EditInv == ASSUME DrawioInv, Edit, ops \in Nat PROVE DrawioInv'
  <1>1. pages # <<>> /\ activePageIndex \in DOMAIN pages
    BY DEF DrawioInv, EditableHasPages, TypeOK, Edit, CanEdit
  <1>2. New \in Nat
    BY DEF New
  <1>3. doc' \in Seq(Nat) /\ Len(doc') = Len(doc)
    BY <1>1, <1>2, DocOfPages DEF Edit
  <1>4. PagesMakeDocument'
    <2>1. doc' = [i \in DOMAIN pages |-> IF i = activePageIndex THEN New ELSE doc[i]]
      BY <1>1, DocOfPages DEF Edit
    <2> QED  BY <2>1, DocOfPages DEF Edit, PagesMakeDocument, BuildAllPages
  <1>5. TypeOK'
    BY <1>2, <1>3 DEF DrawioInv, BaseOK, Edit, TypeOK, IsDocument
  <1> QED  BY <1>4, <1>5 DEF DrawioInv, BaseOK, Edit, EditableHasPages, StaleOnlyIfRacedOrQuiet

\* Storing the shown page in the cache.
LEMMA CachedIs ==
  ASSUME NEW i, NEW c
  PROVE  /\ DOMAIN Cached(i, c) = DOMAIN pageCache \cup {i}
         /\ Cached(i, c)[i] = c
         /\ \A j \in DOMAIN pageCache \ {i} : Cached(i, c)[j] = pageCache[j]
         /\ Cached(i, c) = [j \in DOMAIN Cached(i, c) |-> Cached(i, c)[j]]
  BY DEF Cached

LEMMA SwitchPageInv ==
  ASSUME DrawioInv, NEW i \in DOMAIN pages, SwitchPage(i) PROVE DrawioInv'
  <1>1. activePageIndex \in DOMAIN pages /\ i # activePageIndex /\ live \in Nat
    BY DEF DrawioInv, EditableHasPages, TypeOK, SwitchPage, CanEdit
  <1>2. /\ DOMAIN pageCache' = DOMAIN pageCache \cup {activePageIndex}
        /\ pageCache'[activePageIndex] = live
        /\ \A j \in DOMAIN pageCache \ {activePageIndex} : pageCache'[j] = pageCache[j]
        /\ pageCache' = [j \in DOMAIN pageCache' |-> pageCache'[j]]
    <2>1. pageCache' = Cached(activePageIndex, live)
      BY DEF SwitchPage
    <2>2. /\ DOMAIN Cached(activePageIndex, live) = DOMAIN pageCache \cup {activePageIndex}
          /\ Cached(activePageIndex, live)[activePageIndex] = live
          /\ \A j \in DOMAIN pageCache \ {activePageIndex} :
               Cached(activePageIndex, live)[j] = pageCache[j]
          /\ Cached(activePageIndex, live)
               = [j \in DOMAIN Cached(activePageIndex, live) |-> Cached(activePageIndex, live)[j]]
      BY CachedIs
    <2> QED  BY <2>1, <2>2
  <1>3. /\ pages' = pages /\ doc' = doc /\ activePageIndex' = i
        /\ live' = IF i \in DOMAIN pageCache' THEN pageCache'[i] ELSE pages[i]
    BY DEF SwitchPage
  <1>4. PagesMakeDocument'
    <2>1. ASSUME NEW j \in DOMAIN pages
          PROVE  doc[j] = IF j = activePageIndex' THEN live'
                          ELSE IF j \in DOMAIN pageCache' THEN pageCache'[j] ELSE pages[j]
      BY <1>1, <1>2, <1>3, DocOfPages
    <2>2. doc = [j \in DOMAIN pages |-> doc[j]]
      BY DocOfPages
    <2> QED  BY <1>3, <2>1, <2>2 DEF PagesMakeDocument, BuildAllPages
  <1>5. TypeOK'
    <2>1. live' \in Nat /\ activePageIndex' \in 1..MaxPages
      <3>0. pages \in Seq(Nat) /\ Len(pages) <= MaxPages /\ MaxPages \in Nat
        BY DrawioAssumption DEF DrawioInv, TypeOK, IsDocument
      <3>1. pages[i] \in Nat /\ i \in 1..MaxPages
        BY <3>0
      <3>2. i \in DOMAIN pageCache' => pageCache'[i] \in Nat
        BY <1>1, <1>2 DEF DrawioInv, TypeOK
      <3> QED  BY <1>3, <3>1, <3>2
    <2> QED  BY <1>1, <1>2, <1>3, <2>1 DEF DrawioInv, TypeOK, SwitchPage
  <1> QED  BY <1>4, <1>5 DEF DrawioInv, BaseOK, SwitchPage, EditableHasPages, StaleOnlyIfRacedOrQuiet

LEMMA AddPageInv == ASSUME DrawioInv, AddPage PROVE DrawioInv'
  <1>1. activePageIndex \in DOMAIN pages /\ live \in Nat
    BY DEF DrawioInv, EditableHasPages, TypeOK, AddPage, CanEdit
  <1>2. /\ DOMAIN pageCache' = DOMAIN pageCache \cup {activePageIndex}
        /\ pageCache'[activePageIndex] = live
        /\ \A j \in DOMAIN pageCache \ {activePageIndex} : pageCache'[j] = pageCache[j]
        /\ pageCache' = [j \in DOMAIN pageCache' |-> pageCache'[j]]
    <2>1. pageCache' = Cached(activePageIndex, live)
      BY DEF AddPage
    <2>2. /\ DOMAIN Cached(activePageIndex, live) = DOMAIN pageCache \cup {activePageIndex}
          /\ Cached(activePageIndex, live)[activePageIndex] = live
          /\ \A j \in DOMAIN pageCache \ {activePageIndex} :
               Cached(activePageIndex, live)[j] = pageCache[j]
          /\ Cached(activePageIndex, live)
               = [j \in DOMAIN Cached(activePageIndex, live) |-> Cached(activePageIndex, live)[j]]
      BY CachedIs
    <2> QED  BY <2>1, <2>2
  <1>3. /\ pages' = Append(pages, 0) /\ doc' = Append(doc, 0) /\ live' = 0
        /\ activePageIndex' = Len(pages) + 1 /\ Len(pages) < MaxPages
    BY DEF AddPage
  <1>4. /\ pages' \in Seq(Nat) /\ doc' \in Seq(Nat) /\ DOMAIN pages' = 1..(Len(pages) + 1)
        /\ DOMAIN doc' = DOMAIN pages' /\ Len(doc') = Len(pages) + 1
        /\ Len(pages') = Len(pages) + 1 /\ DOMAIN pages = 1..Len(pages)
        /\ \A j \in DOMAIN pages : pages'[j] = pages[j] /\ doc'[j] = doc[j]
        /\ doc'[Len(pages) + 1] = 0
    BY <1>3, DocOfPages
  <1>5. DOMAIN pageCache \subseteq DOMAIN pages /\ Len(pages) \in Nat
    BY DocOfPages DEF DrawioInv, TypeOK
  <1>6. PagesMakeDocument'
    <2>1. ASSUME NEW j \in DOMAIN pages'
          PROVE  doc'[j] = IF j = activePageIndex' THEN live'
                           ELSE IF j \in DOMAIN pageCache' THEN pageCache'[j] ELSE pages'[j]
      <3>1. CASE j = Len(pages) + 1
        BY <1>3, <1>4, <3>1
      <3>2. CASE j # Len(pages) + 1
        <4>1. j \in DOMAIN pages
          BY <1>4, <1>5, <3>2
        <4> QED  BY <1>1, <1>2, <1>3, <1>4, <1>5, <3>2, <4>1, DocOfPages
      <3> QED  BY <3>1, <3>2
    <2>2. doc' = [j \in DOMAIN pages' |-> doc'[j]]
      BY <1>4
    <2> QED  BY <2>1, <2>2 DEF PagesMakeDocument, BuildAllPages
  <1>7. TypeOK'
    <2>1. activePageIndex' \in 1..MaxPages /\ live' \in Nat /\ IsDocument(pages)' /\ IsDocument(doc)'
      BY <1>3, <1>4, <1>5, DrawioAssumption DEF IsDocument
    <2>2. DOMAIN pageCache' \subseteq DOMAIN pages' /\ activePageIndex' \in DOMAIN pages'
      BY <1>1, <1>2, <1>3, <1>4, <1>5
    <2>3. \A j \in DOMAIN pageCache' : pageCache'[j] \in Nat
      BY <1>1, <1>2 DEF DrawioInv, TypeOK
    <2> QED  BY <1>2, <2>1, <2>2, <2>3 DEF DrawioInv, TypeOK, AddPage, CanEdit
  <1>8. EditableHasPages'
    BY <1>4, <1>5 DEF EditableHasPages
  <1> QED  BY <1>6, <1>7, <1>8 DEF DrawioInv, BaseOK, AddPage, StaleOnlyIfRacedOrQuiet

\* Steps that only make calls or show and hide the tab.
LEMMA CallInv ==
  ASSUME DrawioInv, CallsOK(calls', disk.pages), isActive' \in BOOLEAN,
         UNCHANGED <<disk, view, lastMtime, loading, error, doc, base>>
  PROVE  DrawioInv'
  BY DEF DrawioInv, TypeOK, EditableHasPages, PagesMakeDocument, BuildAllPages,
         StaleOnlyIfRacedOrQuiet, BaseOK, view

LEMMA SaveToDiskInv == ASSUME DrawioInv, SaveToDisk PROVE DrawioInv'
  <1>1. IsDocument(BuildAllPages)
    BY DEF DrawioInv, PagesMakeDocument, TypeOK
  <1>2. Call("write", BuildAllPages) \in CallType
        /\ CallOK(Call("write", BuildAllPages), disk.pages)
    BY <1>1 DEF Call, CallType, CallOK, IsDocument
  <1>3. CallsOK(calls', disk.pages)
    BY <1>2, AppendKeepsCalls DEF DrawioInv, SaveToDisk
  <1> QED  BY <1>3, CallInv DEF DrawioInv, TypeOK, SaveToDisk

LEMMA ShowInv == ASSUME DrawioInv, Activate \/ Deactivate \/ Reactivate PROVE DrawioInv'
  <1>1. CallsOK(StartCheck(calls), disk.pages) /\ CallsOK(calls, disk.pages)
    BY AppendKeepsCalls, PlainCall DEF DrawioInv, StartCheck
  <1>2. CallsOK(StartCheck(StartCheck(calls)), disk.pages)
    BY <1>1, AppendKeepsCalls, PlainCall DEF StartCheck
  <1>3. CallsOK(calls', disk.pages)
    BY <1>1, <1>2, Zenon DEF Activate, Deactivate, Reactivate
  <1>4. isActive' \in BOOLEAN
    BY DEF Activate, Deactivate, Reactivate
  <1> QED  BY <1>3, <1>4, CallInv, Zenon DEF Activate, Deactivate, Reactivate

LEMMA OtherWritesInv == ASSUME DrawioInv, OtherWrites, ops \in Nat PROVE DrawioInv'
  <1>1. ASSUME NEW p, CallsOK(calls, disk.pages) PROVE CallsOK(calls', p)
    BY <1>1, RacedKeepsCalls DEF OtherWrites
  <1>2. IsDocument(<<>>) /\ IsDocument(<<New>>) /\ IsDocument(<<New, 0>>)
    BY DrawioAssumption DEF IsDocument, New
  <1>3. Mtimes \subseteq 0..MaxMtime /\ 0 \in 0..MaxMtime
    BY DrawioAssumption DEF Mtimes
  <1>4. CASE \E p \in {Unreadable, NotText, <<>>, <<New>>, <<New, 0>>}, m \in Mtimes : Written(p, m)
    <2>1. PICK p \in {Unreadable, NotText, <<>>, <<New>>, <<New, 0>>}, m \in Mtimes : Written(p, m)
      BY <1>4
    <2>2. CallsOK(calls', p)
      BY <1>1 DEF DrawioInv
    <2>3. p \in {Unreadable, NotText, Missing} \/ IsDocument(p)
      BY <1>2
    <2> QED  BY <1>3, <2>1, <2>2, <2>3, NewDiskInv DEF OtherWrites
  <1>5. CASE Written(Missing, 0)
    <2>1. CallsOK(calls', Missing)
      BY <1>1 DEF DrawioInv
    <2> QED  BY <1>3, <1>5, <2>1, NewDiskInv DEF OtherWrites
  <1> QED  BY <1>4, <1>5 DEF OtherWrites

LEMMA OpInv == DrawioInv /\ ops \in Nat /\ Op => DrawioInv'
  BY EditInv, SwitchPageInv, AddPageInv, SaveToDiskInv, ShowInv, OtherWritesInv DEF Op

LEMMA StepInv ==
  ASSUME DrawioInv, ops \in Nat, [Next]_vars PROVE DrawioInv' /\ ops' \in Nat
  <1>1. CASE Next
    <2>1. ops' \in Nat
      BY <1>1 DEF Next, Serve, Op
    <2> QED  BY <1>1, <2>1, ServeInv, OpInv DEF Next
  <1>2. CASE UNCHANGED vars
    BY <1>2 DEF vars, view, DrawioInv, TypeOK, EditableHasPages, PagesMakeDocument,
                BuildAllPages, StaleOnlyIfRacedOrQuiet, BaseOK
  <1> QED  BY <1>1, <1>2

\* Types of the editor's state, in every reachable state.
THEOREM DrawioTypeCorrect == Spec => []TypeOK
  <1>1. Init => DrawioInv /\ ops \in Nat
    BY InitDrawioInv DEF Init
  <1>2. DrawioInv => TypeOK
    BY DEF DrawioInv
  <1>3. (DrawioInv /\ ops \in Nat) /\ [Next]_vars => (DrawioInv /\ ops \in Nat)'
    BY StepInv
  <1> QED  BY <1>1, <1>2, <1>3, PTL DEF Spec

\* What a save would write is the document the user sees: however often pages
\* are left, revisited and added, and whatever loads replace them.
THEOREM SavesTheDocument == Spec => []PagesMakeDocument
  <1>1. Init => DrawioInv /\ ops \in Nat
    BY InitDrawioInv DEF Init
  <1>2. DrawioInv => PagesMakeDocument
    BY DEF DrawioInv
  <1>3. (DrawioInv /\ ops \in Nat) /\ [Next]_vars => (DrawioInv /\ ops \in Nat)'
    BY StepInv
  <1> QED  BY <1>1, <1>2, <1>3, PTL DEF Spec

\* A file that is not what was last read or written, and that no check will
\* find to be newer, was written between the two calls of that load or save,
\* or since, with an mtime that is not newer: there is no third way.
THEOREM NoThirdWayToGoStale == Spec => []StaleOnlyIfRacedOrQuiet
  <1>1. Init => DrawioInv /\ ops \in Nat
    BY InitDrawioInv DEF Init
  <1>2. DrawioInv => StaleOnlyIfRacedOrQuiet
    BY DEF DrawioInv
  <1>3. (DrawioInv /\ ops \in Nat) /\ [Next]_vars => (DrawioInv /\ ops \in Nat)'
    BY StepInv
  <1> QED  BY <1>1, <1>2, <1>3, PTL DEF Spec
=============================================================================
