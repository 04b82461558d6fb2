--------------------------- MODULE CanvasTimeline ---------------------------
(* What undo and redo promise, without stacks: the user walks along one    *)
(* timeline of documents.  Recording a change cuts off what lies after the *)
(* present; only the last Reach documents before it can be gone back to.   *)
EXTENDS Integers, Sequences, FiniteSets

CONSTANTS Reach

VARIABLES
  timeline,       \* the documents, oldest first
  cursor,         \* which of them is on the screen
  dragging        \* a pointer gesture is showing changes it has not recorded

vars == <<timeline, cursor, dragging>>

Present == timeline[cursor]
Past    == SubSeq(timeline, 1, cursor - 1)

\* What is kept of t when its documents up to the n-th lie before the present.
Kept(t, n) == IF n > Reach THEN SubSeq(t, n - Reach + 1, Len(t)) ELSE t

\* The document a recorded change starts from: the present, or, at the end of
\* a drag, the same expressions where the drag had found them.
StartsFrom(before) ==
  \/ before = Present
  \/ /\ dragging
     /\ before.order = Present.order
     /\ DOMAIN before.doc = DOMAIN Present.doc

\* More documents were recorded at once than are kept, each with one expression
\* more: the first that is left is one of them, and nothing leads back to the
\* document they started from.
Overrun ==
  Cardinality(DOMAIN timeline'[Len(timeline')].doc) > Cardinality(DOMAIN Present.doc) + Reach

Init == Len(timeline) = 1 /\ cursor = 1 /\ dragging = FALSE

\* One gesture records one change, or several (a paste of several expressions).
Record ==
  /\ cursor' = Len(timeline')
  /\ \E k \in 1..(Len(timeline') - 1) :
       LET new == SubSeq(timeline', Len(timeline') - k, Len(timeline'))
       IN  /\ StartsFrom(Head(new)) \/ (k = Reach /\ Overrun)
           /\ timeline' = Kept(Past \o new, Len(Past) + k)

\* The present is changed without being recorded: a drag preview, the z-order,
\* a layer.
Amend ==
  /\ cursor' = cursor
  /\ timeline' = [timeline EXCEPT ![cursor] = timeline'[cursor]]

Back    == cursor' = cursor - 1 /\ cursor' >= 1 /\ UNCHANGED timeline
Forward == cursor' = cursor + 1 /\ cursor' <= Len(timeline) /\ UNCHANGED timeline

\* A document is loaded, or the history is forgotten.
Reset == Len(timeline') = 1 /\ cursor' = 1

\* A refused update: nothing changes on the screen, yet what could be redone is
\* replaced by a copy of the present.
Refuse ==
  /\ timeline' = Kept(Past \o <<Present, Present>>, cursor)
  /\ cursor' = Len(timeline') - 1

Next == Record \/ Amend \/ Back \/ Forward \/ Reset \/ Refuse

Spec == Init /\ [][Next]_vars
=============================================================================
