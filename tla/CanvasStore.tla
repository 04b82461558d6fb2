---------------------------- MODULE CanvasStore ----------------------------
(* The canvas document store (canvasStore.ts) with its undo history        *)
(* (historyManager.ts), the clipboard (useKeyboardShortcuts.ts) and the    *)
(* pointer gestures that preview a change before they commit it            *)
(* (useManipulationInteraction.ts).                                        *)
(*                                                                         *)
(* An expression keeps what these operations look at: where it is (at, one *)
(* of Places positions; two expressions overlap, contain each other or     *)
(* snap when they are at the same place), the rest of its content (look; a *)
(* container with look 1 is collapsed), the expression an arrow is bound   *)
(* to, the group or container it belongs to, and its layer.                *)
EXTENDS Integers, Sequences, FiniteSets, SequencesExt, FiniteSetsExt, Functions

CONSTANTS
  Ids,            \* expression ids; nanoid never repeats one
  Groups,         \* group ids
  KindOf,         \* [Ids -> {"shape", "arrow", "container"}]
  LockedIds,      \* expressions with meta.locked, which nothing changes
  Layers,
  DefaultLayer,
  Files,          \* documents that can be loaded: records [doc, order]
  Places,
  MaxHistory,     \* HistoryManager's maxSize
  MaxSelection,   \* bound: expressions selected at once
  MaxSteps,       \* bound: user operations in a behaviour
  None

ASSUME CanvasAssumption ==
  /\ None \notin Ids \cup Groups /\ Ids \cap Groups = {}
  /\ IsFiniteSet(Ids)
  /\ KindOf \in [Ids -> {"shape", "arrow", "container"}]
  /\ DefaultLayer \in Layers
  /\ MaxHistory \in Nat \ {0} /\ Places \in Nat \ {0} /\ MaxSelection \in Nat /\ MaxSteps \in Nat

VARIABLES
  doc,            \* expressions: id -> expression
  order,          \* expressionOrder: back to front
  undo, redo,     \* the stacks of snapshots [doc, order], newest last
  canUndo, canRedo,
  drag,           \* dragModeRef: the gesture under way
  clipboard,      \* copies of expressions
  layers, lockedLayers, activeLayer,
  born,           \* ids handed out so far: of expressions, groups and layers
  steps           \* bound

docVars   == <<doc, order>>
histVars  == <<undo, redo, canUndo, canRedo>>
layerVars == <<layers, lockedLayers, activeLayer>>
vars == <<doc, order, undo, redo, canUndo, canRedo, drag, clipboard, layers,
          lockedLayers, activeLayer, born, steps>>

Live     == DOMAIN doc
NoDrag   == [kind |-> "none"]
Moved(p, d) == (p + d) % Places

\* What an arrow can be bound to.
Bindable(i) == i \in Live /\ KindOf[i] # "arrow"

Expression ==
  [at : 0..(Places - 1), look : {0, 1}, bound : Ids \cup {None},
   parent : Ids \cup Groups \cup {None}, layer : Layers, clip : BOOLEAN]

-----------------------------------------------------------------------------
(* The history. *)

Snapshot == [doc |-> doc, order |-> order]

\* Mutation: the oldest snapshot stays.
PushedUnbounded(stack, s) == Append(stack, s)

\* A new snapshot goes on top; the oldest falls out when there are too many.
Pushed(stack, s) ==
  LET t == Append(stack, s) IN IF Len(t) > MaxHistory THEN Tail(t) ELSE t

\* After several pushes: as many of the last snapshots as there is room for.
Latest(s) == IF Len(s) > MaxHistory THEN SubSeq(s, Len(s) - MaxHistory + 1, Len(s)) ELSE s

Flags == canUndo' = (undo' # <<>>) /\ canRedo' = (redo' # <<>>)

\* Mutation: what could be redone stays.
CommitKeepingRedo(before, d, o) ==
  /\ undo' = Pushed(undo, before) /\ UNCHANGED redo /\ Flags
  /\ doc' = d /\ order' = o

\* Every recorded change: a snapshot from before it, and the new document.
Commit(before, d, o) ==
  /\ undo' = Pushed(undo, before)
  /\ redo' = <<>>
  /\ Flags
  /\ doc' = d /\ order' = o

\* A change of the document the history does not see.
Silently(d, o) == doc' = d /\ order' = o /\ UNCHANGED histVars

Undo ==
  /\ undo # <<>>
  /\ undo' = Front(undo)
  /\ redo' = Append(redo, Snapshot)
  /\ doc' = Last(undo).doc /\ order' = Last(undo).order
  /\ Flags
  /\ UNCHANGED <<drag, clipboard, layerVars, born>>

Redo ==
  /\ redo # <<>>
  /\ redo' = Front(redo)
  /\ undo' = Append(undo, Snapshot)
  /\ doc' = Last(redo).doc /\ order' = Last(redo).order
  /\ Flags
  /\ UNCHANGED <<drag, clipboard, layerVars, born>>

ForgetHistory == undo' = <<>> /\ redo' = <<>> /\ canUndo' = FALSE /\ canRedo' = FALSE

ClearHistory == ForgetHistory /\ UNCHANGED <<docVars, drag, clipboard, layerVars, born>>

-----------------------------------------------------------------------------
(* Content. *)

OnLockedLayer(i) == doc[i].layer \in lockedLayers
Editable(ids)    == {i \in ids \cap Live : i \notin LockedIds /\ ~OnLockedLayer(i)}

\* Ids the user has selected: a selection may still name what undo took away.
Selections == {ids \in SUBSET (born \cap Ids) : Cardinality(ids) \in 1..MaxSelection}
Fresh      == Ids \ born

\* The expressions of o that are in S, in the order of o.
Only(o, S) ==
  LET only[n \in 0..Len(o)] ==
        IF n = 0 THEN <<>>
        ELSE IF o[n] \in S THEN Append(only[n - 1], o[n]) ELSE only[n - 1]
  IN  only[Len(o)]

With(d, i, e)   == [j \in DOMAIN d \cup {i} |-> IF j = i THEN e ELSE d[j]]

AddExpression(i, at, target) ==
  /\ i \in Fresh /\ KindOf[i] # "container"
  /\ target # None => Bindable(target) /\ KindOf[i] = "arrow"
  /\ Commit(Snapshot,
            With(doc, i, [at |-> at, look |-> 0, bound |-> target, parent |-> None,
                          layer |-> activeLayer, clip |-> FALSE]),
            Append(order, i))
  /\ born' = born \cup {i}
  /\ UNCHANGED <<drag, clipboard, layerVars>>

CreateContainer(i, at) ==
  /\ i \in Fresh /\ KindOf[i] = "container"
  /\ Commit(Snapshot,
            With(doc, i, [at |-> at, look |-> 0, bound |-> None, parent |-> None,
                          layer |-> activeLayer, clip |-> FALSE]),
            Append(order, i))
  /\ born' = born \cup {i}
  /\ UNCHANGED <<drag, clipboard, layerVars>>

UpdateExpression(i, at) ==
  /\ i \in Editable({i})
  /\ Commit(Snapshot, [doc EXCEPT ![i].at = at], order)
  /\ UNCHANGED <<drag, clipboard, layerVars, born>>

\* The merged expression fails validation.  The snapshot has been pushed, which
\* emptied the redo stack, and is taken off again with undo().
RejectUpdate(i) ==
  /\ i \in Editable({i})
  /\ undo' = Front(Pushed(undo, Snapshot))
  /\ redo' = <<Snapshot>>
  /\ Flags
  /\ UNCHANGED <<docVars, drag, clipboard, layerVars, born>>

\* The style of a container is not modelled.
StyleExpressions(ids, look) ==
  /\ Editable(ids) # {}
  /\ Commit(Snapshot,
            [i \in Live |-> IF i \in Editable(ids) /\ KindOf[i] # "container"
                            THEN [doc[i] EXCEPT !.look = look] ELSE doc[i]], order)
  /\ UNCHANGED <<drag, clipboard, layerVars, born>>

\* Mutation: arrows keep their binding to what is deleted.
WithoutStillBound(d, dead) ==
  [i \in DOMAIN d \ dead |-> [d[i] EXCEPT !.parent = IF @ \in dead THEN None ELSE @]]

\* Arrows bound to a deleted expression let go of it, children leave it.
Without(d, dead) ==
  [i \in DOMAIN d \ dead |->
     [d[i] EXCEPT !.bound  = IF @ \in dead THEN None ELSE @,
                  !.parent = IF @ \in dead THEN None ELSE @]]

\* Mutation: the deleted stay in the order.
DeleteUnordered(ids) ==
  /\ Editable(ids) # {}
  /\ Commit(Snapshot, Without(doc, Editable(ids)), order)

DeleteExpressions(ids) ==
  LET dead == Editable(ids)
  IN  /\ dead # {}
      /\ Commit(Snapshot, Without(doc, dead), Only(order, Ids \ dead))

\* Delete and Cut take the whole group of every selected expression.
WithGroups(ids) ==
  ids \cup {j \in Live : \E i \in ids \cap Live :
                           doc[i].parent # None /\ doc[j].parent = doc[i].parent}

Delete(ids) ==
  /\ DeleteExpressions(WithGroups(ids))
  /\ UNCHANGED <<drag, clipboard, layerVars, born>>

Copies(ids) == {[id |-> i, e |-> [doc[i] EXCEPT !.clip = TRUE]] : i \in ids \cap Live}

Copy(ids) ==
  /\ clipboard' = SetToSeq(Copies(ids))
  /\ UNCHANGED <<docVars, histVars, drag, layerVars, born>>

Cut(ids) ==
  /\ clipboard' = SetToSeq(Copies(ids))
  /\ DeleteExpressions(WithGroups(ids))
  /\ UNCHANGED <<drag, layerVars, born>>

-----------------------------------------------------------------------------
(* Paste and duplicate call addExpression once for each copy: as many      *)
(* changes on the history.                                                 *)

\* The document when the first n of the copies news have been added.
Added(news, n) ==
  LET of(j) == {k \in 1..n : news[k].id = j}
  IN  [doc   |-> [j \in Live \cup {news[k].id : k \in 1..n} |->
                    IF of(j) # {} THEN news[CHOOSE k \in of(j) : TRUE].e ELSE doc[j]],
       order |-> order \o [k \in 1..n |-> news[k].id]]

AddAll(news) ==
  LET after == Added(news, Len(news))
  IN  /\ doc' = after.doc /\ order' = after.order
      /\ undo' = Latest(undo \o [k \in 1..Len(news) |-> Added(news, k - 1)])
      /\ redo' = <<>> /\ Flags

\* New ids for the copies cs, one each and of the same kind.
Renamings(cs) ==
  {f \in [DOMAIN cs -> Fresh] :
     /\ IsInjective(f)
     /\ \A k \in DOMAIN cs : KindOf[f[k]] = KindOf[cs[k].id]}

Offset(e) == [e EXCEPT !.at = Moved(@, 1)]

\* Pasted copies keep the bindings and the parent of their originals.
Paste ==
  /\ clipboard # <<>>
  /\ \E f \in Renamings(clipboard) :
       /\ AddAll([k \in DOMAIN clipboard |-> [id |-> f[k], e |-> Offset(clipboard[k].e)]])
       /\ born' = born \cup {f[k] : k \in DOMAIN f}
  /\ UNCHANGED <<drag, clipboard, layerVars>>

\* Duplicates of expressions with one parent get one new parent id, even when
\* that parent is a container and is duplicated with them.
DuplicateGrouped(ids) ==
  LET cs == SetToSeq({[id |-> i, e |-> doc[i]] : i \in WithGroups(ids) \cap Live})
      parents == {cs[k].e.parent : k \in DOMAIN cs} \ {None}
  IN  /\ cs # <<>>
      /\ \E f \in Renamings(cs) : \E g \in [parents -> Groups \ born] :
           /\ IsInjective(g)
           /\ LET Dup(e) == [Offset(e) EXCEPT !.parent = IF @ = None THEN None ELSE g[@]]
              IN  AddAll([k \in DOMAIN cs |-> [id |-> f[k], e |-> Dup(cs[k].e)]])
           /\ born' = born \cup {f[k] : k \in DOMAIN f} \cup {g[p] : p \in parents}
      /\ UNCHANGED <<drag, clipboard, layerVars>>

-----------------------------------------------------------------------------
(* Groups and containers share the field parent. *)

GroupExpressions(ids, g) ==
  LET valid == {i \in ids \cap Live : ~OnLockedLayer(i)}
  IN  /\ Cardinality(valid) >= 2 /\ g \notin born
      /\ Commit(Snapshot, [i \in Live |-> IF i \in valid
                                          THEN [doc[i] EXCEPT !.parent = g] ELSE doc[i]],
                order)
      /\ born' = born \cup {g}
      /\ UNCHANGED <<drag, clipboard, layerVars>>

UngroupExpressions(g) ==
  LET members == {i \in Live : doc[i].parent = g /\ ~OnLockedLayer(i)}
  IN  /\ members # {}
      /\ Commit(Snapshot, [i \in Live |-> IF i \in members
                                          THEN [doc[i] EXCEPT !.parent = None] ELSE doc[i]],
                order)
      /\ UNCHANGED <<drag, clipboard, layerVars, born>>

ToggleContainerCollapse(i) ==
  /\ i \in Live /\ KindOf[i] = "container"
  /\ Commit(Snapshot, [doc EXCEPT ![i].look = 1 - @], order)
  /\ UNCHANGED <<drag, clipboard, layerVars, born>>

\* Sets of expressions that hold the parent of each of their members.
Upward(d) == {S \in SUBSET DOMAIN d : \A j \in S : d[j].parent \in DOMAIN d => d[j].parent \in S}

\* The expressions met on the way up from i: the least such set with its parent.
Ancestors(d, i) ==
  LET above == {S \in Upward(d) : d[i].parent \in DOMAIN d => d[i].parent \in S}
  IN  {j \in DOMAIN d : \A S \in above : j \in S}

\* Mutation: a container may go into its own child.
AutoParentAnywhere(i, c) ==
  /\ i \in Live /\ c \in Live \ {i} /\ KindOf[c] = "container" /\ doc[c].look = 0
  /\ doc[c].at = doc[i].at /\ doc[i].parent # c
  /\ Commit(Snapshot, [doc EXCEPT ![i].parent = c], order)
  /\ UNCHANGED <<drag, clipboard, layerVars, born>>

\* The smallest open container around i becomes its parent, unless i is already
\* above that container.  Sizes are not modelled: any one may be the smallest.
AutoParentOnDrop(i, c) ==
  /\ i \in Live
  /\ c \in Live \ {i} /\ KindOf[c] = "container" /\ doc[c].look = 0
  /\ doc[c].at = doc[i].at
  /\ doc[i].parent # c
  /\ i \notin Ancestors(doc, c)
  /\ Commit(Snapshot, [doc EXCEPT ![i].parent = c], order)
  /\ UNCHANGED <<drag, clipboard, layerVars, born>>

\* A parent that is not an expression (a group id) counts as gone.
AutoUnparentOnDrag(i) ==
  /\ i \in Live /\ doc[i].parent # None
  /\ doc[i].parent \in Live => doc[doc[i].parent].at # doc[i].at
  /\ Commit(Snapshot, [doc EXCEPT ![i].parent = None], order)
  /\ UNCHANGED <<drag, clipboard, layerVars, born>>

-----------------------------------------------------------------------------
(* Pointer gestures.  While the button is down the store is changed at     *)
(* every move without the history; the release commits.                    *)

\* Arrows bound to what has moved follow it.
Reanchored(d, moved) ==
  [i \in DOMAIN d |->
     IF d[i].bound \in moved \cap DOMAIN d THEN [d[i] EXCEPT !.at = d[d[i].bound].at]
     ELSE d[i]]

\* d with the expressions of from (id -> place) shifted by delta.
Shifted(d, from, delta) ==
  [i \in DOMAIN d |-> IF i \in DOMAIN from THEN [d[i] EXCEPT !.at = Moved(from[i], delta)]
                                           ELSE d[i]]

\* Button down on the selection (move) or on a handle (resize, point).
Press(kind, ids) ==
  LET targets == {i \in (IF kind = "move" THEN WithGroups(ids) ELSE ids) \cap Live :
                    i \notin LockedIds}
  IN  /\ drag = NoDrag /\ targets # {}
      /\ kind # "move" => Cardinality(ids) = 1
      /\ kind = "resize" => \A i \in ids : KindOf[i] # "arrow"
      /\ kind = "point" => \A i \in ids : KindOf[i] = "arrow"
      /\ drag' = [kind |-> kind, from |-> [i \in targets |-> doc[i].at], delta |-> 0]
      /\ UNCHANGED <<docVars, histVars, clipboard, layerVars, born>>

\* The preview.  The end of an arrow that is dragged lets go of its target; a
\* resize does not touch the arrows yet.
Preview(delta) ==
  /\ drag # NoDrag /\ delta # drag.delta
  /\ drag' = [drag EXCEPT !.delta = delta]
  /\ LET shown == Shifted(doc, drag.from, delta)
     IN  CASE drag.kind = "move"   -> Silently(Reanchored(shown, DOMAIN drag.from), order)
           [] drag.kind = "resize" -> Silently(shown, order)
           [] drag.kind = "point"  ->
                Silently([i \in Live |-> IF i \in DOMAIN drag.from
                                         THEN [shown[i] EXCEPT !.bound = None]
                                         ELSE shown[i]], order)
  /\ UNCHANGED <<clipboard, layerVars, born>>

\* The document with the given expressions back where the drag found them: what
\* moveExpressions and transformExpression push.
BeforeDrag(ids) ==
  [doc |-> [i \in Live |-> IF i \in ids THEN [doc[i] EXCEPT !.at = drag.from[i]]
                                        ELSE doc[i]],
   order |-> order]

\* Children of a moved container follow it, one level down.
Carried(ids) == {i \in Live \ ids : doc[i].parent \in ids /\ KindOf[doc[i].parent] = "container"}

\* A moved arrow lets go of a target that stays behind, one that is carried by
\* its container of any target.
LetGo(d, ids, carried) ==
  [i \in DOMAIN d |->
     IF KindOf[i] = "arrow"
        /\ (i \in carried \/ (i \in ids /\ d[i].bound \notin ids \cup carried))
     THEN [d[i] EXCEPT !.bound = None] ELSE d[i]]

\* A moved arrow snaps to an expression it now touches, if there is one.
Resnaps(d, ids) ==
  {f \in [ids -> Live \cup {None}] :
     \A i \in ids :
       LET near == {j \in Live : Bindable(j) /\ d[j].at = d[i].at}
       IN  IF KindOf[i] = "arrow" /\ near # {} THEN f[i] \in near ELSE f[i] = d[i].bound}

EndMove ==
  LET ids     == {i \in DOMAIN drag.from \cap Live : ~OnLockedLayer(i)}
      carried == Carried(ids)
      moved   == ids \cup carried
      start   == [i \in moved |-> IF i \in ids THEN drag.from[i] ELSE doc[i].at]
      there   == Reanchored(LetGo(Shifted(doc, start, drag.delta), ids, carried), moved)
  IN  /\ drag.kind = "move"
      /\ drag' = NoDrag
      /\ IF drag.delta # 0 /\ ids # {}
         THEN \E f \in Resnaps(there, ids) :
                Commit(BeforeDrag(ids),
                       [i \in Live |-> IF i \in ids THEN [there[i] EXCEPT !.bound = f[i]]
                                                    ELSE there[i]], order)
         ELSE UNCHANGED <<docVars, histVars>>
      /\ UNCHANGED <<clipboard, layerVars, born>>

EndResize ==
  LET ids == {i \in DOMAIN drag.from \cap Live : ~OnLockedLayer(i)}
  IN  /\ drag.kind = "resize"
      /\ drag' = NoDrag
      /\ IF drag.delta # 0 /\ ids # {}
         THEN Commit(BeforeDrag(ids),
                     Reanchored(Shifted(doc, [i \in ids |-> drag.from[i]], drag.delta), ids),
                     order)
         ELSE UNCHANGED <<docVars, histVars>>
      /\ UNCHANGED <<clipboard, layerVars, born>>

\* The end of an arrow (and its jetty and segment handles) is released through
\* updateExpression, whose snapshot is the store as the preview left it.
EndPoint(target) ==
  LET ids == DOMAIN drag.from \cap Editable(Live)
  IN  /\ drag.kind = "point"
      /\ target # None => Bindable(target)
      /\ drag' = NoDrag
      /\ IF drag.delta # 0 /\ ids # {}
         THEN Commit(Snapshot,
                     [i \in Live |-> IF i \in ids
                        THEN [doc[i] EXCEPT !.at = Moved(drag.from[i], drag.delta),
                                            !.bound = target]
                        ELSE doc[i]], order)
         ELSE UNCHANGED <<docVars, histVars>>
      /\ UNCHANGED <<clipboard, layerVars, born>>

-----------------------------------------------------------------------------
(* The z-order and the layers are outside the history. *)

BringToFront(ids) ==
  /\ Silently(doc, Only(order, Ids \ ids) \o Only(order, ids))
  /\ UNCHANGED <<drag, clipboard, layerVars, born>>

SendToBack(ids) ==
  /\ Silently(doc, Only(order, ids) \o Only(order, Ids \ ids))
  /\ UNCHANGED <<drag, clipboard, layerVars, born>>

Overlap(i, j) == i \in Live /\ j \in Live /\ doc[i].at = doc[j].at

\* The element at position i goes to position j.
Splice(o, i, j) == InsertAt(RemoveAt(o, i), j, o[i])

\* Where, among the positions over, the target at position i meets one that
\* overlaps it and is no target itself.
Met(o, i, ids, over) == {j \in over : o[i] \in ids /\ o[j] \notin ids /\ Overlap(o[i], o[j])}

\* Each target, last first, jumps over the next one that overlaps it.
BringForward(ids) ==
  LET N == Len(order)
      after[n \in 0..N] ==
        IF n = 0 THEN order
        ELSE LET o   == after[n - 1]
                 i   == N + 1 - n
                 met == Met(o, i, ids, (i + 1)..N)
             IN  IF met # {} THEN Splice(o, i, Min(met)) ELSE o
  IN  /\ Silently(doc, after[N])
      /\ UNCHANGED <<drag, clipboard, layerVars, born>>

\* Each target, first first, goes below the last one under it that overlaps it.
SendBackward(ids) ==
  LET N == Len(order)
      after[n \in 0..N] ==
        IF n = 0 THEN order
        ELSE LET o   == after[n - 1]
                 met == Met(o, n, ids, 1..(n - 1))
             IN  IF met # {} THEN Splice(o, n, Max(met)) ELSE o
  IN  /\ Silently(doc, after[N])
      /\ UNCHANGED <<drag, clipboard, layerVars, born>>

AddLayer(l) ==
  /\ l \notin born
  /\ layers' = layers \cup {l}
  /\ born' = born \cup {l}
  /\ UNCHANGED <<docVars, histVars, drag, clipboard, lockedLayers, activeLayer>>

\* Its expressions go to the default layer, those of the snapshots do not.
RemoveLayer(l) ==
  /\ l \in layers \ {DefaultLayer}
  /\ Silently([i \in Live |-> IF doc[i].layer = l
                              THEN [doc[i] EXCEPT !.layer = DefaultLayer] ELSE doc[i]], order)
  /\ layers' = layers \ {l}
  /\ lockedLayers' = lockedLayers \ {l}
  /\ activeLayer' = IF activeLayer = l THEN DefaultLayer ELSE activeLayer
  /\ UNCHANGED <<drag, clipboard, born>>

ToggleLayerLock(l) ==
  /\ l \in layers
  /\ lockedLayers' = IF l \in lockedLayers THEN lockedLayers \ {l} ELSE lockedLayers \cup {l}
  /\ UNCHANGED <<docVars, histVars, drag, clipboard, layers, activeLayer, born>>

SetActiveLayer(l) ==
  /\ l \in layers
  /\ activeLayer' = l
  /\ UNCHANGED <<docVars, histVars, drag, clipboard, layers, lockedLayers, born>>

MoveToLayer(ids, l) ==
  /\ l \in layers
  /\ Silently([i \in Live |-> IF i \in ids \ LockedIds
                              THEN [doc[i] EXCEPT !.layer = l] ELSE doc[i]], order)
  /\ UNCHANGED <<drag, clipboard, layerVars, born>>

-----------------------------------------------------------------------------
(* Loading. *)

\* The ids a document uses, as its expressions or as what they refer to.
Mentioned(d) == (DOMAIN d \cup {d[i].bound : i \in DOMAIN d} \cup {d[i].parent : i \in DOMAIN d})
                \ {None}

\* replaceState: a page or a JSON file takes the place of the document.
ReplaceState(f) ==
  /\ doc' = f.doc
  /\ order' = Only(f.order, DOMAIN f.doc)
  /\ ForgetHistory
  /\ born' = born \cup Mentioned(f.doc)
  /\ UNCHANGED <<drag, clipboard, layerVars>>

\* A draw.io file is merged into the document.  Its cells bring their own ids
\* and no parent; each is put on top of the order, also when it is there already.
ImportDrawio(f) ==
  /\ f.order # <<>>
  /\ \A i \in DOMAIN f.doc : f.doc[i].parent = None
  /\ doc' = [i \in Live \cup DOMAIN f.doc |-> IF i \in DOMAIN f.doc THEN f.doc[i] ELSE doc[i]]
  /\ order' = order \o f.order
  /\ ForgetHistory
  /\ born' = born \cup Mentioned(f.doc)
  /\ UNCHANGED <<drag, clipboard, layerVars>>

-----------------------------------------------------------------------------
Init ==
  /\ \E f \in Files : /\ doc = f.doc /\ order = f.order
                     /\ born = Mentioned(f.doc) \cup {DefaultLayer}
  /\ undo = <<>> /\ redo = <<>> /\ canUndo = FALSE /\ canRedo = FALSE
  /\ drag = NoDrag /\ clipboard = <<>>
  /\ layers = {DefaultLayer} /\ lockedLayers = {} /\ activeLayer = DefaultLayer
  /\ steps = 0

Edit ==
  \/ \E i \in Ids, at \in 0..(Places - 1), t \in Ids \cup {None} : AddExpression(i, at, t)
  \/ \E i \in Ids, at \in 0..(Places - 1) : CreateContainer(i, at)
  \/ \E i \in Ids, at \in 0..(Places - 1) : UpdateExpression(i, at)
  \/ \E i \in Ids : RejectUpdate(i) \/ ToggleContainerCollapse(i) \/ AutoUnparentOnDrag(i)
  \/ \E i, c \in Ids : AutoParentOnDrop(i, c)
  \/ \E ids \in Selections :
       \/ \E look \in {0, 1} : StyleExpressions(ids, look)
       \/ Delete(ids) \/ Copy(ids) \/ Cut(ids) \/ DuplicateGrouped(ids)
       \/ \E g \in Groups : GroupExpressions(ids, g)
  \* A selection with one parent is ungrouped, be that a group or a container.
  \/ \E g \in Groups \cup Ids : UngroupExpressions(g)
  \/ Paste

Arrange ==
  \/ \E ids \in Selections : BringToFront(ids) \/ SendToBack(ids)
                             \/ BringForward(ids) \/ SendBackward(ids)
  \/ \E l \in Layers :
       \/ AddLayer(l) \/ RemoveLayer(l) \/ ToggleLayerLock(l) \/ SetActiveLayer(l)
       \/ \E ids \in Selections : MoveToLayer(ids, l)

Load == \E f \in Files : ReplaceState(f) \/ ImportDrawio(f)

Grab == \E kind \in {"move", "resize", "point"}, ids \in Selections : Press(kind, ids)

Gesture ==
  \/ \E delta \in 0..(Places - 1) : Preview(delta)
  \/ EndMove \/ EndResize
  \/ \E t \in Ids \cup {None} : EndPoint(t)

Next ==
  \/ /\ steps < MaxSteps
     /\ steps' = steps + 1
     /\ Edit \/ Undo \/ Redo \/ ClearHistory \/ Arrange \/ Load \/ Grab
  \/ /\ UNCHANGED steps
     /\ Gesture

Spec == Init /\ [][Next]_vars
-----------------------------------------------------------------------------
(* Properties. *)

Snapshots == {undo[k] : k \in DOMAIN undo} \cup {redo[k] : k \in DOMAIN redo}
Versions  == {Snapshot} \cup Snapshots

Typed(v)   == /\ v.doc \in [DOMAIN v.doc -> Expression] /\ DOMAIN v.doc \subseteq Ids
              /\ v.order \in Seq(Ids)
Covered(v) == ToSet(v.order) = DOMAIN v.doc
Resolved(d) ==
  \A i \in DOMAIN d : ~d[i].clip => /\ d[i].bound  \in DOMAIN d \cup {None}
                                    /\ d[i].parent \in DOMAIN d \cup Groups \cup {None}
Acyclic(d) == \A i \in DOMAIN d : i \notin Ancestors(d, i)

\* The loaders check each expression and nothing between expressions: a file is
\* taken to hold what the store could have saved.
ASSUME FilesAssumption ==
  \A f \in Files : /\ DOMAIN f = {"doc", "order"}
                   /\ Typed(f) /\ Covered(f) /\ Resolved(f.doc) /\ Acyclic(f.doc)

TypeOK ==
  /\ \A v \in Versions : Typed(v)
  /\ canUndo \in BOOLEAN /\ canRedo \in BOOLEAN
  /\ drag.kind \in {"none", "move", "resize", "point"}
  /\ \A k \in DOMAIN clipboard : clipboard[k].id \in Ids /\ clipboard[k].e \in Expression
  /\ DefaultLayer \in layers /\ layers \subseteq Layers
  /\ lockedLayers \subseteq layers /\ activeLayer \in layers
  /\ born \subseteq Ids \cup Groups \cup Layers /\ steps \in 0..MaxSteps

\* What can be undone and what can be redone together never exceed the bound
\* that only pushSnapshot enforces ("Undo stack never exceeds maxSize"), and the
\* flags behind the buttons tell whether there is something on each stack.
HistoryConsistent ==
  /\ Len(undo) + Len(redo) <= MaxHistory
  /\ canUndo = (undo # <<>>) /\ canRedo = (redo # <<>>)

\* The renderer and the save walk expressionOrder: in the document and in every
\* snapshot it names each expression, and nothing else.
OrderCoversDoc == \A v \in Versions : Covered(v)

\* deleteExpressions clears what refers to the deleted: no binding and no parent
\* points at an expression that is gone, in the document or after any undo or
\* redo, except in what came out of the clipboard.
NoDanglingReference == \A v \in Versions : Resolved(v.doc)

\* autoParentOnDrop refuses to make an expression its own ancestor; no sequence
\* of grouping, pasting, undo and redo gets around it.
ParentsAcyclic == \A v \in Versions : Acyclic(v.doc)

\* The stacks walk along one timeline: undo and redo move on it, every recorded
\* change cuts off what could be redone, and nothing else rewrites the past.
Timeline == INSTANCE CanvasTimeline WITH
  Reach    <- MaxHistory,
  timeline <- undo \o <<Snapshot>> \o Reverse(redo),
  cursor   <- Len(undo) + 1,
  dragging <- drag # NoDrag
WalksTimeline == Timeline!Spec
=============================================================================
