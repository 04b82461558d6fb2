------------------------------ MODULE Bookmarks ------------------------------
(* bookmarksStore.ts: path bookmarks in folders, command bookmarks in      *)
(* groups, and the sortIndex that says where each is shown.  The panel     *)
(* shows bookmarks and folders, the bar shows commands and groups, but     *)
(* they count their indexes together.  An imported file is checked item by *)
(* item only: it may name folders it does not have, and share indexes.     *)
EXTENDS Integers, FiniteSets, FiniteSetsExt, Functions, TLC

CONSTANTS
  Paths, FolderIds, CommandIds, GroupIds,
  None,
  Boots,          \* what localStorage may hold at the start: maps from ids to items
  Imports,        \* the files that are imported: such maps of bookmarks and folders
  MaxOps          \* bound: operations in a behaviour

ASSUME BookmarksAssumption ==
  /\ MaxOps \in Nat /\ IsFiniteSet(Paths \cup FolderIds \cup CommandIds \cup GroupIds)
  /\ None \notin Paths \cup FolderIds \cup CommandIds \cup GroupIds
  /\ Paths \cap FolderIds = {}
  /\ (Paths \cup FolderIds) \cap (CommandIds \cup GroupIds) = {}
  /\ CommandIds \cap GroupIds = {}

VARIABLES
  items,          \* id -> [in: the folder or group it is in, or None; at: sortIndex;
                  \*        row: where it is in its array, by which equal indexes are sorted]
  ops             \* bound

vars == <<items, ops>>

Ids == Paths \cup FolderIds \cup CommandIds \cup GroupIds

\* What a function from ids to items holds of a kind, and directly in c.
Held(its, kind) == DOMAIN its \cap kind
In(its, kind, c) == {x \in Held(its, kind) : its[x].in = c}

\* rootSiblings: what the panel lists at its top level.
RootItems(its) == In(its, Paths, None) \cup Held(its, FolderIds)
Siblings(its, b) == IF its[b].in = None THEN RootItems(its) ELSE In(its, Paths, its[b].in)
\* What reorderFolder and reorderCommand take for the bar.
WithCommands(its) == RootItems(its) \cup Held(its, CommandIds)
BarItems(its) == In(its, CommandIds, None) \cup Held(its, GroupIds)

\* Between equal indexes the arrays decide, in the order they are joined.
Rank(x) ==
  IF x \in Paths THEN 0 ELSE IF x \in FolderIds THEN 1 ELSE IF x \in CommandIds THEN 2 ELSE 3
Before(its, x, y) ==
  \/ its[x].at < its[y].at
  \/ its[x].at = its[y].at /\ Rank(x) < Rank(y)
  \/ its[x].at = its[y].at /\ Rank(x) = Rank(y) /\ its[x].row < its[y].row
\* The place x has in S, counted from 0.
Place(its, S, x) == Cardinality({y \in S \ {x} : Before(its, y, x)})

\* Mutation: the next index is the number of items.
CountOf(its, S) == Cardinality(S)

NextSortIndex(its, S) == IF S = {} THEN 0 ELSE Max({its[x].at : x \in S}) + 1

\* What is added goes behind its array.
NextRow(its) == IF DOMAIN its = {} THEN 0 ELSE Max({its[x].row : x \in DOMAIN its}) + 1

Clamp(i, n) == Min({i, n})

\* reindexSiblings: the others make room for the one that goes to place i.
Shifted(p, i) == IF p >= i THEN p + 1 ELSE p

\* Mutation: the place still counts the item that is moved.
ReindexedBeforeRemoval(its, S, x, i) ==
  LET c == Clamp(IF i > Place(its, S, x) THEN i - 1 ELSE i, Cardinality(S) - 1)
  IN  [y \in DOMAIN its |->
         IF y \notin S THEN its[y]
         ELSE [its[y] EXCEPT !.at = IF y = x THEN c ELSE Shifted(Place(its, S \ {x}, y), c)]]

\* reorderItems, reindexSiblings and applyRootReindex: all of S is numbered
\* from 0, with x at place i or last.
Reindexed(its, S, x, i) ==
  LET c == Clamp(i, Cardinality(S) - 1)
  IN  [y \in DOMAIN its |->
         IF y \notin S THEN its[y]
         ELSE [its[y] EXCEPT !.at = IF y = x THEN c ELSE Shifted(Place(its, S \ {x}, y), c)]]

\* A new item, and one that is placed elsewhere.
With(its, x, c, at) ==
  [y \in DOMAIN its \cup {x} |->
     IF y = x THEN [in |-> c, at |-> at, row |-> NextRow(its)] ELSE its[y]]
Placed(its, x, c, at) == [its EXCEPT ![x].in = c, ![x].at = at]
Without(its, S) == Restrict(its, DOMAIN its \ S)

-----------------------------------------------------------------------------
(* Bookmarks                                                               *)

\* resolveFolderId
Resolve(f) == IF f \in DOMAIN items THEN f ELSE None

\* A path is bookmarked once.
AddBookmark(p, f) ==
  LET c == Resolve(f)
      S == IF c = None THEN RootItems(items) ELSE In(items, Paths, c)
  IN  /\ p \notin DOMAIN items
      /\ items' = With(items, p, c, NextSortIndex(items, S))

RemoveBookmark(p) == p \in DOMAIN items /\ items' = Without(items, {p})

\* moveBookmark without an index: to the end of the folder or of the root.
MoveToEnd(p, f) ==
  LET c == Resolve(f)
      S == IF c = None THEN RootItems(items) ELSE In(items, Paths, c)
  IN  /\ p \in DOMAIN items
      /\ items' = Placed(items, p, c, NextSortIndex(items, S \ {p}))

\* moveBookmark with an index.
MoveToIndex(p, f, i) ==
  LET moved == Placed(items, p, Resolve(f), items[p].at)
  IN  /\ p \in DOMAIN items
      /\ items' = Reindexed(moved, Siblings(moved, p), p, i)

\* Within a folder, its bookmarks go behind the others of the array.
ToBack(its, S, next) ==
  [x \in DOMAIN its |-> IF x \in S THEN [its[x] EXCEPT !.row = next + its[x].at] ELSE its[x]]

ReorderBookmark(p, i) ==
  /\ p \in DOMAIN items
  /\ LET S == Siblings(items, p)
         reordered == Reindexed(items, S, p, i)
     IN  items' = IF items[p].in = None THEN reordered ELSE ToBack(reordered, S, NextRow(items))

\* The panel counts the place among the bookmarks alone.
DropOnBookmark(p, q) ==
  /\ {p, q} \subseteq DOMAIN items /\ p # q
  /\ IF items[p].in = items[q].in
     THEN ReorderBookmark(p, Place(items, In(items, Paths, items[q].in), q))
     ELSE MoveToEnd(p, items[q].in)

\* The id is fresh: nothing has it, and nothing names it.
Fresh(f) == f \notin DOMAIN items /\ \A x \in DOMAIN items : items[x].in # f

AddFolder(f) ==
  /\ Fresh(f)
  /\ items' = With(items, f, None, NextSortIndex(items, RootItems(items)))

\* Mutation: the children come out last first.
RemoveFolderReversed(f) ==
  LET kept == Without(items, {f})
      base == NextSortIndex(kept, RootItems(kept))
      orphans == In(kept, Paths, f)
  IN  /\ f \in DOMAIN items
      /\ items' = [x \in DOMAIN kept |->
                     IF x \notin orphans THEN kept[x]
                     ELSE [kept[x] EXCEPT !.in = None,
                             !.at = base + Cardinality(orphans) - 1 - Place(kept, orphans, x)]]

\* Mutation: the children stay in the folder that is gone.
RemoveFolderOnly(f) == f \in DOMAIN items /\ items' = Without(items, {f})

\* The children come after the other root items, in their order.
RemoveFolder(f) ==
  LET kept == Without(items, {f})
      base == NextSortIndex(kept, RootItems(kept))
      orphans == In(kept, Paths, f)
  IN  /\ f \in DOMAIN items
      /\ items' = [x \in DOMAIN kept |->
                     IF x \notin orphans THEN kept[x]
                     ELSE [kept[x] EXCEPT !.in = None, !.at = base + Place(kept, orphans, x)]]

-----------------------------------------------------------------------------
(* Commands and their groups.  reorderFolder and reorderCommand are the    *)
(* same code.                                                              *)

ReorderWithCommands(x, i) ==
  /\ x \in DOMAIN items
  /\ items' = Reindexed(items, WithCommands(items), x, i)

\* The store takes any group, also one that is gone.
AddCommand(c, g) ==
  /\ c \notin DOMAIN items
  /\ items' = With(items, c, g, NextSortIndex(items, WithCommands(items)))

RemoveCommand(c) == c \in DOMAIN items /\ items' = Without(items, {c})

\* updateCommand, of which only the group matters here.
UpdateCommand(c, g) == c \in DOMAIN items /\ items' = [items EXCEPT ![c].in = g]

AddCommandGroup(g) ==
  /\ Fresh(g)
  /\ items' = With(items, g, None, NextSortIndex(items, RootItems(items) \cup BarItems(items)))

RemoveCommandGroup(g) ==
  /\ g \in DOMAIN items
  /\ items' = [x \in DOMAIN items \ {g} |->
                 IF x \in CommandIds /\ items[x].in = g THEN [items[x] EXCEPT !.in = None]
                 ELSE items[x]]

\* computeDropIndex: the pointer has passed the first n of the other bar
\* items; the answer counts the dragged one too.
DropIndex(x, n) ==
  LET bar == BarItems(items)
      insertAt == IF n = 0 THEN 0
                  ELSE Place(items, bar, CHOOSE y \in bar \ {x} : Place(items, bar \ {x}, y) = n - 1) + 1
  IN  Min({insertAt, Cardinality(bar) - 1})

\* useDragReorder: a group is taken for a folder, and nothing happens.
DragInBar(x, n) ==
  /\ x \in BarItems(items) \cap CommandIds
  /\ n < Cardinality(BarItems(items))
  /\ DropIndex(x, n) # Place(items, BarItems(items), x)
  /\ ReorderWithCommands(x, DropIndex(x, n))

-----------------------------------------------------------------------------
\* importBookmarks replaces the bookmarks and folders; the commands stay.
Import ==
  \E file \in Imports :
    items' = [x \in DOMAIN file \cup (DOMAIN items \cap (CommandIds \cup GroupIds)) |->
                IF x \in DOMAIN file THEN file[x] ELSE items[x]]

BookmarkOp ==
  \/ \E p \in Paths, f \in FolderIds \cup {None} :
       AddBookmark(p, f) \/ MoveToEnd(p, f) \/ \E i \in 0..Cardinality(Paths) : MoveToIndex(p, f, i)
  \/ \E p \in Paths, i \in 0..Cardinality(Paths) : ReorderBookmark(p, i)
  \/ \E p, q \in Paths : DropOnBookmark(p, q)
  \/ \E p \in Paths : RemoveBookmark(p)
  \/ \E f \in FolderIds : AddFolder(f) \/ RemoveFolder(f)

BarOp ==
  \/ \E x \in FolderIds \cup CommandIds, i \in 0..Cardinality(Paths) : ReorderWithCommands(x, i)
  \/ \E c \in CommandIds, g \in GroupIds \cup {None} : AddCommand(c, g) \/ UpdateCommand(c, g)
  \/ \E c \in CommandIds : RemoveCommand(c)
  \/ \E g \in GroupIds : AddCommandGroup(g) \/ RemoveCommandGroup(g)
  \/ \E c \in CommandIds, n \in 0..Cardinality(Ids) : DragInBar(c, n)

Next == ops < MaxOps /\ ops' = ops + 1 /\ (BookmarkOp \/ BarOp \/ Import)

\* What the items are, of whatever they hold, and what tells equal indexes apart.
Containers(x) == {None} \cup (IF x \in Paths THEN FolderIds ELSE IF x \in CommandIds THEN GroupIds
                              ELSE {})
IsItems(its) ==
  /\ DOMAIN its \subseteq Ids
  /\ its = [x \in DOMAIN its |-> its[x]]
  /\ \A x \in DOMAIN its : its[x] \in [in : Containers(x), at : Int, row : Int]
RowsApart(its) ==
  \A x, y \in DOMAIN its : x # y /\ Rank(x) = Rank(y) => its[x].row # its[y].row

\* A file is checked item by item; localStorage holds what the store has saved,
\* which may be what an import left.
ASSUME FilesAssumption ==
  /\ \A f \in Imports : IsItems(f) /\ RowsApart(f) /\ DOMAIN f \subseteq Paths \cup FolderIds
  /\ \A b \in Boots : IsItems(b) /\ RowsApart(b)

Init == items \in Boots /\ ops = 0

Spec == Init /\ [][Next]_vars

-----------------------------------------------------------------------------
(* Properties                                                              *)

\* The items are a map from ids to placed items, each array a sequence: a
\* folder and a group are in nothing, and a bookmark is never in a group.
TypeOK == IsItems(items) /\ RowsApart(items)

\* The panel shows the root and the folders that exist.  A bookmark in a folder
\* that does not is lost to the user, though the store has it.
Hidden(its) == {p \in Held(its, Paths) : its[p].in \notin DOMAIN its \cup {None}}

\* A file can bring such a bookmark.  Nothing else the user does hides one:
\* no removal of its folder, no move to a folder that is gone.
OnlyImportsHide == [][Hidden(items') \subseteq Hidden(items) \/ Import]_vars

\* What is sorted together: the root, each folder, and all commands.
SameList(its, x, y) ==
  \/ {x, y} \subseteq Paths \cup FolderIds /\ its[x].in = its[y].in
  \/ {x, y} \subseteq CommandIds
Ties(its) ==
  {xy \in (DOMAIN its) \X (DOMAIN its) :
     xy[1] # xy[2] /\ SameList(its, xy[1], xy[2]) /\ its[xy[1]].at = its[xy[2]].at}

\* A file can bring bookmarks of one list with equal indexes, whose order then
\* hangs on the arrays.  Nothing else makes two items of a list equal.
OnlyImportsTie == [][Ties(items') \subseteq Ties(items) \/ Import]_vars

\* What is in the same list before and after keeps its order, one item aside.
OneMoves ==
  \E d \in Ids \cup {None} : \A x, y \in (DOMAIN items \cap DOMAIN items') \ {d} :
    SameList(items, x, y) /\ SameList(items', x, y) =>
      (Before(items, x, y) <=> Before(items', x, y))

AtPlace(S, x, i) == Place(items', S, x) = Clamp(i, Cardinality(S) - 1)
LandsAtItsIndex ==
  /\ \A p \in Paths, f \in FolderIds \cup {None}, i \in 0..Cardinality(Paths) :
       MoveToIndex(p, f, i) \/ ReorderBookmark(p, i) => AtPlace(Siblings(items', p), p, i)
  /\ \A x \in FolderIds \cup CommandIds, i \in 0..Cardinality(Paths) :
       ReorderWithCommands(x, i) => AtPlace(WithCommands(items'), x, i)

\* An item is put at the place of its list that the store is handed, or last,
\* and everything else keeps the order it is shown in, equal indexes included;
\* no other step but an import moves more than one item.  (Whether the bar and
\* the panel hand over the place the user means is another matter: they count
\* other lists than the store.)
MovesAsAsked == [][(OneMoves \/ Import) /\ LandsAtItsIndex]_vars

\* The children of a folder that is removed are shown after everything that
\* was at the root, in the order they had in the folder.
ChildrenFollow(f) ==
  \A x \in In(items, Paths, f) :
    /\ \A y \in RootItems(items) \ {f} : items'[y].at < items'[x].at
    /\ \A y \in In(items, Paths, f) : Before(items, y, x) => items'[y].at < items'[x].at
ChildrenKeepTheirOrder == [][\A f \in FolderIds : RemoveFolder(f) => ChildrenFollow(f)]_vars
=============================================================================
