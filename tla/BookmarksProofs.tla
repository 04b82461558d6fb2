--------------------------- MODULE BookmarksProofs ---------------------------
(* Theorems about Bookmarks, for any ids, any imported files and any number *)
(* of operations: nothing but an import hides a bookmark or makes two items *)
(* of a list equal, and a move puts one item where the store was asked to   *)
(* and keeps the others in their order.                                     *)
EXTENDS Bookmarks, FiniteSetTheorems, WellFoundedInduction, TLAPS

\* What an operation finds and leaves: items, each array a sequence.
Sound(its) == IsItems(its) /\ RowsApart(its)

\* What an operation may do to the order of a list: one item aside, none.
KeepsOrder(its, new, d) ==
  \A x, y \in (DOMAIN its \cap DOMAIN new) \ {d} :
    SameList(its, x, y) /\ SameList(new, x, y) => (Before(its, x, y) <=> Before(new, x, y))

\* All that an operation on the items owes; only an import is another matter.
GoodStep(its, new) ==
  /\ Sound(new)
  /\ Hidden(new) \subseteq Hidden(its)
  /\ Ties(new) \subseteq Ties(its)
  /\ \E d \in Ids \cup {None} : KeepsOrder(its, new, d)

-----------------------------------------------------------------------------
(* Indexes and places.                                                     *)

\* Of finitely many things with a number each, one has the greatest.
LEMMA Greatest ==
  ASSUME NEW S, IsFiniteSet(S), S # {}, NEW v \in [S -> Int]
  PROVE  \E x \in S : \A y \in S : v[y] <= v[x]
  <1> DEFINE High(U, x) == \A y \in U : v[y] <= v[x]
             T == {U \in SUBSET S : U # {} /\ ~ \E x \in U : High(U, x)}
             R == StrictSubsetOrdering(S)
  <1>1. SUFFICES ASSUME T # {} PROVE FALSE
    OBVIOUS
  <1>2. T \subseteq FiniteSubsetsOf(S)
    BY FS_FiniteSubsetsOfFinite
  <1>3. PICK U \in T : \A V \in T : <<V, U>> \notin R
    BY <1>1, <1>2, FS_StrictSubsetOrderingWellFounded, WFMin
  <1>4. PICK x \in U : TRUE
    OBVIOUS
  <1>5. U \ {x} \notin T
    BY <1>3, <1>4 DEF StrictSubsetOrdering
  <1>6. \A y \in U : v[y] \in Int
    OBVIOUS
  <1>7. CASE U \ {x} = {}
    <2>1. High(U, x)
      BY <1>4, <1>6, <1>7
    <2> QED  BY <1>4, <2>1
  <1>8. CASE U \ {x} # {}
    <2>1. PICK h \in U \ {x} : High(U \ {x}, h)
      BY <1>5, <1>8
    <2>2. CASE v[h] <= v[x]
      <3>1. High(U, x)
        BY <1>4, <1>6, <2>1, <2>2
      <3> QED  BY <1>4, <3>1
    <2>3. CASE v[x] <= v[h]
      <3>1. High(U, h)
        BY <1>4, <1>6, <2>1, <2>3
      <3> QED  BY <2>1, <3>1
    <2> QED  BY <1>4, <1>6, <2>2, <2>3
  <1> QED  BY <1>7, <1>8

\* One more than the greatest is above them all.
LEMMA OneMoreIsAbove ==
  ASSUME NEW S, IsFiniteSet(S), S # {}, NEW v \in [S -> Int]
  PROVE  LET m == Max({v[x] : x \in S}) IN m \in Int /\ \A x \in S : v[x] < m + 1
  <1> DEFINE A == {v[x] : x \in S}
             m == Max(A)
  <1>1. PICK h \in S : \A y \in S : v[y] <= v[h]
    BY Greatest
  <1>2. \E k \in A : \A n \in A : k >= n
    BY <1>1
  <1>3. m \in A /\ \A n \in A : m >= n
    BY <1>2 DEF Max
  <1>4. A \subseteq Int /\ \A x \in S : v[x] \in A
    OBVIOUS
  <1> HIDE DEF m
  <1>5. m \in Int /\ \A x \in S : v[x] \in Int /\ m >= v[x]
    BY <1>3, <1>4
  <1>6. m \in Int /\ \A x \in S : v[x] < m + 1
    BY <1>5
  <1> QED  BY <1>6 DEF m

\* What an item is, and what its EXCEPTs are.
LEMMA Item ==
  ASSUME NEW C, NEW v \in [in : C, at : Int, row : Int]
  PROVE  /\ v.in \in C /\ v.at \in Int /\ v.row \in Int
         /\ \A k : /\ [v EXCEPT !.at = k].in = v.in /\ [v EXCEPT !.at = k].at = k
                   /\ [v EXCEPT !.at = k].row = v.row
         /\ \A k \in Int : [v EXCEPT !.at = k] \in [in : C, at : Int, row : Int]
  OBVIOUS

\* The items of a map are finitely many, with a container and two numbers each.
LEMMA ItemsAre ==
  ASSUME NEW its, IsItems(its)
  PROVE  /\ IsFiniteSet(DOMAIN its) /\ DOMAIN its \subseteq Ids
         /\ \A x \in DOMAIN its :
              its[x].in \in Containers(x) /\ its[x].at \in Int /\ its[x].row \in Int
  BY BookmarksAssumption, FS_Subset, Item DEF IsItems, Ids

\* nextSortIndex is above all indexes of a list.
LEMMA NextIsAbove ==
  ASSUME NEW its, IsItems(its), NEW S, S \subseteq DOMAIN its
  PROVE  NextSortIndex(its, S) \in Int /\ \A x \in S : its[x].at < NextSortIndex(its, S)
  <1>1. CASE S = {}
    BY <1>1 DEF NextSortIndex
  <1>2. CASE S # {}
    <2> DEFINE v == [x \in S |-> its[x].at]
               m == Max({v[x] : x \in S})
    <2>1. IsFiniteSet(S) /\ v \in [S -> Int]
      BY ItemsAre, FS_Subset
    <2>2. \A x \in S : v[x] = its[x].at
      OBVIOUS
    <2>3. {v[x] : x \in S} = {its[x].at : x \in S}
      BY <2>2
    <2>4. NextSortIndex(its, S) = m + 1
      BY <1>2, <2>3 DEF NextSortIndex
    <2>5. m \in Int /\ \A x \in S : v[x] < m + 1
      <3> HIDE DEF v
      <3> QED  BY <1>2, <2>1, OneMoreIsAbove
    <2> HIDE DEF m, v
    <2> QED  BY <2>2, <2>4, <2>5
  <1> QED  BY <1>1, <1>2

\* What is added is behind everything.
LEMMA NextRowIsBehind ==
  ASSUME NEW its, IsItems(its)
  PROVE  NextRow(its) \in Int /\ \A x \in DOMAIN its : its[x].row < NextRow(its)
  <1> DEFINE S == DOMAIN its
  <1>1. CASE S = {}
    BY <1>1 DEF NextRow
  <1>2. CASE S # {}
    <2> DEFINE v == [x \in S |-> its[x].row]
               m == Max({v[x] : x \in S})
    <2>1. IsFiniteSet(S) /\ v \in [S -> Int]
      BY ItemsAre
    <2>2. \A x \in S : v[x] = its[x].row
      OBVIOUS
    <2>3. {v[x] : x \in S} = {its[x].row : x \in S}
      BY <2>2
    <2>4. NextRow(its) = m + 1
      BY <1>2, <2>3 DEF NextRow
    <2>5. m \in Int /\ \A x \in S : v[x] < m + 1
      <3> HIDE DEF v
      <3> QED  BY <1>2, <2>1, OneMoreIsAbove
    <2> HIDE DEF m, v
    <2> QED  BY <2>2, <2>4, <2>5
  <1> QED  BY <1>1, <1>2

\* Of two items one is before the other, and of three the first before the last.
LEMMA BeforeIsOrder ==
  ASSUME NEW its, Sound(its)
  PROVE  /\ \A x \in DOMAIN its : ~Before(its, x, x)
         /\ \A x, y \in DOMAIN its : x # y => Before(its, x, y) \/ Before(its, y, x)
         /\ \A x, y, z \in DOMAIN its : Before(its, x, y) /\ Before(its, y, z) => Before(its, x, z)
  <1>1. \A x \in DOMAIN its : its[x].at \in Int /\ its[x].row \in Int /\ Rank(x) \in Int
    BY ItemsAre DEF Sound, Rank
  <1> QED  BY <1>1 DEF Before, Sound, RowsApart

\* Places are numbers, and what is shown before has the smaller one.
LEMMA PlaceTells ==
  ASSUME NEW its, Sound(its), NEW S, S \subseteq DOMAIN its
  PROVE  /\ \A x \in S : Place(its, S, x) \in Nat
         /\ \A x, y \in S : Before(its, x, y) <=> Place(its, S, x) < Place(its, S, y)
  <1> DEFINE Ahead(x) == {y \in S \ {x} : Before(its, y, x)}
  <1>1. IsFiniteSet(S)
    BY ItemsAre, FS_Subset DEF Sound
  <1>2. \A x \in S : IsFiniteSet(Ahead(x)) /\ Cardinality(Ahead(x)) \in Nat
    BY <1>1, FS_Subset, FS_CardinalityType
  <1>3. ASSUME NEW x \in S, NEW y \in S, Before(its, x, y)
        PROVE  Cardinality(Ahead(x)) < Cardinality(Ahead(y))
    <2>1. x \in Ahead(y) /\ x \notin Ahead(x)
      BY <1>3, BeforeIsOrder
    <2>2. Ahead(x) \subseteq Ahead(y)
      BY <1>3, BeforeIsOrder
    <2>3. /\ Cardinality(Ahead(x)) <= Cardinality(Ahead(y))
          /\ Cardinality(Ahead(x)) # Cardinality(Ahead(y))
      BY <1>2, <2>1, <2>2, FS_Subset
    <2>4. Cardinality(Ahead(x)) \in Nat /\ Cardinality(Ahead(y)) \in Nat
      BY <1>2
    <2> HIDE DEF Ahead
    <2> QED  BY <2>3, <2>4
  <1>4. \A x \in S : Place(its, S, x) = Cardinality(Ahead(x))
    BY DEF Place
  <1> HIDE DEF Ahead
  <1>5. ASSUME NEW x \in S, NEW y \in S
        PROVE  Before(its, x, y) <=> Place(its, S, x) < Place(its, S, y)
    <2>1. CASE x = y
      BY <1>2, <1>4, <2>1, BeforeIsOrder
    <2>2. CASE x # y
      <3>1. Before(its, x, y) \/ Before(its, y, x)
        BY <2>2, BeforeIsOrder
      <3> QED  BY <1>2, <1>3, <1>4, <3>1
    <2> QED  BY <2>1, <2>2
  <1> QED  BY <1>2, <1>4, <1>5

\* reorderItems never asks for a place beyond the last.
LEMMA ClampType ==
  ASSUME NEW i \in Nat, NEW n \in Nat PROVE Clamp(i, n) \in Nat /\ Clamp(i, n) <= n
  <1>1. \E x \in {i, n} : \A y \in {i, n} : x <= y
    OBVIOUS
  <1> QED  BY <1>1 DEF Clamp, Min

-----------------------------------------------------------------------------
(* What the steps of a kind owe.                                           *)

\* Ties are kept apart one pair at a time.
LEMMA TiesFrom ==
  ASSUME NEW its, NEW new,
         \A x, y \in DOMAIN new :
           x # y /\ SameList(new, x, y) /\ new[x].at = new[y].at =>
             x \in DOMAIN its /\ y \in DOMAIN its /\ SameList(its, x, y) /\ its[x].at = its[y].at
  PROVE  Ties(new) \subseteq Ties(its)
  <1> SUFFICES ASSUME NEW xy \in Ties(new) PROVE xy \in Ties(its)
    OBVIOUS
  <1> DEFINE x == xy[1]
             y == xy[2]
  <1>1. /\ x \in DOMAIN new /\ y \in DOMAIN new /\ xy = <<x, y>>
        /\ x # y /\ SameList(new, x, y) /\ new[x].at = new[y].at
    BY DEF Ties
  <1>2. x \in DOMAIN its /\ y \in DOMAIN its /\ SameList(its, x, y) /\ its[x].at = its[y].at
    BY <1>1
  <1> QED  BY <1>1, <1>2 DEF Ties

\* The lists are told apart by what the items are in.
LEMMA SameListKept ==
  ASSUME NEW its, NEW new, NEW x, NEW y, new[x].in = its[x].in, new[y].in = its[y].in
  PROVE  SameList(new, x, y) <=> SameList(its, x, y)
  BY DEF SameList

\* A list: who is in it has the others of the same list with it.
Whole(its, S) ==
  /\ S \subseteq DOMAIN its
  /\ \A x, y \in DOMAIN its : SameList(its, x, y) => (x \in S <=> y \in S)

\* What a renumbering does: the moved item gets place c, the others the place
\* they have among themselves, shifted; nothing else changes.
Renumbers(its, r, S, x, c) ==
  /\ DOMAIN r = DOMAIN its
  /\ \A y \in DOMAIN its : r[y].in = its[y].in
  /\ \A y \in DOMAIN its \ S : r[y] = its[y]
  /\ r[x].at = c
  /\ \A y \in S \ {x} : r[y].at = Shifted(Place(its, S \ {x}, y), c)

\* One item may be in another list than before.
Moved(its, m, x) ==
  /\ Sound(m)
  /\ DOMAIN m = DOMAIN its
  /\ \A y \in DOMAIN its \ {x} : m[y] = its[y]
  /\ Hidden(m) \subseteq Hidden(its)

\* No two items of a list that was renumbered are equal.
LEMMA RenumberedApart ==
  ASSUME NEW m, Sound(m), NEW S, S \subseteq DOMAIN m, NEW x \in S, NEW c \in Nat, NEW r,
         Renumbers(m, r, S, x, c)
  PROVE  /\ \A y, z \in S : y # z => r[y].at # r[z].at
         /\ \A y \in S : r[y].at \in Nat
         /\ \A y, z \in S \ {x} : Before(m, y, z) <=> r[y].at < r[z].at
  <1> DEFINE T == S \ {x}
             place(y) == Place(m, T, y)
  <1>1. /\ \A y \in T : place(y) \in Nat
        /\ \A y, z \in T : Before(m, y, z) <=> place(y) < place(z)
    BY PlaceTells
  <1>2. \A y, z \in T : y # z => Before(m, y, z) \/ Before(m, z, y)
    BY BeforeIsOrder
  <1>3. r[x].at = c /\ \A y \in T : r[y].at = Shifted(place(y), c)
    BY DEF Renumbers
  <1> HIDE DEF place
  <1>4. \A y \in T : r[y].at \in Nat /\ r[y].at # c
    BY <1>1, <1>3 DEF Shifted
  <1>5. \A y, z \in T : place(y) < place(z) <=> r[y].at < r[z].at
    BY <1>1, <1>3 DEF Shifted
  <1>6. \A y, z \in T : y # z => r[y].at # r[z].at
    BY <1>1, <1>2, <1>4, <1>5
  <1> QED  BY <1>1, <1>3, <1>4, <1>5, <1>6

\* Renumbering a whole list, into which one item may have been put, keeps the
\* order of the others and leaves no two equal.
LEMMA RenumberingIsGood ==
  ASSUME NEW its, Sound(its), NEW x \in Ids, NEW m, Moved(its, m, x),
         NEW S, Whole(m, S), x \in S, NEW c \in Nat, NEW r, Renumbers(m, r, S, x, c), Sound(r)
  PROVE  GoodStep(its, r)
  <1>1. /\ DOMAIN r = DOMAIN its /\ DOMAIN m = DOMAIN its /\ S \subseteq DOMAIN its /\ Sound(m)
        /\ \A y \in DOMAIN its : r[y].in = m[y].in
        /\ \A y \in DOMAIN its \ S : r[y] = m[y]
        /\ \A y \in DOMAIN its \ {x} : m[y] = its[y]
    BY DEF Moved, Whole, Renumbers
  <1>2. /\ \A y, z \in S : y # z => r[y].at # r[z].at
        /\ \A y \in S : r[y].at \in Nat
        /\ \A y, z \in S \ {x} : Before(m, y, z) <=> r[y].at < r[z].at
    BY <1>1, RenumberedApart
  <1>3. ASSUME NEW y \in DOMAIN its, NEW z \in DOMAIN its, SameList(r, y, z)
        PROVE  y \in S <=> z \in S
    <2>1. SameList(m, y, z)
      BY <1>1, <1>3, SameListKept
    <2> QED  BY <1>1, <2>1 DEF Whole
  <1>4. Hidden(r) \subseteq Hidden(its)
    <2>1. Hidden(r) = Hidden(m)
      BY <1>1 DEF Hidden, Held
    <2> QED  BY <2>1 DEF Moved
  <1>5. Ties(r) \subseteq Ties(its)
    <2> SUFFICES ASSUME NEW y \in DOMAIN its, NEW z \in DOMAIN its, y # z, SameList(r, y, z),
                        r[y].at = r[z].at
                 PROVE  SameList(its, y, z) /\ its[y].at = its[z].at
      BY <1>1, TiesFrom
    <2>1. y \notin S /\ z \notin S
      BY <1>2, <1>3
    <2>2. r[y] = its[y] /\ r[z] = its[z]
      BY <1>1, <2>1
    <2> QED  BY <2>2, SameListKept
  <1>6. KeepsOrder(its, r, x)
    <2> SUFFICES ASSUME NEW y \in DOMAIN its \ {x}, NEW z \in DOMAIN its \ {x}, SameList(r, y, z)
                 PROVE  Before(its, y, z) <=> Before(r, y, z)
      BY <1>1 DEF KeepsOrder
    <2>1. Before(its, y, z) <=> Before(m, y, z)
      BY <1>1 DEF Before
    <2>2. CASE y \in S
      <3>1. z \in S
        BY <1>3, <2>2
      <3>2. r[y].at < r[z].at <=> Before(r, y, z)
        BY <1>2, <2>2, <3>1, BeforeIsOrder, <1>1 DEF Before
      <3> QED  BY <1>2, <2>1, <2>2, <3>1, <3>2
    <2>3. CASE y \notin S
      <3>1. z \notin S
        BY <1>3, <2>3
      <3>2. r[y] = m[y] /\ r[z] = m[z]
        BY <1>1, <2>3, <3>1
      <3> QED  BY <2>1, <3>2 DEF Before
    <2> QED  BY <2>2, <2>3
  <1> QED  BY <1>4, <1>5, <1>6 DEF GoodStep

\* reorderItems and reindexSiblings renumber, with the place asked for or the
\* last one; the arrays stay as they are.
LEMMA ReindexedRenumbers ==
  ASSUME NEW its, Sound(its), NEW S, S \subseteq DOMAIN its, NEW x \in S, NEW i \in Nat
  PROVE  LET c == Clamp(i, Cardinality(S) - 1)
             r == Reindexed(its, S, x, i)
         IN  /\ c \in Nat /\ c <= Cardinality(S) - 1
             /\ Renumbers(its, r, S, x, c) /\ Sound(r)
  <1> DEFINE c == Clamp(i, Cardinality(S) - 1)
             r == Reindexed(its, S, x, i)
             index(y) == IF y = x THEN c ELSE Shifted(Place(its, S \ {x}, y), c)
  <1>1. c \in Nat /\ c <= Cardinality(S) - 1
    <2>1. IsFiniteSet(S)
      BY ItemsAre, FS_Subset DEF Sound
    <2>2. Cardinality(S) \in Nat /\ Cardinality(S) # 0
      BY <2>1, FS_CardinalityType, FS_EmptySet
    <2>3. Cardinality(S) - 1 \in Nat
      BY <2>2
    <2> QED  BY <2>3, ClampType
  <1>2. /\ DOMAIN r = DOMAIN its /\ r = [y \in DOMAIN r |-> r[y]]
        /\ \A y \in DOMAIN its \ S : r[y] = its[y]
        /\ \A y \in S : r[y] = [its[y] EXCEPT !.at = index(y)]
    BY DEF Reindexed
  <1>3. index(x) = c /\ \A y \in S \ {x} : index(y) = Shifted(Place(its, S \ {x}, y), c)
    OBVIOUS
  <1>4. \A y \in DOMAIN its : its[y] \in [in : Containers(y), at : Int, row : Int]
    BY DEF Sound, IsItems
  <1>5. \A y \in S \ {x} : Place(its, S \ {x}, y) \in Nat
    BY PlaceTells
  <1> HIDE DEF index, r, c
  <1>6. \A y \in S : index(y) \in Int
    <2>1. \A y \in S \ {x} : Shifted(Place(its, S \ {x}, y), c) \in Int
      BY <1>5 DEF Shifted
    <2> QED  BY <1>1, <1>3, <2>1
  <1>7. \A y \in S : /\ r[y].in = its[y].in /\ r[y].at = index(y) /\ r[y].row = its[y].row
                     /\ r[y] \in [in : Containers(y), at : Int, row : Int]
    <2> TAKE y \in S
    <2> DEFINE k == index(y)
    <2>1. r[y] = [its[y] EXCEPT !.at = k] /\ k \in Int
      BY <1>2, <1>6
    <2> HIDE DEF k
    <2>2. /\ [its[y] EXCEPT !.at = k].in = its[y].in /\ [its[y] EXCEPT !.at = k].at = k
          /\ [its[y] EXCEPT !.at = k].row = its[y].row
          /\ [its[y] EXCEPT !.at = k] \in [in : Containers(y), at : Int, row : Int]
      BY <1>4, <2>1, Item
    <2> QED  BY <2>1, <2>2 DEF k
  <1>8. \A y \in DOMAIN its : r[y].in = its[y].in /\ r[y].row = its[y].row
    BY <1>2, <1>7
  <1>9. Renumbers(its, r, S, x, c)
    BY <1>2, <1>3, <1>7, <1>8 DEF Renumbers
  <1>10. IsItems(r)
    BY <1>2, <1>4, <1>7 DEF Sound, IsItems
  <1>11. RowsApart(r)
    BY <1>2, <1>8 DEF Sound, RowsApart
  <1> QED  BY <1>1, <1>9, <1>10, <1>11 DEF c, r, Sound

\* The panel's and the bar's lists are whole.
LEMMA ListsAreWhole ==
  ASSUME NEW its, IsItems(its)
  PROVE  /\ Whole(its, WithCommands(its))
         /\ \A p \in Held(its, Paths) : Whole(its, Siblings(its, p)) /\ p \in Siblings(its, p)
  <1>1. \A x \in Held(its, FolderIds) : its[x].in = None
    BY BookmarksAssumption, ItemsAre DEF Containers, Held
  <1>2. \A x \in CommandIds : x \notin Paths \cup FolderIds
    BY BookmarksAssumption
  <1>3. Whole(its, RootItems(its))
    BY <1>1, <1>2 DEF Whole, SameList, RootItems, In, Held
  <1>4. Whole(its, WithCommands(its))
    BY <1>2, <1>3 DEF Whole, WithCommands, SameList, Held
  <1>5. ASSUME NEW p \in Held(its, Paths) PROVE Whole(its, Siblings(its, p)) /\ p \in Siblings(its, p)
    <2>1. CASE its[p].in = None
      BY <1>3, <2>1 DEF Siblings, RootItems, In, Held
    <2>2. CASE its[p].in # None
      <3>1. Siblings(its, p) = In(its, Paths, its[p].in)
        BY <2>2 DEF Siblings
      <3>2. Whole(its, In(its, Paths, its[p].in))
        BY <1>1, <1>2, <2>2 DEF Whole, SameList, In, Held
      <3> QED  BY <3>1, <3>2 DEF In, Held
    <2> QED  BY <2>1, <2>2
  <1> QED  BY <1>4, <1>5

-----------------------------------------------------------------------------
(* Renumbering operations: reorderFolder, reorderCommand, reorderBookmark  *)
(* and moveBookmark with an index.                                         *)

\* Nothing has been put elsewhere.
LEMMA NothingMoved ==
  ASSUME NEW its, Sound(its), NEW x PROVE Moved(its, its, x)
  BY DEF Moved

\* reorderFolder, reorderCommand
LEMMA ReorderWithCommandsRenumbers ==
  ASSUME Sound(items), NEW x \in FolderIds \cup CommandIds, NEW i \in Nat, ReorderWithCommands(x, i)
  PROVE  LET S == WithCommands(items)
             c == Clamp(i, Cardinality(S) - 1)
         IN  /\ Whole(items, S) /\ x \in S /\ c \in Nat /\ c <= Cardinality(S) - 1
             /\ Renumbers(items, items', S, x, c) /\ Sound(items')
  <1> DEFINE S == WithCommands(items)
  <1>1. Whole(items, S) /\ S \subseteq DOMAIN items
    BY ListsAreWhole DEF Sound, Whole
  <1>2. x \in S
    BY DEF ReorderWithCommands, WithCommands, RootItems, Held
  <1>3. items' = Reindexed(items, S, x, i)
    BY DEF ReorderWithCommands
  <1> HIDE DEF S
  <1> QED  BY <1>1, <1>2, <1>3, ReindexedRenumbers DEF S

\* Putting the bookmarks of a folder behind the others of the array changes
\* no index.
LEMMA ToBackRenumbers ==
  ASSUME NEW its, Sound(its), NEW S, S \subseteq Held(its, Paths), NEW x \in S, NEW c \in Nat,
         NEW r, Sound(r), Renumbers(its, r, S, x, c)
  PROVE  LET b == ToBack(r, S, NextRow(its)) IN Sound(b) /\ Renumbers(its, b, S, x, c)
  <1> DEFINE n == NextRow(its)
             b == ToBack(r, S, n)
             row(y) == n + r[y].at
  <1>1. S \subseteq DOMAIN its /\ DOMAIN r = DOMAIN its
    BY DEF Held, Renumbers
  <1>2. n \in Int /\ \A y \in DOMAIN its : its[y].row < n
    BY NextRowIsBehind DEF Sound
  <1>3. \A y, z \in S : y # z => r[y].at # r[z].at
    BY <1>1, RenumberedApart
  <1>4. \A y \in S : r[y].at \in Nat
    BY <1>1, RenumberedApart
  <1>5. /\ DOMAIN b = DOMAIN its /\ b = [y \in DOMAIN b |-> b[y]]
        /\ \A y \in S : b[y] = [r[y] EXCEPT !.row = row(y)]
        /\ \A y \in DOMAIN its \ S : b[y] = r[y] /\ b[y] = its[y]
    BY <1>1 DEF ToBack, Renumbers
  <1> HIDE DEF n, b
  <1>6. \A y \in S : row(y) \in Int /\ row(y) >= n
    BY <1>2, <1>4
  <1>7. \A y, z \in S : y # z => row(y) # row(z)
    BY <1>2, <1>3, <1>4
  <1>8. \A y \in DOMAIN its : r[y] \in [in : Containers(y), at : Int, row : Int]
    BY <1>1 DEF Sound, IsItems
  <1>9. \A y \in S : /\ b[y].in = r[y].in /\ b[y].at = r[y].at /\ b[y].row = row(y)
                     /\ b[y] \in [in : Containers(y), at : Int, row : Int]
    <2> TAKE y \in S
    <2> DEFINE k == row(y)
    <2>1. b[y] = [r[y] EXCEPT !.row = k] /\ k \in Int
      BY <1>5, <1>6
    <2> HIDE DEF k
    <2>2. /\ b[y].in = r[y].in /\ b[y].at = r[y].at /\ b[y].row = k
          /\ b[y] \in [in : Containers(y), at : Int, row : Int]
      BY <1>1, <1>8, <2>1
    <2> QED  BY <2>2 DEF k
  <1> HIDE DEF row
  <1>10. IsItems(b)
    BY <1>1, <1>5, <1>8, <1>9 DEF Sound, IsItems
  <1>11. RowsApart(b)
    <2> SUFFICES ASSUME NEW y \in DOMAIN its, NEW z \in DOMAIN its, y # z, Rank(y) = Rank(z)
                 PROVE  b[y].row # b[z].row
      BY <1>5 DEF RowsApart
    <2>1. \A v \in DOMAIN its \ S : b[v].row < n /\ b[v].row \in Int
      BY <1>2, <1>5, ItemsAre DEF Sound
    <2>2. CASE y \in S /\ z \in S
      BY <1>7, <1>9, <2>2
    <2>3. CASE y \in S /\ z \notin S
      BY <1>2, <1>6, <1>9, <2>1, <2>3
    <2>4. CASE y \notin S /\ z \in S
      BY <1>2, <1>6, <1>9, <2>1, <2>4
    <2>5. CASE y \notin S /\ z \notin S
      BY <1>5, <2>5 DEF Sound, RowsApart
    <2> QED  BY <2>2, <2>3, <2>4, <2>5
  <1>12. Renumbers(its, b, S, x, c)
    BY <1>1, <1>5, <1>9 DEF Renumbers
  <1> QED  BY <1>10, <1>11, <1>12 DEF b, n, Sound

\* reorderBookmark
LEMMA ReorderBookmarkRenumbers ==
  ASSUME Sound(items), NEW p \in Paths, NEW i \in Nat, ReorderBookmark(p, i)
  PROVE  LET S == Siblings(items, p)
             c == Clamp(i, Cardinality(S) - 1)
         IN  /\ p \in DOMAIN items /\ Whole(items, S) /\ p \in S /\ c \in Nat
             /\ c <= Cardinality(S) - 1
             /\ Renumbers(items, items', S, p, c) /\ Sound(items')
  <1> DEFINE S == Siblings(items, p)
             c == Clamp(i, Cardinality(S) - 1)
             r == Reindexed(items, S, p, i)
  <1>1. p \in Held(items, Paths) /\ p \in DOMAIN items
    BY DEF ReorderBookmark, Held
  <1>2. Whole(items, S) /\ p \in S /\ S \subseteq DOMAIN items
    BY <1>1, ListsAreWhole DEF Sound, Whole
  <1>3. items[p].in # None => S \subseteq Held(items, Paths)
    BY DEF Siblings, In
  <1>4. items' = IF items[p].in = None THEN r ELSE ToBack(r, S, NextRow(items))
    BY DEF ReorderBookmark
  <1> HIDE DEF S
  <1>5. c \in Nat /\ c <= Cardinality(S) - 1 /\ Renumbers(items, r, S, p, c) /\ Sound(r)
    BY <1>2, ReindexedRenumbers
  <1> HIDE DEF c, r
  <1>6. Renumbers(items, items', S, p, c) /\ Sound(items')
    <2>1. CASE items[p].in = None
      BY <1>4, <1>5, <2>1
    <2>2. CASE items[p].in # None
      BY <1>2, <1>3, <1>4, <1>5, <2>2, ToBackRenumbers
    <2> QED  BY <2>1, <2>2
  <1> QED  BY <1>1, <1>2, <1>5, <1>6 DEF S, c

\* resolveFolderId: a folder that exists, or the root.
LEMMA ResolveType ==
  ASSUME NEW f \in FolderIds \cup {None}, NEW p \in Paths
  PROVE  Resolve(f) \in Containers(p) /\ Resolve(f) \in DOMAIN items \cup {None}
  BY DEF Resolve, Containers

\* A bookmark placed where the user sees it.
LEMMA PlacedIs ==
  ASSUME NEW its, Sound(its), NEW p \in Paths, p \in DOMAIN its,
         NEW c \in Containers(p), c \in DOMAIN its \cup {None}, NEW n \in Int
  PROVE  LET m == Placed(its, p, c, n)
         IN  Moved(its, m, p) /\ m[p].in = c /\ m[p].at = n
  <1> DEFINE m == Placed(its, p, c, n)
  <1>1. \A y \in DOMAIN its : its[y] \in [in : Containers(y), at : Int, row : Int]
    BY DEF Sound, IsItems
  <1>2. /\ DOMAIN m = DOMAIN its /\ m = [y \in DOMAIN m |-> m[y]]
        /\ \A y \in DOMAIN its \ {p} : m[y] = its[y]
    BY DEF Placed
  <1>3. m[p] = [[its[p] EXCEPT !.in = c] EXCEPT !.at = n]
    BY DEF Placed
  <1>4. /\ m[p].in = c /\ m[p].at = n /\ m[p].row = its[p].row
        /\ m[p] \in [in : Containers(p), at : Int, row : Int]
    <2> HIDE DEF m
    <2> QED  BY <1>1, <1>3
  <1> HIDE DEF m
  <1>5. IsItems(m)
    BY <1>1, <1>2, <1>4 DEF Sound, IsItems
  <1>6. RowsApart(m)
    BY <1>2, <1>4 DEF Sound, RowsApart
  <1>7. Hidden(m) \subseteq Hidden(its)
    BY <1>2, <1>4 DEF Hidden, Held
  <1> QED  BY <1>2, <1>4, <1>5, <1>6, <1>7 DEF m, Moved, Sound

\* moveBookmark with an index: the bookmark is put in the other list, and that
\* list is numbered anew.
LEMMA MoveToIndexRenumbers ==
  ASSUME Sound(items), NEW p \in Paths, NEW f \in FolderIds \cup {None}, NEW i \in Nat,
         MoveToIndex(p, f, i)
  PROVE  \E m :
           LET S == Siblings(m, p)
               c == Clamp(i, Cardinality(S) - 1)
           IN  /\ p \in DOMAIN items /\ Moved(items, m, p) /\ Whole(m, S) /\ p \in S
               /\ c \in Nat /\ c <= Cardinality(S) - 1
               /\ Renumbers(m, items', S, p, c) /\ Sound(items')
  <1> DEFINE f1 == Resolve(f)
             at == items[p].at
             m == Placed(items, p, f1, at)
             S == Siblings(m, p)
  <1>1. p \in DOMAIN items /\ items' = Reindexed(m, S, p, i)
    BY DEF MoveToIndex
  <1>2. f1 \in Containers(p) /\ f1 \in DOMAIN items \cup {None} /\ at \in Int
    BY <1>1, ResolveType, ItemsAre DEF Sound
  <1> HIDE DEF f1, at
  <1>3. Moved(items, m, p)
    BY <1>1, <1>2, PlacedIs
  <1> HIDE DEF m
  <1>4. Sound(m) /\ p \in Held(m, Paths)
    BY <1>1, <1>3 DEF Moved, Held
  <1>5. Whole(m, S) /\ p \in S /\ S \subseteq DOMAIN m
    BY <1>4, ListsAreWhole DEF Sound, Whole
  <1>6. LET c == Clamp(i, Cardinality(S) - 1)
        IN  /\ c \in Nat /\ c <= Cardinality(S) - 1
            /\ Renumbers(m, items', S, p, c) /\ Sound(items')
    <2> HIDE DEF S
    <2> QED  BY <1>1, <1>4, <1>5, ReindexedRenumbers
  <1> QED  BY <1>1, <1>3, <1>5, <1>6

\* All of them do what an operation owes.
LEMMA RenumberingSteps ==
  ASSUME Sound(items), NEW i \in Nat,
         \/ \E x \in FolderIds \cup CommandIds : ReorderWithCommands(x, i)
         \/ \E p \in Paths : ReorderBookmark(p, i)
         \/ \E p \in Paths, f \in FolderIds \cup {None} : MoveToIndex(p, f, i)
  PROVE  GoodStep(items, items')
  <1>1. CASE \E x \in FolderIds \cup CommandIds : ReorderWithCommands(x, i)
    <2>1. PICK x \in FolderIds \cup CommandIds : ReorderWithCommands(x, i)
      BY <1>1
    <2>2. x \in Ids
      BY DEF Ids
    <2> QED  BY <2>1, <2>2, ReorderWithCommandsRenumbers, NothingMoved, RenumberingIsGood
  <1>2. CASE \E p \in Paths : ReorderBookmark(p, i)
    <2>1. PICK p \in Paths : ReorderBookmark(p, i)
      BY <1>2
    <2>2. p \in Ids
      BY DEF Ids
    <2> QED  BY <2>1, <2>2, ReorderBookmarkRenumbers, NothingMoved, RenumberingIsGood
  <1>3. CASE \E p \in Paths, f \in FolderIds \cup {None} : MoveToIndex(p, f, i)
    <2>1. PICK p \in Paths, f \in FolderIds \cup {None} : MoveToIndex(p, f, i)
      BY <1>3
    <2>2. p \in Ids
      BY DEF Ids
    <2> QED  BY <2>1, <2>2, MoveToIndexRenumbers, RenumberingIsGood
  <1> QED  BY <1>1, <1>2, <1>3

-----------------------------------------------------------------------------
(* The other operations.                                                   *)

\* An item is put in c, with index n.
Puts(its, new, x, c, n) ==
  /\ DOMAIN new = DOMAIN its \cup {x}
  /\ \A y \in DOMAIN its \ {x} : new[y] = its[y]
  /\ new[x].in = c /\ new[x].at = n

\* A new item goes behind its array.
LEMMA WithPuts ==
  ASSUME NEW its, Sound(its), NEW x \in Ids, x \notin DOMAIN its, NEW c \in Containers(x), NEW n \in Int
  PROVE  Sound(With(its, x, c, n)) /\ Puts(its, With(its, x, c, n), x, c, n)
  <1> DEFINE w == With(its, x, c, n)
             k == NextRow(its)
  <1>1. k \in Int /\ \A y \in DOMAIN its : its[y].row < k /\ its[y].row \in Int
    BY NextRowIsBehind, ItemsAre DEF Sound
  <1>2. /\ DOMAIN w = DOMAIN its \cup {x} /\ w = [y \in DOMAIN w |-> w[y]]
        /\ \A y \in DOMAIN its : w[y] = its[y]
        /\ w[x] = [in |-> c, at |-> n, row |-> k]
    BY DEF With
  <1> HIDE DEF w, k
  <1>3. /\ w[x].in = c /\ w[x].at = n /\ w[x].row = k
        /\ w[x] \in [in : Containers(x), at : Int, row : Int]
    BY <1>1, <1>2
  <1>4. IsItems(w)
    BY <1>2, <1>3 DEF Sound, IsItems
  <1>5. RowsApart(w)
    <2> SUFFICES ASSUME NEW y \in DOMAIN w, NEW z \in DOMAIN w, y # z, Rank(y) = Rank(z)
                 PROVE  w[y].row # w[z].row
      BY DEF RowsApart
    <2>1. CASE y = x
      BY <1>1, <1>2, <1>3, <2>1
    <2>2. CASE z = x
      BY <1>1, <1>2, <1>3, <2>2
    <2>3. CASE y # x /\ z # x
      BY <1>2, <2>3 DEF Sound, RowsApart
    <2> QED  BY <2>1, <2>2, <2>3
  <1> QED  BY <1>2, <1>3, <1>4, <1>5 DEF w, k, Sound, Puts

\* An item put above the others of its list, where the user sees it.
LEMMA PutIsGood ==
  ASSUME NEW its, Sound(its), NEW new, Sound(new), NEW x \in Ids, NEW c, NEW n,
         Puts(its, new, x, c, n), x \in Paths => c \in DOMAIN its \cup {None},
         \A y \in DOMAIN its \ {x} : SameList(new, x, y) => its[y].at # n
  PROVE  GoodStep(its, new)
  <1>1. /\ DOMAIN new = DOMAIN its \cup {x} /\ new[x].in = c /\ new[x].at = n
        /\ \A y \in DOMAIN its \ {x} : new[y] = its[y]
    BY DEF Puts
  <1>2. Hidden(new) \subseteq Hidden(its)
    BY <1>1 DEF Hidden, Held
  <1>3. \A y, z : SameList(new, y, z) <=> SameList(new, z, y)
    BY DEF SameList
  <1>4. Ties(new) \subseteq Ties(its)
    <2> SUFFICES ASSUME NEW y \in DOMAIN new, NEW z \in DOMAIN new, y # z, SameList(new, y, z),
                        new[y].at = new[z].at
                 PROVE  /\ y \in DOMAIN its /\ z \in DOMAIN its
                        /\ SameList(its, y, z) /\ its[y].at = its[z].at
      BY TiesFrom
    <2>1. y # x /\ z # x
      BY <1>1, <1>3
    <2> QED  BY <1>1, <2>1, SameListKept
  <1>5. KeepsOrder(its, new, x)
    BY <1>1 DEF KeepsOrder, Before
  <1> QED  BY <1>2, <1>4, <1>5 DEF GoodStep

\* Some items go, but no folder, and some commands change their group.
LEMMA RegroupedIsGood ==
  ASSUME NEW its, Sound(its), NEW new, Sound(new), DOMAIN new \subseteq DOMAIN its,
         DOMAIN its \cap FolderIds \subseteq DOMAIN new,
         \A y \in DOMAIN new : new[y].at = its[y].at /\ new[y].row = its[y].row,
         \A y \in DOMAIN new \cap (Paths \cup FolderIds) : new[y].in = its[y].in
  PROVE  GoodStep(its, new)
  <1>1. \A p \in Held(its, Paths) : its[p].in \in FolderIds \cup {None}
    BY ItemsAre DEF Sound, Containers, Held
  <1>2. Hidden(new) \subseteq Hidden(its)
    BY <1>1 DEF Hidden, Held
  <1>3. \A y, z \in DOMAIN new : SameList(new, y, z) => SameList(its, y, z)
    BY DEF SameList
  <1>4. Ties(new) \subseteq Ties(its)
    BY <1>3, TiesFrom
  <1>5. KeepsOrder(its, new, None)
    BY DEF KeepsOrder, Before
  <1> QED  BY <1>2, <1>4, <1>5 DEF GoodStep

\* Who could be in a list with a bookmark or folder in c is in the list that
\* the next index is taken of.
LEMMA ContainerIsCounted ==
  ASSUME NEW its, IsItems(its), NEW c \in FolderIds \cup {None}
  PROVE  LET S == IF c = None THEN RootItems(its) ELSE In(its, Paths, c)
         IN  /\ S \subseteq DOMAIN its
             /\ \A y \in DOMAIN its \cap (Paths \cup FolderIds) : its[y].in = c => y \in S
  <1>1. \A y \in Held(its, FolderIds) : its[y].in = None
    BY BookmarksAssumption, ItemsAre DEF Containers, Held
  <1>2. None \notin FolderIds
    BY BookmarksAssumption
  <1> QED  BY <1>1, <1>2 DEF RootItems, In, Held

\* addBookmark, and moveBookmark to the end.
LEMMA PutBookmarkSteps ==
  ASSUME Sound(items), NEW p \in Paths, NEW f \in FolderIds \cup {None},
         AddBookmark(p, f) \/ MoveToEnd(p, f)
  PROVE  GoodStep(items, items')
  <1> DEFINE c == Resolve(f)
             S == IF c = None THEN RootItems(items) ELSE In(items, Paths, c)
             U == S \ {p}
  <1>1. p \in Ids /\ c \in Containers(p) /\ c \in FolderIds \cup {None} /\ c \in DOMAIN items \cup {None}
    BY ResolveType DEF Ids, Resolve
  <1>2. /\ S \subseteq DOMAIN items
        /\ \A y \in DOMAIN items \cap (Paths \cup FolderIds) : items[y].in = c => y \in S
    BY <1>1, ContainerIsCounted DEF Sound
  <1>3. /\ AddBookmark(p, f) => p \notin DOMAIN items /\ items' = With(items, p, c, NextSortIndex(items, S))
        /\ MoveToEnd(p, f) => p \in DOMAIN items /\ items' = Placed(items, p, c, NextSortIndex(items, U))
    BY DEF AddBookmark, MoveToEnd
  <1> HIDE DEF c, S
  <1>4. p \notin DOMAIN items => U = S
    BY <1>2
  <1> HIDE DEF U
  <1>5. U \subseteq DOMAIN items
    BY <1>2 DEF U
  <1> DEFINE n == NextSortIndex(items, U)
  <1>6. n \in Int /\ \A y \in U : items[y].at < n /\ items[y].at \in Int
    BY <1>5, NextIsAbove, ItemsAre DEF Sound
  <1>7. Sound(items') /\ Puts(items, items', p, c, n)
    <2> HIDE DEF n
    <2>1. CASE AddBookmark(p, f)
      <3>1. p \notin DOMAIN items /\ items' = With(items, p, c, n)
        BY <1>3, <1>4, <2>1 DEF n
      <3> QED  BY <1>1, <1>6, <3>1, WithPuts
    <2>2. CASE MoveToEnd(p, f)
      <3>1. p \in DOMAIN items /\ items' = Placed(items, p, c, n)
        BY <1>3, <2>2 DEF n
      <3>2. Moved(items, items', p) /\ items'[p].in = c /\ items'[p].at = n
        BY <1>1, <1>6, <3>1, PlacedIs
      <3> QED  BY <3>1, <3>2 DEF Moved, Puts
    <2> QED  BY <2>1, <2>2
  <1> HIDE DEF n
  <1>8. \A y \in DOMAIN items \ {p} : SameList(items', p, y) => items[y].at # n
    <2> SUFFICES ASSUME NEW y \in DOMAIN items \ {p}, SameList(items', p, y) PROVE y \in U
      BY <1>6
    <2>1. p \notin CommandIds
      BY BookmarksAssumption
    <2>2. y \in Paths \cup FolderIds /\ items'[y] = items[y] /\ items[y].in = c
      BY <1>7, <2>1 DEF SameList, Puts
    <2> QED  BY <1>2, <2>2 DEF U
  <1> QED  BY <1>1, <1>7, <1>8, PutIsGood

\* addFolder, addCommand, addCommandGroup: a new item above the others.
LEMMA AddSteps ==
  ASSUME Sound(items),
         \/ \E f \in FolderIds : AddFolder(f)
         \/ \E c \in CommandIds, g \in GroupIds \cup {None} : AddCommand(c, g)
         \/ \E g \in GroupIds : AddCommandGroup(g)
  PROVE  GoodStep(items, items')
  <1>1. /\ \A f \in FolderIds : f \in Ids /\ f \notin Paths /\ f \notin CommandIds
        /\ \A c \in CommandIds : c \in Ids /\ c \notin Paths \cup FolderIds
        /\ \A g \in GroupIds : g \in Ids /\ g \notin Paths \cup FolderIds \cup CommandIds
    BY BookmarksAssumption DEF Ids
  <1>2. /\ \A x : None \in Containers(x)
        /\ \A c \in CommandIds, g \in GroupIds \cup {None} : g \in Containers(c)
    BY <1>1 DEF Containers
  <1>3. ASSUME NEW x \in Ids \ Paths, NEW c \in Containers(x), x \notin DOMAIN items,
               NEW S, S \subseteq DOMAIN items, items' = With(items, x, c, NextSortIndex(items, S)),
               \A y \in DOMAIN items : SameList(items', x, y) /\ items'[y] = items[y] => y \in S
        PROVE  GoodStep(items, items')
    <2> DEFINE n == NextSortIndex(items, S)
    <2>1. n \in Int /\ \A y \in S : items[y].at < n /\ items[y].at \in Int
      BY <1>3, NextIsAbove, ItemsAre DEF Sound
    <2>2. items' = With(items, x, c, n)
      BY <1>3
    <2> HIDE DEF n
    <2>3. Sound(items') /\ Puts(items, items', x, c, n)
      BY <1>3, <2>1, <2>2, WithPuts
    <2>4. \A y \in DOMAIN items \ {x} : SameList(items', x, y) => items[y].at # n
      BY <1>3, <2>1, <2>3 DEF Puts
    <2> QED  BY <1>3, <2>3, <2>4, PutIsGood
  <1>4. ASSUME NEW f \in FolderIds, AddFolder(f) PROVE GoodStep(items, items')
    <2> DEFINE S == RootItems(items)
    <2>1. f \notin DOMAIN items /\ items' = With(items, f, None, NextSortIndex(items, S))
      BY <1>4 DEF AddFolder, Fresh
    <2>2. /\ S \subseteq DOMAIN items
          /\ \A y \in DOMAIN items \cap (Paths \cup FolderIds) : items[y].in = None => y \in S
      BY ContainerIsCounted DEF Sound
    <2>3. items'[f].in = None
      BY <2>1 DEF With
    <2> HIDE DEF S
    <2>4. \A y \in DOMAIN items : SameList(items', f, y) /\ items'[y] = items[y] => y \in S
      BY <1>1, <2>2, <2>3 DEF SameList
    <2> QED  BY <1>1, <1>2, <1>3, <2>1, <2>2, <2>4
  <1>5. ASSUME NEW c \in CommandIds, NEW g \in GroupIds \cup {None}, AddCommand(c, g)
        PROVE  GoodStep(items, items')
    <2> DEFINE S == WithCommands(items)
    <2>1. c \notin DOMAIN items /\ items' = With(items, c, g, NextSortIndex(items, S))
      BY <1>5 DEF AddCommand
    <2>2. S \subseteq DOMAIN items /\ \A y \in DOMAIN items \cap CommandIds : y \in S
      BY DEF WithCommands, RootItems, In, Held
    <2> HIDE DEF S
    <2>3. \A y \in DOMAIN items : SameList(items', c, y) /\ items'[y] = items[y] => y \in S
      BY <1>1, <2>2 DEF SameList
    <2> QED  BY <1>1, <1>2, <1>3, <2>1, <2>2, <2>3
  <1>6. ASSUME NEW g \in GroupIds, AddCommandGroup(g) PROVE GoodStep(items, items')
    <2> DEFINE S == RootItems(items) \cup BarItems(items)
    <2>1. g \notin DOMAIN items /\ items' = With(items, g, None, NextSortIndex(items, S))
      BY <1>6 DEF AddCommandGroup, Fresh
    <2>2. S \subseteq DOMAIN items
      BY DEF BarItems, RootItems, In, Held
    <2> HIDE DEF S
    <2>3. \A y \in DOMAIN items : ~SameList(items', g, y)
      BY <1>1 DEF SameList
    <2> QED  BY <1>1, <1>2, <1>3, <2>1, <2>2, <2>3
  <1> QED  BY <1>4, <1>5, <1>6

\* Fewer items are items, as they were.
LEMMA WithoutIs ==
  ASSUME NEW its, Sound(its), NEW D
  PROVE  LET w == Without(its, D)
         IN  /\ Sound(w) /\ DOMAIN w = DOMAIN its \ D
             /\ \A y \in DOMAIN its \ D : w[y] = its[y]
  <1> DEFINE w == Without(its, D)
  <1>1. /\ DOMAIN w = DOMAIN its \ D /\ w = [y \in DOMAIN w |-> w[y]]
        /\ \A y \in DOMAIN its \ D : w[y] = its[y]
    BY DEF Without, Restrict
  <1> HIDE DEF w
  <1>2. IsItems(w) /\ RowsApart(w)
    BY <1>1 DEF Sound, IsItems, RowsApart
  <1> QED  BY <1>1, <1>2 DEF w, Sound

\* removeBookmark, removeCommand, updateCommand, removeCommandGroup.
LEMMA RegroupSteps ==
  ASSUME Sound(items),
         \/ \E p \in Paths : RemoveBookmark(p)
         \/ \E c \in CommandIds : RemoveCommand(c)
         \/ \E c \in CommandIds, g \in GroupIds \cup {None} : UpdateCommand(c, g)
         \/ \E g \in GroupIds : RemoveCommandGroup(g)
  PROVE  GoodStep(items, items')
  <1>1. /\ \A x \in Paths \cup CommandIds \cup GroupIds : x \notin FolderIds
        /\ \A c \in CommandIds \cup GroupIds : c \notin Paths
    BY BookmarksAssumption
  <1>2. \A y \in DOMAIN items : items[y] \in [in : Containers(y), at : Int, row : Int]
    BY DEF Sound, IsItems
  <1>3. \A c \in CommandIds, g \in GroupIds \cup {None} : g \in Containers(c)
    BY <1>1 DEF Containers
  <1>4. ASSUME NEW x \in Paths \cup CommandIds, items' = Without(items, {x})
        PROVE  GoodStep(items, items')
    <2> DEFINE D == {x}
    <2>1. D \cap FolderIds = {} /\ items' = Without(items, D)
      BY <1>1, <1>4
    <2> HIDE DEF D
    <2>2. /\ Sound(items') /\ DOMAIN items' = DOMAIN items \ D
          /\ \A y \in DOMAIN items \ D : items'[y] = items[y]
      BY <2>1, WithoutIs
    <2> QED  BY <2>1, <2>2, RegroupedIsGood
  <1>5. ASSUME NEW c \in CommandIds, NEW g \in GroupIds \cup {None}, UpdateCommand(c, g)
        PROVE  GoodStep(items, items')
    <2>1. /\ c \in DOMAIN items /\ DOMAIN items' = DOMAIN items
          /\ items' = [y \in DOMAIN items' |-> items'[y]]
          /\ items'[c] = [items[c] EXCEPT !.in = g]
          /\ \A y \in DOMAIN items \ {c} : items'[y] = items[y]
      BY <1>5 DEF UpdateCommand
    <2>2. /\ items'[c].at = items[c].at /\ items'[c].row = items[c].row
          /\ items'[c] \in [in : Containers(c), at : Int, row : Int]
      BY <1>2, <1>3, <2>1
    <2>3. IsItems(items')
      BY <1>2, <2>1, <2>2 DEF Sound, IsItems
    <2>4. \A y \in DOMAIN items' : items'[y].at = items[y].at /\ items'[y].row = items[y].row
      BY <2>1, <2>2
    <2>5. RowsApart(items')
      BY <2>1, <2>4 DEF Sound, RowsApart
    <2> QED  BY <1>1, <2>1, <2>3, <2>4, <2>5, RegroupedIsGood DEF Sound
  <1>6. ASSUME NEW g \in GroupIds, RemoveCommandGroup(g) PROVE GoodStep(items, items')
    <2>1. /\ DOMAIN items' = DOMAIN items \ {g}
          /\ items' = [y \in DOMAIN items' |-> items'[y]]
          /\ \A y \in DOMAIN items' :
               \/ items'[y] = items[y]
               \/ y \in CommandIds /\ items'[y] = [items[y] EXCEPT !.in = None]
      BY <1>6 DEF RemoveCommandGroup
    <2>2. \A y \in DOMAIN items' :
            /\ items'[y].at = items[y].at /\ items'[y].row = items[y].row
            /\ items'[y] \in [in : Containers(y), at : Int, row : Int]
      <3> TAKE y \in DOMAIN items'
      <3>1. CASE items'[y] = items[y]
        BY <1>2, <2>1, <3>1
      <3>2. CASE y \in CommandIds /\ items'[y] = [items[y] EXCEPT !.in = None]
        BY <1>2, <1>3, <2>1, <3>2
      <3> QED  BY <2>1, <3>1, <3>2
    <2>3. IsItems(items')
      BY <2>1, <2>2 DEF Sound, IsItems
    <2>4. RowsApart(items')
      BY <2>1, <2>2 DEF Sound, RowsApart
    <2>5. \A y \in DOMAIN items' \cap (Paths \cup FolderIds) : items'[y].in = items[y].in
      BY <1>1, <2>1
    <2> QED  BY <1>1, <2>1, <2>2, <2>3, <2>4, <2>5, RegroupedIsGood DEF Sound
  <1> QED  BY <1>4, <1>5, <1>6 DEF RemoveBookmark, RemoveCommand

\* removeFolder: the children go to the root in their order, above what was
\* there.
FolderRemoved(its, new, f) ==
  LET orphans == In(its, Paths, f)
  IN  /\ Sound(new) /\ DOMAIN new = DOMAIN its \ {f}
      /\ \A y \in DOMAIN new \ orphans : new[y] = its[y]
      /\ \A y \in orphans : new[y].in = None
      /\ \A y \in orphans, z \in RootItems(its) \ {f} : its[z].at < new[y].at
      /\ \A y, z \in orphans : Before(its, y, z) <=> new[y].at < new[z].at

\* That is what removeFolder does.
LEMMA FolderRemovedIs ==
  ASSUME Sound(items), NEW f \in FolderIds, RemoveFolder(f)
  PROVE  FolderRemoved(items, items', f)
  <1> DEFINE kept == Without(items, {f})
             root == RootItems(kept)
             base == NextSortIndex(kept, root)
             orphans == In(kept, Paths, f)
             place(y) == Place(kept, orphans, y)
             after(y) == base + place(y)
  <1>1. /\ DOMAIN items' = DOMAIN kept
        /\ items' = [y \in DOMAIN items' |-> items'[y]]
        /\ \A y \in DOMAIN kept \ orphans : items'[y] = kept[y]
        /\ \A y \in DOMAIN kept \cap orphans :
             items'[y] = [kept[y] EXCEPT !.in = None, !.at = after(y)]
    BY DEF RemoveFolder
  <1>2. /\ Sound(kept) /\ DOMAIN kept = DOMAIN items \ {f}
        /\ \A y \in DOMAIN kept : kept[y] = items[y]
    <2> DEFINE D == {f}
    <2> HIDE DEF D
    <2>1. LET w == Without(items, D)
          IN  Sound(w) /\ DOMAIN w = DOMAIN items \ D /\ \A y \in DOMAIN items \ D : w[y] = items[y]
      BY WithoutIs
    <2> QED  BY <2>1 DEF D
  <1>3. f \notin Paths
    BY BookmarksAssumption
  <1> HIDE DEF kept
  <1>4. root = RootItems(items) \ {f} /\ orphans = In(items, Paths, f)
    BY <1>2, <1>3 DEF RootItems, In, Held
  <1>5. /\ root \subseteq DOMAIN kept /\ orphans \subseteq DOMAIN kept
        /\ \A y \in orphans : None \in Containers(y)
    BY DEF RootItems, In, Held, Containers
  <1> HIDE DEF root, orphans
  <1>6. base \in Int /\ \A y \in root : kept[y].at < base /\ kept[y].at \in Int
    BY <1>2, <1>5, NextIsAbove, ItemsAre DEF Sound
  <1>7. /\ \A y \in orphans : place(y) \in Nat
        /\ \A y, z \in orphans : Before(kept, y, z) <=> place(y) < place(z)
    BY <1>2, <1>5, PlaceTells
  <1> HIDE DEF base, place
  <1>8. /\ \A y \in orphans : after(y) \in Int /\ after(y) >= base
        /\ \A y, z \in orphans : Before(kept, y, z) <=> after(y) < after(z)
    BY <1>6, <1>7
  <1> HIDE DEF after
  <1>9. \A y \in DOMAIN kept : kept[y] \in [in : Containers(y), at : Int, row : Int]
    BY <1>2 DEF Sound, IsItems
  <1>10. \A y \in orphans : /\ items'[y].in = None /\ items'[y].at = after(y)
                            /\ items'[y].row = kept[y].row
                            /\ items'[y] \in [in : Containers(y), at : Int, row : Int]
    <2> TAKE y \in orphans
    <2> DEFINE k == after(y)
    <2>1. items'[y] = [kept[y] EXCEPT !.in = None, !.at = k] /\ k \in Int
      BY <1>1, <1>5, <1>8
    <2> HIDE DEF k
    <2>2. /\ items'[y].in = None /\ items'[y].at = k /\ items'[y].row = kept[y].row
          /\ items'[y] \in [in : Containers(y), at : Int, row : Int]
      BY <1>5, <1>9, <2>1
    <2> QED  BY <2>2 DEF k
  <1>11. Sound(items')
    <2>1. IsItems(items')
      BY <1>1, <1>2, <1>9, <1>10 DEF Sound, IsItems
    <2>2. \A y \in DOMAIN kept : items'[y].row = kept[y].row
      BY <1>1, <1>10
    <2>3. DOMAIN items' = DOMAIN kept /\ RowsApart(kept)
      BY <1>1, <1>2 DEF Sound
    <2>4. RowsApart(items')
      BY <2>2, <2>3 DEF RowsApart
    <2> QED  BY <2>1, <2>4 DEF Sound
  <1>12. \A y \in orphans, z \in root : kept[z].at < items'[y].at
    <2> TAKE y \in orphans, z \in root
    <2>1. items'[y].at \in Int /\ items'[y].at >= base
      BY <1>8, <1>10
    <2> QED  BY <1>6, <2>1
  <1>13. \A y, z \in orphans : Before(items, y, z) <=> items'[y].at < items'[z].at
    <2>1. \A y, z \in orphans : Before(items, y, z) <=> Before(kept, y, z)
      BY <1>2, <1>5 DEF Before
    <2> QED  BY <1>8, <1>10, <2>1
  <1>14. \A z \in root : items[z] = kept[z]
    BY <1>2, <1>5
  <1> QED  BY <1>1, <1>2, <1>4, <1>10, <1>11, <1>12, <1>13, <1>14 DEF FolderRemoved

\* No child is hidden, equal to another, or out of order.
LEMMA RemoveFolderStep ==
  ASSUME Sound(items), NEW f \in FolderIds, RemoveFolder(f)
  PROVE  GoodStep(items, items')
  <1> DEFINE orphans == In(items, Paths, f)
  <1>1. /\ Sound(items') /\ DOMAIN items' = DOMAIN items \ {f}
        /\ \A y \in DOMAIN items' \ orphans : items'[y] = items[y]
        /\ \A y \in orphans : items'[y].in = None
        /\ \A y \in orphans, z \in RootItems(items) \ {f} : items[z].at < items'[y].at
        /\ \A y, z \in orphans : Before(items, y, z) <=> items'[y].at < items'[z].at
    BY FolderRemovedIs DEF FolderRemoved
  <1>2. /\ \A y \in Held(items, FolderIds) : items[y].in = None
        /\ f \in Ids /\ f # None /\ \A y \in Paths : y \notin CommandIds /\ y # f
    BY BookmarksAssumption, ItemsAre DEF Sound, Containers, Held, Ids
  <1>3. /\ \A y \in orphans : y \in Paths /\ y \in DOMAIN items /\ items[y].in = f
        /\ \A y \in DOMAIN items \cap Paths : items[y].in = f => y \in orphans
    BY DEF In, Held
  <1>4. \A y \in DOMAIN items : items[y].at \in Int /\ items[y].row \in Int
    BY ItemsAre DEF Sound
  <1>5. \A y \in DOMAIN items' : items'[y].at \in Int /\ items'[y].row \in Int
    BY <1>1, ItemsAre DEF Sound
  <1> HIDE DEF orphans
  <1>6. Hidden(items') \subseteq Hidden(items)
    <2> SUFFICES ASSUME NEW p \in Hidden(items') PROVE p \in Hidden(items)
      OBVIOUS
    <2>1. /\ p \in DOMAIN items \cap Paths /\ p \in DOMAIN items'
          /\ items'[p].in \notin DOMAIN items' \cup {None}
      BY <1>1 DEF Hidden, Held
    <2>2. p \notin orphans
      BY <1>1, <2>1
    <2>3. items[p].in \notin DOMAIN items' \cup {None} /\ items[p].in # f
      BY <1>1, <1>3, <2>1, <2>2
    <2> QED  BY <1>1, <2>1, <2>3 DEF Hidden, Held
  <1>7. \A y, z \in orphans : y # z => items'[y].at # items'[z].at
    <2>1. \A y, z \in orphans : y # z => Before(items, y, z) \/ Before(items, z, y)
      BY <1>3, BeforeIsOrder
    <2>2. \A y \in orphans : items'[y].at \in Int
      BY <1>1, <1>2, <1>3, <1>5
    <2> QED  BY <1>1, <2>1, <2>2
  <1>8. ASSUME NEW y \in orphans, NEW z \in DOMAIN items' \ orphans,
               SameList(items', y, z) \/ SameList(items', z, y)
        PROVE  items'[z].at < items'[y].at /\ items'[y].at \in Int /\ items'[z].at \in Int
    <2>1. z \in Paths \cup FolderIds /\ items[z].in = None /\ items'[z] = items[z]
      BY <1>1, <1>2, <1>3, <1>8 DEF SameList
    <2>2. z \in RootItems(items) \ {f}
      BY <1>1, <2>1 DEF RootItems, In, Held
    <2>3. y \in DOMAIN items'
      BY <1>1, <1>2, <1>3
    <2> QED  BY <1>1, <1>5, <2>1, <2>2, <2>3
  <1>9. Ties(items') \subseteq Ties(items)
    <2> SUFFICES ASSUME NEW y \in DOMAIN items', NEW z \in DOMAIN items', y # z,
                        SameList(items', y, z), items'[y].at = items'[z].at
                 PROVE  SameList(items, y, z) /\ items[y].at = items[z].at
      BY <1>1, TiesFrom
    <2>1. y \notin orphans /\ z \notin orphans
      BY <1>7, <1>8
    <2> QED  BY <1>1, <2>1, SameListKept
  <1>10. KeepsOrder(items, items', f)
    <2> SUFFICES ASSUME NEW y \in DOMAIN items \ {f}, NEW z \in DOMAIN items \ {f},
                        SameList(items, y, z)
                 PROVE  Before(items, y, z) <=> Before(items', y, z)
      BY <1>1 DEF KeepsOrder
    <2>1. y \in orphans <=> z \in orphans
      BY <1>2, <1>3 DEF SameList, Held
    <2>2. CASE y \in orphans
      <3>1. Before(items, y, z) <=> items'[y].at < items'[z].at
        BY <1>1, <2>1, <2>2
      <3>2. Before(items', y, z) <=> items'[y].at < items'[z].at
        <4>1. /\ items'[y].at \in Int /\ items'[z].at \in Int
              /\ items'[y].row \in Int /\ items'[z].row \in Int
          BY <1>1, <1>5
        <4>2. CASE y = z
          BY <4>1, <4>2 DEF Before, Rank
        <4>3. CASE y # z
          <5>1. items'[y].at # items'[z].at
            BY <1>7, <2>1, <2>2, <4>3
          <5> QED  BY <4>1, <5>1 DEF Before
        <4> QED  BY <4>2, <4>3
      <3> QED  BY <3>1, <3>2
    <2>3. CASE y \notin orphans
      BY <1>1, <2>1, <2>3 DEF Before
    <2> QED  BY <2>2, <2>3
  <1> QED  BY <1>1, <1>2, <1>6, <1>9, <1>10 DEF GoodStep

\* A drop on a bookmark is one of the moves above.
LEMMA DropStep ==
  ASSUME Sound(items), NEW p \in Paths, NEW q \in Paths, DropOnBookmark(p, q)
  PROVE  GoodStep(items, items')
  <1> DEFINE S == In(items, Paths, items[q].in)
             i == Place(items, S, q)
  <1>1. q \in DOMAIN items /\ S \subseteq DOMAIN items /\ q \in S
    BY DEF DropOnBookmark, In, Held
  <1>2. i \in Nat
    BY <1>1, PlaceTells
  <1>3. items[q].in \in FolderIds \cup {None}
    BY <1>1, ItemsAre DEF Sound, Containers
  <1>4. CASE items[p].in = items[q].in
    <2>1. ReorderBookmark(p, i)
      BY <1>4 DEF DropOnBookmark
    <2> HIDE DEF i
    <2> QED  BY <1>2, <2>1, RenumberingSteps
  <1>5. CASE items[p].in # items[q].in
    <2>1. MoveToEnd(p, items[q].in)
      BY <1>5 DEF DropOnBookmark
    <2> QED  BY <1>3, <2>1, PutBookmarkSteps
  <1> QED  BY <1>4, <1>5

\* computeDropIndex gives a number.
LEMMA DropIndexType ==
  ASSUME Sound(items), NEW c \in BarItems(items), NEW n \in Nat
  PROVE  DropIndex(c, n) \in Nat
  <1> DEFINE bar == BarItems(items)
             behind == CHOOSE y \in bar \ {c} : Place(items, bar \ {c}, y) = n - 1
             insertAt == IF n = 0 THEN 0 ELSE Place(items, bar, behind) + 1
  <1>1. c \in bar
    OBVIOUS
  <1>2. IsFiniteSet(bar)
    BY ItemsAre, FS_Subset DEF Sound, BarItems, In, Held
  <1> HIDE DEF bar, behind
  <1>3. Place(items, bar, behind) \in Nat
    <2> DEFINE A == {y \in bar \ {behind} : Before(items, y, behind)}
    <2>1. IsFiniteSet(A)
      BY <1>2, FS_Subset
    <2>2. Cardinality(A) \in Nat
      BY <2>1, FS_CardinalityType
    <2> QED  BY <2>2 DEF Place
  <1>4. insertAt \in Nat
    BY <1>3
  <1>5. Cardinality(bar) - 1 \in Nat
    <2>1. Cardinality(bar) \in Nat /\ Cardinality(bar) # 0
      BY <1>1, <1>2, FS_CardinalityType, FS_EmptySet
    <2> QED  BY <2>1
  <1>6. DropIndex(c, n) = Clamp(insertAt, Cardinality(bar) - 1)
    BY DEF DropIndex, Clamp, bar, behind
  <1> HIDE DEF insertAt
  <1> QED  BY <1>4, <1>5, <1>6, ClampType

\* A drag in the bar is reorderCommand with the index of the drop.
LEMMA DragStep ==
  ASSUME Sound(items), NEW c \in CommandIds, NEW n \in Nat, DragInBar(c, n)
  PROVE  GoodStep(items, items')
  <1> DEFINE i == DropIndex(c, n)
  <1>1. i \in Nat /\ ReorderWithCommands(c, i)
    BY DropIndexType DEF DragInBar
  <1> HIDE DEF i
  <1> QED  BY <1>1, RenumberingSteps

\* Every operation but an import.
LEMMA OpIsGood ==
  ASSUME Sound(items), BookmarkOp \/ BarOp
  PROVE  GoodStep(items, items')
  <1>1. \A n : \A i \in 0..n : i \in Nat
    OBVIOUS
  <1>2. CASE BookmarkOp
    <2>1. CASE \E p \in Paths, f \in FolderIds \cup {None} : AddBookmark(p, f) \/ MoveToEnd(p, f)
      BY <2>1, PutBookmarkSteps
    <2>2. CASE \E p \in Paths, f \in FolderIds \cup {None}, i \in 0..Cardinality(Paths) :
            MoveToIndex(p, f, i)
      BY <1>1, <2>2, RenumberingSteps
    <2>3. CASE \E p \in Paths, i \in 0..Cardinality(Paths) : ReorderBookmark(p, i)
      BY <1>1, <2>3, RenumberingSteps
    <2>4. CASE \E p, q \in Paths : DropOnBookmark(p, q)
      BY <2>4, DropStep
    <2>5. CASE \E p \in Paths : RemoveBookmark(p)
      BY <2>5, RegroupSteps
    <2>6. CASE \E f \in FolderIds : AddFolder(f) \/ RemoveFolder(f)
      BY <2>6, AddSteps, RemoveFolderStep
    <2> QED  BY <1>2, <2>1, <2>2, <2>3, <2>4, <2>5, <2>6 DEF BookmarkOp
  <1>3. CASE BarOp
    <2>1. CASE \E x \in FolderIds \cup CommandIds, i \in 0..Cardinality(Paths) :
            ReorderWithCommands(x, i)
      BY <1>1, <2>1, RenumberingSteps
    <2>2. CASE \E c \in CommandIds, g \in GroupIds \cup {None} : AddCommand(c, g) \/ UpdateCommand(c, g)
      BY <2>2, AddSteps, RegroupSteps
    <2>3. CASE \E c \in CommandIds : RemoveCommand(c)
      BY <2>3, RegroupSteps
    <2>4. CASE \E g \in GroupIds : AddCommandGroup(g) \/ RemoveCommandGroup(g)
      BY <2>4, AddSteps, RegroupSteps
    <2>5. CASE \E c \in CommandIds, n \in 0..Cardinality(Ids) : DragInBar(c, n)
      BY <1>1, <2>5, DragStep
    <2> QED  BY <1>3, <2>1, <2>2, <2>3, <2>4, <2>5 DEF BarOp
  <1> QED  BY <1>2, <1>3

\* An import brings items, whatever their folders and indexes, and leaves the
\* commands.
LEMMA ImportIsSound == ASSUME Sound(items), Import PROVE Sound(items')
  <1>1. PICK file \in Imports :
          items' = [x \in DOMAIN file \cup (DOMAIN items \cap (CommandIds \cup GroupIds)) |->
                      IF x \in DOMAIN file THEN file[x] ELSE items[x]]
    BY DEF Import
  <1>2. IsItems(file) /\ RowsApart(file) /\ DOMAIN file \subseteq Paths \cup FolderIds
    BY FilesAssumption
  <1>3. /\ DOMAIN items' = DOMAIN file \cup (DOMAIN items \cap (CommandIds \cup GroupIds))
        /\ items' = [x \in DOMAIN items' |-> items'[x]]
        /\ \A x \in DOMAIN file : items'[x] = file[x]
        /\ \A x \in DOMAIN items' \ DOMAIN file :
             x \in CommandIds \cup GroupIds /\ x \in DOMAIN items /\ items'[x] = items[x]
    BY <1>1
  <1>4. IsItems(items')
    BY <1>2, <1>3 DEF Sound, IsItems
  <1>5. \A x \in Paths \cup FolderIds, y \in CommandIds \cup GroupIds : Rank(x) # Rank(y)
    BY BookmarksAssumption DEF Rank
  <1>6. RowsApart(items')
    BY <1>2, <1>3, <1>5 DEF Sound, RowsApart
  <1> QED  BY <1>4, <1>6 DEF Sound

-----------------------------------------------------------------------------
(* Where a moved item is shown.                                            *)

\* The places in a list are 0, 1 and so on: there are c items at the places
\* below c.
LEMMA PlacesCount ==
  ASSUME NEW its, Sound(its), NEW T, T \subseteq DOMAIN its, NEW c \in Nat, c <= Cardinality(T)
  PROVE  Cardinality({y \in T : Place(its, T, y) < c}) = c
  <1> DEFINE place(y) == Place(its, T, y)
             n == Cardinality(T)
             at == [y \in T |-> place(y)]
             below == {y \in T : place(y) < c}
             low == [y \in below |-> place(y)]
  <1>1. IsFiniteSet(T)
    BY ItemsAre, FS_Subset DEF Sound
  <1>2. n \in Nat
    BY <1>1, FS_CardinalityType
  <1>3. ASSUME NEW y \in T PROVE place(y) \in 0..(n - 1)
    <2> DEFINE A == {z \in T \ {y} : Before(its, z, y)}
    <2>1. A \subseteq T /\ y \notin A
      OBVIOUS
    <2>2. IsFiniteSet(A) /\ Cardinality(A) <= n /\ Cardinality(A) # n
      BY <1>1, <2>1, FS_Subset
    <2>3. Cardinality(A) \in Nat
      BY <2>2, FS_CardinalityType
    <2>4. place(y) = Cardinality(A)
      BY DEF Place
    <2> HIDE DEF A, n, place
    <2> QED  BY <1>2, <2>2, <2>3, <2>4
  <1>4. ASSUME NEW y \in T, NEW z \in T, y # z PROVE place(y) # place(z)
    <2>1. Before(its, y, z) \/ Before(its, z, y)
      BY <1>4, BeforeIsOrder
    <2>2. /\ place(y) \in Nat /\ place(z) \in Nat
          /\ Before(its, y, z) => place(y) < place(z)
          /\ Before(its, z, y) => place(z) < place(y)
      BY PlaceTells
    <2> HIDE DEF place
    <2> QED  BY <2>1, <2>2
  <1> HIDE DEF place, n
  <1>5. at \in Injection(T, 0..(n - 1))
    BY <1>3, <1>4 DEF Injection, IsInjective
  <1>6. IsFiniteSet(0..(n - 1)) /\ Cardinality(0..(n - 1)) = n
    <2>1. IsFiniteSet(0..(n - 1)) /\ Cardinality(0..(n - 1)) = IF 0 > n - 1 THEN 0 ELSE (n - 1) - 0 + 1
      BY <1>2, FS_Interval
    <2> QED  BY <1>2, <2>1
  <1>7. at \in Surjection(T, 0..(n - 1))
    <2>1. Cardinality(T) = Cardinality(0..(n - 1))
      BY <1>6 DEF n
    <2> HIDE DEF at
    <2> QED  BY <1>5, <1>6, <2>1, FS_Injection
  <1>8. c <= n
    BY DEF n
  <1>9. \A k \in 0..(c - 1) : \E y \in below : place(y) = k
    <2> TAKE k \in 0..(c - 1)
    <2>1. k \in 0..(n - 1) /\ k < c
      BY <1>2, <1>8
    <2>2. PICK y \in T : at[y] = k
      BY <1>7, <2>1 DEF Surjection
    <2> QED  BY <2>1, <2>2
  <1>10. \A y \in below : place(y) \in 0..(c - 1)
    BY <1>2, <1>3
  <1>11. low \in Bijection(below, 0..(c - 1))
    <2>1. low \in [below -> 0..(c - 1)]
      BY <1>10
    <2>2. \A y, z \in below : low[y] = low[z] => y = z
      BY <1>4
    <2>3. \A k \in 0..(c - 1) : \E y \in below : low[y] = k
      BY <1>9
    <2> HIDE DEF low, below
    <2>4. low \in Injection(below, 0..(c - 1)) /\ low \in Surjection(below, 0..(c - 1))
      BY <2>1, <2>2, <2>3 DEF Injection, IsInjective, Surjection
    <2> QED  BY <2>4 DEF Bijection
  <1>12. IsFiniteSet(below)
    BY <1>1, FS_Subset
  <1>13. Cardinality(0..(c - 1)) = c
    <2>1. Cardinality(0..(c - 1)) = IF 0 > c - 1 THEN 0 ELSE (c - 1) - 0 + 1
      BY FS_Interval
    <2> QED  BY <2>1
  <1> HIDE DEF low
  <1>14. Cardinality(0..(c - 1)) = Cardinality(below)
    BY <1>11, <1>12, FS_Bijection DEF ExistsBijection
  <1> QED  BY <1>13, <1>14 DEF place

\* The item that is moved is at place c of the list, equal indexes or not.
LEMMA LandsAtPlace ==
  ASSUME NEW m, Sound(m), NEW S, S \subseteq DOMAIN m, NEW x \in S, NEW c \in Nat,
         c <= Cardinality(S) - 1, NEW r, Sound(r), Renumbers(m, r, S, x, c)
  PROVE  Place(r, S, x) = c
  <1> DEFINE T == S \ {x}
  <1>1. Cardinality(T) = Cardinality(S) - 1 /\ T \subseteq DOMAIN m
    BY ItemsAre, FS_Subset, FS_RemoveElement DEF Sound
  <1>2. \A y \in T : Place(m, T, y) \in Nat
    BY <1>1, PlaceTells
  <1>3. \A y \in T : Before(r, y, x) <=> Place(m, T, y) < c
    <2> TAKE y \in T
    <2> DEFINE k == Place(m, T, y)
    <2>1. r[x].at = c /\ r[y].at = Shifted(k, c) /\ k \in Nat
      BY <1>2 DEF Renumbers
    <2> HIDE DEF k
    <2>2. r[y].at # c /\ (r[y].at < c <=> k < c)
      BY <2>1 DEF Shifted
    <2>3. Before(r, y, x) <=> r[y].at < c
      BY <2>1, <2>2 DEF Before
    <2> QED  BY <2>2, <2>3 DEF k
  <1>4. {y \in S \ {x} : Before(r, y, x)} = {y \in T : Place(m, T, y) < c}
    BY <1>3
  <1>5. c <= Cardinality(T)
    BY <1>1
  <1> HIDE DEF T
  <1>6. Cardinality({y \in T : Place(m, T, y) < c}) = c
    BY <1>1, <1>5, PlacesCount
  <1> QED  BY <1>4, <1>6 DEF Place

\* A renumbering moves nothing to another list.
LEMMA RenumberedLists ==
  ASSUME NEW m, NEW S, NEW x, NEW c, NEW r, Renumbers(m, r, S, x, c)
  PROVE  /\ WithCommands(r) = WithCommands(m)
         /\ \A p \in DOMAIN m : Siblings(r, p) = Siblings(m, p)
  <1>1. DOMAIN r = DOMAIN m /\ \A y \in DOMAIN m : r[y].in = m[y].in
    BY DEF Renumbers
  <1>2. \A k, f : In(r, k, f) = In(m, k, f) /\ Held(r, k) = Held(m, k)
    BY <1>1 DEF In, Held
  <1>3. RootItems(r) = RootItems(m)
    BY <1>2 DEF RootItems
  <1> QED  BY <1>1, <1>2, <1>3 DEF WithCommands, Siblings

\* reorderFolder, reorderCommand
LEMMA ReorderLands ==
  ASSUME Sound(items), NEW x \in FolderIds \cup CommandIds, NEW i \in Nat, ReorderWithCommands(x, i)
  PROVE  AtPlace(WithCommands(items'), x, i)
  <1> DEFINE S == WithCommands(items)
             c == Clamp(i, Cardinality(S) - 1)
  <1>1. /\ Whole(items, S) /\ x \in S /\ c \in Nat /\ c <= Cardinality(S) - 1
        /\ Renumbers(items, items', S, x, c) /\ Sound(items')
    BY ReorderWithCommandsRenumbers
  <1>2. WithCommands(items') = S
    BY <1>1, RenumberedLists
  <1> HIDE DEF S
  <1>3. Place(items', S, x) = c
    <2> HIDE DEF c
    <2> QED  BY <1>1, LandsAtPlace DEF Whole
  <1> QED  BY <1>2, <1>3 DEF AtPlace

\* moveBookmark with an index and reorderBookmark.
LEMMA BookmarkLands ==
  ASSUME Sound(items), NEW p \in Paths, NEW f \in FolderIds \cup {None}, NEW i \in Nat,
         MoveToIndex(p, f, i) \/ ReorderBookmark(p, i)
  PROVE  AtPlace(Siblings(items', p), p, i)
  <1>1. PICK m :
          LET S == Siblings(m, p)
              c == Clamp(i, Cardinality(S) - 1)
          IN  /\ p \in DOMAIN items /\ Moved(items, m, p) /\ Whole(m, S) /\ p \in S
              /\ c \in Nat /\ c <= Cardinality(S) - 1
              /\ Renumbers(m, items', S, p, c) /\ Sound(items')
    <2>1. CASE MoveToIndex(p, f, i)
      BY <2>1, MoveToIndexRenumbers
    <2>2. CASE ReorderBookmark(p, i)
      BY <2>2, ReorderBookmarkRenumbers, NothingMoved
    <2> QED  BY <2>1, <2>2
  <1> DEFINE S == Siblings(m, p)
             c == Clamp(i, Cardinality(S) - 1)
  <1>2. Sound(m) /\ p \in DOMAIN m /\ S \subseteq DOMAIN m
    BY <1>1 DEF Moved, Whole
  <1>3. Siblings(items', p) = S
    BY <1>1, <1>2, RenumberedLists
  <1>4. /\ p \in S /\ c \in Nat /\ c <= Cardinality(S) - 1
        /\ Renumbers(m, items', S, p, c) /\ Sound(items')
    BY <1>1
  <1> HIDE DEF S
  <1>5. Place(items', S, p) = c
    <2> HIDE DEF c
    <2> QED  BY <1>2, <1>4, LandsAtPlace
  <1> QED  BY <1>3, <1>5 DEF AtPlace

-----------------------------------------------------------------------------
(* Theorems.  That each array is a sequence, which tells equal indexes     *)
(* apart, is all the invariant that they need.                             *)

\* Bookmarks, folders, commands and groups stay well-formed, each array a
\* sequence, whatever is imported.
THEOREM BookmarksTypeCorrect == Spec => []TypeOK
  <1>1. Init => TypeOK
    BY FilesAssumption DEF Init, TypeOK
  <1>2. TypeOK /\ [Next]_vars => TypeOK'
    <2> SUFFICES ASSUME TypeOK, [Next]_vars PROVE TypeOK'
      OBVIOUS
    <2>1. CASE UNCHANGED vars
      BY <2>1 DEF vars, TypeOK
    <2>2. CASE BookmarkOp \/ BarOp
      BY <2>2, OpIsGood DEF TypeOK, Sound, GoodStep
    <2>3. CASE Import
      BY <2>3, ImportIsSound DEF TypeOK, Sound
    <2> QED  BY <2>1, <2>2, <2>3 DEF Next
  <1> QED  BY <1>1, <1>2, PTL DEF Spec

\* A step is an import, or does all that an operation owes.
LEMMA StepIsGood ==
  ASSUME TypeOK, [Next]_vars
  PROVE  [GoodStep(items, items') \/ Import]_vars
  BY OpIsGood DEF TypeOK, Sound, Next

\* removeFolder, moveBookmark and the rest never hide a bookmark that was
\* shown: only an imported file puts bookmarks in folders that do not exist.
THEOREM NothingElseHides == Spec => OnlyImportsHide
  <1>1. TypeOK /\ [Next]_vars => [Hidden(items') \subseteq Hidden(items) \/ Import]_vars
    BY StepIsGood DEF GoodStep
  <1> QED  BY <1>1, BookmarksTypeCorrect, PTL DEF Spec, OnlyImportsHide

\* nextSortIndex, the renumberings and removeFolder never make two items of a
\* list equal, though what was imported may be.
THEOREM NothingElseTies == Spec => OnlyImportsTie
  <1>1. TypeOK /\ [Next]_vars => [Ties(items') \subseteq Ties(items) \/ Import]_vars
    BY StepIsGood DEF GoodStep
  <1> QED  BY <1>1, BookmarksTypeCorrect, PTL DEF Spec, OnlyImportsTie

\* reorderItems, reindexSiblings and applyRootReindex put an item at the place
\* of its list that the store is handed, or last, also among equal indexes,
\* and no operation but an import changes the order of two others of a list.
THEOREM EveryMoveIsAsAsked == Spec => MovesAsAsked
  <1>1. TypeOK /\ [Next]_vars => [(OneMoves \/ Import) /\ LandsAtItsIndex]_vars
    <2> SUFFICES ASSUME TypeOK, [Next]_vars
                 PROVE  [(OneMoves \/ Import) /\ LandsAtItsIndex]_vars
      OBVIOUS
    <2>1. LandsAtItsIndex
      <3>1. \A n : \A i \in 0..n : i \in Nat
        OBVIOUS
      <3> QED  BY <3>1, ReorderLands, BookmarkLands DEF TypeOK, Sound, LandsAtItsIndex
    <2>2. GoodStep(items, items') => OneMoves
      BY DEF GoodStep, KeepsOrder, OneMoves
    <2> QED  BY <2>1, <2>2, StepIsGood
  <1> QED  BY <1>1, BookmarksTypeCorrect, PTL DEF Spec, MovesAsAsked

\* removeFolder shows the children after everything that was at the root, in
\* the order they had in the folder.
THEOREM ChildrenStayInOrder == Spec => ChildrenKeepTheirOrder
  <1>1. TypeOK /\ [Next]_vars => [\A f \in FolderIds : RemoveFolder(f) => ChildrenFollow(f)]_vars
    <2> SUFFICES ASSUME TypeOK, NEW f \in FolderIds, RemoveFolder(f) PROVE ChildrenFollow(f)
      OBVIOUS
    <2>1. FolderRemoved(items, items', f)
      BY FolderRemovedIs DEF TypeOK, Sound
    <2>2. RootItems(items) \ {f} \subseteq DOMAIN items'
      BY <2>1 DEF FolderRemoved, RootItems, In, Held
    <2>3. \A y \in RootItems(items) : y \notin In(items, Paths, f)
      BY BookmarksAssumption DEF RootItems, In, Held
    <2>4. \A y \in RootItems(items) \ {f} : items'[y] = items[y]
      BY <2>1, <2>2, <2>3 DEF FolderRemoved
    <2> QED  BY <2>1, <2>4 DEF FolderRemoved, ChildrenFollow
  <1> QED  BY <1>1, BookmarksTypeCorrect, PTL DEF Spec, ChildrenKeepTheirOrder
=============================================================================
