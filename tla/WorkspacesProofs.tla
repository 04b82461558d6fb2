-------------------------- MODULE WorkspacesProofs --------------------------
(* Theorems about Workspaces: tabs, regions and workspaces of any number,  *)
(* and any number of shells being spawned.                                 *)
(*                                                                         *)
(* A step of the window layout is first reduced to what it does to the     *)
(* screen (ScreenStep): the tree still matches the regions, the tabs were  *)
(* there before or are new, and what was closed had left.  From that alone *)
(* LayoutStepKeeps shows that the invariant of all workspaces holds; the   *)
(* workspace operations, captures and restarts are shown to keep it one by *)
(* one.                                                                    *)
EXTENDS Workspaces, FiniteSetTheorems, SequenceTheorems, TLAPS

-----------------------------------------------------------------------------
(* Sequences without one of their elements, and with one more. *)

\* What a sequence made of two parts holds.
Glued(c, a, b) ==
  /\ Len(c) = Len(a) + Len(b)
  /\ \A i \in 1..Len(a) : c[i] = a[i]
  /\ \A i \in 1..Len(b) : c[Len(a) + i] = b[i]

LEMMA Joined ==
  ASSUME NEW S, NEW a \in Seq(S), NEW b \in Seq(S)
  PROVE  a \o b \in Seq(S) /\ Glued(a \o b, a, b)
  <1> DEFINE p == Len(a)
             q == Len(b)
  <1>1. /\ a \o b \in Seq(S) /\ Len(a \o b) = p + q /\ p \in Nat /\ q \in Nat
        /\ \A i \in 1..(p + q) : (a \o b)[i] = IF i <= p THEN a[i] ELSE b[i - p]
    BY ConcatProperties
  <1> HIDE DEF p, q
  <1>2. \A i \in 1..p : (a \o b)[i] = a[i]
    BY <1>1
  <1>3. \A i \in 1..q : (a \o b)[p + i] = b[i]
    <2> TAKE i \in 1..q
    <2> DEFINE m == p + i
    <2>1. m \in 1..(p + q) /\ ~(m <= p) /\ m - p = i
      BY <1>1
    <2> HIDE DEF m
    <2>2. (a \o b)[m] = b[m - p]  BY <1>1, <2>1
    <2> QED  BY <2>1, <2>2 DEF m
  <1> QED  BY <1>1, <1>2, <1>3 DEF Glued, p, q

\* t is s without its k-th element; t is s with e as its k-th element.
TakenOut(t, s, k) ==
  /\ Len(t) = Len(s) - 1
  /\ \A i \in 1..(k - 1) : t[i] = s[i]
  /\ \A i \in k..(Len(s) - 1) : t[i] = s[i + 1]
PutIn(t, s, k, e) ==
  /\ Len(t) = Len(s) + 1 /\ t[k] = e
  /\ \A i \in 1..(k - 1) : t[i] = s[i]
  /\ \A i \in k..Len(s) : t[i + 1] = s[i]

LEMMA RemoveAtElements ==
  ASSUME NEW S, NEW s \in Seq(S), NEW k \in 1..Len(s)
  PROVE  RemoveAt(s, k) \in Seq(S) /\ TakenOut(RemoveAt(s, k), s, k)
  <1>1. Len(s) \in Nat  OBVIOUS
  <1> DEFINE a == SubSeq(s, 1, k - 1)
             b == SubSeq(s, k + 1, Len(s))
             p == k - 1
             q == Len(s) - k
  <1>2. a \in Seq(S) /\ Len(a) = p /\ p \in Nat
    BY <1>1, SubSeqProperties
  <1>3. b \in Seq(S) /\ Len(b) = q /\ q \in Nat
    BY <1>1, SubSeqProperties
  <1>4. \A i \in 1..p : a[i] = s[i]
    BY <1>1, SubSeqProperties
  <1>5. \A i \in 1..q : b[i] = s[k + i]
    BY <1>1, SubSeqProperties
  <1>6. RemoveAt(s, k) = a \o b  BY DEF RemoveAt
  <1>7. p = k - 1 /\ q = Len(s) - k  OBVIOUS
  <1> HIDE DEF a, b, p, q
  <1> DEFINE c == a \o b
  <1>8. c \in Seq(S) /\ Glued(c, a, b)
    BY <1>2, <1>3, Joined
  <1>9. /\ Len(c) = p + q
        /\ \A i \in 1..p : c[i] = a[i]
        /\ \A i \in 1..q : c[p + i] = b[i]
    <2> HIDE DEF c
    <2> QED  BY <1>2, <1>3, <1>8 DEF Glued
  <1> HIDE DEF c
  <1>10. \A i \in 1..p : c[i] = s[i]
    BY <1>4, <1>9
  <1>11. \A i \in k..(Len(s) - 1) : c[i] = s[i + 1]
    <2> TAKE i \in k..(Len(s) - 1)
    <2> DEFINE m == i - p
    <2>1. m \in 1..q /\ k + m = i + 1 /\ p + m = i
      BY <1>1, <1>2, <1>3, <1>7
    <2> HIDE DEF m
    <2>2. c[p + m] = b[m] /\ b[m] = s[k + m]
      BY <1>5, <1>9, <2>1
    <2> QED  BY <2>1, <2>2
  <1>12. c \in Seq(S) /\ Len(c) = Len(s) - 1
    BY <1>1, <1>7, <1>8, <1>9
  <1> QED  BY <1>6, <1>7, <1>10, <1>11, <1>12 DEF TakenOut, c

LEMMA InsertAtElements ==
  ASSUME NEW S, NEW s \in Seq(S), NEW e \in S, NEW k \in 1..(Len(s) + 1)
  PROVE  InsertAt(s, k, e) \in Seq(S) /\ PutIn(InsertAt(s, k, e), s, k, e)
  <1>1. Len(s) \in Nat /\ \A i \in 1..Len(s) : s[i] \in S  OBVIOUS
  <1> DEFINE a == SubSeq(s, 1, k - 1)
             b == SubSeq(s, k, Len(s))
             p == k - 1
             q == Len(s) - p
  <1>2. a \in Seq(S) /\ Len(a) = p /\ p \in Nat
    BY <1>1, SubSeqProperties
  <1>3. b \in Seq(S) /\ Len(b) = q /\ q \in Nat
    BY <1>1, SubSeqProperties
  <1>4. \A i \in 1..p : a[i] = s[i]
    BY <1>1, SubSeqProperties
  <1>5. \A i \in 1..q : b[i] = s[p + i]
    BY <1>1, SubSeqProperties
  <1>6. InsertAt(s, k, e) = (a \o <<e>>) \o b  BY DEF InsertAt
  <1>7. p = k - 1 /\ q = Len(s) - p  OBVIOUS
  <1> HIDE DEF a, b, p, q
  <1> DEFINE c == a \o <<e>>
             d == c \o b
  <1>8. <<e>> \in Seq(S) /\ Len(<<e>>) = 1 /\ <<e>>[1] = e  OBVIOUS
  <1>9. c \in Seq(S) /\ Glued(c, a, <<e>>)
    BY <1>2, <1>8, Joined
  <1>10. Len(c) = k /\ c[k] = e /\ \A i \in 1..p : c[i] = s[i]
    <2> HIDE DEF c
    <2> QED  BY <1>2, <1>4, <1>7, <1>8, <1>9 DEF Glued
  <1> HIDE DEF c
  <1>11. d \in Seq(S) /\ Glued(d, c, b)
    BY <1>3, <1>9, Joined
  <1> HIDE DEF d
  <1>12. Len(d) = k + q /\ d[k] = e /\ \A i \in 1..p : d[i] = s[i]
    BY <1>3, <1>7, <1>10, <1>11 DEF Glued
  <1>13. \A i \in 1..q : d[k + i] = s[p + i]
    BY <1>3, <1>5, <1>10, <1>11 DEF Glued
  <1>14. \A i \in k..Len(s) : d[i + 1] = s[i]
    <2> TAKE i \in k..Len(s)
    <2> DEFINE m == i - p
    <2>1. m \in 1..q /\ k + m = i + 1 /\ p + m = i
      BY <1>1, <1>2, <1>3, <1>7
    <2> HIDE DEF m
    <2>2. d[k + m] = s[p + m]
      BY <1>13, <2>1
    <2> QED  BY <2>1, <2>2
  <1>15. Len(d) = Len(s) + 1
    BY <1>1, <1>2, <1>7, <1>12
  <1> QED  BY <1>6, <1>7, <1>11, <1>12, <1>14, <1>15 DEF PutIn, c, d

\* An injective sequence without one of its elements, and with a new one.
LEMMA LeavingInjective ==
  ASSUME NEW S, NEW s \in Seq(S), IsInjective(s), NEW x
  PROVE  /\ Leaving(s, x) \in Seq(S) /\ IsInjective(Leaving(s, x))
         /\ Range(Leaving(s, x)) = Range(s) \ {x}
         /\ Len(Leaving(s, x)) = IF x \in Range(s) THEN Len(s) - 1 ELSE Len(s)
  <1>1. CASE x \notin Range(s)
    <2>1. Leaving(s, x) = s  BY <1>1 DEF Leaving
    <2>2. Range(s) = Range(s) \ {x}  BY <1>1
    <2> QED  BY <1>1, <2>1, <2>2, Zenon
  <1>2. CASE x \in Range(s)
    <2> DEFINE k == Where(s, x)
               t == RemoveAt(s, k)
    <2>0. Len(s) \in Nat /\ DOMAIN s = 1..Len(s)
      OBVIOUS
    <2>1. k \in 1..Len(s) /\ s[k] = x
      BY <1>2, <2>0 DEF Where, Range
    <2> HIDE DEF k
    <2>2. t \in Seq(S) /\ TakenOut(t, s, k)
      BY <2>1, RemoveAtElements
    <2>3. Leaving(s, x) = t
      BY <1>2 DEF Leaving, k
    <2> HIDE DEF t
    <2>4. Len(t) = Len(s) - 1 /\ DOMAIN t = 1..(Len(s) - 1)
      BY <2>2 DEF TakenOut
    <2> DEFINE from(i) == IF i < k THEN i ELSE i + 1
    <2>5. \A i \in DOMAIN t : t[i] = s[from(i)] /\ from(i) \in DOMAIN s /\ from(i) # k
      BY <2>0, <2>1, <2>2, <2>4 DEF TakenOut
    <2>6. IsInjective(t)
      <3> SUFFICES ASSUME NEW i \in DOMAIN t, NEW j \in DOMAIN t, t[i] = t[j] PROVE i = j
        BY DEF IsInjective
      <3>1. from(i) = from(j)
        <4> HIDE DEF from
        <4> QED  BY <2>5 DEF IsInjective
      <3> QED  BY <2>1, <2>4, <3>1
    <2>7. Range(t) = Range(s) \ {x}
      <3>1. ASSUME NEW i \in DOMAIN t PROVE t[i] \in Range(s) \ {x}
        <4> HIDE DEF from
        <4> QED  BY <2>0, <2>1, <2>5 DEF IsInjective, Range
      <3>2. ASSUME NEW j \in DOMAIN s, s[j] # x PROVE s[j] \in Range(t)
        <4> DEFINE i == IF j < k THEN j ELSE j - 1
        <4>1. i \in DOMAIN t /\ from(i) = j
          BY <2>0, <2>1, <2>4, <3>2
        <4> HIDE DEF i, from
        <4> QED  BY <2>5, <4>1 DEF Range
      <3> QED  BY <3>1, <3>2 DEF Range
    <2> QED  BY <1>2, <2>2, <2>3, <2>4, <2>6, <2>7
  <1> QED  BY <1>1, <1>2

LEMMA SplitLeafInjective ==
  ASSUME NEW S, NEW s \in Seq(S), IsInjective(s), NEW x \in Range(s), NEW n \in S,
         n \notin Range(s), NEW position
  PROVE  /\ SplitLeaf(s, x, n, position) \in Seq(S)
         /\ IsInjective(SplitLeaf(s, x, n, position))
         /\ Range(SplitLeaf(s, x, n, position)) = Range(s) \cup {n}
  <1> DEFINE k == IF position = "before" THEN Where(s, x) ELSE Where(s, x) + 1
             t == InsertAt(s, k, n)
  <1>0. Len(s) \in Nat /\ DOMAIN s = 1..Len(s)
    OBVIOUS
  <1>1. Where(s, x) \in 1..Len(s)
    BY <1>0 DEF Where, Range
  <1>2. k \in 1..(Len(s) + 1)
    BY <1>0, <1>1
  <1>3. SplitLeaf(s, x, n, position) = t
    BY DEF SplitLeaf
  <1> HIDE DEF k
  <1>4. t \in Seq(S) /\ PutIn(t, s, k, n)
    BY <1>2, InsertAtElements
  <1> HIDE DEF t
  <1>5. Len(t) = Len(s) + 1 /\ DOMAIN t = 1..(Len(s) + 1)
    BY <1>4 DEF PutIn
  <1> DEFINE from(i) == IF i < k THEN i ELSE i - 1
             to(j)   == IF j < k THEN j ELSE j + 1
  <1>6. \A j \in DOMAIN s : to(j) \in DOMAIN t /\ to(j) # k /\ t[to(j)] = s[j]
    BY <1>0, <1>2, <1>4, <1>5 DEF PutIn
  <1>7. \A i \in DOMAIN t : i # k => from(i) \in DOMAIN s /\ to(from(i)) = i
    BY <1>0, <1>2, <1>5
  <1>8. k \in DOMAIN t /\ t[k] = n
    BY <1>0, <1>2, <1>4, <1>5 DEF PutIn
  <1> HIDE DEF from, to
  <1>9. \A i \in DOMAIN t : i # k => t[i] = s[from(i)]
    BY <1>6, <1>7
  <1>10. IsInjective(t)
    <2> SUFFICES ASSUME NEW i \in DOMAIN t, NEW j \in DOMAIN t, t[i] = t[j] PROVE i = j
      BY DEF IsInjective
    <2>1. CASE i = k \/ j = k
      BY <1>7, <1>8, <1>9, <2>1 DEF Range
    <2>2. CASE i # k /\ j # k
      <3>1. from(i) = from(j)
        BY <1>7, <1>9, <2>2 DEF IsInjective
      <3> QED  BY <1>7, <2>2, <3>1
    <2> QED  BY <2>1, <2>2
  <1>11. Range(t) = Range(s) \cup {n}
    <2>1. ASSUME NEW i \in DOMAIN t PROVE t[i] \in Range(s) \cup {n}
      BY <1>7, <1>8, <1>9 DEF Range
    <2>2. ASSUME NEW j \in DOMAIN s PROVE s[j] \in Range(t)
      BY <1>6 DEF Range
    <2> QED  BY <1>8, <2>1, <2>2 DEF Range
  <1> QED  BY <1>3, <1>4, <1>10, <1>11

-----------------------------------------------------------------------------
(* Tabs of a region.                                                       *)

LEMMA UnlikeBothWays == \A a, b : Unlike(a, b) => Unlike(b, a)
  BY DEF Unlike

LEMMA TakenOutTabs ==
  ASSUME NEW s \in Seq(Tab), OnceIn(s), NEW k \in 1..Len(s), NEW t \in Seq(Tab), TakenOut(t, s, k)
  PROVE  OnceIn(t) /\ Range(t) = Range(s) \ {s[k]}
  <1> DEFINE from(i) == IF i < k THEN i ELSE i + 1
             to(j)   == IF j < k THEN j ELSE j - 1
  <1>1. Len(s) \in Nat /\ DOMAIN s = 1..Len(s) /\ DOMAIN t = 1..(Len(s) - 1)
    BY DEF TakenOut
  <1>2. \A i \in DOMAIN t : from(i) \in DOMAIN s /\ from(i) # k /\ t[i] = s[from(i)] /\ to(from(i)) = i
    BY <1>1 DEF TakenOut
  <1>3. \A j \in DOMAIN s : j # k => to(j) \in DOMAIN t /\ from(to(j)) = j
    BY <1>1
  <1> HIDE DEF from, to
  <1>4. OnceIn(t)
    <2> SUFFICES ASSUME NEW i \in DOMAIN t, NEW j \in DOMAIN t, i # j PROVE Unlike(t[i], t[j])
      BY DEF OnceIn
    <2>1. from(i) # from(j)
      BY <1>2
    <2> QED  BY <1>2, <2>1 DEF OnceIn
  <1>5. \A j \in DOMAIN s : j # k => s[j] # s[k]
    <2> SUFFICES ASSUME NEW j \in DOMAIN s, j # k PROVE s[j].id # s[k].id
      OBVIOUS
    <2> QED  BY <1>1 DEF OnceIn, Unlike
  <1>6. \A x \in Range(t) : x \in Range(s) \ {s[k]}
    BY <1>2, <1>5 DEF Range
  <1>7. \A x \in Range(s) \ {s[k]} : x \in Range(t)
    <2> SUFFICES ASSUME NEW j \in DOMAIN s, s[j] # s[k] PROVE s[j] \in Range(t)
      BY DEF Range
    <2> QED  BY <1>2, <1>3 DEF Range
  <1> QED  BY <1>4, <1>6, <1>7

LEMMA PutInTabs ==
  ASSUME NEW s \in Seq(Tab), OnceIn(s), NEW e \in Tab, \A x \in Range(s) : Unlike(e, x),
         NEW k \in 1..(Len(s) + 1), NEW t \in Seq(Tab), PutIn(t, s, k, e)
  PROVE  OnceIn(t) /\ Range(t) = Range(s) \cup {e}
  <1> DEFINE from(i) == IF i < k THEN i ELSE i - 1
             to(j)   == IF j < k THEN j ELSE j + 1
  <1>1. Len(s) \in Nat /\ DOMAIN s = 1..Len(s) /\ DOMAIN t = 1..(Len(s) + 1)
    BY DEF PutIn
  <1>2. \A j \in DOMAIN s : to(j) \in DOMAIN t /\ to(j) # k /\ t[to(j)] = s[j]
    BY <1>1 DEF PutIn
  <1>3. \A i \in DOMAIN t : i # k => from(i) \in DOMAIN s /\ to(from(i)) = i
    BY <1>1
  <1>4. k \in DOMAIN t /\ t[k] = e
    BY <1>1 DEF PutIn
  <1> HIDE DEF from, to
  <1>5. \A i \in DOMAIN t : i # k => t[i] = s[from(i)] /\ t[i] \in Range(s)
    BY <1>2, <1>3 DEF Range
  <1>6. OnceIn(t)
    <2> SUFFICES ASSUME NEW i \in DOMAIN t, NEW j \in DOMAIN t, i # j PROVE Unlike(t[i], t[j])
      BY DEF OnceIn
    <2>1. CASE i = k
      BY <1>4, <1>5, <2>1
    <2>2. CASE j = k
      BY <1>4, <1>5, <2>2, UnlikeBothWays
    <2>3. CASE i # k /\ j # k
      <3>1. from(i) # from(j)
        BY <1>3, <2>3
      <3> QED  BY <1>3, <1>5, <2>3, <3>1 DEF OnceIn
    <2> QED  BY <2>1, <2>2, <2>3
  <1>7. \A x \in Range(t) : x \in Range(s) \cup {e}
    BY <1>4, <1>5 DEF Range
  <1>8. \A x \in Range(s) \cup {e} : x \in Range(t)
    BY <1>2, <1>4 DEF Range
  <1> QED  BY <1>6, <1>7, <1>8

LEMMA AppendTabs ==
  ASSUME NEW s \in Seq(Tab), OnceIn(s), NEW e \in Tab, \A x \in Range(s) : Unlike(e, x)
  PROVE  /\ Append(s, e) \in Seq(Tab) /\ OnceIn(Append(s, e))
         /\ Range(Append(s, e)) = Range(s) \cup {e}
  <1> DEFINE t == Append(s, e)
             k == Len(s) + 1
  <1>1. t \in Seq(Tab) /\ k \in 1..(Len(s) + 1) /\ Len(s) \in Nat
    OBVIOUS
  <1>2. PutIn(t, s, k, e)
    BY DEF PutIn
  <1> HIDE DEF t, k
  <1>3. OnceIn(t) /\ Range(t) = Range(s) \cup {e}
    BY <1>1, <1>2, PutInTabs
  <1> QED  BY <1>1, <1>3 DEF t

LEMMA IdsOfTabs ==
  ASSUME NEW tabs \in Seq(Tab)
  PROVE  /\ Ids(tabs) \subseteq TabIds /\ Range(tabs) \subseteq Tab
         /\ Ids(tabs) = {x.id : x \in Range(tabs)}
         /\ tabs = <<>> <=> Range(tabs) = {}
  <1>1. \A k \in DOMAIN tabs : tabs[k] \in Tab
    OBVIOUS
  <1>2. \A x \in Tab : x.id \in TabIds
    BY DEF Tab
  <1>3. Ids(tabs) \subseteq TabIds /\ Range(tabs) \subseteq Tab
    BY <1>1, <1>2 DEF Ids, Range
  <1>4. Ids(tabs) = {x.id : x \in Range(tabs)}
    BY DEF Ids, Range
  <1>5. tabs = <<>> <=> Range(tabs) = {}
    <2>1. tabs # <<>> => tabs[1] \in Range(tabs)
      BY DEF Range
    <2>2. tabs = <<>> => Range(tabs) = {}
      BY DEF Range
    <2> QED  BY <2>1, <2>2
  <1> QED  BY <1>3, <1>4, <1>5

LEMMA IndexOfTab ==
  ASSUME NEW tabs \in Seq(Tab), NEW t \in Ids(tabs)
  PROVE  IndexOf(tabs, t) \in 1..Len(tabs) /\ tabs[IndexOf(tabs, t)].id = t
         /\ tabs[IndexOf(tabs, t)] \in Range(tabs)
  <1>1. IndexOf(tabs, t) \in DOMAIN tabs /\ tabs[IndexOf(tabs, t)].id = t
    BY DEF Ids, IndexOf
  <1> QED  BY <1>1 DEF Range

LEMMA DroppedTabs ==
  ASSUME NEW tabs \in Seq(Tab), OnceIn(tabs), NEW t \in Ids(tabs)
  PROVE  /\ Dropped(tabs, t) \in Seq(Tab) /\ OnceIn(Dropped(tabs, t))
         /\ Len(Dropped(tabs, t)) = Len(tabs) - 1
         /\ Range(Dropped(tabs, t)) = Range(tabs) \ {tabs[IndexOf(tabs, t)]}
         /\ \A x \in Range(Dropped(tabs, t)) : Unlike(tabs[IndexOf(tabs, t)], x)
         /\ Ids(Dropped(tabs, t)) = Ids(tabs) \ {t}
  <1> DEFINE k == IndexOf(tabs, t)
             d == Dropped(tabs, t)
  <1>1. k \in 1..Len(tabs) /\ tabs[k].id = t
    BY IndexOfTab
  <1>2. d = RemoveAt(tabs, k)
    BY DEF Dropped
  <1> HIDE DEF k, d
  <1>3. d \in Seq(Tab) /\ TakenOut(d, tabs, k)
    BY <1>1, <1>2, RemoveAtElements
  <1>4. OnceIn(d) /\ Range(d) = Range(tabs) \ {tabs[k]}
    BY <1>1, <1>3, TakenOutTabs
  <1>5. Len(d) = Len(tabs) - 1
    BY <1>3 DEF TakenOut
  <1>6. \A x \in Range(d) : Unlike(tabs[k], x)
    <2> SUFFICES ASSUME NEW j \in DOMAIN tabs, tabs[j] # tabs[k] PROVE Unlike(tabs[k], tabs[j])
      BY <1>4 DEF Range
    <2> QED  BY <1>1 DEF OnceIn
  <1>7. \A s : Ids(s) = {x.id : x \in Range(s)}
    BY DEF Ids, Range
  <1>8. Ids(d) = Ids(tabs) \ {t}
    BY <1>1, <1>4, <1>6, <1>7 DEF Unlike
  <1> QED  BY <1>3, <1>4, <1>5, <1>6, <1>8 DEF d, k

\* A region that loses a tab still shows one of those it has.
LEMMA WithoutShows ==
  ASSUME NEW region, Shows(region), OnceIn(region.tabs), NEW t \in Ids(region.tabs)
  PROVE  Shows(Without(region, t))
  <1> DEFINE rest == Dropped(region.tabs, t)
             k    == IndexOf(region.tabs, t)
             next == NextActive(region, t)
  <1>1. region.tabs \in Seq(Tab) /\ region.activeTabId \in TabIds \cup {None}
    BY DEF Shows, Region
  <1>2. /\ rest \in Seq(Tab) /\ Len(rest) = Len(region.tabs) - 1
        /\ Ids(rest) = Ids(region.tabs) \ {t}
    BY <1>1, DroppedTabs
  <1>3. k \in 1..Len(region.tabs)
    BY <1>1, IndexOfTab
  <1>4. region.tabs # <<>>
    BY <1>1, <1>3
  <1>5. region.activeTabId \in Ids(region.tabs)
    BY <1>4 DEF Shows
  <1>6. next = IF rest = <<>> THEN None
               ELSE IF region.activeTabId # t THEN region.activeTabId
               ELSE rest[IF k <= Len(rest) THEN k ELSE Len(rest)].id
    BY DEF NextActive
  <1> HIDE DEF rest, k, next
  <1>7. IF rest = <<>> THEN next = None ELSE next \in Ids(rest)
    <2>1. CASE rest = <<>>
      BY <1>6, <2>1
    <2>2. CASE rest # <<>> /\ region.activeTabId # t
      BY <1>2, <1>5, <1>6, <2>2
    <2>3. CASE rest # <<>> /\ region.activeTabId = t
      <3> DEFINE i == IF k <= Len(rest) THEN k ELSE Len(rest)
      <3>1. i \in DOMAIN rest
        BY <1>1, <1>2, <1>3, <2>3
      <3>2. next = rest[i].id
        BY <1>6, <2>3
      <3> HIDE DEF i
      <3> QED  BY <2>3, <3>1, <3>2 DEF Ids
    <2> QED  BY <2>1, <2>2, <2>3
  <1>8. next \in TabIds \cup {None}
    <2>1. Ids(rest) \subseteq TabIds
      BY <1>2, IdsOfTabs
    <2> QED  BY <1>7, <2>1
  <1>9. Without(region, t) = [tabs |-> rest, activeTabId |-> next]
    BY DEF Without, rest, next
  <1> QED  BY <1>2, <1>7, <1>8, <1>9 DEF Shows, Region

LEMMA ShowingShows ==
  ASSUME NEW tabs \in Seq(Tab), tabs # <<>>, NEW t \in Ids(tabs)
  PROVE  Shows([tabs |-> tabs, activeTabId |-> t])
  <1>1. t \in TabIds  BY IdsOfTabs
  <1> QED  BY <1>1 DEF Shows, Region

-----------------------------------------------------------------------------
(* The invariant, and what a step of the layout does to the screen.        *)

\* Only a terminal has a session or waits for one.
Mute(tab) == tab.view # Terminal => ~tab.pending /\ tab.session = None
Dead(tab) == tab.view = Terminal /\ ~tab.pending /\ tab.session = None

GoodRegions(rs) ==
  /\ DOMAIN rs \subseteq RegionIds /\ IsFiniteSet(DOMAIN rs)
  /\ \A r \in DOMAIN rs : Shows(rs[r])
  /\ EachOnce(rs)
  /\ \A tab \in TabsIn(rs) : Mute(tab)

\* A torn layout may name other regions than there are, but never one twice.
GoodWindow(win) ==
  /\ win.layout \in Seq(RegionIds) /\ IsInjective(win.layout)
  /\ win.focused \in RegionIds
  /\ GoodRegions(win.regions)

Calls ==
  [kind : {"tab"}, region : RegionIds]
  \cup [kind : {"restore"}, region : RegionIds, tab : TabIds]
  \cup {c \in [kind : {"split"}, region : RegionIds, seen : Seq(RegionIds)] : IsInjective(c.seen)}

ScreenInv ==
  /\ GoodWindow(Screen)
  /\ spawns \in Seq(Calls)
  /\ live \subseteq Sessions /\ exited \subseteq Sessions /\ unmounted \subseteq TabIds
  /\ torn \in BOOLEAN

SessionsIn(rs) == {tab.session : tab \in TabsIn(rs)}

\* A tab that was not on the screen: new, or woken.
Came(tab, running) ==
  /\ tab.id \in FreshTabs \cup {x.id : x \in TabsIn(regions)}
  /\ tab.session \in (FreshSessions \cap running) \cup {None}
  /\ ~Dead(tab)

TreeKept == /\ ~torn' /\ TreeMatches(Screen) => TreeMatches(Screen')
            /\ DOMAIN regions' = DOMAIN regions => layout' = layout
TabsCame == \A tab \in TabsIn(regions') : tab \in TabsIn(regions) \/ Came(tab, live')

\* Only sessions of the screen are closed, and only those of tabs that leave it.
ShellsKept ==
  /\ live \cup exited \subseteq live' \cup exited' \cup SessionsIn(regions)
  /\ TreeMatches(Screen) /\ ~torn =>
       \A tab \in TabsIn(regions') : tab \in TabsIn(regions) =>
         (tab.session \in live \cup exited => tab.session \in live' \cup exited')

ScreenStep == /\ ScreenInv' /\ (torn => torn')
              /\ TreeKept /\ TabsCame /\ ShellsKept

LEMMA TabsInRegion ==
  /\ \A rs, tab : tab \in TabsIn(rs) <=> \E r \in DOMAIN rs : tab \in Range(rs[r].tabs)
  /\ \A rs : \A r \in DOMAIN rs : Range(rs[r].tabs) \subseteq TabsIn(rs)
  BY DEF TabsIn

LEMMA OneOfIs == \A ids : OneOf(ids) \subseteq ids
  BY DEF OneOf

LEMMA GoodRegion ==
  ASSUME NEW rs, GoodRegions(rs), NEW r \in DOMAIN rs
  PROVE  /\ r \in RegionIds /\ Shows(rs[r]) /\ OnceIn(rs[r].tabs)
         /\ rs[r].tabs \in Seq(Tab) /\ rs[r].activeTabId \in TabIds \cup {None}
         /\ rs[r] = [tabs |-> rs[r].tabs, activeTabId |-> rs[r].activeTabId]
         /\ \A tab \in Range(rs[r].tabs) : tab \in Tab /\ Mute(tab) /\ tab \in TabsIn(rs)
  <1>1. r \in RegionIds /\ Shows(rs[r]) /\ OnceIn(rs[r].tabs)
    BY DEF GoodRegions, EachOnce
  <1>2. /\ rs[r].tabs \in Seq(Tab) /\ rs[r].activeTabId \in TabIds \cup {None}
        /\ rs[r] = [tabs |-> rs[r].tabs, activeTabId |-> rs[r].activeTabId]
    BY <1>1 DEF Shows, Region
  <1>3. \A tab \in Range(rs[r].tabs) : tab \in Tab
    BY <1>2, IdsOfTabs
  <1> QED  BY <1>1, <1>2, <1>3, TabsInRegion DEF GoodRegions

\* A step in which nothing happens on the screen.
LEMMA QuietStep ==
  ASSUME ScreenInv, UNCHANGED <<layoutVars, ptyVars, torn>>,
         spawns' \in Seq(Calls), unmounted' \subseteq TabIds
  PROVE  ScreenStep
  <1>1. Screen' = Screen
    BY DEF Screen, layoutVars
  <1> QED  BY <1>1 DEF ScreenStep, ScreenInv, TreeKept, TabsCame, ShellsKept, layoutVars, ptyVars

\* What a region may become: its tabs are its own or came to it, and those are
\* unlike the tabs of the other regions.
FitsInto(region, r) ==
  /\ Shows(region) /\ OnceIn(region.tabs)
  /\ \A tab \in Range(region.tabs) :
       \/ r \in DOMAIN regions /\ tab \in Range(regions[r].tabs)
       \/ /\ Mute(tab) /\ Came(tab, live')
          /\ \A q \in DOMAIN regions \ {r} : \A x \in Range(regions[q].tabs) : Unlike(tab, x)

LEMMA PutIsGood ==
  ASSUME ScreenInv, NEW r \in RegionIds, NEW region, FitsInto(region, r), NEW rs,
         DOMAIN rs = DOMAIN regions \cup {r}, rs[r] = region,
         \A q \in DOMAIN regions \ {r} : rs[q] = regions[q]
  PROVE  /\ GoodRegions(rs)
         /\ \A tab \in TabsIn(rs) : tab \in TabsIn(regions) \/ Came(tab, live')
  <1>0. GoodRegions(regions)
    BY DEF ScreenInv, GoodWindow, Screen
  <1>1. DOMAIN rs \subseteq RegionIds /\ IsFiniteSet(DOMAIN rs)
    BY <1>0, FS_AddElement DEF GoodRegions
  <1>2. \A q \in DOMAIN rs : Shows(rs[q]) /\ OnceIn(rs[q].tabs)
    BY <1>0 DEF GoodRegions, EachOnce, FitsInto
  <1>3. \A tab \in Range(region.tabs) : \A q \in DOMAIN regions \ {r} :
          \A x \in Range(regions[q].tabs) : Unlike(tab, x) /\ Unlike(x, tab)
    <2> SUFFICES ASSUME NEW tab \in Range(region.tabs), NEW q \in DOMAIN regions \ {r},
                        NEW x \in Range(regions[q].tabs)
                 PROVE  Unlike(tab, x)
      BY UnlikeBothWays
    <2>1. CASE r \in DOMAIN regions /\ tab \in Range(regions[r].tabs)
      BY <1>0, <2>1 DEF GoodRegions, EachOnce, Apart
    <2> QED  BY <2>1 DEF FitsInto
  <1>4. EachOnce(rs)
    <2> SUFFICES ASSUME NEW p \in DOMAIN rs, NEW q \in DOMAIN rs, p # q,
                        NEW a \in Range(rs[p].tabs), NEW b \in Range(rs[q].tabs)
                 PROVE  Unlike(a, b)
      BY <1>2 DEF EachOnce, Apart
    <2>1. CASE p = r \/ q = r
      BY <1>3, <2>1
    <2>2. CASE p # r /\ q # r
      BY <1>0, <2>2 DEF GoodRegions, EachOnce, Apart
    <2> QED  BY <2>1, <2>2
  <1>5. ASSUME NEW tab \in TabsIn(rs)
        PROVE  Mute(tab) /\ (tab \in TabsIn(regions) \/ Came(tab, live'))
    <2>1. PICK q \in DOMAIN rs : tab \in Range(rs[q].tabs)
      BY TabsInRegion
    <2>2. CASE q # r
      BY <1>0, <2>1, <2>2, TabsInRegion DEF GoodRegions
    <2>3. CASE q = r
      <3>1. CASE r \in DOMAIN regions /\ tab \in Range(regions[r].tabs)
        BY <1>0, <3>1, TabsInRegion DEF GoodRegions
      <3> QED  BY <2>1, <2>3, <3>1 DEF FitsInto
    <2> QED  BY <2>2, <2>3
  <1> QED  BY <1>1, <1>2, <1>4, <1>5 DEF GoodRegions

\* A step that at most moves the focus.
LEMMA StillStep ==
  ASSUME ScreenInv, UNCHANGED <<layout, regions, torn>>,
         focusedRegionId' \in DOMAIN regions \cup {focusedRegionId},
         spawns' \in Seq(Calls), live' \subseteq Sessions, exited' \subseteq Sessions,
         unmounted' \subseteq TabIds, ShellsKept
  PROVE  ScreenStep
  <1>1. GoodWindow(Screen')
    BY DEF ScreenInv, GoodWindow, GoodRegions, Screen
  <1>2. TreeMatches(Screen) => TreeMatches(Screen')
    BY DEF TreeMatches, Screen
  <1> QED  BY <1>1, <1>2 DEF ScreenStep, ScreenInv, TreeKept, TabsCame

LEMMA ShellsStay ==
  ASSUME live \subseteq live', exited \subseteq exited'
  PROVE  ShellsKept
  BY DEF ShellsKept

\* A step that changes the tabs of one region.
LEMMA RegionStep ==
  ASSUME ScreenInv, NEW r \in DOMAIN regions, NEW region, FitsInto(region, r),
         DOMAIN regions' = DOMAIN regions, regions'[r] = region,
         \A q \in DOMAIN regions \ {r} : regions'[q] = regions[q],
         UNCHANGED <<layout, torn>>, focusedRegionId' \in {focusedRegionId, r},
         spawns' \in Seq(Calls), live' \subseteq Sessions, exited' \subseteq Sessions,
         unmounted' \subseteq TabIds, ShellsKept
  PROVE  ScreenStep
  <1>0. GoodWindow(Screen) /\ r \in RegionIds
    BY DEF ScreenInv, GoodWindow, GoodRegions, Screen
  <1>1. GoodRegions(regions') /\ TabsCame
    <2> DEFINE rs == regions'
    <2>1. DOMAIN rs = DOMAIN regions \cup {r} /\ rs[r] = region
          /\ \A q \in DOMAIN regions \ {r} : rs[q] = regions[q]
      OBVIOUS
    <2> HIDE DEF rs
    <2>2. GoodRegions(rs) /\ \A tab \in TabsIn(rs) : tab \in TabsIn(regions) \/ Came(tab, live')
      BY <1>0, <2>1, PutIsGood
    <2> QED  BY <2>2 DEF TabsCame, rs
  <1>2. GoodWindow(Screen')
    BY <1>0, <1>1 DEF GoodWindow, Screen
  <1>3. TreeKept
    BY DEF TreeKept, TreeMatches, Screen
  <1> QED  BY <1>1, <1>2, <1>3 DEF ScreenStep, ScreenInv

LEMMA FewerCalls ==
  ASSUME ScreenInv, NEW k \in DOMAIN spawns
  PROVE  RemoveAt(spawns, k) \in Seq(Calls)
  <1>1. spawns \in Seq(Calls) /\ k \in 1..Len(spawns)
    BY DEF ScreenInv
  <1> QED  BY <1>1, RemoveAtElements

\* A new tab is like none that there is.
LEMMA NewTabFits ==
  ASSUME ScreenInv, NEW t \in FreshTabs, NEW v, NEW s, NEW r,
         \/ v = Terminal /\ s \in FreshSessions /\ s \in live'
         \/ v \in Views /\ s = None,
         NEW tab, tab = [id |-> t, view |-> v, session |-> s, pending |-> FALSE]
  PROVE  /\ tab \in Tab /\ Mute(tab) /\ Came(tab, live')
         /\ \A x \in TabsIn(regions) : Unlike(tab, x)
  <1>1. t \in TabIds /\ \A x \in TabsIn(regions) : t # x.id
    BY DEF FreshTabs, AllTabs
  <1>2. v \in Views \cup {Terminal} /\ s \in Sessions \cup {None} /\ (v # Terminal => s = None)
        /\ (v = Terminal => s # None)
    BY LayoutAssumption DEF FreshSessions
  <1>3. \A x \in TabsIn(regions) : s # None => s # x.session
    BY DEF FreshSessions, AllTabs
  <1>4. tab.id = t /\ tab.view = v /\ tab.session = s /\ tab.pending = FALSE
    OBVIOUS
  <1>5. tab \in Tab
    BY <1>1, <1>2 DEF Tab
  <1>6. Mute(tab) /\ ~Dead(tab)
    BY <1>2, <1>4 DEF Mute, Dead
  <1>7. Came(tab, live')
    BY <1>4, <1>6 DEF Came
  <1>8. \A x \in TabsIn(regions) : Unlike(tab, x)
    BY <1>1, <1>3, <1>4 DEF Unlike
  <1> QED  BY <1>5, <1>6, <1>7, <1>8

LEMMA ShowingFits ==
  ASSUME ScreenInv, NEW r \in DOMAIN regions, NEW tab \in Tab, Mute(tab), Came(tab, live'),
         \A x \in TabsIn(regions) : Unlike(tab, x)
  PROVE  FitsInto(Showing(regions[r], tab), r)
  <1>0. GoodRegions(regions)
    BY DEF ScreenInv, GoodWindow, Screen
  <1> DEFINE s == regions[r].tabs
             t == Append(s, tab)
  <1>1. s \in Seq(Tab) /\ OnceIn(s) /\ \A x \in Range(s) : x \in TabsIn(regions)
    BY <1>0, GoodRegion
  <1> HIDE DEF s
  <1>2. t \in Seq(Tab) /\ OnceIn(t) /\ Range(t) = Range(s) \cup {tab}
    BY <1>1, AppendTabs
  <1>3. t # <<>> /\ tab.id \in Ids(t)
    <2> HIDE DEF t
    <2>1. tab \in Range(t)  BY <1>2
    <2>2. Ids(t) = {x.id : x \in Range(t)} /\ (t = <<>> <=> Range(t) = {})
      BY <1>2, IdsOfTabs
    <2> QED  BY <2>1, <2>2
  <1> HIDE DEF t
  <1>4. Showing(regions[r], tab) = [tabs |-> t, activeTabId |-> tab.id]
    BY DEF Showing, s, t
  <1>5. Shows([tabs |-> t, activeTabId |-> tab.id])
    BY <1>2, <1>3, ShowingShows
  <1>6. \A x \in Range(t) : x \in Range(s) \/ x = tab
    BY <1>2
  <1>7. \A q \in DOMAIN regions : \A x \in Range(regions[q].tabs) : Unlike(tab, x)
    BY TabsInRegion
  <1> QED  BY <1>2, <1>4, <1>5, <1>6, <1>7 DEF FitsInto, s

-----------------------------------------------------------------------------
LEMMA SplitRegionStep == ScreenInv /\ SplitRegion => ScreenStep
  <1> SUFFICES ASSUME ScreenInv, SplitRegion PROVE ScreenStep
    OBVIOUS
  <1>1. spawns' \in Seq(Calls)
    <2> DEFINE c == [kind |-> "split", region |-> focusedRegionId, seen |-> layout]
    <2>1. c \in Calls
      BY DEF ScreenInv, GoodWindow, Screen, Calls
    <2> HIDE DEF c
    <2>2. spawns' = Append(spawns, c) /\ spawns \in Seq(Calls)
      BY DEF SplitRegion, ScreenInv, c
    <2> QED  BY <2>1, <2>2
  <1> QED  BY <1>1, QuietStep DEF SplitRegion, ScreenInv

LEMMA AddTerminalTabStep == \A r : ScreenInv /\ AddTerminalTab(r) => ScreenStep
  <1> SUFFICES ASSUME NEW r, ScreenInv, AddTerminalTab(r) PROVE ScreenStep
    OBVIOUS
  <1>1. spawns' \in Seq(Calls)
    <2> DEFINE c == [kind |-> "tab", region |-> r]
    <2>1. c \in Calls
      BY DEF AddTerminalTab, ScreenInv, GoodWindow, GoodRegions, Screen, Calls
    <2> HIDE DEF c
    <2>2. spawns' = Append(spawns, c) /\ spawns \in Seq(Calls)
      BY DEF AddTerminalTab, ScreenInv, c
    <2> QED  BY <2>1, <2>2
  <1> QED  BY <1>1, QuietStep DEF AddTerminalTab, ScreenInv

LEMMA SetFocusedRegionStep == \A r : ScreenInv /\ SetFocusedRegion(r) => ScreenStep
  <1> SUFFICES ASSUME NEW r, ScreenInv, SetFocusedRegion(r) PROVE ScreenStep
    OBVIOUS
  <1>1. ShellsKept
    BY ShellsStay DEF SetFocusedRegion, ptyVars
  <1> QED  BY <1>1, StillStep DEF SetFocusedRegion, ScreenInv, ptyVars

LEMMA MountStays == \A t : ScreenInv /\ Mount(t) => ScreenStep
  <1> SUFFICES ASSUME NEW t, ScreenInv, Mount(t) PROVE ScreenStep
    OBVIOUS
  <1>1. unmounted' \subseteq TabIds /\ t \in TabIds
    BY DEF Mount, ScreenInv
  <1>2. spawns' \in Seq(Calls)
    <2>1. PICK r \in DOMAIN regions : spawns' = Append(spawns, Wake(r, t))
      BY DEF Mount
    <2> DEFINE c == Wake(r, t)
    <2>2. c \in Calls
      BY <1>1 DEF ScreenInv, GoodWindow, GoodRegions, Screen, Calls, Wake
    <2>3. spawns' = Append(spawns, c) /\ spawns \in Seq(Calls)
      BY <2>1 DEF ScreenInv
    <2> HIDE DEF c
    <2> QED  BY <2>2, <2>3
  <1> QED  BY <1>1, <1>2, QuietStep DEF Mount

LEMMA AddTabStep ==
  \A r, v : \A t \in FreshTabs : ScreenInv /\ AddTab(r, v, t) => ScreenStep
  <1> SUFFICES ASSUME NEW r, NEW v, NEW t \in FreshTabs, ScreenInv, AddTab(r, v, t)
               PROVE  ScreenStep
    OBVIOUS
  <1> DEFINE tab == [id |-> t, view |-> v, session |-> None, pending |-> FALSE]
             region == Showing(regions[r], tab)
  <1>1. r \in DOMAIN regions /\ v \in Views /\ regions' = Put(r, region)
    BY DEF AddTab
  <1>2. tab \in Tab /\ Mute(tab) /\ Came(tab, live') /\ \A x \in TabsIn(regions) : Unlike(tab, x)
    BY <1>1, NewTabFits
  <1> HIDE DEF tab
  <1>3. FitsInto(region, r)
    BY <1>1, <1>2, ShowingFits
  <1> HIDE DEF region
  <1>4. DOMAIN regions' = DOMAIN regions /\ regions'[r] = region
        /\ \A q \in DOMAIN regions \ {r} : regions'[q] = regions[q]
    BY <1>1 DEF Put
  <1>5. ShellsKept
    BY ShellsStay DEF AddTab, ptyVars
  <1> QED  BY <1>1, <1>3, <1>4, <1>5, RegionStep DEF AddTab, ScreenInv, ptyVars

LEMMA AddUniqueTabStep ==
  \A r, v : \A t \in FreshTabs : ScreenInv /\ AddUniqueTab(r, v, t) => ScreenStep
  <1> SUFFICES ASSUME NEW r, NEW v, NEW t \in FreshTabs, ScreenInv, AddUniqueTab(r, v, t)
               PROVE  ScreenStep
    OBVIOUS
  <1> DEFINE shown == {tab \in Range(regions[r].tabs) : tab.view = v}
             seen  == CHOOSE tab \in shown : TRUE
             tab   == [id |-> t, view |-> v, session |-> None, pending |-> FALSE]
             region == IF shown # {} THEN [regions[r] EXCEPT !.activeTabId = seen.id]
                       ELSE Showing(regions[r], tab)
  <1>1. r \in DOMAIN regions /\ v \in Views /\ regions' = Put(r, region)
    BY LayoutAssumption DEF AddUniqueTab
  <1>2. GoodRegions(regions)
    BY DEF ScreenInv, GoodWindow, Screen
  <1>3. FitsInto(region, r)
    <2>1. CASE shown = {}
      <3>1. tab \in Tab /\ Mute(tab) /\ Came(tab, live') /\ \A x \in TabsIn(regions) : Unlike(tab, x)
        BY <1>1, NewTabFits
      <3> HIDE DEF tab
      <3>2. FitsInto(Showing(regions[r], tab), r)
        BY <1>1, <3>1, ShowingFits
      <3>3. region = Showing(regions[r], tab)
        BY <2>1
      <3> QED  BY <3>2, <3>3
    <2>2. CASE shown # {}
      <3> DEFINE tabs == regions[r].tabs
      <3>1. tabs \in Seq(Tab) /\ OnceIn(tabs) /\ seen \in Range(tabs)
            /\ regions[r] = [tabs |-> tabs, activeTabId |-> regions[r].activeTabId]
        BY <1>1, <1>2, <2>2, GoodRegion
      <3>2. region = [tabs |-> tabs, activeTabId |-> seen.id]
        BY <2>2, <3>1
      <3> HIDE DEF seen, region, shown
      <3>3. seen.id \in Ids(tabs) /\ tabs # <<>>
        <4> HIDE DEF tabs
        <4>1. Ids(tabs) = {x.id : x \in Range(tabs)} /\ (tabs = <<>> <=> Range(tabs) = {})
          BY <3>1, IdsOfTabs
        <4> QED  BY <3>1, <4>1
      <3>4. Shows(region)
        <4> HIDE DEF tabs
        <4> QED  BY <3>1, <3>2, <3>3, ShowingShows
      <3>5. region.tabs = tabs
        BY <3>2
      <3> QED  BY <1>1, <3>1, <3>4, <3>5 DEF FitsInto
    <2> QED  BY <2>1, <2>2
  <1> HIDE DEF region
  <1>4. DOMAIN regions' = DOMAIN regions /\ regions'[r] = region
        /\ \A q \in DOMAIN regions \ {r} : regions'[q] = regions[q]
    BY <1>1 DEF Put
  <1>5. ShellsKept
    BY ShellsStay DEF AddUniqueTab, ptyVars
  <1> QED  BY <1>1, <1>3, <1>4, <1>5, RegionStep DEF AddUniqueTab, ScreenInv, ptyVars

LEMMA AddTerminalTabDoneStep ==
  \A k \in DOMAIN spawns : \A t \in FreshTabs, s \in FreshSessions :
    ScreenInv /\ AddTerminalTabDone(k, t, s) => ScreenStep
  <1> SUFFICES ASSUME NEW k \in DOMAIN spawns, NEW t \in FreshTabs, NEW s \in FreshSessions,
                      ScreenInv, AddTerminalTabDone(k, t, s)
               PROVE  ScreenStep
    OBVIOUS
  <1> DEFINE r   == spawns[k].region
             tab == [id |-> t, view |-> Terminal, session |-> s, pending |-> FALSE]
             region == Showing(regions[r], tab)
  <1>1. spawns' \in Seq(Calls)
    BY FewerCalls DEF AddTerminalTabDone
  <1>2. live' = live \cup {s} /\ live' \subseteq Sessions /\ s \in Sessions
    BY DEF AddTerminalTabDone, ScreenInv, FreshSessions
  <1>3. ShellsKept
    BY <1>2, ShellsStay DEF AddTerminalTabDone
  <1>4. CASE r \notin DOMAIN regions
    BY <1>1, <1>2, <1>3, <1>4, StillStep DEF AddTerminalTabDone, ScreenInv
  <1>5. CASE r \in DOMAIN regions
    <2>1. regions' = Put(r, region)
      BY <1>5 DEF AddTerminalTabDone
    <2>2. tab \in Tab /\ Mute(tab) /\ Came(tab, live') /\ \A x \in TabsIn(regions) : Unlike(tab, x)
      BY <1>2, NewTabFits
    <2> HIDE DEF tab
    <2>3. FitsInto(region, r)
      BY <1>5, <2>2, ShowingFits
    <2> HIDE DEF region
    <2>4. DOMAIN regions' = DOMAIN regions /\ regions'[r] = region
          /\ \A q \in DOMAIN regions \ {r} : regions'[q] = regions[q]
      BY <1>5, <2>1 DEF Put
    <2>5. UNCHANGED <<layout, torn, exited, unmounted>> /\ focusedRegionId' = focusedRegionId
      BY DEF AddTerminalTabDone
    <2> HIDE DEF r
    <2> QED  BY <1>1, <1>2, <1>3, <1>5, <2>3, <2>4, <2>5, RegionStep DEF ScreenInv
  <1> QED  BY <1>4, <1>5

LEMMA ActivateTabStep == \A r, t : ScreenInv /\ ActivateTab(r, t) => ScreenStep
  <1> SUFFICES ASSUME NEW r, NEW t, ScreenInv, ActivateTab(r, t) PROVE ScreenStep
    OBVIOUS
  <1> DEFINE tabs   == regions[r].tabs
             region == [tabs |-> tabs, activeTabId |-> t]
  <1>1. r \in DOMAIN regions /\ t \in Ids(tabs)
    BY DEF ActivateTab
  <1>2. tabs \in Seq(Tab) /\ OnceIn(tabs)
        /\ regions[r] = [tabs |-> tabs, activeTabId |-> regions[r].activeTabId]
    BY <1>1, GoodRegion DEF ScreenInv, GoodWindow, Screen
  <1>3. DOMAIN regions' = DOMAIN regions /\ regions'[r] = region
        /\ \A q \in DOMAIN regions \ {r} : regions'[q] = regions[q]
    BY <1>1, <1>2 DEF ActivateTab
  <1>4. Shows(region)
    <2>1. tabs # <<>>
      BY <1>1 DEF Ids
    <2> HIDE DEF tabs
    <2> QED  BY <1>1, <1>2, <2>1, ShowingShows
  <1>5. region.tabs = tabs
    OBVIOUS
  <1> HIDE DEF region
  <1>6. FitsInto(region, r)
    BY <1>1, <1>2, <1>4, <1>5 DEF FitsInto
  <1>7. ShellsKept
    BY ShellsStay DEF ActivateTab, ptyVars
  <1> QED  BY <1>1, <1>3, <1>6, <1>7, RegionStep DEF ActivateTab, ScreenInv, ptyVars

LEMMA ReplacedTabs ==
  ASSUME NEW s \in Seq(Tab), OnceIn(s), NEW i \in DOMAIN s, NEW e \in Tab,
         \A j \in DOMAIN s \ {i} : Unlike(e, s[j])
  PROVE  /\ [s EXCEPT ![i] = e] \in Seq(Tab) /\ OnceIn([s EXCEPT ![i] = e])
         /\ \A x \in Range([s EXCEPT ![i] = e]) : x = e \/ x \in Range(s)
         /\ e.id = s[i].id => Ids([s EXCEPT ![i] = e]) = Ids(s)
  <1> DEFINE t == [s EXCEPT ![i] = e]
  <1>1. t \in Seq(Tab) /\ DOMAIN t = DOMAIN s /\ t[i] = e
        /\ \A j \in DOMAIN s \ {i} : t[j] = s[j]
    OBVIOUS
  <1> HIDE DEF t
  <1>2. OnceIn(t)
    <2> SUFFICES ASSUME NEW j \in DOMAIN s, NEW k \in DOMAIN s, j # k PROVE Unlike(t[j], t[k])
      BY <1>1 DEF OnceIn
    <2>1. CASE j = i \/ k = i
      BY <1>1, <2>1, UnlikeBothWays
    <2>2. CASE j # i /\ k # i
      BY <1>1, <2>2 DEF OnceIn
    <2> QED  BY <2>1, <2>2
  <1>3. \A x \in Range(t) : x = e \/ x \in Range(s)
    BY <1>1 DEF Range
  <1>4. ASSUME e.id = s[i].id PROVE Ids(t) = Ids(s)
    <2>1. \A j \in DOMAIN s : t[j].id = s[j].id
      BY <1>1, <1>4
    <2> QED  BY <1>1, <2>1 DEF Ids
  <1> QED  BY <1>1, <1>2, <1>3, <1>4 DEF t

LEMMA WokenTab ==
  ASSUME NEW x \in Tab, NEW s \in Sessions
  PROVE  /\ Woken(x, s) \in Tab /\ Woken(x, s).id = x.id /\ Woken(x, s).view = x.view
         /\ Woken(x, s).session = s /\ Woken(x, s).pending = FALSE
  BY DEF Tab, Woken

LEMMA MaterializeDoneStep ==
  \A k \in DOMAIN spawns : \A s \in FreshSessions :
    ScreenInv /\ MaterializeDone(k, s) => ScreenStep
  <1> SUFFICES ASSUME NEW k \in DOMAIN spawns, NEW s \in FreshSessions,
                      ScreenInv, MaterializeDone(k, s)
               PROVE  ScreenStep
    OBVIOUS
  <1> DEFINE r == spawns[k].region
             t == spawns[k].tab
  <1>1. spawns' \in Seq(Calls)
    BY FewerCalls DEF MaterializeDone
  <1>2. s \in Sessions /\ s # None /\ \A x \in TabsIn(regions) : s # x.session
    BY LayoutAssumption DEF FreshSessions, AllTabs
  <1>3. live \subseteq live' /\ live' \subseteq Sessions /\ UNCHANGED <<exited, unmounted, torn, layout>>
        /\ focusedRegionId' = focusedRegionId
    BY <1>2 DEF MaterializeDone, ScreenInv
  <1>4. ShellsKept
    BY <1>3, ShellsStay
  <1>5. CASE ~Wakeable(regions, r, t)
    BY <1>1, <1>3, <1>4, <1>5, StillStep DEF MaterializeDone, ScreenInv
  <1>6. CASE Wakeable(regions, r, t)
    <2> DEFINE tabs == regions[r].tabs
               i    == IndexOf(tabs, t)
               tab  == Woken(tabs[i], s)
               new  == [tabs EXCEPT ![i] = tab]
               region == [tabs |-> new, activeTabId |-> regions[r].activeTabId]
    <2>1. /\ live' = live \cup {s}
          /\ regions' = [regions EXCEPT ![r].tabs[i] = Woken(@, s)]
      BY <1>6 DEF MaterializeDone, Wakeable
    <2>2. GoodRegions(regions)
      BY DEF ScreenInv, GoodWindow, Screen
    <2>3. r \in DOMAIN regions /\ \E x \in Range(tabs) : x.id = t /\ x.pending
      BY <1>6 DEF Wakeable
    <2> HIDE DEF t, r
    <2>4. tabs \in Seq(Tab) /\ OnceIn(tabs) /\ Shows(regions[r])
          /\ regions[r] = [tabs |-> tabs, activeTabId |-> regions[r].activeTabId]
          /\ (\A x \in Range(tabs) : x \in Tab /\ Mute(x) /\ x \in TabsIn(regions))
          /\ regions[r].activeTabId \in TabIds \cup {None}
      BY <2>2, <2>3, GoodRegion
    <2>5. t \in Ids(tabs) /\ t \in TabIds
      BY <2>3, <2>4, IdsOfTabs
    <2>6. i \in DOMAIN tabs /\ tabs[i].id = t /\ tabs[i] \in Range(tabs)
      BY <2>4, <2>5, IndexOfTab
    <2>7. tabs[i].view = Terminal /\ tabs[i] \in Tab
      <3>1. PICK j \in DOMAIN tabs : tabs[j].id = t /\ tabs[j].pending
        BY <2>3 DEF Range
      <3>2. j = i
        BY <2>4, <2>6, <3>1 DEF OnceIn, Unlike
      <3> QED  BY <2>4, <2>6, <3>1, <3>2 DEF Mute
    <2>8. /\ tab \in Tab /\ tab.id = t /\ tab.view = Terminal
          /\ tab.session = s /\ tab.pending = FALSE
      BY <1>2, <2>6, <2>7, WokenTab
    <2>9. DOMAIN regions' = DOMAIN regions /\ \A q \in DOMAIN regions \ {r} : regions'[q] = regions[q]
      BY <2>1, <2>3
    <2>10. regions'[r] = region
      <3>1. regions'[r] = [regions[r] EXCEPT !.tabs[i] = Woken(@, s)]
        BY <2>1, <2>3
      <3>2. regions'[r] = [regions[r] EXCEPT !.tabs[i] = tab]
        BY <3>1
      <3> DEFINE e == regions[r].activeTabId
      <3> HIDE DEF tab, i, tabs, e
      <3>3. [[tabs |-> tabs, activeTabId |-> e] EXCEPT !.tabs[i] = tab] = [tabs |-> new, activeTabId |-> e]
        OBVIOUS
      <3>4. regions[r] = [tabs |-> tabs, activeTabId |-> e]
        BY <2>4 DEF tabs, e
      <3> QED  BY <3>2, <3>3, <3>4 DEF e
    <2>11. tab \in Tab /\ Mute(tab) /\ ~Dead(tab) /\ tab.id = t /\ tab.session = s
      BY <1>2, <2>8 DEF Mute, Dead
    <2> HIDE DEF tab, i, tabs
    <2>12. \A x \in TabsIn(regions) : x.id # t => Unlike(tab, x)
      BY <1>2, <2>11 DEF Unlike
    <2>13. \A j \in DOMAIN tabs \ {i} : Unlike(tab, tabs[j])
      <3> TAKE j \in DOMAIN tabs \ {i}
      <3>1. tabs[j].id # t /\ tabs[j] \in Range(tabs)
        BY <2>4, <2>6 DEF OnceIn, Unlike, Range
      <3> QED  BY <2>4, <2>12, <3>1
    <2>14. /\ new \in Seq(Tab) /\ OnceIn(new) /\ Ids(new) = Ids(tabs)
           /\ \A x \in Range(new) : x = tab \/ x \in Range(tabs)
      <3>1. tab.id = tabs[i].id
        BY <2>6, <2>11
      <3>2. tabs \in Seq(Tab) /\ OnceIn(tabs) /\ i \in DOMAIN tabs /\ tab \in Tab
        BY <2>4, <2>6, <2>11
      <3> QED  BY <2>13, <3>1, <3>2, ReplacedTabs
    <2>15. new # <<>> /\ tabs # <<>>
      BY <2>5, <2>14 DEF Ids
    <2> HIDE DEF new
    <2>16. Shows(region)
      <3>1. regions[r].activeTabId \in Ids(tabs)
        BY <2>4, <2>15 DEF Shows, tabs
      <3> QED  BY <2>14, <2>15, <3>1, ShowingShows
    <2>17. Came(tab, live')
      <3>1. \E x \in TabsIn(regions) : x.id = t
        BY <2>4, <2>6
      <3> QED  BY <2>1, <2>11, <3>1 DEF Came
    <2>18. \A q \in DOMAIN regions \ {r} : \A x \in Range(regions[q].tabs) : Unlike(tab, x)
      <3> TAKE q \in DOMAIN regions \ {r}
      <3> TAKE x \in Range(regions[q].tabs)
      <3>1. Unlike(tabs[i], x)
        BY <2>2, <2>3, <2>6 DEF GoodRegions, EachOnce, Apart, tabs
      <3>2. x.id # t /\ x \in TabsIn(regions)
        BY <2>6, <3>1, TabsInRegion DEF Unlike
      <3> QED  BY <2>12, <3>2
    <2>19. region.tabs = new
      OBVIOUS
    <2> HIDE DEF region
    <2>20. FitsInto(region, r)
      BY <2>3, <2>11, <2>14, <2>16, <2>17, <2>18, <2>19 DEF FitsInto, tabs
    <2> QED  BY <1>1, <1>3, <1>4, <2>3, <2>9, <2>10, <2>20, RegionStep DEF ScreenInv
  <1> QED  BY <1>5, <1>6

LEMMA SpawnFailedStep ==
  \A k \in DOMAIN spawns : ScreenInv /\ SpawnFailed(k) => ScreenStep
  <1> SUFFICES ASSUME NEW k \in DOMAIN spawns, ScreenInv, SpawnFailed(k) PROVE ScreenStep
    OBVIOUS
  <1> DEFINE r == spawns[k].region
             t == spawns[k].tab
             goes == spawns[k].kind = "restore" /\ r \in DOMAIN regions /\ t \in Ids(regions[r].tabs)
  <1>1. spawns' \in Seq(Calls)
    BY FewerCalls DEF SpawnFailed
  <1>2. UNCHANGED <<layout, focusedRegionId, live, exited, unmounted, torn>>
    BY DEF SpawnFailed, ptyVars
  <1>3. ShellsKept
    BY <1>2, ShellsStay
  <1>4. CASE ~goes
    <2>1. regions' = regions
      BY <1>4 DEF SpawnFailed
    <2> QED  BY <1>1, <1>2, <1>3, <2>1, StillStep DEF ScreenInv
  <1>5. CASE goes
    <2> DEFINE tabs == regions[r].tabs
               act  == regions[r].activeTabId
               rest == Dropped(tabs, t)
               next == IF act # t THEN act ELSE IF rest = <<>> THEN None ELSE rest[1].id
               region == [tabs |-> rest, activeTabId |-> next]
    <2>1. regions' = Put(r, region)
      BY <1>5 DEF SpawnFailed
    <2>2. tabs \in Seq(Tab) /\ OnceIn(tabs) /\ Shows(regions[r]) /\ act \in TabIds \cup {None}
      BY <1>5, GoodRegion DEF ScreenInv, GoodWindow, Screen
    <2>3. /\ rest \in Seq(Tab) /\ OnceIn(rest) /\ Len(rest) = Len(tabs) - 1
          /\ Range(rest) \subseteq Range(tabs) /\ Ids(rest) = Ids(tabs) \ {t}
      BY <1>5, <2>2, DroppedTabs
    <2>4. act \in Ids(tabs)
      <3>1. tabs # <<>>
        BY <1>5 DEF Ids
      <3> QED  BY <2>2, <3>1 DEF Shows
    <2>5. r \in DOMAIN regions
      BY <1>5
    <2>6. DOMAIN regions' = DOMAIN regions /\ regions'[r] = region
          /\ \A q \in DOMAIN regions \ {r} : regions'[q] = regions[q]
      BY <2>1, <2>5 DEF Put
    <2> HIDE DEF rest, tabs, act
    <2>7. IF rest = <<>> THEN next = None ELSE next \in Ids(rest)
      <3>1. CASE rest = <<>>
        <4>1. Ids(rest) = {}
          BY <3>1 DEF Ids
        <4> QED  BY <2>3, <2>4, <3>1, <4>1
      <3>2. CASE rest # <<>>
        <4>1. rest[1].id \in Ids(rest)
          BY <2>3, <3>2 DEF Ids
        <4> QED  BY <2>3, <2>4, <3>2, <4>1
      <3> QED  BY <3>1, <3>2
    <2> HIDE DEF next
    <2>8. Shows(region)
      <3>1. CASE rest = <<>>
        BY <2>3, <2>7, <3>1 DEF Shows, Region
      <3>2. CASE rest # <<>>
        BY <2>3, <2>7, <3>2, ShowingShows
      <3> QED  BY <3>1, <3>2
    <2>9. region.tabs = rest
      OBVIOUS
    <2> HIDE DEF region
    <2>10. FitsInto(region, r)
      BY <2>3, <2>5, <2>8, <2>9 DEF FitsInto, tabs
    <2> HIDE DEF r
    <2> QED  BY <1>1, <1>2, <1>3, <2>5, <2>6, <2>10, RegionStep DEF ScreenInv
  <1> QED  BY <1>4, <1>5

LEMMA HeadIs ==
  ASSUME NEW S, NEW s \in Seq(S), Len(s) > 0
  PROVE  Head(s) \in S /\ Head(s) \in Range(s)
  <1>1. 1 \in DOMAIN s /\ Head(s) = s[1] /\ s[1] \in S
    OBVIOUS
  <1> QED  BY <1>1 DEF Range

\* A region leaves the window.
LEMMA RegionLeaves ==
  ASSUME ScreenInv, NEW r \in DOMAIN regions, r \in Range(layout), Len(layout) > 1,
         DOMAIN regions' = DOMAIN regions \ {r},
         \A q \in DOMAIN regions' : regions'[q] = regions[q],
         layout' = Leaving(layout, r), focusedRegionId' \in Range(layout'), UNCHANGED torn
  PROVE  /\ GoodWindow(Screen') /\ TreeKept /\ TabsCame
         /\ \A tab \in TabsIn(regions') : \A x \in Range(regions[r].tabs) : Unlike(x, tab)
  <1>0. GoodRegions(regions) /\ layout \in Seq(RegionIds) /\ IsInjective(layout)
    BY DEF ScreenInv, GoodWindow, Screen
  <1>1. layout' \in Seq(RegionIds) /\ IsInjective(layout') /\ Range(layout') = Range(layout) \ {r}
    BY <1>0, LeavingInjective
  <1>2. Range(layout) \subseteq RegionIds
    BY <1>0 DEF Range
  <1>3. IsFiniteSet(DOMAIN regions')
    BY <1>0, FS_Subset DEF GoodRegions
  <1>4. EachOnce(regions')
    BY <1>0 DEF GoodRegions, EachOnce
  <1>5. ASSUME NEW tab \in TabsIn(regions')
        PROVE  tab \in TabsIn(regions) /\ \A x \in Range(regions[r].tabs) : Unlike(x, tab)
    <2>1. PICK q \in DOMAIN regions \ {r} : tab \in Range(regions[q].tabs)
      BY TabsInRegion
    <2> QED  BY <1>0, <2>1, TabsInRegion DEF GoodRegions, EachOnce, Apart
  <1>6. GoodRegions(regions')
    BY <1>0, <1>3, <1>4, <1>5 DEF GoodRegions
  <1>7. GoodWindow(Screen')
    BY <1>1, <1>2, <1>6 DEF GoodWindow, Screen
  <1>8. TreeKept
    BY <1>1 DEF TreeKept, TreeMatches, Screen
  <1> QED  BY <1>5, <1>7, <1>8 DEF TabsCame

\* Sessions are closed with tabs that leave the screen.
LEMMA ShellsClose ==
  ASSUME ScreenInv, NEW C, C \subseteq SessionsIn(regions), live' = live \ C, exited' = exited,
         TreeMatches(Screen) =>
           \A tab \in TabsIn(regions') : tab \in TabsIn(regions) =>
             tab.session = None \/ tab.session \notin C
  PROVE  ShellsKept
  <1>1. None \notin live \cup exited
    BY LayoutAssumption DEF ScreenInv
  <1> QED  BY <1>1 DEF ShellsKept

LEMMA CollapseStep ==
  ASSUME ScreenInv, NEW r \in DOMAIN regions, Len(layout) > 1, Collapse(r),
         NEW C, C \subseteq SessionsOf(regions[r].tabs), live' = live \ C, exited' = exited,
         UNCHANGED <<spawns, unmounted, torn>>
  PROVE  ScreenStep
  <1>0. /\ GoodRegions(regions) /\ layout \in Seq(RegionIds) /\ IsInjective(layout)
        /\ GoodWindow(Screen)
    BY DEF ScreenInv, GoodWindow, Screen
  <1>1. \A c \in C : \E x \in Range(regions[r].tabs) : c = x.session
    BY DEF SessionsOf, Range
  <1>2. C \subseteq SessionsIn(regions)
    BY <1>1, TabsInRegion DEF SessionsIn
  <1>3. live' \subseteq Sessions
    BY DEF ScreenInv
  <1>4. CASE r \in Range(layout)
    <2>1. /\ layout' = Leaving(layout, r) /\ regions' = Only(DOMAIN regions \ {r})
          /\ focusedRegionId' = Head(layout')
      BY <1>4 DEF Collapse
    <2>2. DOMAIN regions' = DOMAIN regions \ {r} /\ \A q \in DOMAIN regions' : regions'[q] = regions[q]
      BY <2>1 DEF Only
    <2>3. focusedRegionId' \in Range(layout')
      <3>1. Leaving(layout, r) \in Seq(RegionIds) /\ Len(Leaving(layout, r)) = Len(layout) - 1
        BY <1>0, <1>4, LeavingInjective
      <3>2. Len(layout') > 0 /\ layout' \in Seq(RegionIds)
        BY <1>0, <2>1, <3>1
      <3> QED  BY <2>1, <3>2, HeadIs
    <2>4. /\ GoodWindow(Screen') /\ TreeKept /\ TabsCame
          /\ \A tab \in TabsIn(regions') : \A x \in Range(regions[r].tabs) : Unlike(x, tab)
      BY <1>4, <2>1, <2>2, <2>3, RegionLeaves
    <2>5. \A tab \in TabsIn(regions') : tab.session = None \/ tab.session \notin C
      BY <1>1, <2>4, UnlikeBothWays DEF Unlike
    <2>6. ShellsKept
      BY <1>2, <2>5, ShellsClose
    <2> QED  BY <1>3, <2>4, <2>6 DEF ScreenStep, ScreenInv
  <1>5. CASE r \notin Range(layout)
    <2>1. UNCHANGED layoutVars
      BY <1>5 DEF Collapse
    <2>2. ~TreeMatches(Screen)
      BY <1>5 DEF TreeMatches, Screen
    <2>3. ShellsKept
      BY <1>2, <2>2, ShellsClose
    <2> QED  BY <1>3, <2>1, <2>3, StillStep DEF ScreenInv, layoutVars
  <1> QED  BY <1>4, <1>5

LEMMA CloseRegionStep == \A r : ScreenInv /\ CloseRegion(r) => ScreenStep
  <1> SUFFICES ASSUME NEW r, ScreenInv, CloseRegion(r) PROVE ScreenStep
    OBVIOUS
  <1> DEFINE C == SessionsOf(regions[r].tabs)
  <1>1. /\ r \in DOMAIN regions /\ Len(layout) > 1 /\ Collapse(r) /\ live' = live \ C
        /\ UNCHANGED <<spawns, exited, unmounted, torn>>
    BY DEF CloseRegion
  <1> QED  BY <1>1, CollapseStep

LEMMA CloseTabStep == \A r, t : ScreenInv /\ CloseTab(r, t) => ScreenStep
  <1> SUFFICES ASSUME NEW r, NEW t, ScreenInv, CloseTab(r, t) PROVE ScreenStep
    OBVIOUS
  <1> DEFINE tabs == regions[r].tabs
             i    == IndexOf(tabs, t)
             C    == {tabs[i].session}
             last == Len(tabs) = 1 /\ Len(layout) > 1
  <1>1. /\ r \in DOMAIN regions /\ t \in Ids(tabs) /\ live' = live \ C
        /\ UNCHANGED <<spawns, exited, unmounted, torn>>
    BY DEF CloseTab, TabOf
  <1>2. GoodRegions(regions)
    BY DEF ScreenInv, GoodWindow, Screen
  <1>3. tabs \in Seq(Tab) /\ OnceIn(tabs) /\ Shows(regions[r])
        /\ \A x \in Range(tabs) : x \in TabsIn(regions)
    BY <1>1, <1>2, GoodRegion
  <1>4. i \in 1..Len(tabs) /\ tabs[i] \in Range(tabs)
    BY <1>1, <1>3, IndexOfTab
  <1>5. CASE last
    <2>1. Collapse(r) /\ Len(layout) > 1
      BY <1>5 DEF CloseTab
    <2>2. C \subseteq SessionsOf(tabs)
      BY <1>3, <1>4 DEF SessionsOf
    <2> HIDE DEF C
    <2> QED  BY <1>1, <2>1, <2>2, CollapseStep
  <1>6. CASE ~last
    <2> DEFINE region == Without(regions[r], t)
               rest   == Dropped(tabs, t)
    <2>1. regions' = Put(r, region) /\ UNCHANGED <<layout, focusedRegionId>>
      BY <1>6 DEF CloseTab
    <2>2. DOMAIN regions' = DOMAIN regions /\ regions'[r] = region
          /\ \A q \in DOMAIN regions \ {r} : regions'[q] = regions[q]
      BY <1>1, <2>1 DEF Put
    <2>3. /\ OnceIn(rest) /\ Range(rest) \subseteq Range(tabs)
          /\ \A x \in Range(rest) : Unlike(tabs[i], x)
      BY <1>1, <1>3, DroppedTabs
    <2>4. region.tabs = rest
      BY DEF Without
    <2>5. Shows(region)
      BY <1>1, <1>3, WithoutShows
    <2> HIDE DEF region, rest
    <2>6. FitsInto(region, r)
      BY <1>1, <2>3, <2>4, <2>5 DEF FitsInto
    <2>7. \A tab \in TabsIn(regions') : tab.session = None \/ tab.session \notin C
      <3> TAKE tab \in TabsIn(regions')
      <3>1. PICK q \in DOMAIN regions : tab \in Range(regions'[q].tabs)
        BY <2>2, TabsInRegion
      <3>2. CASE q = r
        <4>1. Unlike(tabs[i], tab)
          BY <2>2, <2>3, <2>4, <3>1, <3>2
        <4> QED  BY <4>1, UnlikeBothWays DEF Unlike
      <3>3. CASE q # r
        <4>1. Unlike(tab, tabs[i])
          BY <1>1, <1>2, <1>4, <2>2, <3>1, <3>3 DEF GoodRegions, EachOnce, Apart
        <4> QED  BY <4>1 DEF Unlike
      <3> QED  BY <3>2, <3>3
    <2>8. C \subseteq SessionsIn(regions)
      BY <1>3, <1>4 DEF SessionsIn
    <2> HIDE DEF C
    <2>9. ShellsKept
      BY <1>1, <2>7, <2>8, ShellsClose
    <2>10. live' \subseteq Sessions
      BY <1>1 DEF ScreenInv
    <2> QED  BY <1>1, <2>1, <2>2, <2>6, <2>9, <2>10, RegionStep DEF ScreenInv
  <1> QED  BY <1>5, <1>6

LEMMA ShellExitsStep == \A s, heard : ScreenInv /\ ShellExits(s, heard) => ScreenStep
  <1> SUFFICES ASSUME NEW s, NEW heard, ScreenInv, ShellExits(s, heard) PROVE ScreenStep
    OBVIOUS
  <1>1. CASE \E r, t : CloseTab(r, t)
    BY <1>1, CloseTabStep
  <1>2. CASE ~\E r, t : CloseTab(r, t)
    <2>1. /\ s \in live /\ live' = live \ {s} /\ exited' = exited \cup {s}
          /\ UNCHANGED <<layoutVars, spawns, unmounted, torn>>
      BY <1>2 DEF ShellExits
    <2>2. live' \cup exited' = live \cup exited
      BY <2>1
    <2>3. ShellsKept
      BY <2>2 DEF ShellsKept
    <2>4. live' \subseteq Sessions /\ exited' \subseteq Sessions
      BY <2>1 DEF ScreenInv
    <2> QED  BY <2>1, <2>3, <2>4, StillStep DEF ScreenInv, layoutVars
  <1> QED  BY <1>1, <1>2

-----------------------------------------------------------------------------
(* Tabs that move. *)

LEMMA OtherTabsUnlike ==
  ASSUME NEW tabs \in Seq(Tab), OnceIn(tabs), NEW a \in Range(tabs), NEW b \in Range(tabs), a # b
  PROVE  Unlike(a, b)
  <1>1. PICK i \in DOMAIN tabs : tabs[i] = a  BY DEF Range
  <1>2. PICK k \in DOMAIN tabs : tabs[k] = b  BY DEF Range
  <1> QED  BY <1>1, <1>2 DEF OnceIn

\* In rs, tab has moved from one region to another; the first may be gone.
MovedOver(rs, from, to, tab) ==
  /\ \/ DOMAIN rs = DOMAIN regions \cup {to}
     \/ DOMAIN rs = (DOMAIN regions \cup {to}) \ {from}
  /\ Shows(rs[to]) /\ OnceIn(rs[to].tabs)
  /\ \A x \in Range(rs[to].tabs) :
       x = tab \/ (to \in DOMAIN regions /\ x \in Range(regions[to].tabs))
  /\ from \in DOMAIN rs =>
       /\ Shows(rs[from]) /\ OnceIn(rs[from].tabs)
       /\ \A x \in Range(rs[from].tabs) : x # tab /\ x \in Range(regions[from].tabs)
  /\ \A q \in DOMAIN rs \ {from, to} : rs[q] = regions[q]

LEMMA TabMoves ==
  ASSUME ScreenInv, NEW from \in DOMAIN regions, NEW to \in RegionIds, from # to,
         NEW tab \in Range(regions[from].tabs), NEW rs, MovedOver(rs, from, to, tab)
  PROVE  GoodRegions(rs) /\ \A x \in TabsIn(rs) : x \in TabsIn(regions)
  <1>0. GoodRegions(regions)
    BY DEF ScreenInv, GoodWindow, Screen
  <1> USE DEF MovedOver
  <1>1. IsFiniteSet(DOMAIN rs) /\ DOMAIN rs \subseteq RegionIds
    <2>1. IsFiniteSet(DOMAIN regions \cup {to})
      BY <1>0, FS_AddElement DEF GoodRegions
    <2>2. DOMAIN rs \subseteq DOMAIN regions \cup {to}
      OBVIOUS
    <2> QED  BY <1>0, <2>1, <2>2, FS_Subset DEF GoodRegions
  <1>2. \A q \in DOMAIN rs : Shows(rs[q]) /\ OnceIn(rs[q].tabs)
    BY <1>0 DEF GoodRegions, EachOnce
  <1>3. \A q \in DOMAIN rs : \A x \in Range(rs[q].tabs) :
          \/ q = to /\ x = tab
          \/ q \in DOMAIN regions /\ x \in Range(regions[q].tabs) /\ (q = from => x # tab)
    OBVIOUS
  <1>4. ASSUME NEW q \in DOMAIN regions, q # to, NEW x \in Range(regions[q].tabs),
               q = from => x # tab
        PROVE  Unlike(tab, x)
    <2>1. CASE q = from
      <3>1. regions[from].tabs \in Seq(Tab) /\ OnceIn(regions[from].tabs)
        BY <1>0, GoodRegion
      <3> QED  BY <1>4, <2>1, <3>1, OtherTabsUnlike
    <2>2. CASE q # from
      BY <1>0, <2>2 DEF GoodRegions, EachOnce, Apart
    <2> QED  BY <2>1, <2>2
  <1>5. EachOnce(rs)
    <2> SUFFICES ASSUME NEW p \in DOMAIN rs, NEW q \in DOMAIN rs, p # q,
                        NEW a \in Range(rs[p].tabs), NEW b \in Range(rs[q].tabs)
                 PROVE  Unlike(a, b)
      BY <1>2 DEF EachOnce, Apart
    <2>1. CASE p = to /\ a = tab
      <3>1. q \in DOMAIN regions /\ q # to /\ b \in Range(regions[q].tabs) /\ (q = from => b # tab)
        BY <1>3, <2>1
      <3> QED  BY <1>4, <2>1, <3>1
    <2>2. CASE q = to /\ b = tab
      <3>1. p \in DOMAIN regions /\ p # to /\ a \in Range(regions[p].tabs) /\ (p = from => a # tab)
        BY <1>3, <2>2
      <3> QED  BY <1>4, <2>2, <3>1, UnlikeBothWays
    <2>3. CASE ~(p = to /\ a = tab) /\ ~(q = to /\ b = tab)
      <3>1. /\ p \in DOMAIN regions /\ a \in Range(regions[p].tabs)
            /\ q \in DOMAIN regions /\ b \in Range(regions[q].tabs)
        BY <1>3, <2>3
      <3> QED  BY <1>0, <3>1 DEF GoodRegions, EachOnce, Apart
    <2> QED  BY <2>1, <2>2, <2>3
  <1>6. ASSUME NEW x \in TabsIn(rs) PROVE x \in TabsIn(regions)
    <2>1. PICK q \in DOMAIN rs : x \in Range(rs[q].tabs)
      BY TabsInRegion
    <2> QED  BY <1>3, <2>1, TabsInRegion
  <1> QED  BY <1>0, <1>1, <1>2, <1>5, <1>6 DEF GoodRegions

\* A tab put into a sequence of others, and shown.
LEMMA InsertedTabs ==
  ASSUME NEW tabs \in Seq(Tab), OnceIn(tabs), NEW tab \in Tab,
         \A x \in Range(tabs) : Unlike(tab, x), NEW at \in 1..(Len(tabs) + 1)
  PROVE  LET new == InsertAt(tabs, at, tab)
         IN  /\ OnceIn(new) /\ Range(new) = Range(tabs) \cup {tab}
             /\ Shows([tabs |-> new, activeTabId |-> tab.id])
  <1> DEFINE new == InsertAt(tabs, at, tab)
  <1>1. new \in Seq(Tab) /\ PutIn(new, tabs, at, tab)
    BY InsertAtElements
  <1> HIDE DEF new
  <1>2. OnceIn(new) /\ Range(new) = Range(tabs) \cup {tab}
    BY <1>1, PutInTabs
  <1>3. tab \in Range(new)
    BY <1>2
  <1>4. new # <<>> /\ tab.id \in Ids(new)
    <2>1. Ids(new) = {x.id : x \in Range(new)} /\ (new = <<>> => Range(new) = {})
      BY <1>1, IdsOfTabs DEF Range
    <2> QED  BY <1>3, <2>1
  <1>5. Shows([tabs |-> new, activeTabId |-> tab.id])
    BY <1>1, <1>4, ShowingShows
  <1> QED  BY <1>2, <1>5 DEF new

LEMMA MoveTabStep == \A from, t, to, at : ScreenInv /\ MoveTab(from, t, to, at) => ScreenStep
  <1> SUFFICES ASSUME NEW from, NEW t, NEW to, NEW at, ScreenInv, MoveTab(from, t, to, at)
               PROVE  ScreenStep
    OBVIOUS
  <1> DEFINE tabs == regions[from].tabs
             i    == IndexOf(tabs, t)
             tab  == tabs[i]
             rest == Dropped(tabs, t)
             into == IF from = to THEN rest ELSE regions[to].tabs
             new  == InsertAt(into, at, tab)
             moved == [tabs |-> new, activeTabId |-> t]
  <1>0. /\ GoodRegions(regions) /\ layout \in Seq(RegionIds) /\ IsInjective(layout)
    BY DEF ScreenInv, GoodWindow, Screen
  <1>1. /\ from \in DOMAIN regions /\ to \in DOMAIN regions /\ t \in Ids(tabs)
        /\ at \in 1..(Len(into) + 1)
        /\ UNCHANGED <<spawns, ptyVars, torn>>
    BY DEF MoveTab
  <1>2. /\ tabs \in Seq(Tab) /\ OnceIn(tabs) /\ Shows(regions[from])
        /\ regions[to].tabs \in Seq(Tab) /\ OnceIn(regions[to].tabs) /\ to \in RegionIds
        /\ \A x \in Range(tabs) : x \in TabsIn(regions)
    BY <1>0, <1>1, GoodRegion
  <1>3. tab \in Range(tabs) /\ tab.id = t /\ tab \in Tab
    BY <1>1, <1>2, IndexOfTab, IdsOfTabs
  <1>4. /\ rest \in Seq(Tab) /\ OnceIn(rest) /\ Range(rest) = Range(tabs) \ {tab}
        /\ \A x \in Range(rest) : Unlike(tab, x)
    BY <1>1, <1>2, DroppedTabs
  <1>5. TabOf(from, t) = tab
    BY DEF TabOf
  <1>6. CASE from = to
    <2>1. regions' = Put(to, moved) /\ UNCHANGED <<layout, focusedRegionId, unmounted>>
      BY <1>5, <1>6 DEF MoveTab
    <2>2. into = rest
      BY <1>6
    <2>3. OnceIn(new) /\ Range(new) = Range(tabs) /\ Shows(moved)
      <3> HIDE DEF tab, rest
      <3>1. at \in 1..(Len(rest) + 1)
        BY <1>1, <2>2
      <3>2. /\ OnceIn(new) /\ Range(new) = Range(rest) \cup {tab}
            /\ Shows([tabs |-> new, activeTabId |-> tab.id])
        BY <1>3, <1>4, <2>2, <3>1, InsertedTabs
      <3>3. Range(new) = Range(tabs)
        BY <1>3, <1>4, <3>2
      <3> QED  BY <1>3, <3>2, <3>3
    <2> HIDE DEF new
    <2>4. FitsInto(moved, to)
      BY <1>1, <1>6, <2>3 DEF FitsInto
    <2> HIDE DEF moved
    <2>5. DOMAIN regions' = DOMAIN regions /\ regions'[to] = moved
          /\ \A q \in DOMAIN regions \ {to} : regions'[q] = regions[q]
      BY <1>1, <2>1 DEF Put
    <2>6. ShellsKept
      BY <1>1, ShellsStay DEF ptyVars
    <2> QED  BY <1>1, <2>1, <2>4, <2>5, <2>6, RegionStep DEF ScreenInv, ptyVars
  <1>7. CASE from # to
    <2>1. /\ IF rest = <<>>
             THEN /\ regions' = [Only(DOMAIN regions \ {from}) EXCEPT ![to] = moved]
                  /\ layout' = IF Len(layout) > 1 THEN Leaving(layout, from) ELSE layout
             ELSE /\ regions' = [regions EXCEPT ![from] = Without(@, t), ![to] = moved]
                  /\ UNCHANGED layout
          /\ focusedRegionId' = to
          /\ unmounted' = IF tab.pending THEN unmounted \cup {t} ELSE unmounted
      BY <1>5, <1>7 DEF MoveTab
    <2>2. \A x \in Range(regions[to].tabs) : Unlike(tab, x)
      BY <1>0, <1>1, <1>3, <1>7 DEF GoodRegions, EachOnce, Apart
    <2>3. OnceIn(new) /\ Range(new) = Range(regions[to].tabs) \cup {tab} /\ Shows(moved)
      <3> DEFINE other == regions[to].tabs
      <3>1. into = other /\ at \in 1..(Len(other) + 1)
        BY <1>1, <1>7
      <3>2. other \in Seq(Tab) /\ OnceIn(other) /\ \A x \in Range(other) : Unlike(tab, x)
        BY <1>2, <2>2
      <3> HIDE DEF other, into, tab
      <3> QED  BY <1>3, <3>1, <3>2, InsertedTabs DEF other
    <2> HIDE DEF new
    <2> DEFINE out == Without(regions[from], t)
    <2>4. Shows(out) /\ out.tabs = rest
      BY <1>1, <1>2, WithoutShows DEF Without
    <2>5. moved.tabs = new
      OBVIOUS
    <2> HIDE DEF moved, out
    <2>6. /\ regions'[to] = moved
          /\ DOMAIN regions' = IF rest = <<>> THEN DOMAIN regions \ {from} ELSE DOMAIN regions
          /\ from \in DOMAIN regions' => regions'[from] = out
          /\ \A q \in DOMAIN regions' \ {from, to} : regions'[q] = regions[q]
      <3>1. CASE rest = <<>>
        BY <1>1, <1>7, <2>1, <3>1 DEF Only
      <3>2. CASE rest # <<>>
        BY <1>1, <1>7, <2>1, <3>2 DEF out
      <3> QED  BY <3>1, <3>2
    <2> HIDE DEF rest, tab
    <2>7. GoodRegions(regions') /\ \A x \in TabsIn(regions') : x \in TabsIn(regions)
      <3> DEFINE rs == regions'
      <3>1. MovedOver(rs, from, to, tab)
        <4>1. \/ DOMAIN rs = DOMAIN regions \cup {to}
              \/ DOMAIN rs = (DOMAIN regions \cup {to}) \ {from}
          BY <1>1, <1>7, <2>6
        <4>2. \A x \in Range(rs[to].tabs) : x = tab \/ x \in Range(regions[to].tabs)
          BY <2>3, <2>5, <2>6
        <4>3. Shows(rs[to]) /\ OnceIn(rs[to].tabs)
          BY <2>3, <2>5, <2>6
        <4>4. from \in DOMAIN rs =>
                /\ Shows(rs[from]) /\ OnceIn(rs[from].tabs)
                /\ \A x \in Range(rs[from].tabs) : x # tab /\ x \in Range(regions[from].tabs)
          BY <1>4, <2>4, <2>6
        <4> QED  BY <1>1, <2>6, <4>1, <4>2, <4>3, <4>4 DEF MovedOver
      <3>2. tab \in Range(regions[from].tabs)
        BY <1>3
      <3> HIDE DEF rs
      <3>6. GoodRegions(rs) /\ \A x \in TabsIn(rs) : x \in TabsIn(regions)
        BY <1>1, <1>2, <1>7, <3>1, <3>2, TabMoves
      <3> QED  BY <3>6 DEF rs
    <2>8. TabsCame
      BY <2>7 DEF TabsCame
    <2>9. layout' \in Seq(RegionIds) /\ IsInjective(layout')
      BY <1>0, <2>1, LeavingInjective
    <2>10. TreeKept
      <3>1. CASE rest = <<>>
        <4>1. DOMAIN regions' = DOMAIN regions \ {from} /\ DOMAIN regions' # DOMAIN regions
          BY <1>1, <2>6, <3>1
        <4>2. ASSUME TreeMatches(Screen) PROVE TreeMatches(Screen')
          <5>1. from \in Range(layout) /\ to \in Range(layout) /\ Range(layout) = DOMAIN regions
            BY <1>1, <4>2 DEF TreeMatches, Screen
          <5>2. Len(layout) > 1
            <6>1. PICK a \in 1..Len(layout) : layout[a] = from  BY <1>0, <5>1 DEF Range
            <6>2. PICK b \in 1..Len(layout) : layout[b] = to  BY <1>0, <5>1 DEF Range
            <6>3. a # b /\ Len(layout) \in Nat  BY <1>0, <1>7, <6>1, <6>2
            <6> QED  BY <6>3
          <5>3. layout' = Leaving(layout, from)
            BY <2>1, <3>1, <5>2
          <5>4. Range(layout') = DOMAIN regions \ {from}
            BY <1>0, <5>1, <5>3, LeavingInjective
          <5> QED  BY <1>1, <1>7, <2>1, <2>9, <4>1, <5>4 DEF TreeMatches, Screen
        <4> QED  BY <4>1, <4>2 DEF TreeKept
      <3>2. CASE rest # <<>>
        <4>1. DOMAIN regions' = DOMAIN regions /\ layout' = layout /\ focusedRegionId' = to
          BY <2>1, <2>6, <3>2
        <4> QED  BY <1>1, <4>1 DEF TreeKept, TreeMatches, Screen
      <3> QED  BY <3>1, <3>2
    <2>11. GoodWindow(Screen')
      BY <1>2, <2>1, <2>7, <2>9 DEF GoodWindow, Screen
    <2>12. ShellsKept
      BY <1>1, ShellsStay DEF ptyVars
    <2>13. unmounted' \subseteq TabIds
      <3>1. t \in TabIds
        BY <1>1, <1>2, IdsOfTabs
      <3> QED  BY <2>1, <3>1 DEF ScreenInv
    <2> QED  BY <1>1, <2>8, <2>10, <2>11, <2>12, <2>13 DEF ScreenStep, ScreenInv, ptyVars
  <1> QED  BY <1>6, <1>7

\* One tab alone in a region of its own.
LEMMA AloneShows ==
  ASSUME NEW tab \in Tab
  PROVE  /\ <<tab>> \in Seq(Tab) /\ OnceIn(<<tab>>) /\ Range(<<tab>>) = {tab}
         /\ Shows([tabs |-> <<tab>>, activeTabId |-> tab.id])
  <1> DEFINE s == <<tab>>
  <1>1. s \in Seq(Tab) /\ DOMAIN s = {1} /\ s[1] = tab /\ s # <<>>
    OBVIOUS
  <1> HIDE DEF s
  <1>2. OnceIn(s) /\ Range(s) = {tab} /\ tab.id \in Ids(s)
    BY <1>1 DEF OnceIn, Range, Ids
  <1>3. Shows([tabs |-> s, activeTabId |-> tab.id])
    BY <1>1, <1>2, ShowingShows
  <1> QED  BY <1>1, <1>2, <1>3 DEF s

LEMMA SplitTabToNewStep ==
  \A r, t, p : \A n \in FreshRegions : ScreenInv /\ SplitTabToNew(r, t, n, p) => ScreenStep
  <1> SUFFICES ASSUME NEW r, NEW t, NEW p, NEW n \in FreshRegions,
                      ScreenInv, SplitTabToNew(r, t, n, p)
               PROVE  ScreenStep
    OBVIOUS
  <1> DEFINE tabs == regions[r].tabs
             tab  == tabs[IndexOf(tabs, t)]
             rest == Dropped(tabs, t)
             out  == Without(regions[r], t)
             alone == [tabs |-> <<tab>>, activeTabId |-> t]
             rs   == regions'
  <1>0. /\ GoodRegions(regions) /\ layout \in Seq(RegionIds) /\ IsInjective(layout)
    BY DEF ScreenInv, GoodWindow, Screen
  <1>1. n \in RegionIds /\ n \notin DOMAIN regions /\ n \notin Range(layout)
    BY DEF FreshRegions
  <1>2. TabOf(r, t) = tab
    BY DEF TabOf
  <1>3. /\ r \in DOMAIN regions /\ t \in Ids(tabs) /\ r \in Range(layout)
        /\ layout' = SplitLeaf(layout, r, n, p)
        /\ focusedRegionId' = n
        /\ unmounted' = IF tab.pending THEN unmounted \cup {t} ELSE unmounted
        /\ UNCHANGED <<spawns, ptyVars, torn>>
    BY <1>2 DEF SplitTabToNew
  <1>4. /\ regions' = [x \in DOMAIN regions \cup {n} |->
                         IF x = r THEN out ELSE IF x = n THEN alone ELSE regions[x]]
    BY <1>2 DEF SplitTabToNew
  <1>5. /\ tabs \in Seq(Tab) /\ OnceIn(tabs) /\ Shows(regions[r])
    BY <1>0, <1>3, GoodRegion
  <1>6. tab \in Range(tabs) /\ tab.id = t /\ tab \in Tab /\ t \in TabIds
    BY <1>3, <1>5, IndexOfTab, IdsOfTabs
  <1>7. OnceIn(rest) /\ Range(rest) = Range(tabs) \ {tab}
    BY <1>3, <1>5, DroppedTabs
  <1>8. Shows(out) /\ out.tabs = rest
    BY <1>3, <1>5, WithoutShows DEF Without
  <1>9. alone.tabs = <<tab>> /\ OnceIn(<<tab>>) /\ Range(<<tab>>) = {tab} /\ Shows(alone)
    <2> HIDE DEF tab
    <2>1. OnceIn(<<tab>>) /\ Range(<<tab>>) = {tab} /\ Shows([tabs |-> <<tab>>, activeTabId |-> tab.id])
      BY <1>6, AloneShows
    <2> QED  BY <1>6, <2>1
  <1> HIDE DEF alone, out
  <1>10. /\ DOMAIN rs = DOMAIN regions \cup {n} /\ rs[r] = out /\ rs[n] = alone
         /\ \A q \in DOMAIN rs \ {r, n} : rs[q] = regions[q]
    BY <1>1, <1>3, <1>4
  <1> HIDE DEF rs, rest, tab
  <1>11. MovedOver(rs, r, n, tab)
    <2>1. Shows(rs[n]) /\ OnceIn(rs[n].tabs) /\ \A x \in Range(rs[n].tabs) : x = tab
      BY <1>9, <1>10
    <2>2. /\ Shows(rs[r]) /\ OnceIn(rs[r].tabs)
          /\ \A x \in Range(rs[r].tabs) : x # tab /\ x \in Range(regions[r].tabs)
      BY <1>7, <1>8, <1>10
    <2> QED  BY <1>10, <2>1, <2>2 DEF MovedOver
  <1>12. GoodRegions(rs) /\ \A x \in TabsIn(rs) : x \in TabsIn(regions)
    BY <1>1, <1>3, <1>6, <1>11, TabMoves
  <1>13. TabsCame
    BY <1>12 DEF TabsCame, rs
  <1>14. layout' \in Seq(RegionIds) /\ IsInjective(layout') /\ Range(layout') = Range(layout) \cup {n}
    BY <1>0, <1>1, <1>3, SplitLeafInjective
  <1>15. TreeKept
    BY <1>1, <1>3, <1>10, <1>14 DEF TreeKept, TreeMatches, Screen, rs
  <1>16. GoodWindow(Screen')
    BY <1>1, <1>3, <1>12, <1>14 DEF GoodWindow, Screen, rs
  <1>17. ShellsKept
    BY <1>3, ShellsStay DEF ptyVars
  <1> QED  BY <1>3, <1>6, <1>13, <1>15, <1>16, <1>17 DEF ScreenStep, ScreenInv, ptyVars

LEMMA SplitRegionDoneStep ==
  \A k \in DOMAIN spawns, n \in FreshRegions, t \in FreshTabs, s \in FreshSessions :
    ScreenInv /\ SplitRegionDone(k, n, t, s) => ScreenStep
  <1> SUFFICES ASSUME NEW k \in DOMAIN spawns, NEW n \in FreshRegions, NEW t \in FreshTabs,
                      NEW s \in FreshSessions, ScreenInv, SplitRegionDone(k, n, t, s)
               PROVE  ScreenStep
    OBVIOUS
  <1> DEFINE c == spawns[k]
             tab == [id |-> t, view |-> Terminal, session |-> s, pending |-> FALSE]
             alone == [tabs |-> <<tab>>, activeTabId |-> t]
  <1>0. /\ GoodWindow(Screen) /\ GoodRegions(regions)
    BY DEF ScreenInv, GoodWindow, Screen
  <1>1. /\ c.kind = "split" /\ spawns' = RemoveAt(spawns, k)
        /\ UNCHANGED <<exited, unmounted>>
    BY DEF SplitRegionDone
  <1>2. c \in Calls
    BY DEF ScreenInv
  <1>3. c.seen \in Seq(RegionIds) /\ IsInjective(c.seen) /\ c.region \in RegionIds
    BY <1>1, <1>2 DEF Calls
  <1>4. spawns' \in Seq(Calls)
    BY <1>1, FewerCalls
  <1>5. CASE c.region \notin Range(c.seen)
    <2>1. UNCHANGED <<layoutVars, live, torn>>
      BY <1>5 DEF SplitRegionDone
    <2>2. ShellsKept
      BY <1>1, <2>1, ShellsStay
    <2> QED  BY <1>1, <1>4, <2>1, <2>2, StillStep DEF ScreenInv, layoutVars
  <1>6. CASE c.region \in Range(c.seen)
    <2>1. /\ live' = live \cup {s} /\ layout' = SplitLeaf(c.seen, c.region, n, "after")
          /\ regions' = Put(n, alone) /\ focusedRegionId' = n
          /\ torn' = (torn \/ c.seen # layout)
      BY <1>6 DEF SplitRegionDone
    <2>2. n \in RegionIds /\ n \notin DOMAIN regions /\ n \notin Range(c.seen)
      <3> DEFINE asked == {Awaiting(spawns[j]) : j \in DOMAIN spawns}
      <3>0. Awaiting(c) \in asked
        OBVIOUS
      <3> HIDE DEF asked
      <3>1. n \in RegionIds /\ n \notin DOMAIN regions /\ n \notin UNION asked
        BY DEF FreshRegions, asked
      <3>2. n \notin Awaiting(c)
        BY <3>0, <3>1
      <3> QED  BY <1>1, <3>1, <3>2 DEF Awaiting
    <2>3. tab \in Tab /\ Mute(tab) /\ Came(tab, live') /\ \A x \in TabsIn(regions) : Unlike(tab, x)
      BY <2>1, NewTabFits
    <2>4. tab.id = t
      OBVIOUS
    <2> HIDE DEF tab
    <2>5. alone.tabs = <<tab>> /\ OnceIn(<<tab>>) /\ Range(<<tab>>) = {tab} /\ Shows(alone)
      <3>1. OnceIn(<<tab>>) /\ Range(<<tab>>) = {tab} /\ Shows([tabs |-> <<tab>>, activeTabId |-> tab.id])
        BY <2>3, AloneShows
      <3> QED  BY <2>4, <3>1
    <2> HIDE DEF alone
    <2>6. FitsInto(alone, n)
      <3>1. \A q \in DOMAIN regions : \A x \in Range(regions[q].tabs) : Unlike(tab, x)
        BY <2>3, TabsInRegion
      <3>2. \A x \in Range(alone.tabs) : x = tab
        BY <2>5
      <3> QED  BY <2>3, <2>5, <3>1, <3>2 DEF FitsInto
    <2>7. /\ DOMAIN regions' = DOMAIN regions \cup {n} /\ regions'[n] = alone
          /\ \A q \in DOMAIN regions \ {n} : regions'[q] = regions[q]
      BY <2>1, <2>2 DEF Put
    <2>8. GoodRegions(regions') /\ TabsCame
      <3> DEFINE rs == regions'
      <3>1. DOMAIN rs = DOMAIN regions \cup {n} /\ rs[n] = alone
            /\ \A q \in DOMAIN regions \ {n} : rs[q] = regions[q]
        BY <2>7
      <3> HIDE DEF rs
      <3>2. GoodRegions(rs) /\ \A x \in TabsIn(rs) : x \in TabsIn(regions) \/ Came(x, live')
        BY <2>2, <2>6, <3>1, PutIsGood
      <3> QED  BY <3>2 DEF TabsCame, rs
    <2>9. /\ layout' \in Seq(RegionIds) /\ IsInjective(layout')
          /\ Range(layout') = Range(c.seen) \cup {n}
      BY <1>3, <1>6, <2>1, <2>2, SplitLeafInjective
    <2>10. TreeKept
      <3>1. ~torn' => c.seen = layout
        BY <2>1 DEF ScreenInv
      <3> QED  BY <2>1, <2>2, <2>7, <2>9, <3>1 DEF TreeKept, TreeMatches, Screen
    <2>11. GoodWindow(Screen')
      BY <2>1, <2>2, <2>8, <2>9 DEF GoodWindow, Screen
    <2>12. ShellsKept
      BY <1>1, <2>1, ShellsStay
    <2>13. live' \subseteq Sessions /\ torn' \in BOOLEAN /\ (torn => torn')
      BY <2>1 DEF ScreenInv, FreshSessions
    <2> QED  BY <1>1, <1>4, <2>8, <2>10, <2>11, <2>12, <2>13 DEF ScreenStep, ScreenInv
  <1> QED  BY <1>5, <1>6

LEMMA LayoutOpStep == ScreenInv /\ LayoutOp => ScreenStep
  <1> SUFFICES ASSUME ScreenInv, LayoutOp PROVE ScreenStep
    OBVIOUS
  <1>0. \A new \in OneOf(FreshTabs) : new \in FreshTabs
    BY OneOfIs
  <1>1. \A new \in OneOf(FreshRegions) : new \in FreshRegions
    BY OneOfIs
  <1>2. CASE SplitRegion
    BY <1>2, SplitRegionStep
  <1>3. CASE \E r \in DOMAIN regions : AddTerminalTab(r) \/ CloseRegion(r) \/ SetFocusedRegion(r)
    BY <1>3, AddTerminalTabStep, CloseRegionStep, SetFocusedRegionStep
  <1>4. CASE \E r \in DOMAIN regions, v \in Views, new \in OneOf(FreshTabs) :
               AddUniqueTab(r, v, new) \/ AddTab(r, v, new)
    BY <1>0, <1>4, AddUniqueTabStep, AddTabStep
  <1>5. CASE \E r \in DOMAIN regions, t \in TabIds : CloseTab(r, t) \/ ActivateTab(r, t)
    BY <1>5, CloseTabStep, ActivateTabStep
  <1>6. CASE \E r, t, to, at : MoveTab(r, t, to, at)
    BY <1>6, MoveTabStep
  <1>7. CASE \E r \in DOMAIN regions, t \in TabIds, p \in {"before", "after"},
                new \in OneOf(FreshRegions) : SplitTabToNew(r, t, new, p)
    BY <1>1, <1>7, SplitTabToNewStep
  <1> QED  BY <1>2, <1>3, <1>4, <1>5, <1>6, <1>7 DEF LayoutOp

LEMMA AnswerIsStep == \A k \in DOMAIN spawns : ScreenInv /\ Answer(k) => ScreenStep
  <1> SUFFICES ASSUME NEW k \in DOMAIN spawns, ScreenInv, Answer(k) PROVE ScreenStep
    OBVIOUS
  <1>0. /\ \A s \in OneOf(FreshSessions) : s \in FreshSessions
        /\ \A t \in OneOf(FreshTabs) : t \in FreshTabs
        /\ \A n \in OneOf(FreshRegions) : n \in FreshRegions
    BY OneOfIs
  <1>1. CASE \E s \in OneOf(FreshSessions) : MaterializeDone(k, s)
    BY <1>0, <1>1, MaterializeDoneStep
  <1>2. CASE \E s \in OneOf(FreshSessions), t \in OneOf(FreshTabs) : AddTerminalTabDone(k, t, s)
    BY <1>0, <1>2, AddTerminalTabDoneStep
  <1>3. CASE \E s \in OneOf(FreshSessions), t \in OneOf(FreshTabs), n \in OneOf(FreshRegions) :
               SplitRegionDone(k, n, t, s)
    BY <1>0, <1>3, SplitRegionDoneStep
  <1>4. CASE SpawnFailed(k)
    BY <1>4, SpawnFailedStep
  <1> QED  BY <1>1, <1>2, <1>3, <1>4 DEF Answer

-----------------------------------------------------------------------------
(* The invariant of the workspaces. *)

Booked ==
  /\ order \in Seq(WorkspaceIds) /\ IsInjective(order)
  /\ activeWorkspaceId \in Range(order) /\ DOMAIN savedLayout \subseteq Range(order)
  /\ saveTimer \in BOOLEAN

\* Every window is like the one on the screen.
Behind ==
  /\ \A w \in DOMAIN savedLayout : GoodWindow(savedLayout[w])
  /\ AllOnce(WindowOf) /\ AllOnce(savedLayout)
  /\ ~torn => /\ \A w \in DOMAIN savedLayout : TreeMatches(savedLayout[w])
              /\ TreeMatches(Screen)

\* What a shown tab has for a shell, in a workspace that is not torn.
Shelled == ~torn => \A win \in Windows : \A tab \in TabsIn(win.regions) :
                      tab.session \in live \cup exited \cup {None}
Excused == \A win \in Windows : \A tab \in TabsIn(win.regions) : Dead(tab) => tab.id \in stranded

WsInv == ScreenInv /\ Booked /\ Behind /\ Shelled /\ Excused /\ DiskFollowsStore

\* A tab as it is captured or read again: the same id, its session or none.
Echo(b, a) == b.id = a.id /\ b.session \in {a.session, None}

LEMMA EchoesUnlike ==
  ASSUME NEW a, NEW b, NEW x, NEW y, Echo(x, a), Echo(y, b), Unlike(a, b)
  PROVE  Unlike(x, y)
  BY DEF Echo, Unlike

\* The regions of a window, each tab replaced by one like it.
Image(new, rs) ==
  /\ DOMAIN new = DOMAIN rs
  /\ \A r \in DOMAIN rs :
       /\ new[r] \in Region /\ new[r].activeTabId = rs[r].activeTabId
       /\ DOMAIN new[r].tabs = DOMAIN rs[r].tabs
       /\ \A k \in DOMAIN rs[r].tabs :
            Mute(new[r].tabs[k]) /\ Echo(new[r].tabs[k], rs[r].tabs[k])

LEMMA ImageGood ==
  ASSUME NEW rs, NEW new, GoodRegions(rs), Image(new, rs)
  PROVE  GoodRegions(new) /\ \A x \in TabsIn(new) : \E a \in TabsIn(rs) : Echo(x, a)
  <1>1. DOMAIN new = DOMAIN rs
    BY DEF Image
  <1>2. ASSUME NEW r \in DOMAIN rs
        PROVE  Shows(new[r]) /\ OnceIn(new[r].tabs)
               /\ \A x \in Range(new[r].tabs) :
                    Mute(x) /\ \E a \in Range(rs[r].tabs) : Echo(x, a)
    <2> DEFINE s == rs[r].tabs
               t == new[r].tabs
    <2>1. /\ new[r] \in Region /\ new[r].activeTabId = rs[r].activeTabId /\ DOMAIN t = DOMAIN s
          /\ \A k \in DOMAIN s : Mute(t[k]) /\ Echo(t[k], s[k])
      BY DEF Image
    <2>2. Shows(rs[r]) /\ OnceIn(s) /\ s \in Seq(Tab)
      BY GoodRegion
    <2>3. t \in Seq(Tab)
      BY <2>1 DEF Region
    <2> HIDE DEF s, t
    <2>4. Ids(t) = Ids(s)
      BY <2>1 DEF Ids, Echo
    <2>5. t = <<>> <=> s = <<>>
      BY <2>1, <2>2, <2>3
    <2>6. Shows(new[r])
      BY <2>1, <2>2, <2>4, <2>5 DEF Shows, s, t
    <2>7. OnceIn(t)
      BY <2>1, <2>2, EchoesUnlike DEF OnceIn
    <2>8. \A x \in Range(t) : Mute(x) /\ \E a \in Range(s) : Echo(x, a)
      BY <2>1 DEF Range
    <2> QED  BY <2>6, <2>7, <2>8 DEF s, t
  <1>3. EachOnce(new)
    <2> SUFFICES ASSUME NEW p \in DOMAIN rs, NEW q \in DOMAIN rs, p # q,
                        NEW x \in Range(new[p].tabs), NEW y \in Range(new[q].tabs)
                 PROVE  Unlike(x, y)
      BY <1>1, <1>2 DEF EachOnce, Apart
    <2>1. PICK a \in Range(rs[p].tabs) : Echo(x, a)
      BY <1>2
    <2>2. PICK b \in Range(rs[q].tabs) : Echo(y, b)
      BY <1>2
    <2>3. Unlike(a, b)
      BY DEF GoodRegions, EachOnce, Apart
    <2> QED  BY <2>1, <2>2, <2>3, EchoesUnlike
  <1>4. ASSUME NEW x \in TabsIn(new) PROVE Mute(x) /\ \E a \in TabsIn(rs) : Echo(x, a)
    <2>1. PICK r \in DOMAIN rs : x \in Range(new[r].tabs)
      BY <1>1, TabsInRegion
    <2>2. PICK a \in Range(rs[r].tabs) : Echo(x, a)
      BY <1>2, <2>1
    <2> QED  BY <1>2, <2>1, <2>2, TabsInRegion
  <1> QED  BY <1>1, <1>2, <1>3, <1>4 DEF GoodRegions

LEMMA AwakeTab ==
  ASSUME NEW x \in Tab
  PROVE  /\ Awake(x) \in Tab /\ Awake(x).id = x.id /\ Awake(x).view = x.view
         /\ Awake(x).session = x.session /\ ~Awake(x).pending
  BY DEF Awake, Tab

LEMMA AsleepTab ==
  ASSUME NEW x \in Tab
  PROVE  /\ Asleep(x) \in Tab /\ Asleep(x).id = x.id /\ Asleep(x).view = x.view
         /\ x.view = Terminal => Asleep(x).session = None /\ Asleep(x).pending
         /\ x.view # Terminal => Asleep(x) = x
  BY DEF Asleep, Tab

\* f changes every tab of a window.
LEMMA MapImage ==
  ASSUME NEW rs, GoodRegions(rs), NEW f \in [Tab -> Tab],
         \A x \in Tab : Mute(x) => Mute(f[x]) /\ Echo(f[x], x),
         NEW new, DOMAIN new = DOMAIN rs,
         \A r \in DOMAIN rs :
           new[r] = [rs[r] EXCEPT !.tabs = [k \in DOMAIN rs[r].tabs |-> f[rs[r].tabs[k]]]]
  PROVE  /\ Image(new, rs)
         /\ \A x \in TabsIn(new) : \E a \in TabsIn(rs) : x = f[a] /\ a \in Tab
  <1>2. ASSUME NEW r \in DOMAIN rs
        PROVE  /\ new[r] \in Region /\ new[r].activeTabId = rs[r].activeTabId
               /\ DOMAIN new[r].tabs = DOMAIN rs[r].tabs
               /\ \A k \in DOMAIN rs[r].tabs :
                    /\ Mute(new[r].tabs[k]) /\ Echo(new[r].tabs[k], rs[r].tabs[k])
                    /\ new[r].tabs[k] = f[rs[r].tabs[k]]
                    /\ rs[r].tabs[k] \in TabsIn(rs) /\ rs[r].tabs[k] \in Tab
    <2> DEFINE s == rs[r].tabs
               t == [k \in DOMAIN s |-> f[s[k]]]
    <2>1. /\ s \in Seq(Tab) /\ rs[r].activeTabId \in TabIds \cup {None}
          /\ rs[r] = [tabs |-> s, activeTabId |-> rs[r].activeTabId]
          /\ \A x \in Range(s) : x \in Tab /\ Mute(x) /\ x \in TabsIn(rs)
      BY GoodRegion
    <2>2. new[r] = [rs[r] EXCEPT !.tabs = t]
      OBVIOUS
    <2> HIDE DEF s
    <2>3. \A k \in DOMAIN s : s[k] \in Tab /\ Mute(s[k]) /\ s[k] \in TabsIn(rs)
      BY <2>1 DEF Range
    <2>4. \A k \in DOMAIN s : f[s[k]] \in Tab /\ Mute(f[s[k]]) /\ Echo(f[s[k]], s[k])
      BY <2>3
    <2>5. t \in Seq(Tab) /\ DOMAIN t = DOMAIN s /\ \A k \in DOMAIN s : t[k] = f[s[k]]
      <3>1. DOMAIN s = 1..Len(s) /\ Len(s) \in Nat  BY <2>1
      <3> QED  BY <2>4, <3>1
    <2> HIDE DEF t
    <2>6. new[r] = [tabs |-> t, activeTabId |-> rs[r].activeTabId]
      BY <2>1, <2>2
    <2>7. new[r] \in Region /\ new[r].tabs = t /\ new[r].activeTabId = rs[r].activeTabId
      BY <2>1, <2>5, <2>6 DEF Region
    <2> QED  BY <2>3, <2>4, <2>5, <2>7 DEF s
  <1>4. Image(new, rs)
    BY <1>2 DEF Image
  <1>5. ASSUME NEW x \in TabsIn(new) PROVE \E a \in TabsIn(rs) : x = f[a] /\ a \in Tab
    <2>1. PICK r \in DOMAIN rs : x \in Range(new[r].tabs)
      BY TabsInRegion
    <2>2. PICK k \in DOMAIN rs[r].tabs : x = new[r].tabs[k]
      BY <1>2, <2>1 DEF Range
    <2> QED  BY <1>2, <2>2
  <1> QED  BY <1>4, <1>5

LEMMA AwakeImage ==
  ASSUME NEW rs, GoodRegions(rs), NEW new, new = MapTabs(rs, Awake)
  PROVE  /\ Image(new, rs)
         /\ \A x \in TabsIn(new) : \E a \in TabsIn(rs) : x = Awake(a) /\ a \in Tab
  <1> DEFINE f == [x \in Tab |-> Awake(x)]
  <1>1. f \in [Tab -> Tab] /\ \A x \in Tab : f[x] = Awake(x)
    BY AwakeTab
  <1> HIDE DEF f
  <1>2. \A x \in Tab : Mute(x) => Mute(f[x]) /\ Echo(f[x], x)
    BY <1>1, AwakeTab DEF Mute, Echo
  <1>3. DOMAIN new = DOMAIN rs
    BY DEF MapTabs
  <1>4. ASSUME NEW r \in DOMAIN rs
        PROVE  new[r] = [rs[r] EXCEPT !.tabs = [k \in DOMAIN rs[r].tabs |-> f[rs[r].tabs[k]]]]
    <2> DEFINE s == rs[r].tabs
    <2>1. \A k \in DOMAIN s : Awake(s[k]) = f[s[k]]
      BY <1>1, GoodRegion DEF Range
    <2>2. new[r] = [rs[r] EXCEPT !.tabs = [k \in DOMAIN s |-> Awake(s[k])]]
      BY DEF MapTabs
    <2> HIDE DEF s
    <2>3. [k \in DOMAIN s |-> Awake(s[k])] = [k \in DOMAIN s |-> f[s[k]]]
      BY <2>1
    <2> QED  BY <2>2, <2>3 DEF s
  <1>5. \A x \in TabsIn(new) : \E a \in TabsIn(rs) : x = f[a] /\ a \in Tab
    BY <1>1, <1>2, <1>3, <1>4, MapImage
  <1>6. Image(new, rs)
    BY <1>1, <1>2, <1>3, <1>4, MapImage
  <1> QED  BY <1>1, <1>5, <1>6

LEMMA AsleepImage ==
  ASSUME NEW rs, GoodRegions(rs), NEW new, new = MapTabs(rs, Asleep)
  PROVE  /\ Image(new, rs)
         /\ \A x \in TabsIn(new) : \E a \in TabsIn(rs) : x = Asleep(a) /\ a \in Tab
  <1> DEFINE f == [x \in Tab |-> Asleep(x)]
  <1>1. f \in [Tab -> Tab] /\ \A x \in Tab : f[x] = Asleep(x)
    BY AsleepTab
  <1> HIDE DEF f
  <1>2. \A x \in Tab : Mute(x) => Mute(f[x]) /\ Echo(f[x], x)
    BY <1>1, AsleepTab DEF Mute, Echo
  <1>3. DOMAIN new = DOMAIN rs
    BY DEF MapTabs
  <1>4. ASSUME NEW r \in DOMAIN rs
        PROVE  new[r] = [rs[r] EXCEPT !.tabs = [k \in DOMAIN rs[r].tabs |-> f[rs[r].tabs[k]]]]
    <2> DEFINE s == rs[r].tabs
    <2>1. \A k \in DOMAIN s : Asleep(s[k]) = f[s[k]]
      BY <1>1, GoodRegion DEF Range
    <2>2. new[r] = [rs[r] EXCEPT !.tabs = [k \in DOMAIN s |-> Asleep(s[k])]]
      BY DEF MapTabs
    <2> HIDE DEF s
    <2>3. [k \in DOMAIN s |-> Asleep(s[k])] = [k \in DOMAIN s |-> f[s[k]]]
      BY <2>1
    <2> QED  BY <2>2, <2>3 DEF s
  <1>5. \A x \in TabsIn(new) : \E a \in TabsIn(rs) : x = f[a] /\ a \in Tab
    BY <1>1, <1>2, <1>3, <1>4, MapImage
  <1>6. Image(new, rs)
    BY <1>1, <1>2, <1>3, <1>4, MapImage
  <1> QED  BY <1>1, <1>5, <1>6

LEMMA RangeFinite ==
  ASSUME NEW S, NEW s \in Seq(S)
  PROVE  IsFiniteSet(Range(s))
  <1> DEFINE D == 1..Len(s)
             R == Range(s)
  <1>1. IsFiniteSet(D) /\ DOMAIN s = D
    BY FS_Interval
  <1>2. s \in Surjection(D, R)
    BY <1>1 DEF Surjection, Range
  <1> HIDE DEF D, R
  <1>3. IsFiniteSet(R)
    BY <1>1, <1>2, FS_Surjection
  <1> QED  BY <1>3 DEF R

\* A finite set written as a sequence.
LEMMA SetToSeqTyped ==
  ASSUME NEW S, IsFiniteSet(S)
  PROVE  SetToSeq(S) \in Seq(S)
  <1> DEFINE N == Cardinality(S)
             s == SetToSeq(S)
  <1>1. N \in Nat /\ ExistsBijection(1..N, S)  BY FS_CardinalityType
  <1>2. \E f \in [1..N -> S] : IsInjective(f)
    BY <1>1 DEF ExistsBijection, Bijection, Injection
  <1>3. s \in [1..N -> S]
    BY <1>2 DEF SetToSeq
  <1> QED  BY <1>1, <1>3

\* The calls that wake the terminals of a window.
LEMMA WakeCallsTyped ==
  ASSUME NEW rs, GoodRegions(rs)
  PROVE  SetToSeq(WakeCalls(rs)) \in Seq(Calls)
  <1> DEFINE tabs(r) == {x \in Range(rs[r].tabs) : x.pending}
             of(r)   == {Wake(r, tab.id) : tab \in tabs(r)}
             all     == {of(r) : r \in DOMAIN rs}
             W       == WakeCalls(rs)
  <1>1. ASSUME NEW r \in DOMAIN rs PROVE IsFiniteSet(of(r))
    <2> DEFINE T == tabs(r)
               O == of(r)
               f == [x \in T |-> Wake(r, x.id)]
    <2>1. IsFiniteSet(T)
      <3>1. IsFiniteSet(Range(rs[r].tabs))
        BY GoodRegion, RangeFinite
      <3> QED  BY <3>1, FS_Subset
    <2>2. f \in Surjection(T, O)
      BY DEF Surjection
    <2> HIDE DEF T, O, f
    <2>3. IsFiniteSet(O)
      BY <2>1, <2>2, FS_Surjection
    <2> QED  BY <2>3 DEF O
  <1>2. IsFiniteSet(all)
    <2> DEFINE D == DOMAIN rs
               f == [r \in D |-> of(r)]
    <2>1. f \in Surjection(D, all)
      <3> HIDE DEF of
      <3> QED  BY DEF Surjection
    <2>2. IsFiniteSet(D)
      BY DEF GoodRegions
    <2> HIDE DEF all, D, f
    <2> QED  BY <2>1, <2>2, FS_Surjection
  <1>3. W = UNION all
    BY DEF WakeCalls
  <1>4. IsFiniteSet(W)
    <2>1. \A A \in all : IsFiniteSet(A)
      <3> HIDE DEF of
      <3> QED  BY <1>1
    <2> HIDE DEF all, W
    <2> QED  BY <1>2, <1>3, <2>1, FS_UNION
  <1>5. W \subseteq Calls
    <2> SUFFICES ASSUME NEW c \in W PROVE c \in Calls
      OBVIOUS
    <2>1. PICK r \in DOMAIN rs : \E x \in tabs(r) : c = Wake(r, x.id)
      BY DEF WakeCalls
    <2>2. PICK x \in Range(rs[r].tabs) : c = Wake(r, x.id)
      BY <2>1
    <2>3. r \in RegionIds /\ x \in Tab
      BY GoodRegion
    <2>4. x.id \in TabIds
      BY <2>3 DEF Tab
    <2> QED  BY <2>2, <2>3, <2>4 DEF Wake, Calls
  <1> HIDE DEF W
  <1>6. SetToSeq(W) \in Seq(W)
    BY <1>4, SetToSeqTyped
  <1>7. SetToSeq(W) \in Seq(Calls)
    <2> DEFINE s == SetToSeq(W)
    <2>1. s \in Seq(W) /\ \A k \in 1..Len(s) : s[k] \in W
      BY <1>6
    <2> HIDE DEF s
    <2>2. s \in Seq(Calls)
      BY <1>5, <2>1
    <2> QED  BY <2>2 DEF s
  <1> QED  BY <1>7 DEF W

-----------------------------------------------------------------------------
(* What the auto-capture compares. *)

LEMMA ShapeOfImage ==
  ASSUME NEW rs, NEW new, Image(new, rs), NEW f
  PROVE  Shape(new, f) = Shape(rs, f)
  <1> DEFINE ids(s) == [k \in DOMAIN s |-> s[k].id]
             g(x)   == [tabs |-> ids(x.tabs), activeTabId |-> x.activeTabId]
             F(x)   == [r \in DOMAIN x |-> g(x[r])]
  <1>1. Shape(new, f) = <<F(new), f>> /\ Shape(rs, f) = <<F(rs), f>>
    BY DEF Shape
  <1>2. DOMAIN new = DOMAIN rs
    BY DEF Image
  <1>3. ASSUME NEW r \in DOMAIN rs PROVE g(new[r]) = g(rs[r])
    <2>1. ids(new[r].tabs) = ids(rs[r].tabs)
      BY <1>3 DEF Image, Echo
    <2>2. new[r].activeTabId = rs[r].activeTabId
      BY <1>3 DEF Image
    <2> HIDE DEF ids
    <2> QED  BY <2>1, <2>2
  <1> HIDE DEF g
  <1>4. F(new) = F(rs)
    BY <1>2, <1>3
  <1> QED  BY <1>1, <1>4

LEMMA ShapeTells ==
  ASSUME NEW rs, NEW new, NEW e, NEW f, Shape(new, e) = Shape(rs, f)
  PROVE  /\ DOMAIN new = DOMAIN rs
         /\ TabsIn(rs) = {} => TabsIn(new) = {}
  <1> DEFINE ids(s) == [k \in DOMAIN s |-> s[k].id]
             g(x)   == [tabs |-> ids(x.tabs), activeTabId |-> x.activeTabId]
             F(x)   == [r \in DOMAIN x |-> g(x[r])]
  <1>1. F(new) = F(rs)
    BY DEF Shape
  <1>2. DOMAIN new = DOMAIN rs
    <2>1. DOMAIN F(new) = DOMAIN new /\ DOMAIN F(rs) = DOMAIN rs
      OBVIOUS
    <2> HIDE DEF F
    <2> QED  BY <1>1, <2>1
  <1>3. ASSUME NEW r \in DOMAIN rs PROVE DOMAIN new[r].tabs = DOMAIN rs[r].tabs
    <2>1. g(new[r]) = g(rs[r])
      <3> HIDE DEF g
      <3>1. F(new)[r] = g(new[r]) /\ F(rs)[r] = g(rs[r])
        BY <1>2, <1>3
      <3> HIDE DEF F
      <3> QED  BY <1>1, <3>1
    <2>2. ids(new[r].tabs) = ids(rs[r].tabs)
      <3> HIDE DEF ids
      <3>1. g(new[r]).tabs = ids(new[r].tabs) /\ g(rs[r]).tabs = ids(rs[r].tabs)
        OBVIOUS
      <3> HIDE DEF g
      <3> QED  BY <2>1, <3>1
    <2>3. \A s : DOMAIN ids(s) = DOMAIN s
      OBVIOUS
    <2> HIDE DEF ids
    <2> QED  BY <2>2, <2>3
  <1>4. ASSUME TabsIn(rs) = {} PROVE TabsIn(new) = {}
    <2> SUFFICES ASSUME NEW x \in TabsIn(new) PROVE FALSE
      OBVIOUS
    <2>1. PICK r \in DOMAIN rs : x \in Range(new[r].tabs)
      BY <1>2, TabsInRegion
    <2>2. PICK k \in DOMAIN rs[r].tabs : TRUE
      BY <1>3, <2>1 DEF Range
    <2>3. rs[r].tabs[k] \in TabsIn(rs)
      BY <2>2, TabsInRegion DEF Range
    <2> QED  BY <1>4, <2>3
  <1> QED  BY <1>2, <1>4

LEMMA EmptyWindow ==
  ASSUME NEW r \in RegionIds
  PROVE  /\ GoodWindow(OneEmptyRegion(r)) /\ TreeMatches(OneEmptyRegion(r))
         /\ TabsIn(OneEmptyRegion(r).regions) = {}
  <1> DEFINE win == OneEmptyRegion(r)
             region == [tabs |-> <<>>, activeTabId |-> None]
             rs  == [x \in {r} |-> region]
  <1>1. win.layout = <<r>> /\ win.focused = r /\ win.regions = rs
    BY DEF OneEmptyRegion
  <1>2. DOMAIN rs = {r} /\ rs[r] = region
    OBVIOUS
  <1>3. region.tabs = <<>> /\ region.activeTabId = None /\ <<>> \in Seq(Tab) /\ DOMAIN <<>> = {}
        /\ region \in Region
    BY DEF Region
  <1>4. Range(region.tabs) = {} /\ OnceIn(region.tabs)
    BY <1>3 DEF Range, OnceIn
  <1> HIDE DEF win, region, rs
  <1>5. Shows(rs[r])
    BY <1>2, <1>3 DEF Shows
  <1>6. TabsIn(rs) = {}
    BY <1>2, <1>4 DEF TabsIn
  <1>7. EachOnce(rs)
    BY <1>2, <1>4 DEF EachOnce
  <1>8. GoodRegions(rs)
    BY <1>2, <1>5, <1>6, <1>7, FS_Singleton DEF GoodRegions
  <1>9. <<r>> \in Seq(RegionIds) /\ IsInjective(<<r>>) /\ Range(<<r>>) = {r}
    BY DEF IsInjective, Range
  <1> QED  BY <1>1, <1>2, <1>6, <1>8, <1>9 DEF GoodWindow, TreeMatches, win

LEMMA WindowsAre ==
  /\ DOMAIN WindowOf = DOMAIN savedLayout \cup {activeWorkspaceId}
  /\ WindowOf[activeWorkspaceId] = Screen
  /\ \A w \in DOMAIN savedLayout \ {activeWorkspaceId} : WindowOf[w] = savedLayout[w]
  /\ \A win : win \in Windows <=> \E w \in DOMAIN WindowOf : win = WindowOf[w]
  BY DEF WindowOf, Windows, Range

LEMMA NextWindowsAre ==
  /\ DOMAIN WindowOf' = DOMAIN savedLayout' \cup {activeWorkspaceId'}
  /\ WindowOf'[activeWorkspaceId'] = Screen'
  /\ \A w \in DOMAIN savedLayout' \ {activeWorkspaceId'} : WindowOf'[w] = savedLayout'[w]
  /\ \A win : win \in Windows' <=> \E w \in DOMAIN WindowOf' : win = WindowOf'[w]
  BY DEF WindowOf, Windows, Range

LEMMA ScreenParts ==
  /\ Screen.layout = layout /\ Screen.regions = regions /\ Screen.focused = focusedRegionId
  /\ Screen'.layout = layout' /\ Screen'.regions = regions' /\ Screen'.focused = focusedRegionId'
  BY DEF Screen

\* A step of the layout alone keeps the invariant of the workspaces.
LEMMA LayoutStepKeeps ==
  ASSUME WsInv, ScreenStep, UNCHANGED wsVars, ScheduleAutoCapture
  PROVE  WsInv'
  <1> DEFINE active == activeWorkspaceId
             others == DOMAIN savedLayout \ {active}
  <1>0. /\ UNCHANGED <<order, activeWorkspaceId, savedLayout, stranded>>
        /\ ScreenInv' /\ (torn => torn') /\ TreeKept /\ TabsCame /\ ShellsKept
        /\ ScreenInv /\ torn \in BOOLEAN /\ torn' \in BOOLEAN
    BY DEF wsVars, ScreenStep, WsInv, ScreenInv
  <1>1. Booked'
    <2>1. saveTimer' \in BOOLEAN
      BY Zenon DEF ScheduleAutoCapture
    <2> QED  BY <1>0, <2>1 DEF WsInv, Booked
  <1>2. TreeMatches(Screen) \/ torn'
    BY <1>0 DEF WsInv, Behind
  <1>3. ASSUME NEW w \in others, NEW x \in TabsIn(savedLayout[w].regions), NEW tab \in TabsIn(regions)
        PROVE  Unlike(tab, x) /\ Unlike(x, tab)
    <2>1. AllOnce(WindowOf)
      BY DEF WsInv, Behind
    <2>2. Apart(TabsIn(WindowOf[active].regions), TabsIn(WindowOf[w].regions))
      BY <2>1, WindowsAre DEF AllOnce
    <2>3. Apart(TabsIn(regions), TabsIn(savedLayout[w].regions))
      BY <2>2, WindowsAre, ScreenParts
    <2> QED  BY <2>3, UnlikeBothWays DEF Apart
  <1>4. ASSUME NEW w \in others, NEW x \in TabsIn(savedLayout[w].regions), NEW tab \in TabsIn(regions')
        PROVE  Unlike(tab, x) /\ Unlike(x, tab)
    <2>1. CASE tab \in TabsIn(regions)
      BY <1>3, <2>1
    <2>2. CASE Came(tab, live')
      <3>1. savedLayout[w] \in Saved
        BY DEF Saved, Range
      <3>2. x \in AllTabs
        BY <3>1 DEF AllTabs
      <3>3. tab.id # x.id
        <4>1. CASE tab.id \in FreshTabs
          BY <3>2, <4>1 DEF FreshTabs
        <4>2. CASE tab.id \in {y.id : y \in TabsIn(regions)}
          BY <1>3, <4>2 DEF Unlike
        <4> QED  BY <2>2, <4>1, <4>2 DEF Came
      <3>4. tab.session # None => tab.session # x.session
        BY <2>2, <3>2 DEF Came, FreshSessions
      <3> QED  BY <3>3, <3>4, UnlikeBothWays DEF Unlike
    <2> QED  BY <1>0, <2>1, <2>2 DEF TabsCame
  <1>5. AllOnce(WindowOf')
    <2>1. AllOnce(WindowOf) /\ EachOnce(regions')
      BY <1>0 DEF WsInv, Behind, ScreenInv, GoodWindow, GoodRegions, Screen
    <2>2. /\ DOMAIN WindowOf' = others \cup {active} /\ WindowOf'[active].regions = regions'
          /\ \A w \in others : WindowOf'[w] = savedLayout[w] /\ WindowOf[w] = savedLayout[w]
          /\ DOMAIN WindowOf = others \cup {active}
      BY <1>0, WindowsAre, NextWindowsAre, ScreenParts
    <2> DEFINE V == WindowOf'
    <2>3. \A w \in DOMAIN V : EachOnce(V[w].regions)
      BY <2>1, <2>2 DEF AllOnce
    <2>4. ASSUME NEW v \in DOMAIN V, NEW w \in DOMAIN V, v # w
          PROVE  Apart(TabsIn(V[v].regions), TabsIn(V[w].regions))
      <3>1. CASE v = active
        BY <1>4, <2>2, <2>4, <3>1 DEF Apart
      <3>2. CASE w = active
        BY <1>4, <2>2, <2>4, <3>2 DEF Apart
      <3>3. CASE v # active /\ w # active
        BY <2>1, <2>2, <2>4, <3>3 DEF AllOnce
      <3> QED  BY <3>1, <3>2, <3>3
    <2> HIDE DEF V
    <2>5. AllOnce(V)
      BY <2>3, <2>4 DEF AllOnce
    <2> QED  BY <2>5 DEF V
  <1>6. Behind'
    <2>1. ~torn' => TreeMatches(Screen')
      BY <1>0, <1>2 DEF TreeKept
    <2>2. /\ \A w \in DOMAIN savedLayout' : GoodWindow(savedLayout'[w])
          /\ AllOnce(savedLayout')
          /\ ~torn' => \A w \in DOMAIN savedLayout' : TreeMatches(savedLayout'[w])
      BY <1>0 DEF WsInv, Behind
    <2> QED  BY <1>5, <2>1, <2>2 DEF Behind
  <1>7. Shelled'
    <2> SUFFICES ASSUME ~torn', NEW w \in DOMAIN WindowOf', NEW tab \in TabsIn(WindowOf'[w].regions)
                 PROVE  tab.session \in live' \cup exited' \cup {None}
      BY NextWindowsAre DEF Shelled
    <2>0. ~torn /\ TreeMatches(Screen)
      BY <1>0, <1>2
    <2>1. \A v \in DOMAIN WindowOf : \A x \in TabsIn(WindowOf[v].regions) :
             x.session \in live \cup exited \cup {None}
      BY <2>0, WindowsAre DEF WsInv, Shelled
    <2>2. CASE w = active
      <3>1. tab \in TabsIn(regions')
        BY <1>0, <2>2, NextWindowsAre, ScreenParts
      <3>2. CASE tab \in TabsIn(regions)
        <4>1. tab.session \in live \cup exited \cup {None}
          BY <2>1, <3>2, WindowsAre, ScreenParts
        <4> QED  BY <1>0, <2>0, <3>1, <3>2, <4>1 DEF ShellsKept
      <3>3. CASE Came(tab, live')
        BY <3>3 DEF Came
      <3> QED  BY <1>0, <3>1, <3>2, <3>3 DEF TabsCame
    <2>3. CASE w # active
      <3>1. w \in others /\ tab \in TabsIn(savedLayout[w].regions)
        BY <1>0, <2>3, NextWindowsAre
      <3>2. tab.session \in live \cup exited \cup {None}
        BY <2>1, <3>1, WindowsAre
      <3>3. tab.session # None => tab.session \notin SessionsIn(regions)
        BY <1>3, <3>1 DEF SessionsIn, Unlike
      <3> QED  BY <1>0, <3>2, <3>3 DEF ShellsKept
    <2> QED  BY <2>2, <2>3
  <1>8. Excused'
    <2> SUFFICES ASSUME NEW w \in DOMAIN WindowOf', NEW tab \in TabsIn(WindowOf'[w].regions),
                        Dead(tab)
                 PROVE  tab.id \in stranded
      BY <1>0, NextWindowsAre DEF Excused
    <2>1. \A v \in DOMAIN WindowOf : \A x \in TabsIn(WindowOf[v].regions) :
             Dead(x) => x.id \in stranded
      BY WindowsAre DEF WsInv, Excused
    <2>2. CASE w = active
      <3>1. tab \in TabsIn(regions')
        BY <1>0, <2>2, NextWindowsAre, ScreenParts
      <3>2. tab \in TabsIn(regions)
        BY <1>0, <3>1 DEF TabsCame, Came
      <3> QED  BY <2>1, <3>2, WindowsAre, ScreenParts
    <2>3. CASE w # active
      <3>1. w \in others /\ tab \in TabsIn(savedLayout[w].regions)
        BY <1>0, <2>3, NextWindowsAre
      <3> QED  BY <2>1, <3>1, WindowsAre
    <2> QED  BY <2>2, <2>3
  <1>9. DiskFollowsStore'
    <2> SUFFICES ASSUME ~saveTimer' PROVE DiskFollowsStore'
      BY DEF DiskFollowsStore
    <2>1. ~saveTimer /\ Shape(regions', focusedRegionId') = Shape(regions, focusedRegionId)
      BY DEF ScheduleAutoCapture
    <2>2. /\ DOMAIN regions' = DOMAIN regions
          /\ TabsIn(regions) = {} => TabsIn(regions') = {}
      BY <2>1, ShapeTells
    <2>3. layout' = layout
      BY <1>0, <2>2 DEF TreeKept
    <2> QED  BY <1>0, <2>1, <2>2, <2>3 DEF WsInv, DiskFollowsStore
  <1> QED  BY <1>0, <1>1, <1>6, <1>7, <1>8, <1>9 DEF WsInv

\* The windows V hold nothing but tabs of the windows W, each in its window.
Echoed(V, W) ==
  \A v \in DOMAIN V :
    /\ EachOnce(V[v].regions)
    /\ \A x \in TabsIn(V[v].regions) :
         v \in DOMAIN W /\ \E a \in TabsIn(W[v].regions) : Echo(x, a)

LEMMA EchoesOnce ==
  ASSUME NEW V, NEW W, AllOnce(W), Echoed(V, W)
  PROVE  AllOnce(V)
  <1> SUFFICES ASSUME NEW v \in DOMAIN V, NEW w \in DOMAIN V, v # w,
                      NEW x \in TabsIn(V[v].regions), NEW y \in TabsIn(V[w].regions)
               PROVE  Unlike(x, y)
    BY DEF AllOnce, Apart, Echoed
  <1>1. v \in DOMAIN W /\ w \in DOMAIN W
    BY DEF Echoed
  <1>2. PICK a \in TabsIn(W[v].regions) : Echo(x, a)
    BY DEF Echoed
  <1>3. PICK b \in TabsIn(W[w].regions) : Echo(y, b)
    BY DEF Echoed
  <1>4. Unlike(a, b)
    BY <1>1 DEF AllOnce, Apart
  <1> QED  BY <1>2, <1>3, <1>4, EchoesUnlike

LEMMA CaptureIs ==
  ASSUME ScreenInv
  PROVE  /\ GoodWindow(Capture) /\ (TreeMatches(Screen) => TreeMatches(Capture))
         /\ Capture.layout = layout
         /\ Shape(Capture.regions, Capture.focused) = Shape(regions, focusedRegionId)
         /\ \A x \in TabsIn(Capture.regions) :
              \E a \in TabsIn(regions) : x = Awake(a) /\ a \in Tab /\ Echo(x, a)
  <1> DEFINE new == MapTabs(regions, Awake)
  <1>1. GoodRegions(regions) /\ layout \in Seq(RegionIds) /\ IsInjective(layout)
        /\ focusedRegionId \in RegionIds
    BY DEF ScreenInv, GoodWindow, Screen
  <1>2. Capture.layout = layout /\ Capture.focused = focusedRegionId /\ Capture.regions = new
    BY DEF Capture
  <1>3. Image(new, regions) /\ \A x \in TabsIn(new) : \E a \in TabsIn(regions) : x = Awake(a) /\ a \in Tab
    BY <1>1, AwakeImage
  <1> HIDE DEF new
  <1>4. GoodRegions(new)
    BY <1>1, <1>3, ImageGood
  <1>5. Shape(new, focusedRegionId) = Shape(regions, focusedRegionId)
    BY <1>3, ShapeOfImage
  <1>6. TreeMatches(Screen) => TreeMatches(Capture)
    BY <1>2, <1>3, ScreenParts DEF TreeMatches, Image
  <1>7. \A a \in Tab : Echo(Awake(a), a)
    BY AwakeTab DEF Echo
  <1> QED  BY <1>1, <1>2, <1>3, <1>4, <1>5, <1>6, <1>7 DEF GoodWindow

LEMMA CapturedIs ==
  /\ DOMAIN Captured = DOMAIN savedLayout \cup {activeWorkspaceId}
  /\ Captured[activeWorkspaceId] = Capture
  /\ \A v \in DOMAIN savedLayout \ {activeWorkspaceId} : Captured[v] = savedLayout[v]
  BY DEF Captured

\* The captured window is as good as the one on the screen.
LEMMA CapturedGood ==
  ASSUME WsInv
  PROVE  /\ \A v \in DOMAIN Captured : GoodWindow(Captured[v])
         /\ AllOnce(Captured)
         /\ ~torn => \A v \in DOMAIN Captured : TreeMatches(Captured[v])
  <1> DEFINE active == activeWorkspaceId
             V == Captured
             W == WindowOf
  <1>1. ScreenInv /\ Behind
    BY DEF WsInv
  <1>2. GoodWindow(Capture) /\ (TreeMatches(Screen) => TreeMatches(Capture))
        /\ \A x \in TabsIn(Capture.regions) : \E a \in TabsIn(regions) : Echo(x, a)
    BY <1>1, CaptureIs
  <1>3. DOMAIN V = DOMAIN W /\ active \in DOMAIN W /\ V[active] = Capture /\ W[active].regions = regions
        /\ \A v \in DOMAIN V \ {active} : v \in DOMAIN savedLayout /\ V[v] = savedLayout[v] /\ W[v] = V[v]
    BY CapturedIs, WindowsAre, ScreenParts
  <1> HIDE DEF V, W, active
  <1>4. \A v \in DOMAIN V : GoodWindow(V[v])
    BY <1>1, <1>2, <1>3 DEF Behind
  <1>5. ~torn => \A v \in DOMAIN V : TreeMatches(V[v])
    BY <1>1, <1>2, <1>3 DEF Behind
  <1>6. Echoed(V, W)
    <2> SUFFICES ASSUME NEW v \in DOMAIN V, NEW x \in TabsIn(V[v].regions)
                 PROVE  v \in DOMAIN W /\ \E a \in TabsIn(W[v].regions) : Echo(x, a)
      BY <1>4 DEF Echoed, GoodWindow, GoodRegions
    <2>1. CASE v = active
      BY <1>2, <1>3, <2>1
    <2>2. CASE v # active
      BY <1>3, <2>2 DEF Echo
    <2> QED  BY <2>1, <2>2
  <1>7. AllOnce(V)
    BY <1>1, <1>6, EchoesOnce DEF Behind, W
  <1> QED  BY <1>4, <1>5, <1>7 DEF V

\* What is shown after a switch to w.
LEMMA Shown ==
  ASSUME WsInv, NEW w, NEW r \in RegionIds, Show(w, r)
  PROVE  /\ GoodWindow(Screen') /\ (~torn => TreeMatches(Screen'))
         /\ spawns' \in Seq(Calls)
         /\ w \in DOMAIN savedLayout =>
              /\ layout' = savedLayout[w].layout /\ regions' = savedLayout[w].regions
              /\ focusedRegionId' = savedLayout[w].focused
         /\ w \notin DOMAIN savedLayout => TabsIn(regions') = {}
  <1> DEFINE s == Stored(w, r)
  <1>1. GoodWindow(s) /\ (~torn => TreeMatches(s))
    <2>1. CASE w \in DOMAIN savedLayout
      BY <2>1 DEF Stored, WsInv, Behind
    <2>2. CASE w \notin DOMAIN savedLayout
      BY <2>2, EmptyWindow DEF Stored
    <2> QED  BY <2>1, <2>2
  <1>2. /\ layout' = s.layout /\ regions' = s.regions /\ focusedRegionId' = s.focused
        /\ spawns' = spawns \o SetToSeq(WakeCalls(s.regions))
    BY DEF Show
  <1>3. w \in DOMAIN savedLayout => s = savedLayout[w]
    BY DEF Stored
  <1>4. w \notin DOMAIN savedLayout => TabsIn(s.regions) = {}
    BY EmptyWindow DEF Stored
  <1> HIDE DEF s
  <1>5. GoodWindow(Screen') /\ (~torn => TreeMatches(Screen'))
    BY <1>1, <1>2, ScreenParts DEF GoodWindow, TreeMatches
  <1>6. spawns' \in Seq(Calls)
    <2> DEFINE c == SetToSeq(WakeCalls(s.regions))
    <2>1. c \in Seq(Calls)
      BY <1>1, WakeCallsTyped DEF GoodWindow
    <2> HIDE DEF c
    <2>2. spawns \in Seq(Calls) /\ spawns' = spawns \o c
      BY <1>2 DEF c, WsInv, ScreenInv
    <2> QED  BY <2>1, <2>2
  <1> QED  BY <1>2, <1>3, <1>4, <1>5, <1>6

\* The tabs a switch captures: what they have for a shell.
LEMMA CapturedTabs ==
  ASSUME WsInv
  PROVE  \A v \in DOMAIN Captured : \A x \in TabsIn(Captured[v].regions) :
           /\ ~torn => x.session \in live \cup exited \cup {None}
           /\ Dead(x) => x.id \in stranded \cup PendingTabs(regions)
  <1> SUFFICES ASSUME NEW v \in DOMAIN Captured, NEW x \in TabsIn(Captured[v].regions)
               PROVE  /\ ~torn => x.session \in live \cup exited \cup {None}
                      /\ Dead(x) => x.id \in stranded \cup PendingTabs(regions)
    OBVIOUS
  <1>1. \A w \in DOMAIN WindowOf : \A a \in TabsIn(WindowOf[w].regions) :
           /\ ~torn => a.session \in live \cup exited \cup {None}
           /\ Dead(a) => a.id \in stranded
    BY WindowsAre DEF WsInv, Shelled, Excused
  <1>2. CASE v = activeWorkspaceId
    <2>1. x \in TabsIn(Capture.regions) /\ ScreenInv
      BY <1>2, CapturedIs DEF WsInv
    <2>2. PICK a \in TabsIn(regions) : x = Awake(a) /\ a \in Tab
      BY <2>1, CaptureIs
    <2>3. /\ x.id = a.id /\ x.view = a.view /\ x.session = a.session
      BY <2>2, AwakeTab
    <2>4. /\ ~torn => a.session \in live \cup exited \cup {None}
          /\ Dead(a) => a.id \in stranded
      BY <1>1, WindowsAre, ScreenParts
    <2>5. Dead(x) => Dead(a) \/ a.pending
      BY <2>3 DEF Dead
    <2>6. a.pending => a.id \in PendingTabs(regions)
      BY DEF PendingTabs
    <2> QED  BY <2>3, <2>4, <2>5, <2>6
  <1>3. CASE v # activeWorkspaceId
    BY <1>1, <1>3, CapturedIs, WindowsAre
  <1> QED  BY <1>2, <1>3

\* The windows after a step hold nothing but tabs of W.
Within(W) == \A v \in DOMAIN WindowOf' : \A x \in TabsIn(WindowOf'[v].regions) :
               v \in DOMAIN W /\ x \in TabsIn(W[v].regions)

LEMMA WithinOnce ==
  ASSUME NEW W, AllOnce(W), Within(W), GoodWindow(Screen'),
         \A v \in DOMAIN savedLayout' : GoodWindow(savedLayout'[v])
  PROVE  AllOnce(WindowOf')
  <1> DEFINE V == WindowOf'
  <1>1. \A v \in DOMAIN V : GoodWindow(V[v])
    BY NextWindowsAre
  <1>2. Echoed(V, W)
    <2>1. \A v \in DOMAIN V : \A x \in TabsIn(V[v].regions) :
            v \in DOMAIN W /\ x \in TabsIn(W[v].regions)
      BY DEF Within
    <2> HIDE DEF V
    <2> QED  BY <1>1, <2>1 DEF Echoed, Echo, GoodWindow, GoodRegions
  <1> HIDE DEF V
  <1>3. AllOnce(V)
    BY <1>2, EchoesOnce
  <1> QED  BY <1>3 DEF V

LEMMA SwitchKeeps ==
  ASSUME WsInv, NEW w, NEW r \in RegionIds, w # activeWorkspaceId, SwitchTo(w, r), Booked'
  PROVE  WsInv'
  <1>1. /\ Show(w, r) /\ savedLayout' = Captured /\ activeWorkspaceId' = w
        /\ stranded' = stranded \cup PendingTabs(regions) /\ UNCHANGED <<live, exited, unmounted, torn>>
    BY DEF SwitchTo, ptyVars
  <1>2. /\ GoodWindow(Screen') /\ (~torn => TreeMatches(Screen'))
        /\ spawns' \in Seq(Calls)
        /\ w \in DOMAIN savedLayout => /\ layout' = savedLayout[w].layout
                                       /\ regions' = savedLayout[w].regions
                                       /\ focusedRegionId' = savedLayout[w].focused
        /\ w \notin DOMAIN savedLayout => TabsIn(regions') = {}
    BY <1>1, Shown
  <1>3. ScreenInv'
    BY <1>1, <1>2 DEF ScreenInv, WsInv
  <1>4. /\ \A v \in DOMAIN Captured : GoodWindow(Captured[v])
        /\ AllOnce(Captured)
        /\ ~torn => \A v \in DOMAIN Captured : TreeMatches(Captured[v])
    BY CapturedGood
  <1>5. w \in DOMAIN Captured <=> w \in DOMAIN savedLayout
    BY CapturedIs
  <1>6. w \in DOMAIN savedLayout => Captured[w] = savedLayout[w]
    BY CapturedIs
  <1>7. Within(Captured)
    <2> SUFFICES ASSUME NEW v \in DOMAIN WindowOf', NEW x \in TabsIn(WindowOf'[v].regions)
                 PROVE  v \in DOMAIN Captured /\ x \in TabsIn(Captured[v].regions)
      BY DEF Within
    <2>1. CASE v = w
      <3>1. x \in TabsIn(regions')
        BY <1>1, <2>1, NextWindowsAre, ScreenParts
      <3> QED  BY <1>2, <1>5, <1>6, <2>1, <3>1
    <2>2. CASE v # w
      BY <1>1, <2>2, NextWindowsAre
    <2> QED  BY <2>1, <2>2
  <1>8. AllOnce(WindowOf')
    BY <1>1, <1>2, <1>4, <1>7, WithinOnce
  <1>9. Behind'
    BY <1>1, <1>2, <1>4, <1>8 DEF Behind
  <1>10. \A v \in DOMAIN WindowOf' : \A x \in TabsIn(WindowOf'[v].regions) :
           /\ ~torn => x.session \in live \cup exited \cup {None}
           /\ Dead(x) => x.id \in stranded \cup PendingTabs(regions)
    BY <1>7, CapturedTabs DEF Within
  <1>11. Shelled' /\ Excused'
    BY <1>1, <1>10, NextWindowsAre DEF Shelled, Excused
  <1>12. DiskFollowsStore'
    <2>1. CASE w \in DOMAIN savedLayout
      BY <1>1, <1>2, <1>5, <1>6, <2>1 DEF DiskFollowsStore
    <2>2. CASE w \notin DOMAIN savedLayout
      BY <1>1, <1>2, <1>5, <2>2 DEF DiskFollowsStore
    <2> QED  BY <2>1, <2>2
  <1> QED  BY <1>3, <1>9, <1>11, <1>12 DEF WsInv

LEMMA CaptureKeeps ==
  ASSUME WsInv, CaptureActiveWorkspace
  PROVE  WsInv'
  <1>1. /\ savedLayout' = Captured /\ saveTimer' = FALSE
        /\ UNCHANGED <<layoutVars, spawns, ptyVars, unmounted, torn, order, activeWorkspaceId, stranded>>
    BY DEF CaptureActiveWorkspace
  <1>2. Screen' = Screen /\ ScreenInv /\ Booked /\ UNCHANGED <<live, exited, torn>>
    BY <1>1 DEF Screen, layoutVars, ptyVars, WsInv
  <1>3. ScreenInv'
    BY <1>1, <1>2 DEF ScreenInv, layoutVars, ptyVars
  <1>4. Booked'
    BY <1>1, <1>2, CapturedIs DEF Booked
  <1>5. WindowOf' = WindowOf
    <2>1. DOMAIN WindowOf' = DOMAIN WindowOf
      BY <1>1, CapturedIs, WindowsAre, NextWindowsAre
    <2>2. \A w \in DOMAIN WindowOf : WindowOf'[w] = WindowOf[w]
      BY <1>1, <1>2, CapturedIs, WindowsAre, NextWindowsAre
    <2>3. DOMAIN savedLayout' \cup {activeWorkspaceId'} = DOMAIN savedLayout \cup {activeWorkspaceId}
      BY <1>1, CapturedIs
    <2>4. \A w \in DOMAIN savedLayout \cup {activeWorkspaceId} :
             (IF w = activeWorkspaceId' THEN Screen' ELSE savedLayout'[w])
             = (IF w = activeWorkspaceId THEN Screen ELSE savedLayout[w])
      BY <1>1, <1>2, CapturedIs
    <2> QED  BY <2>3, <2>4 DEF WindowOf
  <1>6. Behind'
    BY <1>1, <1>2, <1>5, CapturedGood DEF WsInv, Behind
  <1>7. Shelled' /\ Excused'
    BY <1>1, <1>2, <1>5 DEF Shelled, Excused, Windows, WsInv
  <1>8. DiskFollowsStore'
    <2>1. activeWorkspaceId' \in DOMAIN savedLayout' /\ savedLayout'[activeWorkspaceId'] = Capture
      BY <1>1, CapturedIs
    <2>2. Capture.layout = layout' /\ regions' = regions /\ focusedRegionId' = focusedRegionId
      BY <1>1, <1>2, CaptureIs DEF layoutVars
    <2>3. Shape(Capture.regions, Capture.focused) = Shape(regions', focusedRegionId')
      BY <1>2, <2>2, CaptureIs
    <2> QED  BY <2>1, <2>2, <2>3 DEF DiskFollowsStore
  <1> QED  BY <1>3, <1>4, <1>6, <1>7, <1>8 DEF WsInv

Appended(t, s, e) == t = Append(s, e)

LEMMA AppendedOnce ==
  ASSUME NEW S, NEW s \in Seq(S), IsInjective(s), NEW e \in S, e \notin Range(s),
         NEW t, Appended(t, s, e)
  PROVE  t \in Seq(S) /\ IsInjective(t) /\ Range(t) = Range(s) \cup {e}
  <1> DEFINE n == Len(s)
             m == n + 1
  <1>1. /\ t \in Seq(S) /\ DOMAIN t = 1..m /\ DOMAIN s = 1..n /\ n \in Nat
        /\ t[m] = e /\ \A i \in 1..n : t[i] = s[i]
    BY DEF Appended
  <1>2. \A i \in DOMAIN t : i = m \/ i \in DOMAIN s
    BY <1>1
  <1>3. m \in DOMAIN t /\ \A i \in DOMAIN s : i \in DOMAIN t
    BY <1>1
  <1> HIDE DEF n, m
  <1>4. \A i \in DOMAIN s : t[i] = s[i] /\ s[i] # e
    BY <1>1 DEF Range
  <1>5. IsInjective(t)
    BY <1>1, <1>2, <1>3, <1>4 DEF IsInjective
  <1>6. Range(t) = Range(s) \cup {e}
    BY <1>1, <1>2, <1>3, <1>4 DEF Range
  <1> QED  BY <1>1, <1>5, <1>6

LEMMA SwitchWorkspaceKeeps ==
  ASSUME WsInv, NEW w, NEW r \in RegionIds, SwitchWorkspace(w, r), ScheduleAutoCapture
  PROVE  WsInv'
  <1>1. w # activeWorkspaceId /\ w \in Range(order) /\ SwitchTo(w, r) /\ order' = order
    BY DEF SwitchWorkspace
  <1>2. saveTimer' \in BOOLEAN
    BY Zenon DEF ScheduleAutoCapture
  <1>3. savedLayout' = Captured /\ activeWorkspaceId' = w
    BY <1>1 DEF SwitchTo
  <1>4. Booked'
    BY <1>1, <1>2, <1>3, CapturedIs DEF Booked, WsInv
  <1> QED  BY <1>1, <1>4, SwitchKeeps

LEMMA AddWorkspaceKeeps ==
  ASSUME WsInv, NEW w \in WorkspaceIds, NEW r \in RegionIds, AddWorkspace(w, r), ScheduleAutoCapture
  PROVE  WsInv'
  <1>1. w \notin Range(order) /\ SwitchTo(w, r) /\ order' = Append(order, w)
    BY DEF AddWorkspace
  <1>2. saveTimer' \in BOOLEAN
    BY Zenon DEF ScheduleAutoCapture
  <1>3. savedLayout' = Captured /\ activeWorkspaceId' = w
    BY <1>1 DEF SwitchTo
  <1>4. /\ order' \in Seq(WorkspaceIds) /\ IsInjective(order') /\ Range(order') = Range(order) \cup {w}
    <2>1. order \in Seq(WorkspaceIds) /\ IsInjective(order)
      BY DEF WsInv, Booked
    <2> DEFINE t == order'
    <2>2. Appended(t, order, w) /\ w \notin Range(order)
      BY <1>1 DEF Appended
    <2> HIDE DEF t
    <2>3. t \in Seq(WorkspaceIds) /\ IsInjective(t) /\ Range(t) = Range(order) \cup {w}
      BY <2>1, <2>2, AppendedOnce
    <2> QED  BY <2>3 DEF t
  <1>5. Booked'
    BY <1>2, <1>3, <1>4, CapturedIs DEF Booked, WsInv
  <1>6. w # activeWorkspaceId
    BY <1>1 DEF WsInv, Booked
  <1> QED  BY <1>1, <1>5, <1>6, SwitchKeeps

LEMMA RemoveWorkspaceKeeps ==
  ASSUME WsInv, NEW w, NEW r \in RegionIds, RemoveWorkspace(w, r), ScheduleAutoCapture
  PROVE  WsInv'
  <1> DEFINE active == activeWorkspaceId
             h      == activeWorkspaceId'
  <1>1. /\ w \in Range(order) /\ Len(order) > 1 /\ order' = Leaving(order, w)
        /\ savedLayout' = [x \in DOMAIN savedLayout \ {w} |-> savedLayout[x]]
        /\ UNCHANGED <<stranded, live, exited, unmounted, torn>>
    BY DEF RemoveWorkspace, ptyVars
  <1>2. saveTimer' \in BOOLEAN
    BY Zenon DEF ScheduleAutoCapture
  <1>3. /\ order' \in Seq(WorkspaceIds) /\ IsInjective(order') /\ Range(order') = Range(order) \ {w}
        /\ Len(order') > 0
    <2>1. order \in Seq(WorkspaceIds) /\ IsInjective(order)
      BY DEF WsInv, Booked
    <2>2. Len(Leaving(order, w)) = Len(order) - 1 /\ Len(order) \in Nat
      BY <1>1, <2>1, LeavingInjective
    <2>3. Len(order') > 0
      BY <1>1, <2>2
    <2> QED  BY <1>1, <2>1, <2>3, LeavingInjective
  <1>4. DOMAIN savedLayout' = DOMAIN savedLayout \ {w}
        /\ \A v \in DOMAIN savedLayout' : savedLayout'[v] = savedLayout[v]
    BY <1>1
  <1>5. /\ GoodWindow(Screen') /\ (~torn => TreeMatches(Screen'))
        /\ h \in Range(order') /\ spawns' \in Seq(Calls)
        /\ Within(WindowOf) /\ DiskFollowsStore'
    <2>1. CASE w = active
      <3>1. h = Head(order') /\ Show(h, r)
        BY <2>1 DEF RemoveWorkspace
      <3>2. h \in Range(order') /\ h # w
        BY <1>3, <3>1, HeadIs
      <3>3. /\ GoodWindow(Screen') /\ (~torn => TreeMatches(Screen')) /\ spawns' \in Seq(Calls)
            /\ h \in DOMAIN savedLayout => /\ layout' = savedLayout[h].layout
                                           /\ regions' = savedLayout[h].regions
                                           /\ focusedRegionId' = savedLayout[h].focused
            /\ h \notin DOMAIN savedLayout => TabsIn(regions') = {}
        BY <3>1, Shown
      <3>4. Within(WindowOf)
        <4> SUFFICES ASSUME NEW v \in DOMAIN WindowOf', NEW x \in TabsIn(WindowOf'[v].regions)
                     PROVE  v \in DOMAIN WindowOf /\ x \in TabsIn(WindowOf[v].regions)
          BY DEF Within
        <4>1. CASE v = h
          <5>1. x \in TabsIn(regions')
            BY <4>1, NextWindowsAre, ScreenParts
          <5>2. h \in DOMAIN savedLayout \ {active} /\ x \in TabsIn(savedLayout[h].regions)
            BY <2>1, <3>2, <3>3, <5>1
          <5> QED  BY <4>1, <5>2, WindowsAre
        <4>2. CASE v # h
          <5>1. v \in DOMAIN savedLayout \ {active} /\ WindowOf'[v] = savedLayout[v]
            BY <1>4, <2>1, <4>2, NextWindowsAre
          <5> QED  BY <5>1, WindowsAre
        <4> QED  BY <4>1, <4>2
      <3>5. DiskFollowsStore'
        <4>1. CASE h \in DOMAIN savedLayout
          BY <1>4, <3>2, <3>3, <4>1 DEF DiskFollowsStore
        <4>2. CASE h \notin DOMAIN savedLayout
          BY <1>4, <3>3, <4>2 DEF DiskFollowsStore
        <4> QED  BY <4>1, <4>2
      <3> QED  BY <3>2, <3>3, <3>4, <3>5
    <2>2. CASE w # active
      <3>1. /\ h = active /\ UNCHANGED <<layout, regions, focusedRegionId, spawns>>
        BY <2>2 DEF RemoveWorkspace, layoutVars
      <3>2. Screen' = Screen
        BY <3>1 DEF Screen
      <3>3. GoodWindow(Screen) /\ (~torn => TreeMatches(Screen)) /\ spawns \in Seq(Calls)
        BY DEF WsInv, ScreenInv, Behind
      <3>4. h \in Range(order')
        BY <1>3, <2>2, <3>1 DEF WsInv, Booked
      <3>5. Within(WindowOf)
        BY <1>4, <2>2, <3>1, <3>2, WindowsAre, NextWindowsAre DEF Within
      <3>6. DiskFollowsStore'
        <4>1. ~saveTimer' => ~saveTimer
          BY DEF ScheduleAutoCapture
        <4> QED  BY <1>4, <2>2, <3>1, <4>1 DEF WsInv, DiskFollowsStore
      <3> QED  BY <3>1, <3>2, <3>3, <3>4, <3>5, <3>6
    <2> QED  BY <2>1, <2>2
  <1>6. ScreenInv'
    BY <1>1, <1>5 DEF ScreenInv, WsInv
  <1>7. Booked'
    BY <1>2, <1>3, <1>4, <1>5 DEF Booked, WsInv
  <1>8. /\ \A v \in DOMAIN savedLayout' : GoodWindow(savedLayout'[v])
        /\ AllOnce(savedLayout')
        /\ ~torn => \A v \in DOMAIN savedLayout' : TreeMatches(savedLayout'[v])
    BY <1>4 DEF WsInv, Behind, AllOnce
  <1>9. AllOnce(WindowOf')
    BY <1>5, <1>8, WithinOnce DEF WsInv, Behind
  <1>10. Behind'
    BY <1>1, <1>5, <1>8, <1>9 DEF Behind
  <1>11. \A v \in DOMAIN WindowOf : \A x \in TabsIn(WindowOf[v].regions) :
           /\ ~torn => x.session \in live \cup exited \cup {None}
           /\ Dead(x) => x.id \in stranded
    BY WindowsAre DEF WsInv, Shelled, Excused
  <1>12. \A v \in DOMAIN WindowOf' : \A x \in TabsIn(WindowOf'[v].regions) :
           /\ ~torn => x.session \in live \cup exited \cup {None}
           /\ Dead(x) => x.id \in stranded
    BY <1>5, <1>11 DEF Within
  <1>13. UNCHANGED <<torn, live, exited, stranded>>
    BY <1>1
  <1>14. Shelled' /\ Excused'
    BY <1>12, <1>13, NextWindowsAre DEF Shelled, Excused
  <1> QED  BY <1>5, <1>6, <1>7, <1>10, <1>14 DEF WsInv

LEMMA FromDiskIs ==
  ASSUME NEW s, GoodWindow(s)
  PROVE  /\ GoodWindow(FromDisk(s)) /\ (TreeMatches(s) => TreeMatches(FromDisk(s)))
         /\ \A x \in TabsIn(FromDisk(s).regions) :
              /\ x \in Tab /\ x.session = None /\ ~Dead(x)
              /\ \E a \in TabsIn(s.regions) : Echo(x, a)
  <1> DEFINE rs  == s.regions
             new == MapTabs(rs, Asleep)
  <1>1. GoodRegions(rs)
    BY DEF GoodWindow
  <1>2. FromDisk(s).layout = s.layout /\ FromDisk(s).focused = s.focused /\ FromDisk(s).regions = new
    BY DEF FromDisk
  <1> HIDE DEF rs
  <1>3. Image(new, rs) /\ \A x \in TabsIn(new) : \E a \in TabsIn(rs) : x = Asleep(a) /\ a \in Tab
    BY <1>1, AsleepImage
  <1> HIDE DEF new
  <1>4. GoodRegions(new)
    BY <1>1, <1>3, ImageGood
  <1>5. TreeMatches(s) => TreeMatches(FromDisk(s))
    BY <1>2, <1>3 DEF TreeMatches, Image, rs
  <1>6. ASSUME NEW x \in TabsIn(new)
        PROVE  /\ x \in Tab /\ x.session = None /\ ~Dead(x)
               /\ \E a \in TabsIn(rs) : Echo(x, a)
    <2>1. PICK a \in TabsIn(rs) : x = Asleep(a) /\ a \in Tab
      BY <1>3
    <2>2. Mute(a)
      BY <1>1 DEF GoodRegions
    <2> QED  BY <2>1, <2>2, AsleepTab DEF Mute, Dead, Echo
  <1> QED  BY <1>2, <1>4, <1>5, <1>6 DEF GoodWindow, rs

\* What is read from disk is as good as what was written.
LEMMA DiskIs ==
  ASSUME NEW saved, AllOnce(saved), \A w \in DOMAIN saved : GoodWindow(saved[w]),
         NEW disk, disk = [w \in DOMAIN saved |-> FromDisk(saved[w])]
  PROVE  /\ DOMAIN disk = DOMAIN saved /\ AllOnce(disk)
         /\ \A w \in DOMAIN disk :
              /\ GoodWindow(disk[w]) /\ (TreeMatches(saved[w]) => TreeMatches(disk[w]))
              /\ \A x \in TabsIn(disk[w].regions) : x \in Tab /\ x.session = None /\ ~Dead(x)
  <1>1. DOMAIN disk = DOMAIN saved /\ \A w \in DOMAIN disk : disk[w] = FromDisk(saved[w])
    OBVIOUS
  <1>2. ASSUME NEW w \in DOMAIN disk
        PROVE  /\ GoodWindow(disk[w]) /\ (TreeMatches(saved[w]) => TreeMatches(disk[w]))
               /\ \A x \in TabsIn(disk[w].regions) :
                    /\ x \in Tab /\ x.session = None /\ ~Dead(x)
                    /\ \E a \in TabsIn(saved[w].regions) : Echo(x, a)
    <2> DEFINE s == saved[w]
    <2>1. GoodWindow(s) /\ disk[w] = FromDisk(s)
      BY <1>1
    <2> HIDE DEF s
    <2>2. GoodWindow(FromDisk(s)) /\ (TreeMatches(s) => TreeMatches(FromDisk(s)))
      BY <2>1, FromDiskIs
    <2>3. \A x \in TabsIn(FromDisk(s).regions) :
            /\ x \in Tab /\ x.session = None /\ ~Dead(x)
            /\ \E a \in TabsIn(s.regions) : Echo(x, a)
      BY <2>1, FromDiskIs
    <2> QED  BY <2>1, <2>2, <2>3 DEF s
  <1>3. Echoed(disk, saved)
    BY <1>1, <1>2 DEF Echoed, GoodWindow, GoodRegions
  <1>4. AllOnce(disk)
    BY <1>3, EchoesOnce
  <1> QED  BY <1>1, <1>2, <1>4

LEMMA SaneIs ==
  ASSUME NEW s, GoodWindow(s), TabsIn(s.regions) # {}
  PROVE  /\ GoodWindow(Sane(s)) /\ Sane(s).regions = s.regions
         /\ TreeMatches(s) => TreeMatches(Sane(s))
  <1> DEFINE some  == CHOOSE r \in DOMAIN s.regions : TRUE
             whole == Range(s.layout) \subseteq DOMAIN s.regions
  <1>1. some \in DOMAIN s.regions /\ some \in RegionIds
    <2>1. PICK x \in TabsIn(s.regions) : TRUE
      OBVIOUS
    <2>2. \E r \in DOMAIN s.regions : TRUE
      BY <2>1, TabsInRegion
    <2>3. DOMAIN s.regions \subseteq RegionIds
      BY DEF GoodWindow, GoodRegions
    <2> QED  BY <2>2, <2>3
  <1>2. /\ Sane(s).layout = (IF whole THEN s.layout ELSE <<some>>)
        /\ Sane(s).focused = (IF whole /\ s.focused \in DOMAIN s.regions THEN s.focused ELSE some)
        /\ Sane(s).regions = s.regions
    BY DEF Sane
  <1> HIDE DEF some
  <1>3. <<some>> \in Seq(RegionIds) /\ IsInjective(<<some>>)
    BY <1>1 DEF IsInjective
  <1>4. GoodWindow(Sane(s))
    BY <1>1, <1>2, <1>3 DEF GoodWindow
  <1>5. TreeMatches(s) => TreeMatches(Sane(s))
    BY <1>2 DEF TreeMatches
  <1> QED  BY <1>2, <1>4, <1>5

LEMMA PendingTabsTyped ==
  ASSUME NEW disk, \A w \in DOMAIN disk : \A x \in TabsIn(disk[w].regions) : x \in Tab
  PROVE  UNION {PendingTabs(disk[w].regions) : w \in DOMAIN disk} \subseteq TabIds
  <1>1. ASSUME NEW w \in DOMAIN disk, NEW t \in PendingTabs(disk[w].regions) PROVE t \in TabIds
    <2>1. PICK x \in TabsIn(disk[w].regions) : t = x.id
      BY DEF PendingTabs
    <2> QED  BY <2>1 DEF Tab
  <1> QED  BY <1>1

\* The application comes up: with the window s on the screen, which is that of the
\* active workspace on disk or has no tabs.
LEMMA BootKeeps ==
  ASSUME /\ order' \in Seq(WorkspaceIds) /\ IsInjective(order') /\ activeWorkspaceId' \in Range(order')
         /\ DOMAIN savedLayout' \subseteq Range(order'),
         /\ AllOnce(savedLayout')
         /\ \A w \in DOMAIN savedLayout' :
              /\ GoodWindow(savedLayout'[w]) /\ (~torn' => TreeMatches(savedLayout'[w]))
              /\ \A x \in TabsIn(savedLayout'[w].regions) : x \in Tab /\ x.session = None /\ ~Dead(x),
         /\ GoodWindow(Screen') /\ (~torn' => TreeMatches(Screen'))
         /\ TabsIn(regions') # {} =>
              /\ activeWorkspaceId' \in DOMAIN savedLayout'
              /\ regions' = savedLayout'[activeWorkspaceId'].regions,
         /\ spawns' \in Seq(Calls) /\ unmounted' \subseteq TabIds
         /\ live' = {} /\ exited' = {} /\ stranded' = {}
         /\ torn' \in BOOLEAN /\ saveTimer' \in BOOLEAN,
         ~saveTimer' =>
           /\ TabsIn(regions') = {}
           /\ activeWorkspaceId' \in DOMAIN savedLayout' =>
                TabsIn(savedLayout'[activeWorkspaceId'].regions) = {}
  PROVE  WsInv'
  <1>1. ScreenInv' /\ Booked'
    BY DEF ScreenInv, Booked
  <1>2. Within(savedLayout')
    <2> SUFFICES ASSUME NEW v \in DOMAIN WindowOf', NEW x \in TabsIn(WindowOf'[v].regions)
                 PROVE  v \in DOMAIN savedLayout' /\ x \in TabsIn(savedLayout'[v].regions)
      BY DEF Within
    <2>1. CASE v = activeWorkspaceId'
      <3>1. x \in TabsIn(regions')
        BY <2>1, NextWindowsAre, ScreenParts
      <3> QED  BY <2>1, <3>1
    <2>2. CASE v # activeWorkspaceId'
      BY <2>2, NextWindowsAre
    <2> QED  BY <2>1, <2>2
  <1>3. AllOnce(WindowOf')
    BY <1>2, WithinOnce
  <1>4. Behind'
    BY <1>3 DEF Behind
  <1>5. \A v \in DOMAIN WindowOf' : \A x \in TabsIn(WindowOf'[v].regions) :
          x.session = None /\ ~Dead(x)
    BY <1>2 DEF Within
  <1>6. Shelled' /\ Excused'
    BY <1>5, NextWindowsAre DEF Shelled, Excused
  <1>7. DiskFollowsStore'
    BY DEF DiskFollowsStore
  <1> QED  BY <1>1, <1>4, <1>6, <1>7 DEF WsInv

LEMMA RestartKeeps ==
  ASSUME WsInv, NEW r \in RegionIds, Restart(r)
  PROVE  WsInv'
  <1> DEFINE active == activeWorkspaceId
             disk == [w \in DOMAIN savedLayout |-> FromDisk(savedLayout[w])]
             none == active \notin DOMAIN savedLayout \/ TabsIn(disk[active].regions) = {}
             s    == IF none THEN OneEmptyRegion(r) ELSE Sane(disk[active])
  <1>1. /\ order' = order /\ activeWorkspaceId' = active /\ savedLayout' = disk
        /\ layout' = s.layout /\ regions' = s.regions /\ focusedRegionId' = s.focused
        /\ spawns' = IF none THEN <<[kind |-> "tab", region |-> r]>> ELSE <<>>
        /\ unmounted' = UNION {PendingTabs(disk[w].regions) : w \in DOMAIN disk}
        /\ live' = {} /\ exited' = {} /\ stranded' = {}
        /\ saveTimer' = ~none
        /\ torn' = torn
    BY DEF Restart, BootsFrom
  <1>2. /\ DOMAIN disk = DOMAIN savedLayout /\ AllOnce(disk)
        /\ \A w \in DOMAIN disk :
              /\ GoodWindow(disk[w]) /\ (TreeMatches(savedLayout[w]) => TreeMatches(disk[w]))
              /\ \A x \in TabsIn(disk[w].regions) : x \in Tab /\ x.session = None /\ ~Dead(x)
    <2> HIDE DEF disk
    <2>1. disk = [w \in DOMAIN savedLayout |-> FromDisk(savedLayout[w])]
      BY DEF disk
    <2>2. AllOnce(savedLayout) /\ \A w \in DOMAIN savedLayout : GoodWindow(savedLayout[w])
      BY DEF WsInv, Behind
    <2> QED  BY <2>1, <2>2, DiskIs
  <1> HIDE DEF disk
  <1>3. ~torn => \A w \in DOMAIN disk : TreeMatches(disk[w])
    BY <1>2 DEF WsInv, Behind
  <1>4. GoodWindow(s) /\ (~torn => TreeMatches(s))
        /\ (TabsIn(s.regions) # {} => active \in DOMAIN disk /\ s.regions = disk[active].regions)
    <2>1. CASE none
      BY <2>1, EmptyWindow
    <2>2. CASE ~none
      BY <1>2, <1>3, <2>2, SaneIs
    <2> QED  BY <2>1, <2>2
  <1>5. ~saveTimer' => /\ TabsIn(s.regions) = {}
                       /\ active \in DOMAIN disk => TabsIn(disk[active].regions) = {}
    BY <1>1, <1>2, EmptyWindow
  <1>6. spawns' \in Seq(Calls)
    <2> DEFINE c == [kind |-> "tab", region |-> r]
    <2>1. c \in Calls
      BY DEF Calls
    <2>2. spawns' = <<c>> \/ spawns' = <<>>
      BY <1>1
    <2> HIDE DEF c
    <2>3. <<c>> \in Seq(Calls)
      BY <2>1
    <2>4. <<>> \in Seq(Calls)
      OBVIOUS
    <2> QED  BY <2>2, <2>3, <2>4
  <1>7. saveTimer' \in BOOLEAN
    <2>1. saveTimer' = ~none  BY <1>1
    <2> QED  BY <2>1, Zenon
  <1> HIDE DEF s, none
  <1>8. GoodWindow(Screen') /\ (~torn => TreeMatches(Screen'))
    BY <1>1, <1>4, ScreenParts DEF GoodWindow, TreeMatches
  <1>9. unmounted' \subseteq TabIds
    BY <1>1, <1>2, PendingTabsTyped
  <1>10. torn' \in BOOLEAN /\ Booked
    BY <1>1 DEF WsInv, ScreenInv
  <1> QED  BY <1>1, <1>2, <1>3, <1>4, <1>5, <1>6, <1>7, <1>8, <1>9, <1>10, BootKeeps DEF Booked

LEMMA FirstWindows ==
  ASSUME NEW b \in Boots
  PROVE  /\ \A w \in DOMAIN b.saved : GoodWindow(b.saved[w]) /\ TreeMatches(b.saved[w])
         /\ AllOnce(b.saved)
         /\ b.order \in Seq(WorkspaceIds) /\ IsInjective(b.order)
         /\ b.active \in Range(b.order) /\ DOMAIN b.saved \subseteq Range(b.order)
         /\ b.fresh \in RegionIds
  <1>1. AllOnce(b.saved)
        /\ b.order \in Seq(WorkspaceIds) /\ IsInjective(b.order)
        /\ b.active \in Range(b.order) /\ DOMAIN b.saved \subseteq Range(b.order)
        /\ b.fresh \in RegionIds
    BY BootsAssumption
  <1>2. ASSUME NEW w \in DOMAIN b.saved
        PROVE  GoodWindow(b.saved[w]) /\ TreeMatches(b.saved[w])
    <2> DEFINE s == b.saved[w]
    <2>1. /\ WellTyped(s) /\ TreeMatches(s)
          /\ \A tab \in TabsIn(s.regions) : ~tab.pending /\ (tab.view # Terminal => tab.session = None)
      BY BootsAssumption
    <2>2. EachOnce(s.regions)
      BY <1>1 DEF AllOnce
    <2> HIDE DEF s
    <2>3. IsFiniteSet(DOMAIN s.regions)
      BY <2>1, RangeFinite DEF WellTyped, TreeMatches
    <2>4. GoodWindow(s)
      BY <2>1, <2>2, <2>3 DEF GoodWindow, GoodRegions, WellTyped, TreeMatches, Mute
    <2> QED  BY <2>1, <2>4 DEF s
  <1> QED  BY <1>1, <1>2

LEMMA InitHolds == Init => WsInv
  <1> SUFFICES ASSUME Init PROVE WsInv
    OBVIOUS
  <1> DEFINE first(b) == b.active \notin DOMAIN b.saved
             s(b)     == IF first(b) THEN OneEmptyRegion(b.fresh) ELSE FromDisk(b.saved[b.active])
  <1>1. PICK b \in Boots :
          /\ order = b.order /\ activeWorkspaceId = b.active
          /\ savedLayout = [w \in DOMAIN b.saved |-> FromDisk(b.saved[w])]
          /\ layout = s(b).layout /\ regions = s(b).regions /\ focusedRegionId = s(b).focused
          /\ spawns = IF first(b) THEN <<[kind |-> "tab", region |-> b.fresh]>> ELSE <<>>
          /\ unmounted = UNION {PendingTabs(savedLayout[w].regions) : w \in DOMAIN savedLayout}
          /\ saveTimer = ~first(b)
    BY DEF Init
  <1>2. live = {} /\ exited = {} /\ stranded = {} /\ torn = FALSE
    BY DEF Init
  <1> DEFINE none == first(b)
             win  == s(b)
             disk == savedLayout
  <1>3. /\ \A w \in DOMAIN b.saved : GoodWindow(b.saved[w]) /\ TreeMatches(b.saved[w])
        /\ AllOnce(b.saved)
        /\ b.order \in Seq(WorkspaceIds) /\ IsInjective(b.order)
        /\ b.active \in Range(b.order) /\ DOMAIN b.saved \subseteq Range(b.order)
        /\ b.fresh \in RegionIds
    BY FirstWindows
  <1>4. /\ DOMAIN disk = DOMAIN b.saved /\ AllOnce(disk)
        /\ \A w \in DOMAIN disk :
              /\ GoodWindow(disk[w]) /\ (TreeMatches(b.saved[w]) => TreeMatches(disk[w]))
              /\ \A x \in TabsIn(disk[w].regions) : x \in Tab /\ x.session = None /\ ~Dead(x)
    <2> DEFINE saved == b.saved
    <2>1. disk = [w \in DOMAIN saved |-> FromDisk(saved[w])]
      BY <1>1
    <2>2. AllOnce(saved) /\ \A w \in DOMAIN saved : GoodWindow(saved[w])
      BY <1>3
    <2> HIDE DEF saved, disk
    <2>3. /\ DOMAIN disk = DOMAIN saved /\ AllOnce(disk)
          /\ \A w \in DOMAIN disk :
                /\ GoodWindow(disk[w]) /\ (TreeMatches(saved[w]) => TreeMatches(disk[w]))
                /\ \A x \in TabsIn(disk[w].regions) : x \in Tab /\ x.session = None /\ ~Dead(x)
      BY <2>1, <2>2, DiskIs
    <2> QED  BY <2>3 DEF saved
  <1>5. \A w \in DOMAIN disk : TreeMatches(disk[w])
    BY <1>3, <1>4
  <1>6. /\ GoodWindow(win) /\ TreeMatches(win)
        /\ none => TabsIn(win.regions) = {}
        /\ ~none => activeWorkspaceId \in DOMAIN disk /\ win = disk[activeWorkspaceId]
    <2>1. CASE none
      BY <1>3, <2>1, EmptyWindow
    <2>2. CASE ~none
      BY <1>1, <1>4, <1>5, <2>2
    <2> QED  BY <2>1, <2>2
  <1>7. GoodWindow(Screen) /\ TreeMatches(Screen)
    <2> HIDE DEF win
    <2> QED  BY <1>1, <1>6, ScreenParts DEF GoodWindow, TreeMatches, win
  <1>8. spawns \in Seq(Calls)
    <2> DEFINE c == [kind |-> "tab", region |-> b.fresh]
    <2>1. c \in Calls
      BY <1>3 DEF Calls
    <2>2. spawns = <<c>> \/ spawns = <<>>
      BY <1>1
    <2> HIDE DEF c
    <2>3. <<c>> \in Seq(Calls)
      BY <2>1
    <2>4. <<>> \in Seq(Calls)
      OBVIOUS
    <2> QED  BY <2>2, <2>3, <2>4
  <1>9. unmounted \subseteq TabIds
    <2> HIDE DEF disk
    <2>1. UNION {PendingTabs(disk[w].regions) : w \in DOMAIN disk} \subseteq TabIds
      BY <1>4, PendingTabsTyped
    <2> QED  BY <1>1, <2>1 DEF disk
  <1>10. ScreenInv
    BY <1>2, <1>7, <1>8, <1>9 DEF ScreenInv
  <1>11. saveTimer = ~none
    BY <1>1
  <1>12. activeWorkspaceId \in DOMAIN disk <=> ~none
    BY <1>1, <1>4
  <1>13. regions = win.regions
    BY <1>1
  <1> HIDE DEF none, win, s, first
  <1>14. saveTimer \in BOOLEAN
    BY <1>11, Zenon
  <1>15. Booked
    BY <1>1, <1>3, <1>4, <1>14 DEF Booked
  <1>16. \A v \in DOMAIN WindowOf : \A x \in TabsIn(WindowOf[v].regions) :
           v \in DOMAIN disk /\ x \in TabsIn(disk[v].regions)
    <2> SUFFICES ASSUME NEW v \in DOMAIN WindowOf, NEW x \in TabsIn(WindowOf[v].regions)
                 PROVE  v \in DOMAIN disk /\ x \in TabsIn(disk[v].regions)
      OBVIOUS
    <2>1. CASE v = activeWorkspaceId
      <3>1. x \in TabsIn(regions)
        BY <2>1, WindowsAre, ScreenParts
      <3> QED  BY <1>6, <1>13, <2>1, <3>1
    <2>2. CASE v # activeWorkspaceId
      BY <2>2, WindowsAre
    <2> QED  BY <2>1, <2>2
  <1>17. AllOnce(WindowOf)
    <2>1. \A v \in DOMAIN WindowOf : GoodWindow(WindowOf[v])
      BY <1>4, <1>7, WindowsAre
    <2> DEFINE W == WindowOf
    <2>2. Echoed(W, disk)
      <3> HIDE DEF W
      <3> QED  BY <1>16, <2>1 DEF Echoed, Echo, GoodWindow, GoodRegions, W
    <2> HIDE DEF W
    <2>3. AllOnce(W)
      BY <1>4, <2>2, EchoesOnce
    <2> QED  BY <2>3 DEF W
  <1>18. Behind
    BY <1>4, <1>5, <1>7, <1>17 DEF Behind
  <1>19. \A v \in DOMAIN WindowOf : \A x \in TabsIn(WindowOf[v].regions) :
           x.session = None /\ ~Dead(x)
    BY <1>4, <1>16
  <1>20. Shelled /\ Excused
    BY <1>19, WindowsAre DEF Shelled, Excused
  <1>21. DiskFollowsStore
    BY <1>6, <1>11, <1>12, <1>13 DEF DiskFollowsStore
  <1> QED  BY <1>10, <1>15, <1>18, <1>20, <1>21 DEF WsInv

LEMMA StutterKeeps == WsInv /\ UNCHANGED vars => WsInv'
  <1> SUFFICES ASSUME WsInv, UNCHANGED vars PROVE WsInv'
    OBVIOUS
  <1>1. /\ UNCHANGED <<layout, regions, focusedRegionId, spawns, live, exited, unmounted, torn>>
        /\ UNCHANGED <<order, activeWorkspaceId, savedLayout, stranded, saveTimer>>
    BY DEF vars, layoutVars, ptyVars, wsVars
  <1>2. Screen' = Screen /\ WindowOf' = WindowOf
    BY <1>1 DEF Screen, WindowOf
  <1>3. ScreenInv' /\ Booked'
    BY <1>1, <1>2 DEF WsInv, ScreenInv, Booked
  <1>4. Behind' /\ Shelled' /\ Excused'
    BY <1>1, <1>2 DEF WsInv, Behind, Shelled, Excused, Windows
  <1>5. DiskFollowsStore'
    BY <1>1 DEF WsInv, DiskFollowsStore
  <1> QED  BY <1>3, <1>4, <1>5 DEF WsInv

LEMMA NextKeeps == WsInv /\ [Next]_vars => WsInv'
  <1> SUFFICES ASSUME WsInv, [Next]_vars PROVE WsInv'
    OBVIOUS
  <1>0. /\ ScreenInv
        /\ \A new \in OneOf(FreshRegions) : new \in RegionIds
    BY OneOfIs DEF WsInv, FreshRegions
  <1>1. CASE LayoutOp /\ UNCHANGED wsVars /\ ScheduleAutoCapture
    BY <1>0, <1>1, LayoutOpStep, LayoutStepKeeps
  <1>2. CASE WorkspaceOp /\ ScheduleAutoCapture
    <2>1. PICK w \in WorkspaceIds, new \in RegionIds :
            SwitchWorkspace(w, new) \/ AddWorkspace(w, new) \/ RemoveWorkspace(w, new)
      BY <1>0, <1>2 DEF WorkspaceOp
    <2> QED  BY <1>2, <2>1, SwitchWorkspaceKeeps, AddWorkspaceKeeps, RemoveWorkspaceKeeps
  <1>3. CASE \E new \in OneOf(FreshRegions) : Restart(new)
    BY <1>0, <1>3, RestartKeeps
  <1>4. CASE \E k \in DOMAIN spawns : AnswerStep(k)
    BY <1>0, <1>4, AnswerIsStep, LayoutStepKeeps DEF AnswerStep
  <1>5. CASE MountStep
    BY <1>0, <1>5, MountStays, LayoutStepKeeps DEF MountStep
  <1>6. CASE /\ \E s \in Sessions, heard \in BOOLEAN : ShellExits(s, heard)
             /\ ScheduleAutoCapture /\ UNCHANGED <<wsVars, ops>>
    BY <1>0, <1>6, ShellExitsStep, LayoutStepKeeps
  <1>7. CASE CaptureActiveWorkspace
    BY <1>7, CaptureKeeps
  <1>8. CASE UNCHANGED vars
    BY <1>8, StutterKeeps
  <1> QED  BY <1>1, <1>2, <1>3, <1>4, <1>5, <1>6, <1>7, <1>8 DEF Next, User, Environment

LEMMA InvariantMeans ==
  WsInv => TypeOK /\ LayoutConsistent /\ NoTabLosesItsShell /\ DiskFollowsStore /\ OnlyStrandedAreDead
  <1> SUFFICES ASSUME WsInv
               PROVE  TypeOK /\ LayoutConsistent /\ NoTabLosesItsShell /\ DiskFollowsStore
                      /\ OnlyStrandedAreDead
    OBVIOUS
  <1>1. ScreenInv /\ Booked /\ Behind /\ Shelled /\ Excused
    BY DEF WsInv
  <1>2. \A win : win \in Windows \/ win \in Saved => GoodWindow(win)
    <2>1. \A w \in DOMAIN savedLayout : GoodWindow(savedLayout[w])
      BY <1>1 DEF Behind
    <2>2. \A w \in DOMAIN WindowOf : GoodWindow(WindowOf[w])
      BY <1>1, <2>1, WindowsAre DEF ScreenInv
    <2> QED  BY <2>1, <2>2, WindowsAre DEF Saved, Range
  <1>3. \A win : GoodWindow(win) => WellTyped(win)
    BY DEF GoodWindow, GoodRegions, WellTyped
  <1>4. TypeOK
    BY <1>1, <1>2, <1>3 DEF TypeOK, ScreenInv, Booked
  <1>5. TreeMatchesRegions
    <2> SUFFICES ASSUME ~torn, NEW win \in Windows PROVE TreeMatches(win)
      BY DEF TreeMatchesRegions
    <2>1. PICK w \in DOMAIN WindowOf : win = WindowOf[w]
      BY WindowsAre
    <2> QED  BY <1>1, <2>1, WindowsAre DEF Behind
  <1>6. LayoutConsistent
    BY <1>1, <1>5 DEF LayoutConsistent, TabsOnce, Behind
  <1>7. OnlyStrandedAreDead
    <2>1. Screen \in Windows
      BY WindowsAre
    <2> QED  BY <1>1, <2>1, ScreenParts DEF Excused, Dead, OnlyStrandedAreDead
  <1> QED  BY <1>1, <1>4, <1>6, <1>7 DEF WsInv, Shelled, NoTabLosesItsShell

-----------------------------------------------------------------------------
\* The invariant: not only the window on the screen but every window, the snapshots
\* on disk and the layouts that splits under way remember are as they should be.
THEOREM InductiveInvariant == Spec => []WsInv
  <1>1. Init => WsInv
    BY InitHolds
  <1>2. WsInv /\ [Next]_vars => WsInv'
    BY NextKeeps
  <1> QED  BY <1>1, <1>2, PTL DEF Spec

\* Windows on the screen, behind it and on disk are well formed, and a region with
\* tabs shows one of them, after any sequence of operations, answers and restarts.
THEOREM TypeCorrect == Spec => []TypeOK
  BY InductiveInvariant, InvariantMeans, PTL

\* The layout tree and the map of regions stay in step, and no tab or session is
\* shown twice, in any workspace (layoutStore.ts changes the three by hand).
THEOREM LayoutStaysConsistent == Spec => []LayoutConsistent
  BY InductiveInvariant, InvariantMeans, PTL

\* A session is closed only with its tab, whatever answers of pty_spawn, closings,
\* moves and switches fall between.
THEOREM ShellsAreKept == Spec => []NoTabLosesItsShell
  BY InductiveInvariant, InvariantMeans, PTL

\* When the debounce timer is not armed the active workspace is on disk as it is on
\* the screen.
THEOREM DiskFollows == Spec => []DiskFollowsStore
  BY InductiveInvariant, InvariantMeans, PTL

\* A terminal without a shell that waits for none was captured while it waited.
THEOREM DeadTabsWereStranded == Spec => []OnlyStrandedAreDead
  BY InductiveInvariant, InvariantMeans, PTL
=============================================================================
