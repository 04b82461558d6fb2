-------------------------- MODULE CanvasStoreProofs --------------------------
(* Theorems about CanvasStore, for every set of ids, files, layers and     *)
(* groups, every history bound and every number of operations: the         *)
(* inductive invariant CanvasInv, the safety properties it contains, and   *)
(* the refinement of CanvasTimeline.                                       *)
EXTENDS CanvasStore, FiniteSetTheorems, SequenceTheorems, WellFoundedInduction, TLAPS

-----------------------------------------------------------------------------
(* Numbers, and sequences of values each of which comes from the one before. *)

\* A set of natural numbers that is not empty has a least one.
LEMMA LeastNumber ==
  ASSUME NEW T, T \subseteq Nat, T # {}
  PROVE  \E n \in T : \A m \in T : n <= m
  <1> DEFINE R == OpToRel(<, Nat)
  <1>1. \A m, n \in Nat : m < n => <<m, n>> \in R
    BY Zenon DEF OpToRel
  <1>2. IsWellFoundedOn(R, Nat)
    BY NatLessThanWellFounded, Zenon
  <1> HIDE DEF R
  <1>3. PICK n \in T : \A m \in T : <<m, n>> \notin R
    BY <1>2, WFMin
  <1>4. \A m \in T : ~ (m < n)
    BY <1>1, <1>3
  <1> QED  BY <1>3, <1>4

\* What holds at 0 and is passed on holds up to N.
LEMMA PassedOn ==
  ASSUME NEW N \in Nat, NEW H, 0 \in H, \A n \in 1..N : n - 1 \in H => n \in H
  PROVE  \A n \in 0..N : n \in H
  <1> DEFINE T == {n \in 0..N : n \notin H}
  <1> SUFFICES ASSUME T # {} PROVE FALSE
    OBVIOUS
  <1>1. T \subseteq Nat
    OBVIOUS
  <1>2. PICK n \in T : \A m \in T : n <= m
    <2> HIDE DEF T
    <2> QED  BY <1>1, LeastNumber
  <1>3. n \in 1..N /\ n - 1 \in 0..N
    BY <1>1, <1>2
  <1>4. n - 1 \notin T
    <2> HIDE DEF T
    <2> QED  BY <1>2, <1>3
  <1> QED  BY <1>2, <1>3, <1>4

Runs(f, N, base, step) == f[0] = base /\ \A n \in 1..N : f[n] = step[n][f[n - 1]]

\* A sequence of values each of which comes from the one before exists.
LEMMA Iteration ==
  ASSUME NEW V, NEW N \in Nat, NEW base \in V, NEW step \in [1..N -> [V -> V]]
  PROVE  \E f \in [0..N -> V] : Runs(f, N, base, step)
  <1> DEFINE Steps(n, f) == \A k \in 1..n : f[k] = step[k][f[k - 1]]
             H == {n \in 0..N : \E f \in [0..n -> V] : f[0] = base /\ Steps(n, f)}
  <1>1. 0 \in H
    <2> DEFINE g == [k \in 0..0 |-> base]
    <2>1. g \in [0..0 -> V] /\ g[0] = base /\ Steps(0, g)
      OBVIOUS
    <2> HIDE DEF g
    <2>2. \E f \in [0..0 -> V] : f[0] = base /\ Steps(0, f)
      BY <2>1
    <2> QED  BY <2>2
  <1>2. ASSUME NEW n \in 1..N, n - 1 \in H PROVE n \in H
    <2>1. n \in Nat /\ n # 0 /\ n - 1 \in 0..N
      OBVIOUS
    <2>2. PICK f \in [0..(n - 1) -> V] : f[0] = base /\ Steps(n - 1, f)
      BY <1>2
    <2> DEFINE g == [k \in 0..n |-> IF k = n THEN step[n][f[n - 1]] ELSE f[k]]
    <2>3. g \in [0..n -> V] /\ g[0] = base
      BY <2>1, <2>2
    <2>4. Steps(n, g)
      <3> SUFFICES ASSUME NEW k \in 1..n PROVE g[k] = step[k][g[k - 1]]
        OBVIOUS
      <3>1. CASE k = n
        BY <2>1, <3>1
      <3>2. CASE k # n
        <4>1. k \in 1..(n - 1)
          BY <2>1, <3>2
        <4>2. g[k] = f[k] /\ g[k - 1] = f[k - 1]
          BY <2>1, <4>1
        <4> QED  BY <2>2, <4>1, <4>2
      <3> QED  BY <3>1, <3>2
    <2>5. \E h \in [0..n -> V] : h[0] = base /\ Steps(n, h)
      BY <2>3, <2>4
    <2> QED  BY <2>1, <2>5
  <1>3. N \in H
    <2> HIDE DEF H
    <2>1. \A n \in 1..N : n - 1 \in H => n \in H
      BY <1>2
    <2>2. \A n \in 0..N : n \in H
      BY <1>1, <2>1, PassedOn
    <2> QED  BY <2>2
  <1>4. PICK f \in [0..N -> V] : f[0] = base /\ Steps(N, f)
    BY <1>3
  <1>5. Runs(f, N, base, step)
    BY <1>4 DEF Runs
  <1> QED  BY <1>5

\* An expression put at the end of an order belongs to it, and the others still do.
LEMMA AppendToSet ==
  ASSUME NEW V, NEW s \in Seq(V), NEW x \in V
  PROVE  ToSet(Append(s, x)) = ToSet(s) \cup {x}
  <1> DEFINE t == Append(s, x)
  <1>1. Len(s) \in Nat /\ DOMAIN s = 1..Len(s) /\ DOMAIN t = 1..(Len(s) + 1)
    OBVIOUS
  <1>2. t[Len(s) + 1] = x /\ \A i \in 1..Len(s) : t[i] = s[i]
    OBVIOUS
  <1> HIDE DEF t
  <1>3. ToSet(t) = ToSet(s) \cup {x}
    BY <1>1, <1>2 DEF ToSet
  <1> QED  BY <1>3 DEF t

\* A filtered order holds what it keeps.
LEMMA OnlyElements ==
  ASSUME NEW o \in Seq(Ids), NEW S
  PROVE  Only(o, S) \in Seq(Ids) /\ ToSet(Only(o, S)) = ToSet(o) \cap S
  <1> DEFINE N       == Len(o)
             V       == Seq(Ids)
             Part(n) == {o[k] : k \in 1..n}
             Kept(f) == f = [n \in 0..N |-> IF n = 0 THEN <<>>
                                            ELSE IF o[n] \in S THEN Append(f[n - 1], o[n])
                                                 ELSE f[n - 1]]
             step == [n \in 1..N |-> [s \in V |-> IF o[n] \in S THEN Append(s, o[n]) ELSE s]]
  <1>1. N \in Nat /\ \A n \in 1..N : o[n] \in Ids
    OBVIOUS
  <1>2. \E f : Kept(f)
    <2>1. step \in [1..N -> [V -> V]]
      BY <1>1
    <2> DEFINE base == <<>>
    <2>2. base \in V
      OBVIOUS
    <2>3. PICK f \in [0..N -> V] : Runs(f, N, base, step)
      <3>1. N \in Nat
        BY <1>1
      <3> HIDE DEF step, V, N, base
      <3> QED  BY <2>1, <2>2, <3>1, Iteration
    <2>4. \A n \in 1..N : f[n - 1] \in V
      <3> TAKE n \in 1..N
      <3>1. n - 1 \in 0..N
        BY <1>1
      <3> QED  BY <2>3, <3>1
    <2>5. \A n \in 0..N : f[n] = IF n = 0 THEN <<>> ELSE IF o[n] \in S THEN Append(f[n - 1], o[n])
                                                 ELSE f[n - 1]
      <3> TAKE n \in 0..N
      <3>1. CASE n = 0
        BY <2>3, <3>1 DEF Runs
      <3>2. CASE n # 0
        <4>1. n \in 1..N
          BY <1>1, <3>2
        <4>2. f[n] = step[n][f[n - 1]]
          <5> HIDE DEF step, N, V
          <5> QED  BY <2>3, <4>1 DEF Runs
        <4> QED  BY <1>1, <2>4, <4>1, <4>2
      <3> QED  BY <3>1, <3>2
    <2>6. Kept(f)
      <3> HIDE DEF V
      <3> QED BY <2>3, <2>5
    <2> QED  BY <2>6
  <1> DEFINE g == CHOOSE h : Kept(h)
  <1>3. Kept(g)
    <2> HIDE DEF Kept
    <2> QED BY <1>2
  <1>4. Only(o, S) = g[N]
    BY DEF Only
  <1> HIDE DEF g
  <1> DEFINE H == {n \in 0..N : g[n] \in V /\ ToSet(g[n]) = Part(n) \cap S}
  <1>5. 0 \in H
    BY <1>1, <1>3 DEF ToSet
  <1>6. ASSUME NEW n \in 1..N, n - 1 \in H PROVE n \in H
    <2>1. g[n - 1] \in V /\ ToSet(g[n - 1]) = Part(n - 1) \cap S
      BY <1>6
    <2>2. g[n] = IF o[n] \in S THEN Append(g[n - 1], o[n]) ELSE g[n - 1]
      <3>1. n \in 0..N /\ n # 0
        BY <1>1
      <3> HIDE DEF N
      <3> QED  BY <1>3, <3>1
    <2>3. Part(n) = Part(n - 1) \cup {o[n]}
      BY <1>1
    <2>4. \A s \in V, x \in Ids : ToSet(Append(s, x)) = ToSet(s) \cup {x}
      BY AppendToSet
    <2>5. g[n] \in V
      BY <1>1, <2>1, <2>2
    <2>6. ToSet(g[n]) = Part(n) \cap S
      <3> HIDE DEF Part
      <3> QED BY <1>1, <2>1, <2>2, <2>3, <2>4
    <2> QED  BY <2>5, <2>6
  <1>7. N \in H
    <2> HIDE DEF H, N
    <2>1. \A n \in 1..N : n - 1 \in H => n \in H
      BY <1>6
    <2>2. \A n \in 0..N : n \in H
      BY <1>1, <1>5, <2>1, PassedOn
    <2> QED  BY <1>1, <2>2
  <1>8. Part(N) = ToSet(o)
    BY DEF ToSet
  <1> QED  BY <1>4, <1>7, <1>8

-----------------------------------------------------------------------------
(* Orders of expressions. *)

\* Among positions found in the order there is a first and a last one.
LEMMA LowestHighest ==
  ASSUME NEW N \in Nat, NEW S, S \subseteq 1..N, S # {}
  PROVE  Min(S) \in S /\ Max(S) \in S
  <1>1. \E m \in S : \A n \in S : m <= n
    BY LeastNumber, S \subseteq Nat
  <1>2. \E m \in S : \A n \in S : m >= n
    <2> DEFINE T == {N - n : n \in S}
    <2>1. T \subseteq Nat /\ T # {}
      <3>1. \A n \in S : N - n \in Nat
        OBVIOUS
      <3> QED  BY <3>1
    <2>2. PICK t \in T : \A u \in T : t <= u
      <3> HIDE DEF T
      <3> QED  BY <2>1, LeastNumber
    <2>3. PICK m \in S : t = N - m
      OBVIOUS
    <2>4. ASSUME NEW n \in S PROVE m >= n
      <3>1. N - m <= N - n
        BY <2>2, <2>3
      <3> QED  BY <3>1
    <2> QED  BY <2>4
  <1> QED  BY <1>1, <1>2 DEF Min, Max

\* Moving one element of an order loses none and adds none.
LEMMA SpliceElements ==
  ASSUME NEW o \in Seq(Ids), NEW i \in 1..Len(o), NEW j \in 1..Len(o)
  PROVE  /\ Splice(o, i, j) \in Seq(Ids) /\ Len(Splice(o, i, j)) = Len(o)
         /\ ToSet(Splice(o, i, j)) = ToSet(o)
  <1> DEFINE N == Len(o)
             a == SubSeq(o, 1, i - 1)
             b == SubSeq(o, i + 1, N)
             r == a \o b
             c == SubSeq(r, 1, j - 1)
             e == <<o[i]>>
             d == SubSeq(r, j, Len(r))
             ce == c \o e
             s == ce \o d
  <1>1. N \in Nat /\ DOMAIN o = 1..N /\ \A k \in 1..N : o[k] \in Ids
    OBVIOUS
  <1>2. /\ a \in Seq(Ids) /\ Len(a) = i - 1 /\ \A k \in 1..(i - 1) : a[k] = o[k]
        /\ b \in Seq(Ids) /\ Len(b) = N - i /\ \A k \in 1..(N - i) : b[k] = o[k + i]
    <2>1. \A k \in 1..(i - 1) : o[k] \in Ids
      BY <1>1
    <2>2. \A k \in (i + 1)..N : o[k] \in Ids
      BY <1>1
    <2>3. a \in Seq(Ids) /\ Len(a) = i - 1 /\ \A k \in 1..(i - 1) : a[k] = o[k]
      <3>1. i - 1 \in Int
        BY <1>1
      <3>2. /\ a \in Seq(Ids) /\ Len(a) = IF 1 <= i - 1 THEN i - 1 - 1 + 1 ELSE 0
            /\ \A k \in 1..(i - 1 - 1 + 1) : a[k] = o[1 + k - 1]
        BY <2>1, <3>1, SubSeqProperties
      <3> HIDE DEF a
      <3> QED  BY <1>1, <3>2
    <2>4. b \in Seq(Ids) /\ Len(b) = N - i /\ \A k \in 1..(N - i) : b[k] = o[k + i]
      <3>1. i + 1 \in Int /\ N \in Int
        BY <1>1
      <3>2. /\ b \in Seq(Ids) /\ Len(b) = IF i + 1 <= N THEN N - (i + 1) + 1 ELSE 0
            /\ \A k \in 1..(N - (i + 1) + 1) : b[k] = o[i + 1 + k - 1]
        BY <2>2, <3>1, SubSeqProperties
      <3> HIDE DEF b
      <3>3. Len(b) = N - i
        <4>1. Len(b) = IF i + 1 <= N THEN N - (i + 1) + 1 ELSE 0
          BY <3>2
        <4>2. N \in Nat /\ i \in Nat /\ i <= N
          BY <1>1
        <4> HIDE DEF N
        <4> QED  BY <4>1, <4>2
      <3>4. ASSUME NEW k \in 1..(N - i) PROVE b[k] = o[k + i]
        <4>1. k \in 1..(N - (i + 1) + 1) /\ i + 1 + k - 1 = k + i
          BY <1>1
        <4> QED  BY <3>2, <4>1
      <3> QED  BY <3>2, <3>3, <3>4
    <2> QED  BY <2>3, <2>4
  <1>3. /\ r \in Seq(Ids) /\ Len(r) = N - 1
        /\ \A k \in 1..(N - 1) : r[k] = IF k < i THEN o[k] ELSE o[k + 1]
    <2> HIDE DEF a, b, N
    <2>1. /\ r \in Seq(Ids) /\ Len(r) = Len(a) + Len(b)
          /\ \A k \in 1..(Len(a) + Len(b)) : r[k] = IF k <= Len(a) THEN a[k] ELSE b[k - Len(a)]
      BY <1>2, ConcatProperties
    <2> QED  BY <1>1, <1>2, <2>1
  <1> HIDE DEF a, b, r
  <1>4. /\ c \in Seq(Ids) /\ Len(c) = j - 1 /\ \A k \in 1..(j - 1) : c[k] = r[k]
        /\ d \in Seq(Ids) /\ Len(d) = N - j /\ \A k \in 1..(N - j) : d[k] = r[k + j - 1]
    <2>1. \A k \in 1..(N - 1) : r[k] \in Ids
      BY <1>1, <1>3
    <2>2. /\ c \in Seq(Ids) /\ Len(c) = IF 1 <= j - 1 THEN j - 1 - 1 + 1 ELSE 0
          /\ \A k \in 1..(j - 1 - 1 + 1) : c[k] = r[1 + k - 1]
      <3>1. 1 \in Int /\ j - 1 \in Int /\ \A k \in 1..(j - 1) : r[k] \in Ids
        BY <1>1, <2>1
      <3> QED  BY <3>1, SubSeqProperties
    <2>3. /\ d \in Seq(Ids) /\ Len(d) = IF j <= N - 1 THEN N - 1 - j + 1 ELSE 0
          /\ \A k \in 1..(N - 1 - j + 1) : d[k] = r[j + k - 1]
      <3>1. j \in Int /\ Len(r) \in Int /\ \A k \in j..Len(r) : r[k] \in Ids
        BY <1>1, <1>3, <2>1
      <3>2. /\ d \in Seq(Ids) /\ Len(d) = IF j <= Len(r) THEN Len(r) - j + 1 ELSE 0
            /\ \A k \in 1..(Len(r) - j + 1) : d[k] = r[j + k - 1]
        BY <3>1, SubSeqProperties
      <3> QED  BY <1>3, <3>2
    <2> HIDE DEF c, d
    <2>4. Len(c) = j - 1 /\ Len(d) = N - j
      <3>1. Len(c) = IF 1 <= j - 1 THEN j - 1 - 1 + 1 ELSE 0
        BY <2>2
      <3>2. Len(d) = IF j <= N - 1 THEN N - 1 - j + 1 ELSE 0
        BY <2>3
      <3>3. N \in Nat /\ j \in Nat /\ 1 <= j /\ j <= N
        BY <1>1
      <3> HIDE DEF N
      <3> QED  BY <3>1, <3>2, <3>3
    <2>5. ASSUME NEW k \in 1..(j - 1) PROVE c[k] = r[k]
      <3>1. k \in 1..(j - 1 - 1 + 1) /\ 1 + k - 1 = k
        BY <1>1
      <3> QED  BY <2>2, <3>1
    <2>6. ASSUME NEW k \in 1..(N - j) PROVE d[k] = r[k + j - 1]
      <3>1. k \in 1..(N - 1 - j + 1) /\ j + k - 1 = k + j - 1
        BY <1>1
      <3> QED  BY <2>3, <3>1
    <2> QED  BY <2>2, <2>3, <2>4, <2>5, <2>6
  <1>5. /\ s \in Seq(Ids) /\ Len(s) = N
        /\ \A k \in 1..N : s[k] = IF k < j THEN r[k] ELSE IF k = j THEN o[i] ELSE r[k - 1]
    <2>1. e \in Seq(Ids) /\ Len(e) = 1 /\ e[1] = o[i]
      BY <1>1
    <2> HIDE DEF c, d, e
    <2>2. /\ ce \in Seq(Ids) /\ Len(ce) = j
          /\ \A k \in 1..j : ce[k] = IF k < j THEN c[k] ELSE o[i]
      <3>1. /\ ce \in Seq(Ids) /\ Len(ce) = Len(c) + Len(e)
            /\ \A k \in 1..(Len(c) + Len(e)) : ce[k] = IF k <= Len(c) THEN c[k] ELSE e[k - Len(c)]
        BY <1>4, <2>1, ConcatProperties
      <3> HIDE DEF ce
      <3> QED  BY <1>1, <1>4, <2>1, <3>1
    <2> HIDE DEF ce
    <2>3. /\ s \in Seq(Ids) /\ Len(s) = Len(ce) + Len(d)
          /\ \A k \in 1..(Len(ce) + Len(d)) : s[k] = IF k <= Len(ce) THEN ce[k] ELSE d[k - Len(ce)]
      <3>1. ce \in Seq(Ids) /\ d \in Seq(Ids)
        BY <1>4, <2>2
      <3> QED  BY <3>1, ConcatProperties
    <2> HIDE DEF s
    <2>4. Len(s) = N
      BY <1>1, <1>4, <2>2, <2>3
    <2>5. ASSUME NEW k \in 1..N
          PROVE  s[k] = IF k < j THEN r[k] ELSE IF k = j THEN o[i] ELSE r[k - 1]
      <3>1. s[k] = IF k <= j THEN ce[k] ELSE d[k - j]
        BY <1>1, <1>4, <2>2, <2>3
      <3>2. CASE k < j
        <4>1. k \in 1..j /\ k \in 1..(j - 1)
          BY <1>1, <3>2
        <4>2. s[k] = c[k]
          BY <2>2, <3>1, <3>2, <4>1
        <4> QED  BY <1>4, <3>2, <4>1, <4>2
      <3>3. CASE k = j
        BY <1>1, <2>2, <3>1, <3>3
      <3>4. CASE k > j
        <4>1. k - j \in 1..(N - j) /\ (k - j) + j - 1 = k - 1
          BY <1>1, <3>4
        <4>2. s[k] = d[k - j] /\ ~ (k < j) /\ k # j
          BY <1>1, <3>1, <3>4
        <4> QED  BY <1>4, <4>1, <4>2
      <3> QED  BY <1>1, <3>2, <3>3, <3>4
    <2> QED  BY <2>3, <2>4, <2>5
  <1>6. Splice(o, i, j) = s
    BY DEF Splice, InsertAt, RemoveAt, r, a, b
  <1> HIDE DEF c, d, e, ce, s
  <1>7. ToSet(s) = ToSet(o)
    <2>0. DOMAIN s = 1..N
      BY <1>1, <1>5
    <2>1. \A k \in 1..N : \E m \in 1..N : s[k] = o[m]
      <3> TAKE k \in 1..N
      <3>1. CASE k = j
        BY <1>5, <3>1
      <3>2. CASE k < j
        <4>1. k \in 1..(N - 1) /\ s[k] = r[k]
          BY <1>1, <1>5, <3>2
        <4>2. s[k] = o[k] \/ s[k] = o[k + 1]
          BY <1>3, <4>1
        <4>3. k + 1 \in 1..N
          BY <1>1, <4>1
        <4> QED  BY <4>2, <4>3
      <3>3. CASE k > j
        <4>1. k - 1 \in 1..(N - 1) /\ s[k] = r[k - 1]
          BY <1>1, <1>5, <3>3
        <4> QED  BY <1>1, <1>3, <4>1
      <3> QED  BY <1>1, <3>1, <3>2, <3>3
    <2>2. \A m \in 1..(N - 1) : \E k \in 1..N : s[k] = r[m]
      <3> TAKE m \in 1..(N - 1)
      <3>1. CASE m < j
        BY <1>1, <1>5, <3>1
      <3>2. CASE m >= j
        <4>1. m + 1 \in 1..N /\ m + 1 > j /\ m + 1 - 1 = m
          BY <1>1, <3>2
        <4> QED  BY <1>1, <1>5, <4>1
      <3> QED  BY <1>1, <3>1, <3>2
    <2>3. \A m \in 1..N : \E k \in 1..N : s[k] = o[m]
      <3> TAKE m \in 1..N
      <3>1. CASE m = i
        BY <1>1, <1>5, <3>1
      <3>2. CASE m < i
        <4>1. m \in 1..(N - 1) /\ r[m] = o[m]
          BY <1>1, <1>3, <3>2
        <4> QED  BY <2>2, <4>1
      <3>3. CASE m > i
        <4>1. m - 1 \in 1..(N - 1) /\ r[m - 1] = o[m]
          <5>1. m - 1 \in 1..(N - 1) /\ ~ (m - 1 < i) /\ (m - 1) + 1 = m
            BY <1>1, <3>3
          <5> QED  BY <1>3, <5>1
        <4> QED  BY <2>2, <4>1
      <3> QED  BY <1>1, <3>1, <3>2, <3>3
    <2> HIDE DEF N
    <2>4. ToSet(s) = {s[k] : k \in 1..N} /\ ToSet(o) = {o[k] : k \in 1..N}
      BY <1>1, <2>0 DEF ToSet
    <2> QED  BY <2>1, <2>3, <2>4
  <1> QED  BY <1>5, <1>6, <1>7

\* The targets of an order have jumped; the order holds the same expressions.
LEMMA ForwardElements ==
  ASSUME order \in Seq(Ids), NEW ids, BringForward(ids)
  PROVE  order' \in Seq(Ids) /\ ToSet(order') = ToSet(order)
  <1> DEFINE N == Len(order)
             V == {s \in Seq(Ids) : Len(s) = N /\ ToSet(s) = ToSet(order)}
             Meets(o, n) == Met(o, N + 1 - n, ids, (N + 1 - n + 1)..N)
             Jump(o, n) == IF Meets(o, n) # {} THEN Splice(o, N + 1 - n, Min(Meets(o, n))) ELSE o
             Jumps(f) == f = [n \in 0..N |-> IF n = 0 THEN order ELSE Jump(f[n - 1], n)]
             step == [n \in 1..N |-> [o \in V |-> Jump(o, n)]]
  <1>1. N \in Nat /\ order \in V
    OBVIOUS
  <1>2. ASSUME NEW n \in 1..N, NEW o \in V PROVE Jump(o, n) \in V
    <2>1. N + 1 - n \in 1..N
      BY <1>1
    <2>2. CASE Meets(o, n) = {}
      BY <2>2
    <2>3. CASE Meets(o, n) # {}
      <3>1. Meets(o, n) \subseteq 1..N
        BY <1>1, <2>1 DEF Met
      <3>2. Min(Meets(o, n)) \in 1..N
        <4> HIDE DEF Meets, N
        <4> QED  BY <1>1, <2>3, <3>1, LowestHighest
      <3>3. Splice(o, N + 1 - n, Min(Meets(o, n))) \in V
        <4> HIDE DEF Meets
        <4> QED  BY <2>1, <3>2, SpliceElements
      <3> HIDE DEF Meets, V
      <3> QED  BY <2>3, <3>3
    <2> QED  BY <2>2, <2>3
  <1> HIDE DEF V, Jump
  <1>3. \E f : Jumps(f)
    <2>1. step \in [1..N -> [V -> V]]
      BY <1>2
    <2>2. PICK f \in [0..N -> V] : Runs(f, N, order, step)
      <3> HIDE DEF step, N
      <3> QED  BY <1>1, <2>1, Iteration
    <2>3. ASSUME NEW n \in 1..N PROVE f[n] = Jump(f[n - 1], n)
      <3>1. n - 1 \in 0..N
        BY <1>1
      <3>2. f[n] = step[n][f[n - 1]]
        <4> HIDE DEF step, N
        <4> QED  BY <2>2 DEF Runs
      <3> QED  BY <3>1, <3>2
    <2>4. \A n \in 0..N : f[n] = IF n = 0 THEN order ELSE Jump(f[n - 1], n)
      <3> TAKE n \in 0..N
      <3>1. CASE n = 0
        BY <2>2, <3>1 DEF Runs
      <3>2. CASE n # 0
        <4>1. n \in 1..N
          BY <1>1, <3>2
        <4> QED  BY <2>3, <3>2, <4>1
      <3> QED  BY <3>1, <3>2
    <2>5. Jumps(f)
      BY <2>4
    <2> QED  BY <2>5
  <1> DEFINE g == CHOOSE f : Jumps(f)
  <1>4. Jumps(g)
    <2> HIDE DEF Jumps
    <2> QED  BY <1>3
  <1>5. order' = g[N]
    BY DEF BringForward, Silently, Jump
  <1> HIDE DEF g
  <1> DEFINE H == {n \in 0..N : g[n] \in V}
  <1>6. 0 \in H
    BY <1>1, <1>4
  <1>7. ASSUME NEW n \in 1..N, n - 1 \in H PROVE n \in H
    <2>1. n \in 0..N /\ n # 0
      BY <1>1
    <2>2. g[n] = Jump(g[n - 1], n)
      <3> HIDE DEF N
      <3> QED  BY <1>4, <2>1
    <2> QED  BY <1>2, <1>7, <2>1, <2>2
  <1>8. N \in H
    <2> HIDE DEF H, N
    <2>1. \A n \in 1..N : n - 1 \in H => n \in H
      BY <1>7
    <2>2. \A n \in 0..N : n \in H
      BY <1>1, <1>6, <2>1, PassedOn
    <2> QED  BY <1>1, <2>2
  <1> QED  BY <1>5, <1>8 DEF V
\* The same on the way down.
LEMMA BackwardElements ==
  ASSUME order \in Seq(Ids), NEW ids, SendBackward(ids)
  PROVE  order' \in Seq(Ids) /\ ToSet(order') = ToSet(order)
  <1> DEFINE N == Len(order)
             V == {s \in Seq(Ids) : Len(s) = N /\ ToSet(s) = ToSet(order)}
             Meets(o, n) == Met(o, n, ids, 1..(n - 1))
             Jump(o, n) == IF Meets(o, n) # {} THEN Splice(o, n, Max(Meets(o, n))) ELSE o
             Jumps(f) == f = [n \in 0..N |-> IF n = 0 THEN order ELSE Jump(f[n - 1], n)]
             step == [n \in 1..N |-> [o \in V |-> Jump(o, n)]]
  <1>1. N \in Nat /\ order \in V
    OBVIOUS
  <1>2. ASSUME NEW n \in 1..N, NEW o \in V PROVE Jump(o, n) \in V
    <2>1. n \in 1..N
      OBVIOUS
    <2>2. CASE Meets(o, n) = {}
      BY <2>2
    <2>3. CASE Meets(o, n) # {}
      <3>1. Meets(o, n) \subseteq 1..N
        BY <1>1, <2>1 DEF Met
      <3>2. Max(Meets(o, n)) \in 1..N
        <4> HIDE DEF Meets, N
        <4> QED  BY <1>1, <2>3, <3>1, LowestHighest
      <3>3. Splice(o, n, Max(Meets(o, n))) \in V
        <4> HIDE DEF Meets
        <4> QED  BY <2>1, <3>2, SpliceElements
      <3> HIDE DEF Meets, V
      <3> QED  BY <2>3, <3>3
    <2> QED  BY <2>2, <2>3
  <1> HIDE DEF V, Jump
  <1>3. \E f : Jumps(f)
    <2>1. step \in [1..N -> [V -> V]]
      BY <1>2
    <2>2. PICK f \in [0..N -> V] : Runs(f, N, order, step)
      <3> HIDE DEF step, N
      <3> QED  BY <1>1, <2>1, Iteration
    <2>3. ASSUME NEW n \in 1..N PROVE f[n] = Jump(f[n - 1], n)
      <3>1. n - 1 \in 0..N
        BY <1>1
      <3>2. f[n] = step[n][f[n - 1]]
        <4> HIDE DEF step, N
        <4> QED  BY <2>2 DEF Runs
      <3> QED  BY <3>1, <3>2
    <2>4. \A n \in 0..N : f[n] = IF n = 0 THEN order ELSE Jump(f[n - 1], n)
      <3> TAKE n \in 0..N
      <3>1. CASE n = 0
        BY <2>2, <3>1 DEF Runs
      <3>2. CASE n # 0
        <4>1. n \in 1..N
          BY <1>1, <3>2
        <4> QED  BY <2>3, <3>2, <4>1
      <3> QED  BY <3>1, <3>2
    <2>5. Jumps(f)
      BY <2>4
    <2> QED  BY <2>5
  <1> DEFINE g == CHOOSE f : Jumps(f)
  <1>4. Jumps(g)
    <2> HIDE DEF Jumps
    <2> QED  BY <1>3
  <1>5. order' = g[N]
    BY DEF SendBackward, Silently, Jump
  <1> HIDE DEF g
  <1> DEFINE H == {n \in 0..N : g[n] \in V}
  <1>6. 0 \in H
    BY <1>1, <1>4
  <1>7. ASSUME NEW n \in 1..N, n - 1 \in H PROVE n \in H
    <2>1. n \in 0..N /\ n # 0
      BY <1>1
    <2>2. g[n] = Jump(g[n - 1], n)
      <3> HIDE DEF N
      <3> QED  BY <1>4, <2>1
    <2> QED  BY <1>2, <1>7, <2>1, <2>2
  <1>8. N \in H
    <2> HIDE DEF H, N
    <2>1. \A n \in 1..N : n - 1 \in H => n \in H
      BY <1>7
    <2>2. \A n \in 0..N : n \in H
      BY <1>1, <1>6, <2>1, PassedOn
    <2> QED  BY <1>1, <2>2
  <1> QED  BY <1>5, <1>8 DEF V

-----------------------------------------------------------------------------
(* Parents: the way up from an expression. *)

\* The way up from i stays in S, and i is not in it.
Clear(d, i, S) ==
  /\ S \subseteq DOMAIN d /\ i \notin S
  /\ \A j \in S \cup {i} : d[j].parent \in DOMAIN d => d[j].parent \in S

\* An expression outside a set that holds the way up from j is no ancestor of j.
LEMMA NotAncestor ==
  ASSUME NEW d, NEW c, NEW i \in DOMAIN d
  PROVE  i \notin Ancestors(d, c) <=>
           \E S \in Upward(d) : i \notin S /\ (d[c].parent \in DOMAIN d => d[c].parent \in S)
  BY DEF Ancestors

\* A document is acyclic when no expression is on its own way up.
LEMMA ClearWays ==
  ASSUME NEW d
  PROVE  Acyclic(d) <=> \A i \in DOMAIN d : \E S : Clear(d, i, S)
  <1>1. ASSUME NEW i \in DOMAIN d
        PROVE  i \notin Ancestors(d, i) <=> \E S : Clear(d, i, S)
    <2>1. \A S : Clear(d, i, S) <=>
                   S \in Upward(d) /\ i \notin S /\ (d[i].parent \in DOMAIN d => d[i].parent \in S)
      BY DEF Clear, Upward
    <2> QED  BY <2>1, NotAncestor
  <1> QED  BY <1>1 DEF Acyclic

\* Taking expressions out of a document, or out of their parents, leaves it acyclic.
LEMMA Loosened ==
  ASSUME NEW d, NEW e, Acyclic(d), DOMAIN e \subseteq DOMAIN d,
         \A i \in DOMAIN e : e[i].parent = d[i].parent \/ e[i].parent \notin DOMAIN e
  PROVE  Acyclic(e)
  <1>1. ASSUME NEW i \in DOMAIN e PROVE \E S : Clear(e, i, S)
    <2>1. PICK S : Clear(d, i, S)
      BY ClearWays
    <2>2. Clear(e, i, S \cap DOMAIN e)
      BY <2>1 DEF Clear
    <2> QED  BY <2>2
  <1> QED  BY <1>1, ClearWays

\* So does adding expressions that no expression has as its parent.
LEMMA Extended ==
  ASSUME NEW d, NEW e, Acyclic(d), DOMAIN d \subseteq DOMAIN e,
         \A i \in DOMAIN d : e[i].parent = d[i].parent,
         \A i \in DOMAIN e : e[i].parent \in DOMAIN e => e[i].parent \in DOMAIN d
  PROVE  Acyclic(e)
  <1>1. ASSUME NEW i \in DOMAIN e PROVE \E S : Clear(e, i, S)
    <2>1. CASE i \in DOMAIN d
      <3>1. PICK S : Clear(d, i, S)
        BY <2>1, ClearWays
      <3>2. Clear(e, i, S)
        BY <2>1, <3>1 DEF Clear
      <3> QED  BY <3>2
    <2>2. CASE i \notin DOMAIN d
      <3>1. Clear(e, i, DOMAIN d)
        BY <2>2 DEF Clear
      <3> QED  BY <3>1
    <2> QED  BY <2>1, <2>2
  <1> QED  BY <1>1, ClearWays

\* And laying expressions without a parent over a document.
LEMMA Overlaid ==
  ASSUME NEW d, NEW e, NEW F, Acyclic(d), DOMAIN e = DOMAIN d \cup F,
         \A i \in F : e[i].parent \notin DOMAIN e,
         \A i \in DOMAIN d \ F : e[i].parent = d[i].parent
  PROVE  Acyclic(e)
  <1>1. ASSUME NEW i \in DOMAIN e PROVE \E S : Clear(e, i, S)
    <2>1. CASE i \in F
      <3>1. Clear(e, i, {})
        BY <2>1 DEF Clear
      <3> QED  BY <3>1
    <2>2. CASE i \notin F
      <3>1. PICK S : Clear(d, i, S)
        BY <2>2, ClearWays
      <3>2. Clear(e, i, S \cup F)
        BY <2>2, <3>1 DEF Clear
      <3> QED  BY <3>2
    <2> QED  BY <2>1, <2>2
  <1> QED  BY <1>1, ClearWays

\* The check of autoParentOnDrop: c may become the parent of i when i is not
\* on the way up from c.
LEMMA Nested ==
  ASSUME NEW d, NEW e, NEW i \in DOMAIN d, NEW c \in DOMAIN d \ {i},
         Acyclic(d), i \notin Ancestors(d, c),
         DOMAIN e = DOMAIN d, e[i].parent = c,
         \A k \in DOMAIN d \ {i} : e[k].parent = d[k].parent
  PROVE  Acyclic(e)
  <1>1. PICK C \in Upward(d) : i \notin C /\ (d[c].parent \in DOMAIN d => d[c].parent \in C)
    BY NotAncestor
  <1> DEFINE U == C \cup {c}
  <1>2. /\ U \subseteq DOMAIN d /\ i \notin U /\ c \in U
        /\ \A j \in U : d[j].parent \in DOMAIN d => d[j].parent \in U
    BY <1>1 DEF Upward
  <1> HIDE DEF U
  <1>3. ASSUME NEW k \in DOMAIN e PROVE \E S : Clear(e, k, S)
    <2>1. PICK S : Clear(d, k, S)
      BY <1>3, ClearWays
    <2>2. CASE k = i
      <3>1. Clear(e, k, U)
        BY <1>2, <2>2 DEF Clear
      <3> QED  BY <3>1
    <2>3. CASE k # i /\ i \notin S
      <3>1. Clear(e, k, S)
        BY <2>1, <2>3 DEF Clear
      <3> QED  BY <3>1
    <2>4. CASE k # i /\ i \in S /\ k \in U
      <3>1. Clear(e, k, S \cap U)
        BY <1>2, <2>1, <2>4 DEF Clear
      <3> QED  BY <3>1
    <2>5. CASE k # i /\ i \in S /\ k \notin U
      <3>1. Clear(e, k, S \cup U)
        BY <1>2, <2>1, <2>5 DEF Clear
      <3> QED  BY <3>1
    <2> QED  BY <2>2, <2>3, <2>4, <2>5
  <1> QED  BY <1>3, ClearWays

-----------------------------------------------------------------------------
(* The inductive invariant. *)

\* A document whose order covers it, whose references resolve, whose parents
\* form no circle, and which uses only ids that have been handed out.
Known(d, ids) == /\ DOMAIN d \subseteq ids
                 /\ \A i \in DOMAIN d : d[i].parent \in Ids => d[i].parent \in ids
Good(d, o, ids) ==
  /\ DOMAIN d \subseteq Ids /\ d \in [DOMAIN d -> Expression]
  /\ o \in Seq(Ids) /\ ToSet(o) = DOMAIN d
  /\ Resolved(d) /\ Acyclic(d) /\ Known(d, ids)

Docs       == UNION {[D -> Expression] : D \in SUBSET Ids}
Whole(ids) == {v \in [doc : Docs, order : Seq(Ids)] : Good(v.doc, v.order, ids)}

\* What the clipboard holds.
Clips(ids) == {e \in Expression : e.clip /\ (e.parent \in Ids => e.parent \in ids)}

Shift == 0..(Places - 1)

DocInv  == Good(doc, order, born)
HistInv == undo \in Seq(Whole(born)) /\ redo \in Seq(Whole(born)) /\ HistoryConsistent
DragInv ==
  drag \in {NoDrag} \cup [kind : {"move", "resize", "point"},
                         from : UNION {[D -> Shift] : D \in SUBSET Ids}, delta : Shift]
ClipInv == clipboard \in Seq([id : Ids, e : Clips(born)])
LayerInv ==
  /\ DefaultLayer \in layers /\ layers \subseteq Layers
  /\ lockedLayers \subseteq layers /\ activeLayer \in layers
  /\ born \subseteq Ids \cup Groups \cup Layers

CanvasInv == DocInv /\ HistInv /\ DragInv /\ ClipInv /\ LayerInv

\* A document and its order that hold together make a whole snapshot.
LEMMA WholeRecord ==
  ASSUME NEW d, NEW o, NEW ids, Good(d, o, ids)
  PROVE  [doc |-> d, order |-> o] \in Whole(ids)
  <1>1. d \in Docs
    BY DEF Good, Docs
  <1>2. o \in Seq(Ids)
    BY DEF Good
  <1> QED  BY <1>1, <1>2 DEF Whole

\* A whole snapshot holds a document and its order that hold together.
LEMMA WholeParts ==
  ASSUME NEW ids, NEW v \in Whole(ids)
  PROVE  Good(v.doc, v.order, ids) /\ v = [doc |-> v.doc, order |-> v.order]
  <1>1. v \in [doc : Docs, order : Seq(Ids)] /\ Good(v.doc, v.order, ids)
    BY DEF Whole
  <1> QED  BY <1>1

\* Handing out more ids spoils nothing.
LEMMA MoreIds ==
  ASSUME NEW a, NEW b, a \subseteq b
  PROVE  /\ \A d, o : Good(d, o, a) => Good(d, o, b)
         /\ \A s \in Seq(Whole(a)) : s \in Seq(Whole(b))
         /\ \A s \in Seq([id : Ids, e : Clips(a)]) : s \in Seq([id : Ids, e : Clips(b)])
  <1>1. \A d, o : Good(d, o, a) => Good(d, o, b)
    BY DEF Good, Known
  <1>2. Whole(a) \subseteq Whole(b)
    BY <1>1 DEF Whole
  <1>3. [id : Ids, e : Clips(a)] \subseteq [id : Ids, e : Clips(b)]
    BY DEF Clips
  <1>4. \A s \in Seq(Whole(a)) : s \in Seq(Whole(b))
    BY <1>2, SeqMonotonic
  <1>5. \A s \in Seq([id : Ids, e : Clips(a)]) : s \in Seq([id : Ids, e : Clips(b)])
    BY <1>3, SeqMonotonic
  <1> QED  BY <1>1, <1>4, <1>5

\* The same expressions elsewhere, with another look, out of their parents, in
\* a group, or bound to another expression of the document.
LEMMA Retouched ==
  ASSUME NEW d, NEW o, NEW ids, Good(d, o, ids), NEW e \in [DOMAIN d -> Expression],
         \A i \in DOMAIN d :
           /\ e[i].parent = d[i].parent \/ e[i].parent \in Groups \cup {None}
           /\ e[i].clip = d[i].clip
           /\ e[i].bound = d[i].bound \/ e[i].bound \in DOMAIN d \cup {None}
  PROVE  Good(e, o, ids)
  <1>1. DOMAIN e = DOMAIN d /\ DOMAIN d \subseteq Ids /\ ToSet(o) = DOMAIN d
    BY DEF Good
  <1>2. \A g \in Groups \cup {None} : g \notin Ids
    BY CanvasAssumption
  <1>3. Acyclic(e)
    <2>1. Acyclic(d) /\ \A i \in DOMAIN e : e[i].parent = d[i].parent \/ e[i].parent \notin DOMAIN e
      BY <1>1, <1>2 DEF Good
    <2> QED  BY <1>1, <2>1, Loosened
  <1>4. Resolved(e)
    BY <1>1 DEF Good, Resolved
  <1>5. Known(e, ids)
    BY <1>1, <1>2 DEF Good, Known
  <1> QED  BY <1>1, <1>3, <1>4, <1>5 DEF Good

\* A new expression in front, without a parent.
LEMMA WithOne ==
  ASSUME NEW d, NEW o, NEW ids, Good(d, o, ids), NEW i \in Ids,
         NEW e \in Expression, ~e.clip, e.parent = None, e.bound \in DOMAIN d \cup {None}
  PROVE  Good(With(d, i, e), Append(o, i), ids \cup {i})
  <1> DEFINE f == With(d, i, e)
  <1>1. /\ DOMAIN f = DOMAIN d \cup {i} /\ f[i] = e
        /\ \A j \in DOMAIN d \ {i} : f[j] = d[j]
    BY DEF With
  <1>2. /\ DOMAIN d \subseteq Ids /\ d \in [DOMAIN d -> Expression]
        /\ o \in Seq(Ids) /\ ToSet(o) = DOMAIN d
    BY DEF Good
  <1>3. f \in [DOMAIN f -> Expression]
    BY <1>2 DEF With
  <1> HIDE DEF f
  <1>4. Append(o, i) \in Seq(Ids) /\ ToSet(Append(o, i)) = DOMAIN f
    BY <1>1, <1>2, AppendToSet
  <1>5. None \notin Ids
    BY CanvasAssumption
  <1>6. Acyclic(f)
    <2>1. Acyclic(d)
      BY DEF Good
    <2> DEFINE F == {i}
    <2>2. \A k \in F : f[k].parent \notin DOMAIN f
      BY <1>1, <1>2, <1>5
    <2>3. \A k \in DOMAIN d \ F : f[k].parent = d[k].parent
      BY <1>1
    <2>4. DOMAIN f = DOMAIN d \cup F
      BY <1>1
    <2> HIDE DEF F
    <2> QED  BY <2>1, <2>2, <2>3, <2>4, Overlaid
  <1>7. Resolved(f)
    BY <1>1 DEF Good, Resolved
  <1>8. Known(f, ids \cup {i})
    BY <1>1, <1>5 DEF Good, Known
  <1> QED  BY <1>1, <1>2, <1>3, <1>4, <1>6, <1>7, <1>8 DEF Good, f

\* Deleted expressions leave the order, the bindings and the parents.
LEMMA WithoutDead ==
  ASSUME NEW d, NEW o, NEW ids, Good(d, o, ids), NEW dead
  PROVE  Good(Without(d, dead), Only(o, Ids \ dead), ids)
  <1> DEFINE f == Without(d, dead)
  <1>1. /\ DOMAIN d \subseteq Ids /\ d \in [DOMAIN d -> Expression]
        /\ o \in Seq(Ids) /\ ToSet(o) = DOMAIN d
    BY DEF Good
  <1>2. /\ DOMAIN f = DOMAIN d \ dead /\ f \in [DOMAIN f -> Expression]
        /\ \A j \in DOMAIN f :
             /\ f[j].clip = d[j].clip
             /\ f[j].bound = IF d[j].bound \in dead THEN None ELSE d[j].bound
             /\ f[j].parent = IF d[j].parent \in dead THEN None ELSE d[j].parent
    <2>1. DOMAIN f = DOMAIN d \ dead
      BY DEF Without
    <2>2. ASSUME NEW j \in DOMAIN f
          PROVE  /\ f[j] \in Expression /\ f[j].clip = d[j].clip
                 /\ f[j].bound = IF d[j].bound \in dead THEN None ELSE d[j].bound
                 /\ f[j].parent = IF d[j].parent \in dead THEN None ELSE d[j].parent
      <3>1. d[j] \in Expression
        BY <1>1, <2>1
      <3>2. f[j] = [d[j] EXCEPT !.bound  = IF @ \in dead THEN None ELSE @,
                                !.parent = IF @ \in dead THEN None ELSE @]
        BY <2>1 DEF Without
      <3> QED  BY <3>1, <3>2 DEF Expression
    <2>3. f = [j \in DOMAIN f |-> f[j]]
      BY <2>1 DEF Without
    <2> HIDE DEF f
    <2> QED  BY <2>1, <2>2, <2>3
  <1> HIDE DEF f
  <1>3. Only(o, Ids \ dead) \in Seq(Ids) /\ ToSet(Only(o, Ids \ dead)) = DOMAIN f
    BY <1>2, <1>1, OnlyElements
  <1>4. None \notin Ids
    BY CanvasAssumption
  <1>5. Acyclic(f)
    <2>1. Acyclic(d)
      BY DEF Good
    <2>2. \A i \in DOMAIN f : f[i].parent = d[i].parent \/ f[i].parent \notin DOMAIN f
      BY <1>2, <1>1, <1>4
    <2> QED  BY <1>2, <2>1, <2>2, Loosened
  <1>6. Resolved(f)
    BY <1>2 DEF Good, Resolved
  <1>7. Known(f, ids)
    BY <1>2, <1>4 DEF Good, Known
  <1> QED  BY <1>2, <1>1, <1>3, <1>5, <1>6, <1>7 DEF Good, f

-----------------------------------------------------------------------------
(* The history. *)

\* A push keeps the stack within its bound and leaves the snapshot on top.
LEMMA PushedStack ==
  ASSUME NEW W, NEW stack \in Seq(W), NEW s \in W, Len(stack) <= MaxHistory
  PROVE  Pushed(stack, s) \in Seq(W) /\ Len(Pushed(stack, s)) \in 1..MaxHistory
  <1> DEFINE t == Append(stack, s)
  <1>1. t \in Seq(W) /\ Len(t) = Len(stack) + 1 /\ t # <<>>
    BY AppendProperties
  <1>2. Len(stack) \in Nat /\ MaxHistory \in Nat \ {0}
    BY CanvasAssumption, LenProperties
  <1> HIDE DEF t
  <1>3. Tail(t) \in Seq(W) /\ Len(Tail(t)) = Len(t) - 1
    BY <1>1, HeadTailProperties
  <1>4. Pushed(stack, s) = IF Len(t) > MaxHistory THEN Tail(t) ELSE t
    BY DEF Pushed, t
  <1>5. CASE Len(t) > MaxHistory
    BY <1>1, <1>2, <1>3, <1>4, <1>5
  <1>6. CASE ~ (Len(t) > MaxHistory)
    BY <1>1, <1>2, <1>4, <1>6
  <1> QED  BY <1>5, <1>6

\* After several pushes (addExpression once per copy) the stack is within its bound.
LEMMA LatestStack ==
  ASSUME NEW W, NEW stack \in Seq(W)
  PROVE  Latest(stack) \in Seq(W) /\ Len(Latest(stack)) <= MaxHistory
  <1> DEFINE N == Len(stack)
             m == N - MaxHistory + 1
  <1>1. N \in Nat /\ MaxHistory \in Nat \ {0} /\ \A k \in 1..N : stack[k] \in W
    BY CanvasAssumption, LenProperties
  <1>2. CASE N > MaxHistory
    <2>1. m \in Int /\ N \in Int /\ m <= N /\ \A k \in m..N : stack[k] \in W
      BY <1>1, <1>2
    <2>2. Latest(stack) = SubSeq(stack, m, N)
      BY <1>2 DEF Latest
    <2>3. /\ SubSeq(stack, m, N) \in Seq(W)
          /\ Len(SubSeq(stack, m, N)) = IF m <= N THEN N - m + 1 ELSE 0
      <3> HIDE DEF m, N
      <3> QED  BY <2>1, SubSeqProperties
    <2>4. N - m + 1 = MaxHistory
      <3> HIDE DEF N
      <3> QED  BY <1>1
    <2> HIDE DEF m, N
    <2> QED  BY <1>1, <2>1, <2>2, <2>3, <2>4
  <1>3. CASE ~ (N > MaxHistory)
    BY <1>1, <1>3 DEF Latest
  <1> QED  BY <1>2, <1>3

\* What undo and redo take off a stack is a whole snapshot, and so is what stays.
LEMMA TopOfStack ==
  ASSUME NEW W, NEW stack \in Seq(W), stack # <<>>
  PROVE  /\ Last(stack) \in W
         /\ Front(stack) \in Seq(W) /\ Len(Front(stack)) = Len(stack) - 1
  <1> DEFINE N == Len(stack)
  <1>1. N \in Nat \ {0} /\ \A k \in 1..N : stack[k] \in W
    BY EmptySeq, LenProperties, ElementOfSeq
  <1>2. Last(stack) = stack[N] /\ Front(stack) = SubSeq(stack, 1, N - 1)
    BY DEF Last, Front
  <1> HIDE DEF N
  <1>3. 1 \in Int /\ N - 1 \in Int /\ \A k \in 1..(N - 1) : stack[k] \in W
    BY <1>1
  <1>4. /\ SubSeq(stack, 1, N - 1) \in Seq(W)
        /\ Len(SubSeq(stack, 1, N - 1)) = IF 1 <= N - 1 THEN N - 1 - 1 + 1 ELSE 0
    BY <1>3, SubSeqProperties
  <1>5. Len(Front(stack)) = N - 1
    BY <1>1, <1>2, <1>4
  <1> QED  BY <1>1, <1>2, <1>4, <1>5 DEF N

\* A recorded change: whole snapshots below a whole document.
LEMMA CommitKeeps ==
  ASSUME HistInv, born \subseteq born', NEW before \in Whole(born'),
         NEW d, NEW o, Good(d, o, born'), Commit(before, d, o)
  PROVE  DocInv' /\ HistInv'
  <1>1. undo \in Seq(Whole(born')) /\ Len(undo) <= MaxHistory
    <2>1. undo \in Seq(Whole(born)) /\ redo \in Seq(Whole(born)) /\ Len(undo) + Len(redo) <= MaxHistory
      BY DEF HistInv, HistoryConsistent
    <2>2. Len(undo) \in Nat /\ Len(redo) \in Nat /\ MaxHistory \in Nat
      BY <2>1, LenProperties, CanvasAssumption
    <2>3. undo \in Seq(Whole(born'))
      BY <2>1, MoreIds
    <2> QED  BY <2>1, <2>2, <2>3
  <1>2. undo' \in Seq(Whole(born')) /\ Len(undo') \in 1..MaxHistory
    BY <1>1, PushedStack DEF Commit
  <1>3. redo' = <<>> /\ canUndo' = (undo' # <<>>) /\ canRedo' = (redo' # <<>>)
    BY DEF Commit, Flags
  <1>4. HistInv'
    <2>1. <<>> \in Seq(Whole(born')) /\ Len(<<>>) = 0
      BY EmptySeq
    <2> QED  BY <1>2, <1>3, <2>1, CanvasAssumption DEF HistInv, HistoryConsistent
  <1>5. DocInv'
    BY DEF DocInv, Commit
  <1> QED  BY <1>4, <1>5

\* The snapshot pushSnapshot takes of the current document is whole.
LEMMA CurrentWhole ==
  ASSUME DocInv
  PROVE  Snapshot \in Whole(born)
  BY WholeRecord DEF DocInv, Snapshot

\* A change of expressions and nothing else.
LEMMA CommitRetouched ==
  ASSUME DocInv, HistInv, born' = born, NEW before \in Whole(born), NEW d, NEW o,
         Good(d, o, born), Commit(before, d, o)
  PROVE  DocInv' /\ HistInv'
  BY CommitKeeps

\* A change without a snapshot (setState alone) leaves the history as it was.
LEMMA SilentlyKeeps ==
  ASSUME HistInv, born' = born, NEW d, NEW o, Good(d, o, born), Silently(d, o)
  PROVE  DocInv' /\ HistInv'
  BY DEF Silently, HistInv, DocInv, HistoryConsistent, histVars

\* undo() moves one snapshot from stack to stack: the sum of the lengths stays.
LEMMA UndoKeeps ==
  ASSUME DocInv, HistInv, Undo
  PROVE  DocInv' /\ HistInv'
  <1> DEFINE W == Whole(born)
  <1>1. /\ undo \in Seq(W) /\ redo \in Seq(W) /\ undo # <<>>
        /\ Len(undo) + Len(redo) <= MaxHistory /\ MaxHistory \in Nat
        /\ born' = born
    BY CanvasAssumption DEF HistInv, HistoryConsistent, Undo
  <1>2. Len(undo) \in Nat \ {0} /\ Len(redo) \in Nat
    BY <1>1, EmptySeq, LenProperties
  <1>3. Snapshot \in W
    BY CurrentWhole
  <1> HIDE DEF W
  <1>4. Last(undo) \in W /\ Front(undo) \in Seq(W) /\ Len(Front(undo)) = Len(undo) - 1
    BY <1>1, TopOfStack
  <1>5. undo' \in Seq(W) /\ redo' \in Seq(W) /\ Len(undo') + Len(redo') <= MaxHistory
    <2>1. redo' \in Seq(W) /\ Len(redo') = Len(redo) + 1
      BY <1>1, <1>3, AppendProperties DEF Undo
    <2> QED  BY <1>1, <1>2, <1>4, <2>1 DEF Undo
  <1>6. Good(doc', order', born)
    BY <1>4, WholeParts DEF Undo, W
  <1> QED  BY <1>1, <1>5, <1>6 DEF HistInv, DocInv, HistoryConsistent, Undo, Flags, W

\* redo() does the same the other way.
LEMMA RedoKeeps ==
  ASSUME DocInv, HistInv, Redo
  PROVE  DocInv' /\ HistInv'
  <1> DEFINE W == Whole(born)
  <1>1. /\ undo \in Seq(W) /\ redo \in Seq(W) /\ redo # <<>>
        /\ Len(undo) + Len(redo) <= MaxHistory /\ MaxHistory \in Nat
        /\ born' = born
    BY CanvasAssumption DEF HistInv, HistoryConsistent, Redo
  <1>2. Len(redo) \in Nat \ {0} /\ Len(undo) \in Nat
    BY <1>1, EmptySeq, LenProperties
  <1>3. Snapshot \in W
    BY CurrentWhole
  <1> HIDE DEF W
  <1>4. Last(redo) \in W /\ Front(redo) \in Seq(W) /\ Len(Front(redo)) = Len(redo) - 1
    BY <1>1, TopOfStack
  <1>5. undo' \in Seq(W) /\ redo' \in Seq(W) /\ Len(undo') + Len(redo') <= MaxHistory
    <2>1. undo' \in Seq(W) /\ Len(undo') = Len(undo) + 1
      BY <1>1, <1>3, AppendProperties DEF Redo
    <2> QED  BY <1>1, <1>2, <1>4, <2>1 DEF Redo
  <1>6. Good(doc', order', born)
    BY <1>4, WholeParts DEF Redo, W
  <1> QED  BY <1>1, <1>5, <1>6 DEF HistInv, DocInv, HistoryConsistent, Redo, Flags, W

-----------------------------------------------------------------------------
(* Copies added one by one. *)

\* One order after another holds the expressions of both.
LEMMA ConcatToSet ==
  ASSUME NEW S, NEW s \in Seq(S), NEW t \in Seq(S)
  PROVE  s \o t \in Seq(S) /\ ToSet(s \o t) = ToSet(s) \cup ToSet(t)
  <1> DEFINE u == s \o t
  <1>1. u \in Seq(S) /\ Len(u) = Len(s) + Len(t) /\ Len(s) \in Nat /\ Len(t) \in Nat
    BY ConcatProperties, LenProperties
  <1>2. \A k \in 1..Len(u) : u[k] = IF k <= Len(s) THEN s[k] ELSE t[k - Len(s)]
    BY ConcatProperties
  <1>3. DOMAIN u = 1..Len(u) /\ DOMAIN s = 1..Len(s) /\ DOMAIN t = 1..Len(t)
    BY <1>1, LenProperties
  <1> HIDE DEF u
  <1>4. ASSUME NEW k \in DOMAIN u PROVE u[k] \in ToSet(s) \cup ToSet(t)
    <2>1. CASE k <= Len(s)
      BY <1>1, <1>2, <1>3, <2>1 DEF ToSet
    <2>2. CASE ~ (k <= Len(s))
      <3>1. k - Len(s) \in DOMAIN t /\ u[k] = t[k - Len(s)]
        BY <1>1, <1>2, <1>3, <2>2
      <3> QED  BY <3>1 DEF ToSet
    <2> QED  BY <2>1, <2>2
  <1>5. \A k \in DOMAIN s : k \in DOMAIN u /\ u[k] = s[k]
    BY <1>1, <1>2, <1>3
  <1>6. \A k \in DOMAIN t : k + Len(s) \in DOMAIN u /\ u[k + Len(s)] = t[k]
    BY <1>1, <1>2, <1>3
  <1>7. ToSet(u) = ToSet(s) \cup ToSet(t)
    BY <1>4, <1>5, <1>6 DEF ToSet
  <1> QED  BY <1>1, <1>7 DEF u

\* The elements of a finite set can be listed.
LEMMA SetToSeqLists ==
  ASSUME NEW S, IsFiniteSet(S)
  PROVE  SetToSeq(S) \in Seq(S)
  <1> DEFINE N == Cardinality(S)
  <1>1. N \in Nat /\ Bijection(1..N, S) # {}
    BY FS_CardinalityType DEF ExistsBijection
  <1>2. PICK f : f \in Bijection(1..N, S)
    BY <1>1
  <1>3. f \in [1..N -> S] /\ IsInjective(f)
    BY <1>2 DEF Bijection, Injection
  <1>4. SetToSeq(S) \in [1..N -> S]
    BY <1>3 DEF SetToSeq
  <1> HIDE DEF N
  <1> QED  BY <1>1, <1>4, SeqDef

\* So can the expressions of a selection, with their contents.
LEMMA CopiesFinite ==
  ASSUME NEW D, D \subseteq Ids, NEW f
  PROVE  SetToSeq({[id |-> i, e |-> f[i]] : i \in D}) \in Seq({[id |-> i, e |-> f[i]] : i \in D})
  <1> DEFINE S == {[id |-> i, e |-> f[i]] : i \in D}
             g == [c \in S |-> c.id]
  <1>1. g \in [S -> Ids] /\ \A a, b \in S : g[a] = g[b] => a = b
    OBVIOUS
  <1> HIDE DEF S, g
  <1>2. g \in Injection(S, Ids)
    BY <1>1 DEF Injection, IsInjective
  <1>3. SetToSeq(S) \in Seq(S)
    BY <1>2, FS_Injection, CanvasAssumption, SetToSeqLists
  <1> QED  BY <1>3 DEF S

\* What is added under new ids: its references resolve, or it came out of the
\* clipboard; its parent, if it is an expression, had its id before.
Addable(new) ==
  /\ new \in [id : Ids, e : Expression] /\ new.id \notin born
  /\ new.e.clip \/ (new.e.bound \in Live \cup {None} /\ new.e.parent \in Groups \cup {None})
  /\ new.e.parent \in Ids => new.e.parent \in born

\* Each document on the way of a paste or a duplicate holds together.
LEMMA AddedGood ==
  ASSUME DocInv, NEW news, NEW N \in Nat, DOMAIN news = 1..N, \A k \in 1..N : Addable(news[k]),
         NEW n \in 0..N, NEW ids, born \subseteq ids, \A k \in 1..N : news[k].id \in ids
  PROVE  Added(news, n) \in Whole(ids)
  <1> DEFINE of(j) == {k \in 1..n : news[k].id = j}
             d     == [j \in Live \cup {news[k].id : k \in 1..n} |->
                         IF of(j) # {} THEN news[CHOOSE k \in of(j) : TRUE].e ELSE doc[j]]
             ns    == [k \in 1..n |-> news[k].id]
             o     == order \o ns
  <1>1. Added(news, n) = [doc |-> d, order |-> o]
    BY DEF Added
  <1>2. /\ Live \subseteq Ids /\ doc \in [Live -> Expression] /\ order \in Seq(Ids)
        /\ ToSet(order) = Live /\ Resolved(doc) /\ Acyclic(doc) /\ Known(doc, born)
    BY DEF DocInv, Good, Live
  <1>3. \A k \in 1..n : k \in 1..N /\ Addable(news[k])
    OBVIOUS
  <1>4. \A j \in Live : of(j) = {} /\ d[j] = doc[j]
    BY <1>2, <1>3 DEF Known, Addable, Live
  <1>5. ASSUME NEW j \in DOMAIN d \ Live
        PROVE  \E k \in 1..n : news[k].id = j /\ d[j] = news[k].e
    <2>1. of(j) # {} /\ j \in Live \cup {news[k].id : k \in 1..n}
      OBVIOUS
    <2>2. d[j] = news[CHOOSE k \in of(j) : TRUE].e
      BY <2>1
    <2>3. (CHOOSE k \in of(j) : TRUE) \in of(j)
      BY <2>1
    <2> QED  BY <2>2, <2>3
  <1>6. DOMAIN d = Live \cup {news[k].id : k \in 1..n} /\ d = [j \in DOMAIN d |-> d[j]]
    OBVIOUS
  <1> HIDE DEF d
  <1>7. \A j \in DOMAIN d : d[j] \in Expression
    BY <1>2, <1>3, <1>4, <1>5, <1>6 DEF Addable
  <1>8. DOMAIN d \subseteq Ids /\ d \in [DOMAIN d -> Expression]
    BY <1>2, <1>3, <1>6, <1>7 DEF Addable
  <1>9. o \in Seq(Ids) /\ ToSet(o) = DOMAIN d
    <2>1. ns \in Seq(Ids) /\ ToSet(ns) = {news[k].id : k \in 1..n}
      <3>1. ns \in [1..n -> Ids] /\ n \in Nat
        BY <1>3 DEF Addable
      <3>2. ToSet(ns) = {news[k].id : k \in 1..n}
        BY DEF ToSet
      <3> HIDE DEF ns
      <3> QED  BY <3>1, <3>2, SeqDef
    <2> HIDE DEF ns
    <2> QED  BY <1>2, <1>6, <2>1, ConcatToSet
  <1>10. \A j \in DOMAIN d \ Live : j \notin born
    BY <1>3, <1>5 DEF Addable
  <1>11. \A j \in DOMAIN d : d[j].parent \in Ids => d[j].parent \in born
    BY <1>2, <1>3, <1>4, <1>5 DEF Addable, Known, Live
  <1>12. Acyclic(d)
    <2>1. \A j \in DOMAIN d : d[j].parent \in DOMAIN d => d[j].parent \in Live
      BY <1>8, <1>10, <1>11
    <2> QED  BY <1>2, <1>4, <1>6, <2>1, Extended DEF Live
  <1>13. Resolved(d)
    <2> SUFFICES ASSUME NEW j \in DOMAIN d, ~d[j].clip
                 PROVE  /\ d[j].bound  \in DOMAIN d \cup {None}
                        /\ d[j].parent \in DOMAIN d \cup Groups \cup {None}
      BY DEF Resolved
    <2>1. CASE j \in Live
      BY <1>2, <1>4, <1>6, <2>1 DEF Resolved, Live
    <2>2. CASE j \notin Live
      BY <1>3, <1>5, <1>6, <2>2 DEF Addable
    <2> QED  BY <2>1, <2>2
  <1>14. Known(d, ids)
    <2>1. Live \subseteq ids
      BY <1>2 DEF Known, Live
    <2> QED  BY <1>3, <1>6, <1>11, <2>1 DEF Known
  <1>15. Good(d, o, ids)
    BY <1>8, <1>9, <1>12, <1>13, <1>14 DEF Good
  <1> QED  BY <1>1, <1>15, WholeRecord

\* A paste or a duplicate leaves a whole document and whole snapshots.
LEMMA AddAllKeeps ==
  ASSUME DocInv, HistInv, NEW news, NEW N \in Nat, DOMAIN news = 1..N, Len(news) = N,
         \A k \in 1..N : Addable(news[k]) /\ news[k].id \in born',
         born \subseteq born', AddAll(news)
  PROVE  DocInv' /\ HistInv'
  <1> DEFINE W  == Whole(born')
             ss == [k \in 1..N |-> Added(news, k - 1)]
  <1>1. \A n \in 0..N : Added(news, n) \in W
    BY AddedGood
  <1>2. ss \in Seq(W)
    <2>1. ss \in [1..N -> W]
      BY <1>1
    <2> HIDE DEF ss, W
    <2> QED  BY <2>1, SeqDef
  <1>3. undo \in Seq(W)
    BY MoreIds DEF HistInv
  <1>4. undo' = Latest(undo \o ss) /\ redo' = <<>> /\ Flags
        /\ doc' = Added(news, N).doc /\ order' = Added(news, N).order
    BY DEF AddAll
  <1> HIDE DEF ss, W
  <1>5. undo' \in Seq(W) /\ Len(undo') <= MaxHistory
    <2>1. undo \o ss \in Seq(W)
      BY <1>2, <1>3, ConcatProperties
    <2> QED  BY <1>4, <2>1, LatestStack
  <1>6. HistInv'
    <2>1. redo' \in Seq(W) /\ Len(redo') = 0
      BY <1>4, EmptySeq
    <2>2. Len(undo') \in Nat
      BY <1>5, LenProperties
    <2> QED  BY <1>4, <1>5, <2>1, <2>2 DEF HistInv, HistoryConsistent, Flags, W
  <1>7. DocInv'
    <2>1. N \in 0..N
      OBVIOUS
    <2> QED  BY <1>1, <1>4, <2>1, WholeParts DEF DocInv, W
  <1> QED  BY <1>6, <1>7

-----------------------------------------------------------------------------
(* The editing operations. *)

\* What most operations do to an expression of a document with the ids D.
Touched(x, y, D) ==
  /\ y \in Expression /\ y.clip = x.clip
  /\ y.parent = x.parent \/ y.parent \in Groups \cup {None}
  /\ y.bound = x.bound \/ y.bound \in D \cup {None}

\* What a handler assigns to a field makes a touched expression.
LEMMA Touches ==
  ASSUME NEW x \in Expression, NEW D, D \subseteq Ids
  PROVE  /\ Touched(x, x, D)
         /\ \A p \in Shift : Touched(x, [x EXCEPT !.at = p], D)
         /\ \A k \in {0, 1} : Touched(x, [x EXCEPT !.look = k], D)
         /\ \A g \in Groups \cup {None} : Touched(x, [x EXCEPT !.parent = g], D)
         /\ \A b \in D \cup {None} : Touched(x, [x EXCEPT !.bound = b], D)
         /\ \A l \in Layers : Touched(x, [x EXCEPT !.layer = l], D)
  BY DEF Touched, Expression, Shift

\* An expression touched twice is a touched expression.
LEMMA TouchedTwice ==
  ASSUME NEW x, NEW y, NEW z, NEW D, Touched(x, y, D), Touched(y, z, D)
  PROVE  Touched(x, z, D)
  BY DEF Touched

\* A step that changes the document and its history and hands out ids.
LEMMA RestKeeps ==
  ASSUME CanvasInv, DocInv', HistInv', UNCHANGED <<clipboard, layerVars>>, DragInv',
         born \subseteq born', born' \subseteq Ids \cup Groups \cup Layers
  PROVE  CanvasInv'
  <1>1. ClipInv'
    BY MoreIds DEF CanvasInv, ClipInv
  <1>2. LayerInv'
    BY DEF CanvasInv, LayerInv, layerVars
  <1> QED  BY <1>1, <1>2 DEF CanvasInv

\* An operation that is no gesture leaves the drag under way as it is.
LEMMA SameDrag ==
  ASSUME CanvasInv, UNCHANGED drag
  PROVE  DragInv'
  BY DEF CanvasInv, DragInv, NoDrag, Shift

\* The current document is a whole snapshot for the ids handed out later, too.
LEMMA SnapshotWhole ==
  ASSUME CanvasInv, born \subseteq born'
  PROVE  Snapshot \in Whole(born')
  <1>1. Good(doc, order, born')
    BY MoreIds DEF CanvasInv, DocInv
  <1> QED  BY <1>1, WholeRecord DEF Snapshot

\* What the invariant says of the current document.
LEMMA DocumentTypes ==
  ASSUME CanvasInv
  PROVE  /\ Live \subseteq Ids /\ doc \in [Live -> Expression]
         /\ order \in Seq(Ids) /\ ToSet(order) = Live
         /\ Resolved(doc) /\ Acyclic(doc) /\ Known(doc, born)
  BY DEF CanvasInv, DocInv, Good, Live

\* A document whose expressions are touched holds together.
LEMMA TouchedGood ==
  ASSUME CanvasInv, born \subseteq born', NEW e, e \in [Live -> Expression],
         \A i \in Live : Touched(doc[i], e[i], Live)
  PROVE  Good(e, order, born) /\ Good(e, order, born')
  <1>1. Good(e, order, born)
    BY Retouched DEF Touched, CanvasInv, DocInv, Live
  <1> QED  BY <1>1, MoreIds

\* A recorded change of that kind.
LEMMA RecordedTouch ==
  ASSUME CanvasInv, NEW before \in Whole(born'), NEW e, e \in [Live -> Expression],
         \A i \in Live : Touched(doc[i], e[i], Live),
         Commit(before, e, order), UNCHANGED <<clipboard, layerVars>>, DragInv',
         born \subseteq born', born' \subseteq Ids \cup Groups \cup Layers
  PROVE  CanvasInv'
  <1>1. Good(e, order, born')
    BY TouchedGood
  <1>2. DocInv' /\ HistInv'
    BY <1>1, CommitKeeps DEF CanvasInv
  <1> QED  BY <1>2, RestKeeps

\* A silent one.
LEMMA SilentTouch ==
  ASSUME CanvasInv, NEW e, e \in [Live -> Expression],
         \A i \in Live : Touched(doc[i], e[i], Live),
         Silently(e, order), UNCHANGED <<clipboard, layerVars, born>>, DragInv'
  PROVE  CanvasInv'
  <1>1. Good(e, order, born)
    BY TouchedGood
  <1>2. DocInv' /\ HistInv'
    BY <1>1, SilentlyKeeps DEF CanvasInv
  <1>3. born \subseteq Ids \cup Groups \cup Layers
    BY DEF CanvasInv, LayerInv
  <1> QED  BY <1>2, <1>3, RestKeeps

\* addExpression and createContainer.
LEMMA AddExpressionKeeps ==
  ASSUME CanvasInv, NEW i \in Ids, NEW at \in Shift, NEW t \in Ids \cup {None},
         AddExpression(i, at, t) \/ (CreateContainer(i, at) /\ t = None)
  PROVE  CanvasInv'
  <1> DEFINE e == [at |-> at, look |-> 0, bound |-> t, parent |-> None,
                   layer |-> activeLayer, clip |-> FALSE]
  <1>1. e \in Expression
    BY DEF CanvasInv, LayerInv, Expression, Shift
  <1>2. e.bound \in DOMAIN doc \cup {None} /\ ~e.clip /\ e.parent = None
    BY DEF AddExpression, Bindable, Live
  <1>3. /\ Commit(Snapshot, With(doc, i, e), Append(order, i))
        /\ born' = born \cup {i} /\ UNCHANGED <<drag, clipboard, layerVars>>
    BY DEF AddExpression, CreateContainer
  <1> HIDE DEF e
  <1>4. Good(With(doc, i, e), Append(order, i), born \cup {i})
    BY <1>1, <1>2, WithOne DEF CanvasInv, DocInv
  <1>5. DocInv' /\ HistInv'
    BY <1>3, <1>4, SnapshotWhole, CommitKeeps DEF CanvasInv
  <1>6. born' \subseteq Ids \cup Groups \cup Layers
    BY <1>3 DEF CanvasInv, LayerInv
  <1> QED  BY <1>3, <1>5, <1>6, SameDrag, RestKeeps

\* The handlers that touch expressions of the store and record it.
LEMMA TouchingKeeps ==
  ASSUME CanvasInv, NEW e, e = [j \in Live |-> e[j]],
         \A j \in Live : Touched(doc[j], e[j], Live),
         Commit(Snapshot, e, order), UNCHANGED <<drag, clipboard, layerVars>>,
         born \subseteq born', born' \subseteq Ids \cup Groups \cup Layers
  PROVE  CanvasInv'
  <1>1. e \in [Live -> Expression]
    BY DEF Touched
  <1> QED  BY <1>1, SnapshotWhole, SameDrag, RecordedTouch

\* updateExpression.
LEMMA UpdateKeeps ==
  ASSUME CanvasInv, NEW i \in Ids, NEW at \in Shift, UpdateExpression(i, at)
  PROVE  CanvasInv'
  <1> DEFINE e == [doc EXCEPT ![i].at = at]
  <1>1. \A j \in Live : Touched(doc[j], e[j], Live)
    <2>1. \A j \in Live : e[j] = IF j = i THEN [doc[j] EXCEPT !.at = at] ELSE doc[j]
      BY DEF Live
    <2> QED  BY <2>1, Touches, DocumentTypes
  <1>2. e = [j \in Live |-> e[j]]
    BY DEF Live
  <1>3. Commit(Snapshot, e, order) /\ UNCHANGED <<drag, clipboard, layerVars, born>>
    BY DEF UpdateExpression
  <1>4. born \subseteq Ids \cup Groups \cup Layers
    BY DEF CanvasInv, LayerInv
  <1> HIDE DEF e
  <1> QED  BY <1>1, <1>2, <1>3, <1>4, TouchingKeeps

\* toggleContainerCollapse.
LEMMA ToggleKeeps ==
  ASSUME CanvasInv, NEW i \in Ids, ToggleContainerCollapse(i)
  PROVE  CanvasInv'
  <1> DEFINE e == [doc EXCEPT ![i].look = 1 - @]
  <1>1. \A j \in Live : Touched(doc[j], e[j], Live)
    <2>1. \A j \in Live : e[j] = IF j = i THEN [doc[j] EXCEPT !.look = 1 - doc[j].look] ELSE doc[j]
      BY DEF Live
    <2>2. \A j \in Live : 1 - doc[j].look \in {0, 1}
      BY DocumentTypes DEF Expression
    <2> QED  BY <2>1, <2>2, Touches, DocumentTypes
  <1>2. e = [j \in Live |-> e[j]]
    BY DEF Live
  <1>3. Commit(Snapshot, e, order) /\ UNCHANGED <<drag, clipboard, layerVars, born>>
    BY DEF ToggleContainerCollapse
  <1>4. born \subseteq Ids \cup Groups \cup Layers
    BY DEF CanvasInv, LayerInv
  <1> HIDE DEF e
  <1> QED  BY <1>1, <1>2, <1>3, <1>4, TouchingKeeps

\* autoUnparentOnDrag.
LEMMA UnparentKeeps ==
  ASSUME CanvasInv, NEW i \in Ids, AutoUnparentOnDrag(i)
  PROVE  CanvasInv'
  <1> DEFINE e == [doc EXCEPT ![i].parent = None]
  <1>1. \A j \in Live : Touched(doc[j], e[j], Live)
    <2>1. \A j \in Live : e[j] = IF j = i THEN [doc[j] EXCEPT !.parent = None] ELSE doc[j]
      BY DEF Live
    <2> QED  BY <2>1, Touches, DocumentTypes
  <1>2. e = [j \in Live |-> e[j]]
    BY DEF Live
  <1>3. Commit(Snapshot, e, order) /\ UNCHANGED <<drag, clipboard, layerVars, born>>
    BY DEF AutoUnparentOnDrag
  <1>4. born \subseteq Ids \cup Groups \cup Layers
    BY DEF CanvasInv, LayerInv
  <1> HIDE DEF e
  <1> QED  BY <1>1, <1>2, <1>3, <1>4, TouchingKeeps

\* updateExpressions with a style.
LEMMA StyleKeeps ==
  ASSUME CanvasInv, NEW ids, NEW look \in {0, 1}, StyleExpressions(ids, look)
  PROVE  CanvasInv'
  <1> DEFINE e == [j \in Live |-> IF j \in Editable(ids) /\ KindOf[j] # "container"
                                  THEN [doc[j] EXCEPT !.look = look] ELSE doc[j]]
  <1>1. \A j \in Live : Touched(doc[j], e[j], Live)
    BY Touches, DocumentTypes
  <1>2. e = [j \in Live |-> e[j]]
    OBVIOUS
  <1>3. Commit(Snapshot, e, order) /\ UNCHANGED <<drag, clipboard, layerVars, born>>
    BY DEF StyleExpressions
  <1>4. born \subseteq Ids \cup Groups \cup Layers
    BY DEF CanvasInv, LayerInv
  <1> HIDE DEF e
  <1> QED  BY <1>1, <1>2, <1>3, <1>4, TouchingKeeps

\* groupExpressions.
LEMMA GroupKeeps ==
  ASSUME CanvasInv, NEW ids, NEW g \in Groups, GroupExpressions(ids, g)
  PROVE  CanvasInv'
  <1> DEFINE valid == {i \in ids \cap Live : ~OnLockedLayer(i)}
             e == [j \in Live |-> IF j \in valid THEN [doc[j] EXCEPT !.parent = g] ELSE doc[j]]
  <1>1. \A j \in Live : Touched(doc[j], e[j], Live)
    BY Touches, DocumentTypes
  <1>2. e = [j \in Live |-> e[j]]
    OBVIOUS
  <1>3. Commit(Snapshot, e, order) /\ UNCHANGED <<drag, clipboard, layerVars>> /\ born' = born \cup {g}
    BY DEF GroupExpressions
  <1>4. born \subseteq Ids \cup Groups \cup Layers
    BY DEF CanvasInv, LayerInv
  <1> HIDE DEF e
  <1> QED  BY <1>1, <1>2, <1>3, <1>4, TouchingKeeps

\* ungroupExpressions.
LEMMA UngroupKeeps ==
  ASSUME CanvasInv, NEW g \in Groups \cup Ids, UngroupExpressions(g)
  PROVE  CanvasInv'
  <1> DEFINE members == {i \in Live : doc[i].parent = g /\ ~OnLockedLayer(i)}
             e == [j \in Live |-> IF j \in members THEN [doc[j] EXCEPT !.parent = None] ELSE doc[j]]
  <1>1. \A j \in Live : Touched(doc[j], e[j], Live)
    BY Touches, DocumentTypes
  <1>2. e = [j \in Live |-> e[j]]
    OBVIOUS
  <1>3. Commit(Snapshot, e, order) /\ UNCHANGED <<drag, clipboard, layerVars, born>>
    BY DEF UngroupExpressions
  <1>4. born \subseteq Ids \cup Groups \cup Layers
    BY DEF CanvasInv, LayerInv
  <1> HIDE DEF e
  <1> QED  BY <1>1, <1>2, <1>3, <1>4, TouchingKeeps

\* undo() and redo(): a snapshot that was whole when it was taken is whole as a document.
LEMMA UndoRedoKeeps ==
  ASSUME CanvasInv, Undo \/ Redo
  PROVE  CanvasInv'
  <1>1. DocInv' /\ HistInv'
    BY UndoKeeps, RedoKeeps DEF CanvasInv
  <1>2. UNCHANGED <<drag, clipboard, layerVars, born>>
    BY DEF Undo, Redo
  <1>3. born \subseteq Ids \cup Groups \cup Layers
    BY DEF CanvasInv, LayerInv
  <1> QED  BY <1>1, <1>2, <1>3, SameDrag, RestKeeps

\* A history that is cleared is a history.
LEMMA Forgotten ==
  ASSUME ForgetHistory
  PROVE  HistInv'
  <1>1. undo' = <<>> /\ redo' = <<>> /\ canUndo' = FALSE /\ canRedo' = FALSE
    BY DEF ForgetHistory
  <1>2. \A W : <<>> \in Seq(W)
    OBVIOUS
  <1>3. Len(undo') + Len(redo') <= MaxHistory
    BY <1>1, CanvasAssumption
  <1> QED  BY <1>1, <1>2, <1>3 DEF HistInv, HistoryConsistent

\* clearHistory.
LEMMA ClearHistoryKeeps ==
  ASSUME CanvasInv, ClearHistory
  PROVE  CanvasInv'
  <1>1. ForgetHistory /\ UNCHANGED <<docVars, drag, clipboard, layerVars, born>>
    BY DEF ClearHistory
  <1>2. HistInv'
    BY <1>1, Forgotten DEF ClearHistory
  <1>3. DocInv'
    BY <1>1 DEF CanvasInv, DocInv, docVars
  <1>4. born \subseteq Ids \cup Groups \cup Layers
    BY DEF CanvasInv, LayerInv
  <1> QED  BY <1>1, <1>2, <1>3, <1>4, SameDrag, RestKeeps

\* The refused update leaves one snapshot to redo, below a history that has
\* lost a place for it.
LEMMA RejectKeeps ==
  ASSUME CanvasInv, NEW i, RejectUpdate(i)
  PROVE  CanvasInv'
  <1> DEFINE W == Whole(born)
             t == Pushed(undo, Snapshot)
  <1>1. /\ undo' = Front(t) /\ redo' = <<Snapshot>> /\ Flags
        /\ UNCHANGED <<docVars, drag, clipboard, layerVars, born>>
    BY DEF RejectUpdate
  <1>2. undo \in Seq(W) /\ Len(undo) <= MaxHistory /\ Snapshot \in W
    <2>1. undo \in Seq(W) /\ redo \in Seq(W) /\ Len(undo) + Len(redo) <= MaxHistory
      BY DEF CanvasInv, HistInv, HistoryConsistent
    <2>2. Len(undo) \in Nat /\ Len(redo) \in Nat /\ MaxHistory \in Nat
      BY <2>1, LenProperties, CanvasAssumption
    <2> QED  BY <2>1, <2>2, CurrentWhole DEF CanvasInv
  <1> HIDE DEF W
  <1>3. t \in Seq(W) /\ Len(t) \in 1..MaxHistory
    BY <1>2, PushedStack
  <1> HIDE DEF t
  <1>4. Front(t) \in Seq(W) /\ Len(Front(t)) = Len(t) - 1
    <2>1. t # <<>>
      BY <1>3, EmptySeq
    <2> QED  BY <1>3, <2>1, TopOfStack
  <1>5. <<Snapshot>> \in Seq(W) /\ Len(<<Snapshot>>) = 1
    BY <1>2
  <1>6. Len(undo') + Len(redo') <= MaxHistory
    BY <1>1, <1>3, <1>4, <1>5, CanvasAssumption
  <1>7. HistInv'
    BY <1>1, <1>4, <1>5, <1>6 DEF HistInv, HistoryConsistent, Flags, W
  <1>8. DocInv'
    BY <1>1 DEF CanvasInv, DocInv, docVars
  <1>9. born \subseteq Ids \cup Groups \cup Layers
    BY DEF CanvasInv, LayerInv
  <1> QED  BY <1>1, <1>7, <1>8, <1>9, SameDrag, RestKeeps

\* deleteExpressions takes the deleted out of the order, the bindings and the parents.
LEMMA DeleteExpressionsKeeps ==
  ASSUME CanvasInv, NEW ids, DeleteExpressions(ids), born' = born
  PROVE  DocInv' /\ HistInv'
  <1>1. Commit(Snapshot, Without(doc, Editable(ids)), Only(order, Ids \ Editable(ids)))
    BY DEF DeleteExpressions
  <1>2. Good(Without(doc, Editable(ids)), Only(order, Ids \ Editable(ids)), born)
    BY WithoutDead DEF CanvasInv, DocInv
  <1> QED  BY <1>1, <1>2, CurrentWhole, CommitRetouched DEF CanvasInv

\* The Delete key.
LEMMA DeleteKeeps ==
  ASSUME CanvasInv, NEW ids, Delete(ids)
  PROVE  CanvasInv'
  <1>1. DeleteExpressions(WithGroups(ids)) /\ UNCHANGED <<drag, clipboard, layerVars, born>>
    BY DEF Delete
  <1>2. DocInv' /\ HistInv'
    BY <1>1, DeleteExpressionsKeeps
  <1>3. born \subseteq Ids \cup Groups \cup Layers
    BY DEF CanvasInv, LayerInv
  <1> QED  BY <1>1, <1>2, <1>3, SameDrag, RestKeeps

\* The clipboard holds copies, and parents that have been handed out.
LEMMA CopiesKeep ==
  ASSUME CanvasInv, NEW ids
  PROVE  SetToSeq(Copies(ids)) \in Seq([id : Ids, e : Clips(born)])
  <1> DEFINE D == ids \cap Live
             f == [i \in D |-> [doc[i] EXCEPT !.clip = TRUE]]
             S == {[id |-> i, e |-> f[i]] : i \in D}
  <1>1. D \subseteq Ids /\ \A i \in D : doc[i] \in Expression
    BY DocumentTypes
  <1>2. \A i \in D : /\ f[i] \in Expression /\ f[i].clip
                     /\ f[i].parent \in Ids => f[i].parent \in born
    <2>1. \A i \in D : doc[i].parent \in Ids => doc[i].parent \in born
      BY DocumentTypes DEF Known, Live
    <2> QED  BY <1>1, <2>1 DEF Expression
  <1>3. Copies(ids) = S
    BY DEF Copies
  <1>4. f \in [D -> Expression]
    BY <1>2
  <1>5. \A i \in D : f[i] \in Clips(born)
    BY <1>2 DEF Clips
  <1> HIDE DEF D, f
  <1>6. SetToSeq(S) \in Seq(S)
    BY <1>1, CopiesFinite
  <1>7. S \subseteq [id : Ids, e : Clips(born)]
    BY <1>1, <1>5
  <1> HIDE DEF S
  <1> QED  BY <1>3, <1>6, <1>7, SeqMonotonic

\* Copy and Cut.
LEMMA CopyKeeps ==
  ASSUME CanvasInv, NEW ids, Copy(ids) \/ Cut(ids)
  PROVE  CanvasInv'
  <1>1. clipboard' = SetToSeq(Copies(ids)) /\ UNCHANGED <<drag, layerVars, born>>
    BY DEF Copy, Cut
  <1>2. ClipInv'
    BY <1>1, CopiesKeep DEF ClipInv
  <1>3. DocInv' /\ HistInv'
    <2>1. CASE Copy(ids)
      BY <2>1 DEF Copy, CanvasInv, DocInv, HistInv, HistoryConsistent, docVars, histVars
    <2>2. CASE Cut(ids)
      BY <1>1, <2>2, DeleteExpressionsKeeps DEF Cut
    <2> QED  BY <2>1, <2>2
  <1>4. LayerInv'
    BY <1>1 DEF CanvasInv, LayerInv, layerVars
  <1> QED  BY <1>1, <1>2, <1>3, <1>4, SameDrag DEF CanvasInv

\* autoParentOnDrop: the check of the ancestors keeps the parents acyclic.
LEMMA AutoParentKeeps ==
  ASSUME CanvasInv, NEW i \in Ids, NEW c \in Ids, AutoParentOnDrop(i, c)
  PROVE  CanvasInv'
  <1> DEFINE e == [doc EXCEPT ![i].parent = c]
  <1>1. /\ i \in Live /\ c \in Live /\ c # i /\ i \notin Ancestors(doc, c)
        /\ Commit(Snapshot, e, order)
        /\ UNCHANGED <<drag, clipboard, layerVars, born>>
    BY DEF AutoParentOnDrop
  <1>2. \A j \in Live : e[j] = IF j = i THEN [doc[j] EXCEPT !.parent = c] ELSE doc[j]
    BY DEF Live
  <1>3. DOMAIN e = Live /\ e = [j \in Live |-> e[j]]
    BY DEF Live
  <1> HIDE DEF e
  <1>4. \A j \in Live : /\ e[j] \in Expression
                        /\ e[j].clip = doc[j].clip /\ e[j].bound = doc[j].bound
                        /\ e[j].parent = IF j = i THEN c ELSE doc[j].parent
    BY <1>1, <1>2, DocumentTypes DEF Expression
  <1>5. Acyclic(e)
    BY <1>1, <1>3, <1>4, Nested, DocumentTypes DEF Live
  <1>6. Resolved(e)
    BY <1>1, <1>3, <1>4, DocumentTypes DEF Resolved, Live
  <1>7. Known(e, born)
    BY <1>1, <1>3, <1>4, DocumentTypes DEF Known, Live
  <1>8. Good(e, order, born)
    <2>1. e \in [Live -> Expression]
      BY <1>3, <1>4
    <2> QED  BY <1>3, <1>5, <1>6, <1>7, <2>1, DocumentTypes DEF Good
  <1>9. DocInv' /\ HistInv'
    BY <1>1, <1>8, CurrentWhole, CommitRetouched DEF CanvasInv
  <1>10. born \subseteq Ids \cup Groups \cup Layers
    BY DEF CanvasInv, LayerInv
  <1> QED  BY <1>1, <1>9, <1>10, SameDrag, RestKeeps

\* Bringing to the front and sending to the back reorder the same expressions.
LEMMA ReorderKeeps ==
  ASSUME CanvasInv, order' \in Seq(Ids), ToSet(order') = ToSet(order), doc' = doc,
         UNCHANGED <<histVars, drag, clipboard, layerVars, born>>
  PROVE  CanvasInv'
  <1>1. DocInv'
    BY DEF CanvasInv, DocInv, Good
  <1>2. HistInv'
    BY DEF CanvasInv, HistInv, HistoryConsistent, histVars
  <1>3. born \subseteq Ids \cup Groups \cup Layers
    BY DEF CanvasInv, LayerInv
  <1> QED  BY <1>1, <1>2, <1>3, SameDrag, RestKeeps

\* The four operations of the z-order.
LEMMA ZOrderKeeps ==
  ASSUME CanvasInv, NEW ids,
         BringToFront(ids) \/ SendToBack(ids) \/ BringForward(ids) \/ SendBackward(ids)
  PROVE  CanvasInv'
  <1>1. order \in Seq(Ids)
    BY DocumentTypes
  <1>2. doc' = doc /\ UNCHANGED <<histVars, drag, clipboard, layerVars, born>>
    BY DEF BringToFront, SendToBack, BringForward, SendBackward, Silently
  <1>3. CASE BringToFront(ids) \/ SendToBack(ids)
    <2> DEFINE a == Only(order, Ids \ ids)
               b == Only(order, ids)
    <2>1. /\ a \in Seq(Ids) /\ ToSet(a) = ToSet(order) \cap (Ids \ ids)
          /\ b \in Seq(Ids) /\ ToSet(b) = ToSet(order) \cap ids
      BY <1>1, OnlyElements
    <2>2. order' = a \o b \/ order' = b \o a
      BY <1>3 DEF BringToFront, SendToBack, Silently
    <2>3. ToSet(order) \subseteq Ids
      BY DocumentTypes
    <2> HIDE DEF a, b
    <2>4. order' \in Seq(Ids) /\ ToSet(order') = ToSet(a) \cup ToSet(b)
      <3>1. CASE order' = a \o b
        BY <2>1, <3>1, ConcatToSet
      <3>2. CASE order' = b \o a
        BY <2>1, <3>2, ConcatToSet
      <3> QED  BY <2>2, <3>1, <3>2
    <2>5. ToSet(a) \cup ToSet(b) = ToSet(order)
      BY <2>1, <2>3
    <2> QED  BY <1>2, <2>4, <2>5, ReorderKeeps
  <1>4. CASE BringForward(ids) \/ SendBackward(ids)
    <2>1. order' \in Seq(Ids) /\ ToSet(order') = ToSet(order)
      BY <1>1, <1>4, ForwardElements, BackwardElements
    <2> QED  BY <1>2, <2>1, ReorderKeeps
  <1> QED  BY <1>3, <1>4

\* addLayer, toggleLayerLock and setActiveLayer.
LEMMA LayerStepKeeps ==
  ASSUME CanvasInv, NEW l \in Layers, AddLayer(l) \/ ToggleLayerLock(l) \/ SetActiveLayer(l)
  PROVE  CanvasInv'
  <1>1. UNCHANGED <<docVars, histVars, drag, clipboard>> /\ born \subseteq born'
    BY DEF AddLayer, ToggleLayerLock, SetActiveLayer
  <1>2. LayerInv'
    BY DEF CanvasInv, LayerInv, AddLayer, ToggleLayerLock, SetActiveLayer
  <1>3. DocInv'
    BY <1>1, MoreIds DEF CanvasInv, DocInv, docVars
  <1>4. HistInv'
    BY <1>1, MoreIds DEF CanvasInv, HistInv, HistoryConsistent, histVars
  <1>5. ClipInv'
    BY <1>1, MoreIds DEF CanvasInv, ClipInv
  <1> QED  BY <1>1, <1>2, <1>3, <1>4, <1>5, SameDrag DEF CanvasInv

\* removeLayer.
LEMMA RemoveLayerKeeps ==
  ASSUME CanvasInv, NEW l \in Layers, RemoveLayer(l)
  PROVE  CanvasInv'
  <1> DEFINE e == [j \in Live |-> IF doc[j].layer = l
                                  THEN [doc[j] EXCEPT !.layer = DefaultLayer] ELSE doc[j]]
  <1>1. Silently(e, order) /\ UNCHANGED <<drag, clipboard, born>>
    BY DEF RemoveLayer
  <1>2. \A j \in Live : Touched(doc[j], e[j], Live)
    BY Touches, DocumentTypes, CanvasAssumption
  <1>3. e \in [Live -> Expression]
    BY <1>2 DEF Touched
  <1> HIDE DEF e
  <1>4. Good(e, order, born)
    BY <1>1, <1>2, <1>3, TouchedGood
  <1>5. DocInv' /\ HistInv'
    BY <1>1, <1>4, SilentlyKeeps DEF CanvasInv
  <1>6. LayerInv'
    BY DEF CanvasInv, LayerInv, RemoveLayer
  <1>7. ClipInv'
    BY <1>1 DEF CanvasInv, ClipInv
  <1> QED  BY <1>1, <1>5, <1>6, <1>7, SameDrag DEF CanvasInv

\* moveToLayer.
LEMMA MoveToLayerKeeps ==
  ASSUME CanvasInv, NEW l \in Layers, NEW ids, MoveToLayer(ids, l)
  PROVE  CanvasInv'
  <1> DEFINE e == [j \in Live |-> IF j \in ids \ LockedIds
                                  THEN [doc[j] EXCEPT !.layer = l] ELSE doc[j]]
  <1>1. Silently(e, order) /\ UNCHANGED <<drag, clipboard, layerVars, born>>
    BY DEF MoveToLayer
  <1>2. \A j \in Live : Touched(doc[j], e[j], Live)
    BY Touches, DocumentTypes
  <1>3. e \in [Live -> Expression]
    BY <1>2 DEF Touched
  <1> HIDE DEF e
  <1> QED  BY <1>1, <1>2, <1>3, SameDrag, SilentTouch

-----------------------------------------------------------------------------
(* Loading. *)

\* What the assumption on the files says of one.
LEMMA FileGood ==
  ASSUME NEW f \in Files
  PROVE  /\ DOMAIN f.doc \subseteq Ids /\ f.doc \in [DOMAIN f.doc -> Expression]
         /\ f.order \in Seq(Ids) /\ ToSet(f.order) = DOMAIN f.doc
         /\ Resolved(f.doc) /\ Acyclic(f.doc) /\ Known(f.doc, Mentioned(f.doc))
         /\ Mentioned(f.doc) \subseteq Ids \cup Groups
  <1>1. Typed(f) /\ Covered(f) /\ Resolved(f.doc) /\ Acyclic(f.doc)
    BY FilesAssumption
  <1>2. None \notin Ids
    BY CanvasAssumption
  <1>3. DOMAIN f.doc \subseteq Ids /\ \A i \in DOMAIN f.doc : f.doc[i] \in Expression
    BY <1>1 DEF Typed
  <1>4. Known(f.doc, Mentioned(f.doc))
    BY <1>2, <1>3 DEF Known, Mentioned
  <1>5. Mentioned(f.doc) \subseteq Ids \cup Groups
    BY <1>2, <1>3 DEF Mentioned, Expression
  <1> QED  BY <1>1, <1>4, <1>5 DEF Typed, Covered

\* replaceState.
LEMMA ReplaceStateKeeps ==
  ASSUME CanvasInv, NEW f \in Files, ReplaceState(f)
  PROVE  CanvasInv'
  <1> DEFINE o == Only(f.order, DOMAIN f.doc)
  <1>1. /\ doc' = f.doc /\ order' = o /\ ForgetHistory
        /\ born' = born \cup Mentioned(f.doc) /\ UNCHANGED <<drag, clipboard, layerVars>>
    BY DEF ReplaceState
  <1>2. o \in Seq(Ids) /\ ToSet(o) = DOMAIN f.doc
    <2> DEFINE F == DOMAIN f.doc
    <2>1. f.order \in Seq(Ids) /\ ToSet(f.order) = F
      BY FileGood
    <2> HIDE DEF F
    <2>2. Only(f.order, F) \in Seq(Ids) /\ ToSet(Only(f.order, F)) = ToSet(f.order) \cap F
      BY <2>1, OnlyElements
    <2>3. Only(f.order, F) \in Seq(Ids) /\ ToSet(Only(f.order, F)) = F
      BY <2>1, <2>2
    <2> QED  BY <2>3 DEF F
  <1> HIDE DEF o
  <1>3. Good(f.doc, o, born \cup Mentioned(f.doc))
    BY <1>2, FileGood DEF Good, Known
  <1>4. DocInv'
    BY <1>1, <1>3 DEF DocInv
  <1>5. born \subseteq born' /\ born' \subseteq Ids \cup Groups \cup Layers
    BY <1>1, FileGood DEF CanvasInv, LayerInv
  <1> QED  BY <1>1, <1>4, <1>5, Forgotten, SameDrag, RestKeeps

\* The import of a draw.io file: what it lays over the document has no parent.
LEMMA ImportKeeps ==
  ASSUME CanvasInv, NEW f \in Files, ImportDrawio(f)
  PROVE  CanvasInv'
  <1> DEFINE F == DOMAIN f.doc
             e == [j \in Live \cup F |-> IF j \in F THEN f.doc[j] ELSE doc[j]]
             ids == born \cup Mentioned(f.doc)
  <1>1. /\ doc' = e /\ order' = order \o f.order /\ ForgetHistory
        /\ born' = ids /\ UNCHANGED <<drag, clipboard, layerVars>>
        /\ \A j \in F : f.doc[j].parent = None
    BY DEF ImportDrawio
  <1>2. DOMAIN e = Live \cup F /\ \A j \in DOMAIN e : e[j] = IF j \in F THEN f.doc[j] ELSE doc[j]
    OBVIOUS
  <1>3. e = [j \in DOMAIN e |-> e[j]]
    OBVIOUS
  <1> HIDE DEF e
  <1>4. /\ F \subseteq Ids /\ f.doc \in [F -> Expression]
        /\ f.order \in Seq(Ids) /\ ToSet(f.order) = F
        /\ Resolved(f.doc) /\ Known(f.doc, Mentioned(f.doc))
    BY FileGood
  <1>5. None \notin Ids /\ None \notin DOMAIN e
    BY <1>2, <1>4, DocumentTypes, CanvasAssumption
  <1>6. order \o f.order \in Seq(Ids) /\ ToSet(order \o f.order) = DOMAIN e
    BY <1>2, <1>4, DocumentTypes, ConcatToSet
  <1>7. e \in [DOMAIN e -> Expression]
    BY <1>2, <1>3, <1>4, DocumentTypes
  <1>8. Acyclic(e)
    <2>1. \A j \in F : e[j].parent \notin DOMAIN e
      BY <1>1, <1>2, <1>5
    <2>2. \A j \in Live \ F : e[j].parent = doc[j].parent
      BY <1>2
    <2> HIDE DEF F
    <2> QED  BY <1>2, <2>1, <2>2, DocumentTypes, Overlaid DEF Live
  <1>9. Resolved(e)
    BY <1>2, <1>4, DocumentTypes DEF Resolved, Live
  <1>10. Known(e, ids)
    BY <1>2, <1>4, DocumentTypes DEF Known, Live
  <1>11. DocInv'
    BY <1>1, <1>2, <1>4, <1>6, <1>7, <1>8, <1>9, <1>10, DocumentTypes DEF DocInv, Good
  <1>12. born \subseteq born' /\ born' \subseteq Ids \cup Groups \cup Layers
    BY <1>1, FileGood DEF CanvasInv, LayerInv
  <1> QED  BY <1>1, <1>11, <1>12, Forgotten, SameDrag, RestKeeps

\* The store starts with a document that was loaded.
LEMMA InitCanvas == Init => CanvasInv
  <1> SUFFICES ASSUME Init PROVE CanvasInv
    OBVIOUS
  <1>1. PICK f \in Files : doc = f.doc /\ order = f.order /\ born = Mentioned(f.doc) \cup {DefaultLayer}
    BY DEF Init
  <1>2. DocInv
    BY <1>1, FileGood DEF DocInv, Good, Known
  <1>3. HistInv
    <2>1. undo = <<>> /\ redo = <<>> /\ canUndo = FALSE /\ canRedo = FALSE
      BY DEF Init
    <2>2. \A W : <<>> \in Seq(W)
      OBVIOUS
    <2>3. Len(undo) + Len(redo) <= MaxHistory
      BY <2>1, CanvasAssumption
    <2> QED  BY <2>1, <2>2, <2>3 DEF HistInv, HistoryConsistent
  <1>4. DragInv /\ ClipInv
    BY DEF Init, DragInv, ClipInv
  <1>5. LayerInv
    BY <1>1, FileGood, CanvasAssumption DEF Init, LayerInv
  <1> QED  BY <1>2, <1>3, <1>4, <1>5 DEF CanvasInv

-----------------------------------------------------------------------------
(* Paste and duplicate. *)

\* A position that is shifted is a position.
LEMMA MovedPlace ==
  ASSUME NEW p \in Nat, NEW delta \in Nat
  PROVE  Moved(p, delta) \in Shift
  BY CanvasAssumption DEF Moved, Shift

\* The copies are offset: the position changes and nothing else.
LEMMA OffsetPlace ==
  ASSUME NEW x \in Expression
  PROVE  /\ Offset(x) \in Expression /\ Offset(x).clip = x.clip
         /\ Offset(x).bound = x.bound /\ Offset(x).parent = x.parent
  <1>1. x.at \in Nat
    BY CanvasAssumption DEF Expression
  <1>2. Moved(x.at, 1) \in 0..(Places - 1)
    BY <1>1, MovedPlace DEF Shift
  <1>3. Offset(x) = [x EXCEPT !.at = Moved(x.at, 1)]
    BY DEF Offset
  <1> QED  BY <1>2, <1>3 DEF Expression

\* What paste and duplicate do: they add N expressions under N new ids.
Adds(news, N) ==
  /\ N \in Nat \ {0} /\ DOMAIN news = 1..N /\ Len(news) = N
  /\ AddAll(news)
  /\ \A k \in 1..N : Addable(news[k]) /\ news[k].id \in born'
  /\ \A j, k \in 1..N : news[j].id = news[k].id => j = k
  /\ born \subseteq born' /\ born' \subseteq Ids \cup Groups \cup Layers
  /\ UNCHANGED <<drag, clipboard, layerVars>>

\* What paste and duplicate have in common.
LEMMA AddsKeeps ==
  ASSUME CanvasInv, NEW news, NEW N, Adds(news, N)
  PROVE  CanvasInv'
  <1>1. DocInv' /\ HistInv'
    BY AddAllKeeps DEF CanvasInv, Adds
  <1> QED  BY <1>1, SameDrag, RestKeeps DEF Adds

\* A function on 1..N is a sequence of length N.
LEMMA LengthOf ==
  ASSUME NEW news, NEW N \in Nat, news = [k \in 1..N |-> news[k]]
  PROVE  Len(news) = N
  <1> DEFINE R == {news[k] : k \in 1..N}
  <1>1. news \in [1..N -> R]
    OBVIOUS
  <1> HIDE DEF R
  <1>2. news \in Seq(R)
    BY <1>1, SeqDef
  <1>3. Len(news) \in Nat /\ DOMAIN news = 1..Len(news)
    BY <1>2, LenProperties
  <1> QED  BY <1>1, <1>3

\* Paste adds the copies of the clipboard.
LEMMA PasteAdds ==
  ASSUME CanvasInv, Paste
  PROVE  \E news, N : Adds(news, N)
  <1>1. PICK f \in Renamings(clipboard) :
          /\ AddAll([k \in DOMAIN clipboard |-> [id |-> f[k], e |-> Offset(clipboard[k].e)]])
          /\ born' = born \cup {f[k] : k \in DOMAIN f}
    BY DEF Paste
  <1> DEFINE N == Len(clipboard)
             news == [k \in DOMAIN clipboard |-> [id |-> f[k], e |-> Offset(clipboard[k].e)]]
  <1>2. /\ N \in Nat /\ DOMAIN clipboard = 1..N
        /\ \A k \in 1..N : clipboard[k] \in [id : Ids, e : Clips(born)]
    BY LenProperties, ElementOfSeq DEF CanvasInv, ClipInv
  <1>3. f \in [1..N -> Ids] /\ \A k \in 1..N : f[k] \in Ids /\ f[k] \notin born
    BY <1>2 DEF Renamings, Fresh
  <1>4. UNCHANGED <<drag, clipboard, layerVars>>
    BY DEF Paste
  <1>5. ASSUME NEW k \in 1..N PROVE Addable(news[k]) /\ news[k].id \in born'
    <2> DEFINE x == clipboard[k].e
    <2>1. x \in Expression /\ x.clip /\ (x.parent \in Ids => x.parent \in born)
      BY <1>2 DEF Clips
    <2>2. news[k] = [id |-> f[k], e |-> Offset(x)]
      BY <1>2
    <2>3. f[k] \in born' /\ f[k] \in Ids /\ f[k] \notin born
      BY <1>1, <1>3
    <2> HIDE DEF x, news
    <2> QED  BY <2>1, <2>2, <2>3, OffsetPlace DEF Addable
  <1>6. born \subseteq born' /\ born' \subseteq Ids \cup Groups \cup Layers
    BY <1>1, <1>3 DEF CanvasInv, LayerInv
  <1>7. AddAll(news) /\ news = [k \in DOMAIN clipboard |-> news[k]]
    BY <1>1
  <1>8. N # 0
    <2>1. clipboard # <<>> /\ clipboard \in Seq([id : Ids, e : Clips(born)])
      BY DEF Paste, CanvasInv, ClipInv
    <2> QED  BY <2>1, EmptySeq
  <1>9. \A j, k \in 1..N : news[j].id = news[k].id => j = k
    <2>1. \A j, k \in 1..N : f[j] = f[k] => j = k
      BY <1>2, <1>3 DEF Renamings, IsInjective
    <2> QED  BY <1>2, <2>1
  <1> HIDE DEF N, news
  <1>10. DOMAIN news = 1..N /\ Len(news) = N
    BY <1>2, <1>7, LengthOf
  <1>11. Adds(news, N)
    BY <1>2, <1>4, <1>5, <1>6, <1>7, <1>8, <1>9, <1>10 DEF Adds
  <1> QED  BY <1>11

\* duplicateGrouped adds copies whose parents are new group ids.
LEMMA DuplicateAdds ==
  ASSUME CanvasInv, NEW ids, DuplicateGrouped(ids)
  PROVE  \E news, N : Adds(news, N)
  <1> DEFINE D  == WithGroups(ids) \cap Live
             S  == {[id |-> i, e |-> doc[i]] : i \in D}
             cs == SetToSeq(S)
             parents == {cs[k].e.parent : k \in DOMAIN cs} \ {None}
             Dup(e, g) == [Offset(e) EXCEPT !.parent = IF @ = None THEN None ELSE g[@]]
  <1>1. PICK f \in Renamings(cs), g \in [parents -> Groups \ born] :
          /\ AddAll([k \in DOMAIN cs |-> [id |-> f[k], e |-> Dup(cs[k].e, g)]])
          /\ born' = born \cup {f[k] : k \in DOMAIN f} \cup {g[p] : p \in parents}
    BY DEF DuplicateGrouped
  <1>2. UNCHANGED <<drag, clipboard, layerVars>>
    BY DEF DuplicateGrouped
  <1> DEFINE N == Len(cs)
             news == [k \in DOMAIN cs |-> [id |-> f[k], e |-> Dup(cs[k].e, g)]]
  <1>3. cs \in Seq(S)
    <2>1. D \subseteq Ids
      BY DocumentTypes
    <2> HIDE DEF D
    <2>2. \A f1 : SetToSeq({[id |-> i, e |-> f1[i]] : i \in D}) \in Seq({[id |-> i, e |-> f1[i]] : i \in D})
      BY <2>1, CopiesFinite
    <2> QED  BY <2>2
  <1>4. AddAll(news) /\ news = [k \in DOMAIN cs |-> news[k]]
    BY <1>1
  <1>5. \A k \in DOMAIN cs : news[k] = [id |-> f[k], e |-> Dup(cs[k].e, g)]
    OBVIOUS
  <1>6. \A s \in S : \E i \in Live : s.e = doc[i]
    OBVIOUS
  <1>7. \A k \in DOMAIN cs : cs[k].e.parent # None => cs[k].e.parent \in parents
    OBVIOUS
  <1> HIDE DEF news, cs, S, D, parents
  <1>8. N \in Nat /\ DOMAIN cs = 1..N /\ \A k \in 1..N : cs[k] \in S
    BY <1>3, LenProperties, ElementOfSeq
  <1>9. f \in [1..N -> Ids] /\ \A k \in 1..N : f[k] \in Ids /\ f[k] \notin born
    BY <1>8 DEF Renamings, Fresh
  <1>10. ASSUME NEW k \in 1..N PROVE Addable(news[k]) /\ news[k].id \in born'
    <2>1. PICK i \in Live : cs[k].e = doc[i]
      BY <1>6, <1>8
    <2> DEFINE x == doc[i]
               p == IF x.parent = None THEN None ELSE g[x.parent]
    <2>2. x \in Expression /\ (x.clip \/ x.bound \in Live \cup {None})
      BY DocumentTypes DEF Resolved, Live
    <2>3. news[k] = [id |-> f[k], e |-> Dup(x, g)]
      BY <1>5, <1>8, <2>1
    <2>4. f[k] \in born' /\ f[k] \in Ids /\ f[k] \notin born
      BY <1>1, <1>8, <1>9
    <2>5. p \in Groups \cup {None} /\ p \notin Ids
      BY <1>1, <1>7, <1>8, <2>1, CanvasAssumption
    <2>6. Offset(x) \in Expression /\ Offset(x).clip = x.clip
          /\ Offset(x).bound = x.bound /\ Offset(x).parent = x.parent
      BY <2>2, OffsetPlace
    <2>7. Dup(x, g) = [Offset(x) EXCEPT !.parent = p]
      BY <2>6 DEF Expression
    <2> HIDE DEF x, p
    <2>8. /\ Dup(x, g) \in Expression /\ Dup(x, g).clip = x.clip
          /\ Dup(x, g).bound = x.bound /\ Dup(x, g).parent = p
      BY <2>5, <2>6, <2>7 DEF Expression
    <2> HIDE DEF Dup
    <2> QED  BY <2>2, <2>3, <2>4, <2>5, <2>8 DEF Addable
  <1>11. born \subseteq born' /\ born' \subseteq Ids \cup Groups \cup Layers
    BY <1>1, <1>8, <1>9 DEF CanvasInv, LayerInv
  <1>12. N # 0
    <2>1. cs # <<>>
      BY DEF DuplicateGrouped, cs, S, D
    <2> QED  BY <1>3, <2>1, EmptySeq
  <1>13. \A j, k \in 1..N : news[j].id = news[k].id => j = k
    <2>1. \A j, k \in 1..N : f[j] = f[k] => j = k
      BY <1>8, <1>9 DEF Renamings, IsInjective
    <2>2. ASSUME NEW k \in 1..N PROVE news[k].id = f[k]
      <3>1. news[k] = [id |-> f[k], e |-> Dup(cs[k].e, g)]
        BY <1>5, <1>8
      <3> HIDE DEF Dup
      <3> QED  BY <3>1
    <2> HIDE DEF N
    <2> QED  BY <2>1, <2>2
  <1> HIDE DEF N
  <1>14. DOMAIN news = 1..N /\ Len(news) = N
    BY <1>4, <1>8, LengthOf
  <1>15. Adds(news, N)
    BY <1>2, <1>4, <1>8, <1>10, <1>11, <1>12, <1>13, <1>14 DEF Adds
  <1> QED  BY <1>15

-----------------------------------------------------------------------------
(* Gestures. *)

\* The document with some of its expressions touched.
Near(d) == DOMAIN d = Live /\ d = [i \in DOMAIN d |-> d[i]]
           /\ \A i \in Live : Touched(doc[i], d[i], Live)

\* A document that is near has the same expressions.
LEMMA NearTypes ==
  ASSUME CanvasInv, NEW d, Near(d)
  PROVE  d \in [Live -> Expression]
  BY DEF Near, Touched

\* The document is near itself.
LEMMA NearSelf ==
  ASSUME CanvasInv
  PROVE  Near(doc)
  BY DocumentTypes, Touches DEF Near, Live

\* A document stays near when its expressions are touched once more.
LEMMA NearStep ==
  ASSUME CanvasInv, NEW d, Near(d), NEW e, e = [i \in Live |-> e[i]],
         \A i \in Live : Touched(d[i], e[i], Live)
  PROVE  Near(e)
  <1>1. DOMAIN e = Live
    OBVIOUS
  <1> QED  BY <1>1, TouchedTwice DEF Near

\* Shifting the dragged expressions touches them.
LEMMA ShiftedNear ==
  ASSUME CanvasInv, NEW d, Near(d), NEW from, NEW delta \in Shift,
         \A i \in DOMAIN from : from[i] \in Shift
  PROVE  Near(Shifted(d, from, delta))
  <1> DEFINE e == Shifted(d, from, delta)
  <1>1. DOMAIN d = Live /\ \A i \in Live : d[i] \in Expression
    BY DEF Near, Touched
  <1>2. e = [i \in Live |-> e[i]]
    BY <1>1 DEF Shifted
  <1>3. \A i \in Live : e[i] = IF i \in DOMAIN from
                               THEN [d[i] EXCEPT !.at = Moved(from[i], delta)] ELSE d[i]
    BY <1>1 DEF Shifted
  <1>4. ASSUME NEW i \in DOMAIN from PROVE Moved(from[i], delta) \in Shift
    <2>1. from[i] \in Nat /\ delta \in Nat
      BY DEF Shift
    <2> QED  BY <2>1, MovedPlace
  <1> HIDE DEF e
  <1>5. ASSUME NEW i \in Live PROVE Touched(d[i], e[i], Live)
    <2>1. d[i] \in Expression /\ Live \subseteq Ids
      BY <1>1, DocumentTypes
    <2>2. Touched(d[i], d[i], Live) /\ \A p \in Shift : Touched(d[i], [d[i] EXCEPT !.at = p], Live)
      BY <2>1, Touches
    <2> QED  BY <1>3, <1>4, <2>2
  <1> QED  BY <1>2, <1>5, NearStep DEF e

\* Bringing the bound arrows along touches them.
LEMMA ReanchoredNear ==
  ASSUME CanvasInv, NEW d, Near(d), NEW moved
  PROVE  Near(Reanchored(d, moved))
  <1> DEFINE e == Reanchored(d, moved)
  <1>1. DOMAIN d = Live /\ \A i \in Live : d[i] \in Expression /\ d[i].at \in Shift
    BY DEF Near, Touched, Expression, Shift
  <1>2. e = [i \in Live |-> e[i]]
    BY <1>1 DEF Reanchored
  <1>3. \A i \in Live : e[i] = IF d[i].bound \in moved \cap Live
                               THEN [d[i] EXCEPT !.at = d[d[i].bound].at] ELSE d[i]
    BY <1>1 DEF Reanchored
  <1> HIDE DEF e
  <1>4. ASSUME NEW i \in Live PROVE Touched(d[i], e[i], Live)
    <2>1. d[i] \in Expression /\ Live \subseteq Ids
      BY <1>1, DocumentTypes
    <2>2. Touched(d[i], d[i], Live) /\ \A p \in Shift : Touched(d[i], [d[i] EXCEPT !.at = p], Live)
      BY <2>1, Touches
    <2> QED  BY <1>1, <1>3, <2>2
  <1> QED  BY <1>2, <1>4, NearStep DEF e

\* So does letting go of what stays behind.
LEMMA LetGoNear ==
  ASSUME CanvasInv, NEW d, Near(d), NEW ids, NEW carried
  PROVE  Near(LetGo(d, ids, carried))
  <1> DEFINE e == LetGo(d, ids, carried)
  <1>1. DOMAIN d = Live /\ \A i \in Live : d[i] \in Expression
    BY DEF Near, Touched
  <1>2. e = [i \in Live |-> e[i]]
    BY <1>1 DEF LetGo
  <1>3. \A i \in Live : e[i] = [d[i] EXCEPT !.bound = None] \/ e[i] = d[i]
    BY <1>1 DEF LetGo
  <1> HIDE DEF e
  <1>4. ASSUME NEW i \in Live PROVE Touched(d[i], e[i], Live)
    <2>1. d[i] \in Expression /\ Live \subseteq Ids
      BY <1>1, DocumentTypes
    <2>2. Touched(d[i], d[i], Live) /\ Touched(d[i], [d[i] EXCEPT !.bound = None], Live)
      BY <2>1, Touches
    <2> QED  BY <1>3, <2>2
  <1> QED  BY <1>2, <1>4, NearStep DEF e

\* What the invariant says of a drag under way.
LEMMA DragTypes ==
  ASSUME CanvasInv, drag # NoDrag
  PROVE  /\ drag.kind \in {"move", "resize", "point"}
         /\ drag = [kind |-> drag.kind, from |-> drag.from, delta |-> drag.delta]
         /\ DOMAIN drag.from \subseteq Ids /\ drag.from \in [DOMAIN drag.from -> Shift]
         /\ drag.delta \in Shift
  BY DEF CanvasInv, DragInv

\* When the button is up there is no drag.
LEMMA NoDragKept ==
  ASSUME drag' = NoDrag
  PROVE  DragInv'
  BY DEF DragInv

\* Button down.
LEMMA PressKeeps ==
  ASSUME CanvasInv, NEW kind \in {"move", "resize", "point"}, NEW ids, Press(kind, ids)
  PROVE  CanvasInv'
  <1> DEFINE targets == {i \in (IF kind = "move" THEN WithGroups(ids) ELSE ids) \cap Live :
                           i \notin LockedIds}
             from == [i \in targets |-> doc[i].at]
  <1>1. drag' = [kind |-> kind, from |-> from, delta |-> 0]
        /\ UNCHANGED <<docVars, histVars, clipboard, layerVars, born>>
    BY DEF Press
  <1>2. targets \subseteq Live
    OBVIOUS
  <1> HIDE DEF targets
  <1>3. targets \subseteq Ids /\ from \in [targets -> Shift]
    BY <1>2, DocumentTypes DEF Expression, Shift
  <1> HIDE DEF from
  <1>4. 0 \in Shift
    BY CanvasAssumption DEF Shift
  <1>5. DragInv'
    BY <1>1, <1>3, <1>4 DEF DragInv
  <1>6. DocInv' /\ HistInv'
    BY <1>1 DEF CanvasInv, DocInv, HistInv, HistoryConsistent, docVars, histVars
  <1>7. born \subseteq Ids \cup Groups \cup Layers
    BY DEF CanvasInv, LayerInv
  <1> QED  BY <1>1, <1>5, <1>6, <1>7, RestKeeps

\* A move of the pointer: the preview touches the dragged expressions.
LEMMA PreviewKeeps ==
  ASSUME CanvasInv, NEW delta \in Shift, Preview(delta)
  PROVE  CanvasInv'
  <1>1. drag # NoDrag /\ drag' = [drag EXCEPT !.delta = delta]
        /\ UNCHANGED <<clipboard, layerVars, born>>
    BY DEF Preview
  <1> DEFINE shown == Shifted(doc, drag.from, delta)
             loose == [i \in Live |-> IF i \in DOMAIN drag.from
                                      THEN [shown[i] EXCEPT !.bound = None] ELSE shown[i]]
  <1>2. DragInv'
    <2> DEFINE K == drag.kind
               F == drag.from
    <2>1. drag' = [kind |-> K, from |-> F, delta |-> delta]
      BY <1>1, DragTypes
    <2>2. K \in {"move", "resize", "point"} /\ DOMAIN F \subseteq Ids /\ F \in [DOMAIN F -> Shift]
      BY <1>1, DragTypes
    <2> HIDE DEF K, F
    <2> QED  BY <2>1, <2>2 DEF DragInv
  <1>3. Near(shown)
    BY <1>1, DragTypes, NearSelf, ShiftedNear
  <1>4. loose = [i \in Live |-> loose[i]]
        /\ \A i \in Live : loose[i] = [shown[i] EXCEPT !.bound = None] \/ loose[i] = shown[i]
    OBVIOUS
  <1>5. \/ Silently(Reanchored(shown, DOMAIN drag.from), order)
        \/ Silently(shown, order) \/ Silently(loose, order)
    BY <1>1, DragTypes DEF Preview
  <1> HIDE DEF shown, loose
  <1>6. Near(loose)
    <2>1. \A i \in Live : shown[i] \in Expression
      BY <1>3 DEF Near, Touched
    <2>2. ASSUME NEW i \in Live PROVE Touched(shown[i], loose[i], Live)
      <3> DEFINE x == shown[i]
      <3>1. x \in Expression /\ Live \subseteq Ids /\ (loose[i] = [x EXCEPT !.bound = None] \/ loose[i] = x)
        BY <1>4, <2>1, DocumentTypes
      <3> HIDE DEF x
      <3>2. Touched(x, x, Live) /\ Touched(x, [x EXCEPT !.bound = None], Live)
        BY <3>1, Touches
      <3> QED  BY <3>1, <3>2 DEF x
    <2> QED  BY <1>3, <1>4, <2>2, NearStep
  <1>7. Near(Reanchored(shown, DOMAIN drag.from))
    BY <1>3, ReanchoredNear
  <1>8. PICK e : Near(e) /\ Silently(e, order)
    BY <1>3, <1>5, <1>6, <1>7
  <1>9. e \in [Live -> Expression]
    BY <1>8, NearTypes
  <1> QED  BY <1>1, <1>2, <1>8, <1>9, SilentTouch DEF Near

\* The snapshot with the dragged expressions back in place is whole.
LEMMA BeforeDragWhole ==
  ASSUME CanvasInv, drag # NoDrag, NEW ids, ids \subseteq DOMAIN drag.from
  PROVE  BeforeDrag(ids) \in Whole(born)
  <1> DEFINE e == [i \in Live |-> IF i \in ids THEN [doc[i] EXCEPT !.at = drag.from[i]] ELSE doc[i]]
  <1>1. \A i \in Live : Touched(doc[i], e[i], Live)
    BY DragTypes, DocumentTypes, Touches
  <1>2. e \in [Live -> Expression]
    BY <1>1 DEF Touched
  <1>3. BeforeDrag(ids) = [doc |-> e, order |-> order]
    BY DEF BeforeDrag
  <1> HIDE DEF e
  <1>4. Good(e, order, born)
    BY <1>1, <1>2, Retouched DEF Touched, CanvasInv, DocInv, Live
  <1> QED  BY <1>3, <1>4, WholeRecord

\* The release of a drag that moved nothing.
LEMMA IdleKeeps ==
  ASSUME CanvasInv, drag' = NoDrag, UNCHANGED <<docVars, histVars, clipboard, layerVars, born>>
  PROVE  CanvasInv'
  <1>1. DocInv' /\ HistInv'
    BY DEF CanvasInv, DocInv, HistInv, HistoryConsistent, docVars, histVars
  <1>2. born \subseteq Ids \cup Groups \cup Layers
    BY DEF CanvasInv, LayerInv
  <1> QED  BY <1>1, <1>2, NoDragKept, RestKeeps

\* A release that commits a touched document.
LEMMA ReleaseKeeps ==
  ASSUME CanvasInv, drag' = NoDrag, UNCHANGED <<clipboard, layerVars, born>>,
         NEW before \in Whole(born), NEW e, Near(e), Commit(before, e, order)
  PROVE  CanvasInv'
  <1>1. e \in [Live -> Expression] /\ \A i \in Live : Touched(doc[i], e[i], Live)
    BY NearTypes DEF Near
  <1>2. born' = born /\ born \subseteq Ids \cup Groups \cup Layers
    BY DEF CanvasInv, LayerInv
  <1> QED  BY <1>1, <1>2, NoDragKept, RecordedTouch

\* moveExpressions at the end of a move.
LEMMA EndMoveKeeps ==
  ASSUME CanvasInv, EndMove
  PROVE  CanvasInv'
  <1> DEFINE ids     == {i \in DOMAIN drag.from \cap Live : ~OnLockedLayer(i)}
             carried == Carried(ids)
             moved   == ids \cup carried
             start   == [i \in moved |-> IF i \in ids THEN drag.from[i] ELSE doc[i].at]
             there   == Reanchored(LetGo(Shifted(doc, start, drag.delta), ids, carried), moved)
             e(f)    == [i \in Live |-> IF i \in ids THEN [there[i] EXCEPT !.bound = f[i]]
                                                     ELSE there[i]]
  <1>1. drag # NoDrag /\ drag' = NoDrag /\ UNCHANGED <<clipboard, layerVars, born>>
    BY DEF EndMove, NoDrag
  <1>2. \/ \E f \in Resnaps(there, ids) : Commit(BeforeDrag(ids), e(f), order)
        \/ UNCHANGED <<docVars, histVars>>
    BY DEF EndMove
  <1>3. ids \subseteq DOMAIN drag.from /\ ids \subseteq Live /\ carried \subseteq Live
    BY DEF Carried
  <1> HIDE DEF ids, carried
  <1>4. \A i \in DOMAIN start : start[i] \in Shift
    BY <1>1, <1>3, DragTypes, DocumentTypes DEF Expression, Shift
  <1> HIDE DEF start, moved
  <1>5. Near(there)
    <2>1. Near(Shifted(doc, start, drag.delta))
      BY <1>1, <1>4, DragTypes, NearSelf, ShiftedNear
    <2> QED  BY <2>1, LetGoNear, ReanchoredNear
  <1> HIDE DEF there
  <1>6. CASE UNCHANGED <<docVars, histVars>>
    BY <1>1, <1>6, IdleKeeps
  <1>7. ASSUME NEW f \in Resnaps(there, ids), Commit(BeforeDrag(ids), e(f), order)
        PROVE  CanvasInv'
    <2>1. f \in [ids -> Live \cup {None}]
      BY DEF Resnaps
    <2>2. \A i \in Live : there[i] \in Expression
      BY <1>5 DEF Near, Touched
    <2>3. \A i \in Live : Touched(there[i], e(f)[i], Live)
      BY <2>1, <2>2, Touches, DocumentTypes
    <2>4. e(f) = [i \in Live |-> e(f)[i]]
      OBVIOUS
    <2> DEFINE d == e(f)
    <2>5. Commit(BeforeDrag(ids), d, order) /\ d = [i \in Live |-> d[i]]
          /\ \A i \in Live : Touched(there[i], d[i], Live)
      BY <1>7, <2>3, <2>4
    <2> HIDE DEF d
    <2>6. Near(d)
      BY <1>5, <2>5, NearStep
    <2>7. BeforeDrag(ids) \in Whole(born)
      BY <1>1, <1>3, BeforeDragWhole
    <2> QED  BY <1>1, <2>5, <2>6, <2>7, ReleaseKeeps
  <1> QED  BY <1>2, <1>6, <1>7

\* transformExpression at the end of a resize.
LEMMA EndResizeKeeps ==
  ASSUME CanvasInv, EndResize
  PROVE  CanvasInv'
  <1> DEFINE ids  == {i \in DOMAIN drag.from \cap Live : ~OnLockedLayer(i)}
             back == [i \in ids |-> drag.from[i]]
             e    == Reanchored(Shifted(doc, back, drag.delta), ids)
  <1>1. drag # NoDrag /\ drag' = NoDrag /\ UNCHANGED <<clipboard, layerVars, born>>
    BY DEF EndResize, NoDrag
  <1>2. Commit(BeforeDrag(ids), e, order) \/ UNCHANGED <<docVars, histVars>>
    BY DEF EndResize
  <1>3. ids \subseteq DOMAIN drag.from
    OBVIOUS
  <1> HIDE DEF ids
  <1>4. \A i \in DOMAIN back : back[i] \in Shift
    BY <1>1, <1>3, DragTypes
  <1> HIDE DEF back
  <1>5. Near(e)
    BY <1>1, <1>4, DragTypes, NearSelf, ShiftedNear, ReanchoredNear
  <1> HIDE DEF e
  <1>6. BeforeDrag(ids) \in Whole(born)
    BY <1>1, <1>3, BeforeDragWhole
  <1> QED  BY <1>1, <1>2, <1>5, <1>6, ReleaseKeeps, IdleKeeps

\* updateExpression at the end of a drag of an arrow\'s end.
LEMMA EndPointKeeps ==
  ASSUME CanvasInv, NEW t \in Ids \cup {None}, EndPoint(t)
  PROVE  CanvasInv'
  <1> DEFINE ids == DOMAIN drag.from \cap Editable(Live)
             e   == [i \in Live |-> IF i \in ids
                        THEN [doc[i] EXCEPT !.at = Moved(drag.from[i], drag.delta), !.bound = t]
                        ELSE doc[i]]
  <1>1. drag # NoDrag /\ drag' = NoDrag /\ UNCHANGED <<clipboard, layerVars, born>>
    <2>1. drag.kind = "point" /\ drag' = NoDrag /\ UNCHANGED <<clipboard, layerVars, born>>
      BY DEF EndPoint
    <2> QED  BY <2>1 DEF NoDrag
  <1>2. Commit(Snapshot, e, order) \/ UNCHANGED <<docVars, histVars>>
    BY DEF EndPoint
  <1>3. t \in Live \cup {None}
    BY DEF EndPoint, Bindable
  <1>4. ids \subseteq DOMAIN drag.from
    OBVIOUS
  <1> HIDE DEF ids
  <1>5. \A i \in ids : Moved(drag.from[i], drag.delta) \in Shift
    BY <1>1, <1>4, DragTypes, MovedPlace, CanvasAssumption DEF Shift
  <1>6. \A i \in Live : Touched(doc[i], e[i], Live)
    <2>1. ASSUME NEW i \in Live, i \in ids PROVE Touched(doc[i], e[i], Live)
      <3> DEFINE y == [doc[i] EXCEPT !.at = Moved(drag.from[i], drag.delta)]
      <3>1. Touched(doc[i], y, Live)
        BY <1>5, <2>1, Touches, DocumentTypes
      <3>2. e[i] = [y EXCEPT !.bound = t]
        BY <2>1, DocumentTypes DEF Expression
      <3> HIDE DEF y
      <3>3. Touched(y, [y EXCEPT !.bound = t], Live)
        BY <1>3, <3>1, Touches, DocumentTypes DEF Touched
      <3> QED  BY <3>1, <3>2, <3>3, TouchedTwice
    <2>2. ASSUME NEW i \in Live, i \notin ids PROVE Touched(doc[i], e[i], Live)
      BY <2>2, Touches, DocumentTypes
    <2> QED  BY <2>1, <2>2
  <1>7. e = [i \in Live |-> e[i]]
    OBVIOUS
  <1> HIDE DEF e
  <1>8. Near(e)
    BY <1>6, <1>7, NearSelf, NearStep
  <1> QED  BY <1>1, <1>2, <1>8, CurrentWhole, ReleaseKeeps, IdleKeeps DEF CanvasInv

\* Every operation of the store, in any order and at any point of a gesture,
\* leaves a document whose order covers it, whose references resolve and whose
\* parents form no circle, and snapshots of which the same holds.
THEOREM InductiveInvariant == Spec => []CanvasInv
  <1>1. CanvasInv /\ [Next]_vars => CanvasInv'
    <2> SUFFICES ASSUME CanvasInv, [Next]_vars PROVE CanvasInv'
      OBVIOUS
    <2>1. CASE UNCHANGED vars
      BY <2>1 DEF vars, CanvasInv, DocInv, HistInv, DragInv, ClipInv, LayerInv,
                  HistoryConsistent, NoDrag, Shift
    <2>2. CASE Edit
      BY <2>2, AddExpressionKeeps, UpdateKeeps, RejectKeeps, ToggleKeeps, UnparentKeeps,
         AutoParentKeeps, StyleKeeps, DeleteKeeps, CopyKeeps, DuplicateAdds, GroupKeeps,
         UngroupKeeps, PasteAdds, AddsKeeps DEF Edit, Shift
    <2>3. CASE Arrange
      BY <2>3, ZOrderKeeps, LayerStepKeeps, RemoveLayerKeeps, MoveToLayerKeeps DEF Arrange
    <2>4. CASE Load
      BY <2>4, ReplaceStateKeeps, ImportKeeps DEF Load
    <2>5. CASE Grab
      BY <2>5, PressKeeps DEF Grab
    <2>6. CASE Gesture
      BY <2>6, PreviewKeeps, EndMoveKeeps, EndResizeKeeps, EndPointKeeps DEF Gesture, Shift
    <2>7. CASE Undo \/ Redo \/ ClearHistory
      BY <2>7, UndoRedoKeeps, ClearHistoryKeeps
    <2> QED  BY <2>1, <2>2, <2>3, <2>4, <2>5, <2>6, <2>7 DEF Next
  <1> QED  BY <1>1, InitCanvas, PTL DEF Spec

-----------------------------------------------------------------------------
(* The safety properties. *)

\* The bound on the operations is kept.
LEMMA StepsBounded == Spec => [](steps \in 0..MaxSteps)
  <1>1. Init => steps \in 0..MaxSteps
    BY CanvasAssumption DEF Init
  <1>2. steps \in 0..MaxSteps /\ [Next]_vars => (steps \in 0..MaxSteps)'
    BY CanvasAssumption DEF Next, vars
  <1> QED  BY <1>1, <1>2, PTL DEF Spec

\* What the invariant says of the document holds of every snapshot.
LEMMA VersionsGood ==
  ASSUME CanvasInv
  PROVE  \A v \in Versions : Good(v.doc, v.order, born)
  <1>1. Snapshot \in Whole(born)
    BY CurrentWhole DEF CanvasInv
  <1>2. ASSUME NEW s \in Seq(Whole(born)), NEW k \in DOMAIN s
        PROVE  s[k] \in Whole(born)
    OBVIOUS
  <1>3. \A v \in Versions : v \in Whole(born)
    BY <1>1, <1>2 DEF CanvasInv, HistInv, Versions, Snapshots
  <1> QED  BY <1>3, WholeParts

\* The inductive invariant contains the type invariant but for the bound.
LEMMA CanvasTyped ==
  ASSUME CanvasInv, steps \in 0..MaxSteps
  PROVE  TypeOK
  <1>1. \A v \in Versions : Typed(v)
    BY VersionsGood DEF Good, Typed
  <1>2. canUndo \in BOOLEAN /\ canRedo \in BOOLEAN
    BY DEF CanvasInv, HistInv, HistoryConsistent
  <1>3. drag.kind \in {"none", "move", "resize", "point"}
    BY DEF CanvasInv, DragInv, NoDrag
  <1>4. \A k \in DOMAIN clipboard : clipboard[k].id \in Ids /\ clipboard[k].e \in Expression
    <2> DEFINE C == [id : Ids, e : Clips(born)]
    <2>1. \A c \in C : c.id \in Ids /\ c.e \in Expression
      BY DEF Clips
    <2>2. clipboard \in Seq(C)
      BY DEF CanvasInv, ClipInv
    <2> HIDE DEF C
    <2>3. \A k \in DOMAIN clipboard : clipboard[k] \in C
      BY <2>2
    <2> QED  BY <2>1, <2>3
  <1> QED  BY <1>1, <1>2, <1>3, <1>4 DEF TypeOK, CanvasInv, LayerInv

\* The types of the store: every version of the document is made of expressions.
THEOREM TypeCorrect == Spec => []TypeOK
  BY InductiveInvariant, StepsBounded, CanvasTyped, PTL

\* The history never holds more than maxSize snapshots on both stacks together,
\* and the flags behind the undo and redo buttons are right (historyManager.ts).
THEOREM HistoryHolds == Spec => []HistoryConsistent
  <1>1. CanvasInv => HistoryConsistent
    BY DEF CanvasInv, HistInv
  <1> QED  BY <1>1, InductiveInvariant, PTL

\* expressionOrder names each expression and nothing else, in the document and in
\* every snapshot, whatever is undone, pasted, deleted or loaded.
THEOREM OrderHolds == Spec => []OrderCoversDoc
  <1>1. CanvasInv => OrderCoversDoc
    BY VersionsGood DEF OrderCoversDoc, Good, Covered
  <1> QED  BY <1>1, InductiveInvariant, PTL

\* No binding and no parent points at a deleted expression, in the document or in
\* any snapshot, except in what came out of the clipboard (deleteExpressions).
THEOREM ReferencesHold == Spec => []NoDanglingReference
  <1>1. CanvasInv => NoDanglingReference
    BY VersionsGood DEF NoDanglingReference, Good
  <1> QED  BY <1>1, InductiveInvariant, PTL

\* No sequence of drops, groups, pastes, undo and redo makes an expression its own
\* ancestor (autoParentOnDrop).
THEOREM ParentsHold == Spec => []ParentsAcyclic
  <1>1. CanvasInv => ParentsAcyclic
    BY VersionsGood DEF ParentsAcyclic, Good
  <1> QED  BY <1>1, InductiveInvariant, PTL

-----------------------------------------------------------------------------
(* The timeline: both stacks and the document between them, as one sequence. *)

\* Snapshots of any age.
AnyVersion == [doc : Docs, order : Seq(Ids)]

Line(u, s, r) == u \o <<s>> \o Reverse(r)

\* The timeline read document by document.
LEMMA LineElements ==
  ASSUME NEW V, NEW u \in Seq(V), NEW s \in V, NEW r \in Seq(V)
  PROVE  /\ Line(u, s, r) \in Seq(V) /\ Len(Line(u, s, r)) = Len(u) + 1 + Len(r)
         /\ \A k \in 1..Len(u) : Line(u, s, r)[k] = u[k]
         /\ Line(u, s, r)[Len(u) + 1] = s
         /\ \A k \in 1..Len(r) : Line(u, s, r)[Len(u) + 1 + k] = r[Len(r) - k + 1]
  <1> DEFINE a == u \o <<s>>
             b == Reverse(r)
  <1>1. Len(u) \in Nat /\ Len(r) \in Nat
    BY LenProperties
  <1>2. /\ a \in Seq(V) /\ Len(a) = Len(u) + 1
        /\ \A k \in 1..Len(u) : a[k] = u[k]
        /\ a[Len(u) + 1] = s
    OBVIOUS
  <1>3. /\ b \in Seq(V) /\ Len(b) = Len(r)
        /\ \A k \in 1..Len(r) : b[k] = r[Len(r) - k + 1]
    <2> DEFINE N == Len(r)
    <2>1. b = [k \in 1..N |-> r[(N - k) + 1]]
      BY DEF Reverse
    <2>2. \A k \in 1..N : (N - k) + 1 \in 1..N
      BY <1>1
    <2>3. \A k \in 1..N : r[k] \in V
      BY ElementOfSeq
    <2>4. b \in [1..N -> V]
      BY <2>1, <2>2, <2>3
    <2> HIDE DEF b
    <2>5. b \in Seq(V) /\ Len(b) = N
      <3>1. N \in Nat
        BY <1>1
      <3> HIDE DEF N
      <3>2. b \in Seq(V)
        BY <2>4, <3>1, SeqDef
      <3> QED  BY <2>4, <3>1, <3>2, LenProperties
    <2> QED  BY <2>1, <2>5
  <1> HIDE DEF a, b
  <1>4. Line(u, s, r) = a \o b
    BY DEF Line, a, b
  <1>5. /\ a \o b \in Seq(V) /\ Len(a \o b) = Len(u) + 1 + Len(r)
        /\ \A k \in 1..(Len(u) + 1 + Len(r)) :
             (a \o b)[k] = IF k <= Len(u) + 1 THEN a[k] ELSE b[k - (Len(u) + 1)]
    <2>1. /\ a \o b \in Seq(V) /\ Len(a \o b) = Len(a) + Len(b)
          /\ \A k \in 1..(Len(a) + Len(b)) :
               (a \o b)[k] = IF k <= Len(a) THEN a[k] ELSE b[k - Len(a)]
      <3>1. \A k \in 1..(Len(a) + Len(b)) :
               (a \o b)[k] = IF k <= Len(a) THEN a[k] ELSE b[k - Len(a)]
        BY <1>2, <1>3, ConcatProperties
      <3>2. a \o b \in Seq(V) /\ Len(a \o b) = Len(a) + Len(b)
        BY <1>2, <1>3, ConcatProperties
      <3> QED  BY <3>1, <3>2
    <2> QED  BY <1>2, <1>3, <2>1
  <1>6. ASSUME NEW k \in 1..Len(u) PROVE (a \o b)[k] = u[k]
    <2>1. k \in 1..(Len(u) + 1 + Len(r)) /\ k <= Len(u) + 1
      BY <1>1
    <2> QED  BY <1>2, <1>5, <2>1
  <1>7. (a \o b)[Len(u) + 1] = s
    <2>1. Len(u) + 1 \in 1..(Len(u) + 1 + Len(r)) /\ Len(u) + 1 <= Len(u) + 1
      BY <1>1
    <2> QED  BY <1>2, <1>5, <2>1
  <1>8. ASSUME NEW k \in 1..Len(r) PROVE (a \o b)[Len(u) + 1 + k] = r[Len(r) - k + 1]
    <2>1. Len(u) + 1 + k \in 1..(Len(u) + 1 + Len(r)) /\ ~ (Len(u) + 1 + k <= Len(u) + 1)
          /\ Len(u) + 1 + k - (Len(u) + 1) = k
      BY <1>1
    <2>2. (a \o b)[Len(u) + 1 + k] = b[k]
      BY <1>5, <2>1
    <2> QED  BY <1>3, <2>2
  <1> DEFINE c == a \o b
  <1>9. /\ c \in Seq(V) /\ Len(c) = Len(u) + 1 + Len(r)
        /\ \A k \in 1..Len(u) : c[k] = u[k]
        /\ c[Len(u) + 1] = s
        /\ \A k \in 1..Len(r) : c[Len(u) + 1 + k] = r[Len(r) - k + 1]
    BY <1>5, <1>6, <1>7, <1>8
  <1>10. Line(u, s, r) = c
    BY <1>4
  <1> HIDE DEF c
  <1> QED  BY <1>9, <1>10

\* A stretch of a sequence read document by document.
LEMMA Stretch ==
  ASSUME NEW V, NEW t \in Seq(V), NEW a \in Nat, NEW b \in Nat, a <= b, b <= Len(t)
  PROVE  /\ SubSeq(t, a + 1, b) \in Seq(V) /\ Len(SubSeq(t, a + 1, b)) = b - a
         /\ \A k \in 1..(b - a) : SubSeq(t, a + 1, b)[k] = t[a + k]
  <1>1. Len(t) \in Nat /\ \A k \in (a + 1)..b : t[k] \in V
    <2>1. Len(t) \in Nat /\ \A k \in 1..Len(t) : t[k] \in V
      BY LenProperties, ElementOfSeq
    <2> QED  BY <2>1
  <1> DEFINE m == a + 1
             n == b - m + 1
             q == SubSeq(t, m, b)
  <1>2. m \in Int /\ b \in Int
    OBVIOUS
  <1>3. \A k \in m..b : t[k] \in V
    BY <1>1
  <1>4. n = b - a /\ n \in Nat /\ (IF m <= b THEN n ELSE 0) = n
        /\ \A k \in 1..n : m + k - 1 = a + k
    OBVIOUS
  <1> HIDE DEF m
  <1>5. q \in Seq(V) /\ Len(q) = (IF m <= b THEN n ELSE 0)
    BY <1>2, <1>3, SubSeqProperties
  <1>6. \A k \in 1..n : q[k] = t[m + k - 1]
    BY <1>2, <1>3, SubSeqProperties
  <1> HIDE DEF q, n
  <1>7. Len(q) = b - a
    BY <1>4, <1>5
  <1>8. \A k \in 1..(b - a) : q[k] = t[a + k]
    BY <1>4, <1>6
  <1> QED  BY <1>5, <1>7, <1>8 DEF q, m

\* Two sequences one after the other, read element by element.
LEMMA ConcatElements ==
  ASSUME NEW V, NEW s \in Seq(V), NEW t \in Seq(V)
  PROVE  /\ s \o t \in Seq(V) /\ Len(s \o t) = Len(s) + Len(t)
         /\ \A k \in 1..Len(s) : (s \o t)[k] = s[k]
         /\ \A k \in 1..Len(t) : (s \o t)[Len(s) + k] = t[k]
  <1>1. Len(s) \in Nat /\ Len(t) \in Nat
    BY LenProperties
  <1>2. /\ s \o t \in Seq(V) /\ Len(s \o t) = Len(s) + Len(t)
        /\ \A k \in 1..(Len(s) + Len(t)) : (s \o t)[k] = IF k <= Len(s) THEN s[k] ELSE t[k - Len(s)]
    BY ConcatProperties
  <1>3. ASSUME NEW k \in 1..Len(t) PROVE (s \o t)[Len(s) + k] = t[k]
    <2>1. Len(s) + k \in 1..(Len(s) + Len(t)) /\ ~ (Len(s) + k <= Len(s)) /\ Len(s) + k - Len(s) = k
      BY <1>1
    <2> QED  BY <1>2, <2>1
  <1> QED  BY <1>1, <1>2, <1>3

\* Two sequences with the same elements at the same places are one.
LEMMA SameSequence ==
  ASSUME NEW V, NEW s \in Seq(V), NEW t \in Seq(V), Len(s) = Len(t),
         \A k \in 1..Len(s) : s[k] = t[k]
  PROVE  s = t
  BY SeqEqual

\* What is kept of a stack after several pushes.
LEMMA LatestElements ==
  ASSUME NEW V, NEW s \in Seq(V), NEW m \in Nat,
         Len(s) > MaxHistory => m = Len(s) - MaxHistory, Len(s) <= MaxHistory => m = 0
  PROVE  /\ Latest(s) \in Seq(V) /\ Len(Latest(s)) = Len(s) - m
         /\ \A k \in 1..(Len(s) - m) : Latest(s)[k] = s[m + k]
  <1>1. Len(s) \in Nat /\ MaxHistory \in Nat \ {0}
    BY CanvasAssumption, LenProperties
  <1>2. CASE Len(s) > MaxHistory
    <2>1. Latest(s) = SubSeq(s, m + 1, Len(s))
      BY <1>2 DEF Latest
    <2> QED  BY <1>1, <1>2, <2>1, Stretch
  <1>3. CASE ~ (Len(s) > MaxHistory)
    BY <1>1, <1>3 DEF Latest
  <1> QED  BY <1>2, <1>3

\* pushSnapshot keeps the last maxSize snapshots.
LEMMA PushedIsLatest ==
  ASSUME NEW V, NEW s \in Seq(V), NEW x \in V, Len(s) <= MaxHistory
  PROVE  Pushed(s, x) = Latest(s \o <<x>>)
  <1> DEFINE t == Append(s, x)
  <1>1. t = s \o <<x>> /\ t \in Seq(V) /\ Len(t) = Len(s) + 1 /\ t # <<>>
    OBVIOUS
  <1>2. Len(s) \in Nat /\ MaxHistory \in Nat \ {0}
    BY CanvasAssumption, LenProperties
  <1>3. Pushed(s, x) = IF Len(t) > MaxHistory THEN Tail(t) ELSE t
    BY DEF Pushed
  <1> HIDE DEF t
  <1>4. CASE Len(t) > MaxHistory
    <2>1. Latest(t) = SubSeq(t, 2, Len(t))
      BY <1>1, <1>2, <1>4 DEF Latest
    <2>2. Tail(t) = SubSeq(t, 2, Len(t))
      <3>1. Tail(t) \in Seq(V) /\ Len(Tail(t)) = Len(t) - 1 /\ \A k \in 1..Len(Tail(t)) : Tail(t)[k] = t[k + 1]
        BY <1>1, HeadTailProperties
      <3>2. /\ SubSeq(t, 1 + 1, Len(t)) \in Seq(V) /\ Len(SubSeq(t, 1 + 1, Len(t))) = Len(t) - 1
            /\ \A k \in 1..(Len(t) - 1) : SubSeq(t, 1 + 1, Len(t))[k] = t[1 + k]
        BY <1>1, <1>2, Stretch
      <3>3. \A k \in 1..Len(Tail(t)) : Tail(t)[k] = SubSeq(t, 1 + 1, Len(t))[k]
        BY <1>1, <1>2, <3>1, <3>2
      <3>4. Tail(t) = SubSeq(t, 1 + 1, Len(t))
        BY <3>1, <3>2, <3>3, SameSequence
      <3> QED  BY <3>4
    <2> QED  BY <1>1, <1>3, <1>4, <2>1, <2>2
  <1>5. CASE ~ (Len(t) > MaxHistory)
    BY <1>1, <1>3, <1>5 DEF Latest
  <1> QED  BY <1>4, <1>5

\* The document at a place of the timeline.
LEMMA LineAt ==
  ASSUME NEW V, NEW u \in Seq(V), NEW s \in V, NEW r \in Seq(V),
         NEW k \in 1..(Len(u) + 1 + Len(r))
  PROVE  Line(u, s, r)[k] = IF k <= Len(u) THEN u[k]
                            ELSE IF k = Len(u) + 1 THEN s ELSE r[Len(r) + Len(u) + 2 - k]
  <1> DEFINE L == Line(u, s, r)
             n == Len(u)
             m == Len(r)
  <1>1. n \in Nat /\ m \in Nat
    BY LenProperties
  <1>2. ASSUME NEW i \in 1..n PROVE L[i] = u[i]
    BY LineElements
  <1>3. L[n + 1] = s
    BY LineElements
  <1>4. ASSUME NEW i \in 1..m PROVE L[n + 1 + i] = r[m - i + 1]
    BY LineElements
  <1>5. k \in 1..(n + 1 + m)
    OBVIOUS
  <1> HIDE DEF L, n, m
  <1>6. CASE k <= n
    BY <1>1, <1>2, <1>5, <1>6 DEF L, n, m
  <1>7. CASE k = n + 1
    BY <1>1, <1>3, <1>7 DEF L, n, m
  <1>8. CASE k > n + 1
    <2> DEFINE j == k - n - 1
    <2>1. j \in 1..m /\ k = n + 1 + j /\ m - j + 1 = m + n + 2 - k
      BY <1>1, <1>5, <1>8
    <2> HIDE DEF j
    <2>2. L[k] = r[m + n + 2 - k]
      BY <1>4, <2>1
    <2> QED  BY <1>1, <1>8, <2>2 DEF L, n, m
  <1> QED  BY <1>1, <1>5, <1>6, <1>7, <1>8

\* How many documents the timeline has.
LEMMA LineLength ==
  ASSUME NEW V, NEW u \in Seq(V), NEW s \in V, NEW r \in Seq(V)
  PROVE  Len(Line(u, s, r)) = Len(u) + 1 + Len(r)
  BY LineElements

\* Whole snapshots are snapshots.
LEMMA ListTypes ==
  ASSUME NEW ids
  PROVE  /\ \A s \in Seq(Whole(ids)) : s \in Seq(AnyVersion)
         /\ \A d, o : Good(d, o, ids) => [doc |-> d, order |-> o] \in AnyVersion
  <1>1. Whole(ids) \subseteq AnyVersion
    BY DEF Whole, AnyVersion
  <1>2. \A s \in Seq(Whole(ids)) : s \in Seq(AnyVersion)
    BY <1>1, SeqMonotonic
  <1>3. \A d, o : Good(d, o, ids) => [doc |-> d, order |-> o] \in AnyVersion
    BY <1>1, WholeRecord
  <1> QED  BY <1>2, <1>3

\* What the stacks hold before and after a step.
LEMMA TimelineTypes ==
  ASSUME CanvasInv, CanvasInv'
  PROVE  /\ undo \in Seq(AnyVersion) /\ redo \in Seq(AnyVersion) /\ Snapshot \in AnyVersion
         /\ undo' \in Seq(AnyVersion) /\ redo' \in Seq(AnyVersion) /\ Snapshot' \in AnyVersion
         /\ Len(undo) \in Nat /\ Len(redo) \in Nat /\ Len(undo') \in Nat /\ Len(redo') \in Nat
         /\ MaxHistory \in Nat \ {0} /\ Len(undo) + Len(redo) <= MaxHistory
  <1>1. undo \in Seq(AnyVersion) /\ redo \in Seq(AnyVersion)
    BY ListTypes DEF CanvasInv, HistInv
  <1>2. undo' \in Seq(AnyVersion) /\ redo' \in Seq(AnyVersion)
    BY ListTypes DEF CanvasInv, HistInv
  <1>3. Snapshot \in AnyVersion /\ Snapshot' \in AnyVersion
    BY ListTypes DEF CanvasInv, DocInv, Snapshot
  <1>4. MaxHistory \in Nat \ {0} /\ Len(undo) + Len(redo) <= MaxHistory
    BY CanvasAssumption DEF CanvasInv, HistInv, HistoryConsistent
  <1> QED  BY <1>1, <1>2, <1>3, <1>4, LenProperties

Walk == Line(undo, Snapshot, redo)

\* The timeline CanvasTimeline is instantiated with.
LEMMA WalkIs ==
  /\ undo \o <<Snapshot>> \o Reverse(redo) = Walk
  /\ (undo \o <<Snapshot>> \o Reverse(redo))' = Line(undo', Snapshot', redo')
  BY DEF Walk, Line

\* A change the history does not see, or none.
LEMMA AmendStep ==
  ASSUME CanvasInv, CanvasInv', undo' = undo, redo' = redo
  PROVE  Timeline!Amend
  <1> DEFINE L == Line(undo, Snapshot, redo)
             M == Line(undo, Snapshot', redo)
             c == Len(undo) + 1
             N == Len(undo) + 1 + Len(redo)
  <1>1. /\ undo \in Seq(AnyVersion) /\ redo \in Seq(AnyVersion) /\ Len(undo) \in Nat
        /\ Len(redo) \in Nat /\ Snapshot \in AnyVersion /\ Snapshot' \in AnyVersion
    BY TimelineTypes
  <1>2. L \in Seq(AnyVersion) /\ Len(L) = N /\ M \in Seq(AnyVersion) /\ Len(M) = N
    BY <1>1, LineElements
  <1>3. \A k \in 1..N : k # c => M[k] = L[k]
    BY <1>1, LineAt
  <1> HIDE DEF L, M
  <1>4. c \in 1..N /\ DOMAIN L = 1..N /\ DOMAIN M = 1..N
    BY <1>1, <1>2, LenProperties
  <1>5. M = [L EXCEPT ![c] = M[c]]
    <2> DEFINE P == [L EXCEPT ![c] = M[c]]
    <2>1. DOMAIN P = 1..N /\ P = [k \in 1..N |-> P[k]] /\ \A k \in 1..N : P[k] = M[k]
      <3> HIDE DEF c, N
      <3> QED  BY <1>3, <1>4
    <2>2. M = [k \in 1..N |-> M[k]]
      BY <1>2
    <2> HIDE DEF N
    <2>3. P = M
      <3> HIDE DEF P
      <3> QED  BY <2>1, <2>2
    <2> QED  BY <2>3
  <1>6. undo \o <<Snapshot>> \o Reverse(redo) = L
        /\ (undo \o <<Snapshot>> \o Reverse(redo))' = M
    BY WalkIs DEF Walk, L, M
  <1>7. (Len(undo) + 1)' = c
    OBVIOUS
  <1> QED  BY <1>5, <1>6, <1>7 DEF Timeline!Amend

\* When both stacks are empty the timeline has one document.
LEMMA ResetStep ==
  ASSUME CanvasInv, CanvasInv', undo' = <<>>, redo' = <<>>
  PROVE  Timeline!Reset
  <1>1. Len(Line(undo', Snapshot', redo')) = Len(undo') + 1 + Len(redo')
    <2>1. undo' \in Seq(AnyVersion) /\ Snapshot' \in AnyVersion /\ redo' \in Seq(AnyVersion)
      BY TimelineTypes
    <2> QED  BY <2>1, LineLength
  <1>2. Len(undo') = 0 /\ Len(redo') = 0
    OBVIOUS
  <1>3. Len((undo \o <<Snapshot>> \o Reverse(redo))') = 1
    BY <1>1, <1>2, WalkIs
  <1>4. (Len(undo) + 1)' = 1
    BY <1>2
  <1> QED  BY <1>3, <1>4 DEF Timeline!Reset

\* undo() moves one document back on the timeline and changes none.
LEMMA BackStep ==
  ASSUME CanvasInv, CanvasInv', Undo
  PROVE  Timeline!Back
  <1> DEFINE L == Line(undo, Snapshot, redo)
             M == Line(undo', Snapshot', redo')
             n == Len(undo)
             r == Len(redo)
             N == n + 1 + r
             V == AnyVersion
  <1>1. /\ undo \in Seq(V) /\ redo \in Seq(V) /\ n \in Nat /\ r \in Nat
        /\ Snapshot \in V /\ Snapshot' \in V /\ undo' \in Seq(V) /\ redo' \in Seq(V)
    BY TimelineTypes
  <1>2. undo # <<>> /\ undo' = Front(undo) /\ redo' = Append(redo, Snapshot)
    BY DEF Undo
  <1>3. n # 0
    BY <1>1, <1>2, EmptySeq
  <1>4. Len(undo') = n - 1 /\ \A k \in 1..(n - 1) : undo'[k] = undo[k]
    <2>1. undo' = SubSeq(undo, 0 + 1, n - 1)
      BY <1>2 DEF Front
    <2>2. 0 \in Nat /\ n - 1 \in Nat /\ 0 <= n - 1 /\ n - 1 <= Len(undo)
      BY <1>1, <1>3
    <2>3. /\ Len(SubSeq(undo, 0 + 1, n - 1)) = n - 1 - 0
          /\ \A k \in 1..(n - 1 - 0) : SubSeq(undo, 0 + 1, n - 1)[k] = undo[0 + k]
      <3> DEFINE b == n - 1
                 a == 0
      <3>1. a \in Nat /\ b \in Nat /\ a <= b /\ b <= Len(undo)
        BY <2>2
      <3> HIDE DEF a, b
      <3>2. Len(SubSeq(undo, a + 1, b)) = b - a /\ \A k \in 1..(b - a) : SubSeq(undo, a + 1, b)[k] = undo[a + k]
        BY <1>1, <3>1, Stretch
      <3> QED  BY <3>2 DEF a, b
    <2> QED  BY <1>1, <1>3, <2>1, <2>3
  <1>5. Len(redo') = r + 1 /\ redo'[r + 1] = Snapshot /\ \A k \in 1..r : redo'[k] = redo[k]
    BY <1>1, <1>2, AppendProperties
  <1>6. Snapshot' = undo[n]
    <2>1. Snapshot' = [doc |-> undo[n].doc, order |-> undo[n].order]
      BY DEF Undo, Snapshot, Last
    <2>2. undo[n] \in V
      BY <1>1, <1>3, ElementOfSeq
    <2> QED  BY <2>1, <2>2 DEF AnyVersion
  <1>7. L \in Seq(V) /\ Len(L) = N
    BY <1>1, LineElements
  <1>8. M \in Seq(V) /\ Len(M) = N
    <2>1. M \in Seq(V) /\ Len(M) = Len(undo') + 1 + Len(redo')
      BY <1>1, LineElements
    <2> QED  BY <1>1, <1>4, <1>5, <2>1
  <1>9. ASSUME NEW k \in 1..N PROVE L[k] = M[k]
    <2>1. L[k] = IF k <= n THEN undo[k] ELSE IF k = n + 1 THEN Snapshot ELSE redo[r + n + 2 - k]
      BY <1>1, LineAt
    <2>2. M[k] = IF k <= Len(undo') THEN undo'[k]
                 ELSE IF k = Len(undo') + 1 THEN Snapshot' ELSE redo'[Len(redo') + Len(undo') + 2 - k]
      <3>1. k \in 1..(Len(undo') + 1 + Len(redo'))
        BY <1>1, <1>4, <1>5
      <3> QED  BY <1>1, <3>1, LineAt
    <2>3. M[k] = IF k <= n - 1 THEN undo'[k] ELSE IF k = n THEN Snapshot' ELSE redo'[r + n + 2 - k]
      BY <1>1, <1>3, <1>4, <1>5, <2>2
    <2> HIDE DEF L, M
    <2>4. CASE k <= n - 1
      BY <1>1, <1>4, <2>1, <2>3, <2>4
    <2>5. CASE k = n
      BY <1>1, <1>6, <2>1, <2>3, <2>5
    <2>6. CASE k = n + 1
      BY <1>1, <1>5, <2>1, <2>3, <2>6
    <2>7. CASE k > n + 1
      <3>1. r + n + 2 - k \in 1..r
        BY <1>1, <2>7
      <3> QED  BY <1>1, <1>5, <2>1, <2>3, <2>7, <3>1
    <2> QED  BY <1>1, <2>4, <2>5, <2>6, <2>7
  <1>10. L = M
    <2> HIDE DEF L, M, N
    <2> QED  BY <1>7, <1>8, <1>9, SameSequence
  <1>11. undo \o <<Snapshot>> \o Reverse(redo) = L
         /\ (undo \o <<Snapshot>> \o Reverse(redo))' = M
    BY WalkIs DEF Walk
  <1>12. (Len(undo) + 1)' = Len(undo) + 1 - 1 /\ Len(undo) + 1 - 1 >= 1
    BY <1>1, <1>3, <1>4
  <1> HIDE DEF L, M
  <1>13. (undo \o <<Snapshot>> \o Reverse(redo))' = undo \o <<Snapshot>> \o Reverse(redo)
    BY <1>10, <1>11
  <1> QED  BY <1>12, <1>13 DEF Timeline!Back

\* redo() moves one document forward.
LEMMA ForwardStep ==
  ASSUME CanvasInv, CanvasInv', Redo
  PROVE  Timeline!Forward
  <1> DEFINE L == Line(undo, Snapshot, redo)
             M == Line(undo', Snapshot', redo')
             n == Len(undo)
             r == Len(redo)
             N == n + 1 + r
             V == AnyVersion
  <1>1. /\ undo \in Seq(V) /\ redo \in Seq(V) /\ n \in Nat /\ r \in Nat
        /\ Snapshot \in V /\ Snapshot' \in V /\ undo' \in Seq(V) /\ redo' \in Seq(V)
    BY TimelineTypes
  <1>2. redo # <<>> /\ redo' = Front(redo) /\ undo' = Append(undo, Snapshot)
    BY DEF Redo
  <1>3. r # 0
    BY <1>1, <1>2, EmptySeq
  <1>4. Len(redo') = r - 1 /\ \A k \in 1..(r - 1) : redo'[k] = redo[k]
    <2>1. redo' = SubSeq(redo, 0 + 1, r - 1)
      BY <1>2 DEF Front
    <2>2. 0 \in Nat /\ r - 1 \in Nat /\ 0 <= r - 1 /\ r - 1 <= Len(redo)
      BY <1>1, <1>3
    <2>3. /\ Len(SubSeq(redo, 0 + 1, r - 1)) = r - 1 - 0
          /\ \A k \in 1..(r - 1 - 0) : SubSeq(redo, 0 + 1, r - 1)[k] = redo[0 + k]
      <3> DEFINE b == r - 1
                 a == 0
      <3>1. a \in Nat /\ b \in Nat /\ a <= b /\ b <= Len(redo)
        BY <2>2
      <3> HIDE DEF a, b
      <3>2. Len(SubSeq(redo, a + 1, b)) = b - a /\ \A k \in 1..(b - a) : SubSeq(redo, a + 1, b)[k] = redo[a + k]
        BY <1>1, <3>1, Stretch
      <3> QED  BY <3>2 DEF a, b
    <2> QED  BY <1>1, <1>3, <2>1, <2>3
  <1>5. Len(undo') = n + 1 /\ undo'[n + 1] = Snapshot /\ \A k \in 1..n : undo'[k] = undo[k]
    BY <1>1, <1>2, AppendProperties
  <1>6. Snapshot' = redo[r]
    <2>1. Snapshot' = [doc |-> redo[r].doc, order |-> redo[r].order]
      BY DEF Redo, Snapshot, Last
    <2>2. redo[r] \in V
      BY <1>1, <1>3, ElementOfSeq
    <2> QED  BY <2>1, <2>2 DEF AnyVersion
  <1>7. L \in Seq(V) /\ Len(L) = N
    BY <1>1, LineElements
  <1>8. M \in Seq(V) /\ Len(M) = N
    <2>1. M \in Seq(V) /\ Len(M) = Len(undo') + 1 + Len(redo')
      BY <1>1, LineElements
    <2> QED  BY <1>1, <1>4, <1>5, <2>1
  <1>9. ASSUME NEW k \in 1..N PROVE L[k] = M[k]
    <2>1. L[k] = IF k <= n THEN undo[k] ELSE IF k = n + 1 THEN Snapshot ELSE redo[r + n + 2 - k]
      BY <1>1, LineAt
    <2>2. M[k] = IF k <= Len(undo') THEN undo'[k]
                 ELSE IF k = Len(undo') + 1 THEN Snapshot' ELSE redo'[Len(redo') + Len(undo') + 2 - k]
      <3>1. k \in 1..(Len(undo') + 1 + Len(redo'))
        BY <1>1, <1>4, <1>5
      <3> QED  BY <1>1, <3>1, LineAt
    <2>3. M[k] = IF k <= n + 1 THEN undo'[k] ELSE IF k = n + 2 THEN Snapshot' ELSE redo'[r + n + 2 - k]
      BY <1>1, <1>3, <1>4, <1>5, <2>2
    <2> HIDE DEF L, M
    <2>4. CASE k <= n
      BY <1>1, <1>5, <2>1, <2>3, <2>4
    <2>5. CASE k = n + 1
      BY <1>1, <1>5, <2>1, <2>3, <2>5
    <2>6. CASE k = n + 2
      BY <1>1, <1>6, <2>1, <2>3, <2>6
    <2>7. CASE k > n + 2
      <3>1. r + n + 2 - k \in 1..(r - 1)
        BY <1>1, <2>7
      <3>2. redo'[r + n + 2 - k] = redo[r + n + 2 - k]
        BY <1>4, <3>1
      <3> QED  BY <1>1, <2>1, <2>3, <2>7, <3>2
    <2> QED  BY <1>1, <2>4, <2>5, <2>6, <2>7
  <1>10. L = M
    <2> HIDE DEF L, M, N
    <2> QED  BY <1>7, <1>8, <1>9, SameSequence
  <1>11. undo \o <<Snapshot>> \o Reverse(redo) = L
         /\ (undo \o <<Snapshot>> \o Reverse(redo))' = M
    BY WalkIs DEF Walk
  <1>12. (Len(undo) + 1)' = n + 1 + 1 /\ n + 1 + 1 <= Len(L)
    BY <1>1, <1>3, <1>5, <1>7
  <1> HIDE DEF L, M
  <1> QED  BY <1>10, <1>11, <1>12 DEF Timeline!Forward

-----------------------------------------------------------------------------
(* Recorded changes on the timeline. *)

\* What the abstract timeline keeps, document by document.
LEMMA KeptElements ==
  ASSUME NEW V, NEW t \in Seq(V), NEW c \in Nat, NEW m \in Nat, m <= Len(t),
         c > MaxHistory => m = c - MaxHistory, c <= MaxHistory => m = 0
  PROVE  /\ Timeline!Kept(t, c) \in Seq(V) /\ Len(Timeline!Kept(t, c)) = Len(t) - m
         /\ \A k \in 1..(Len(t) - m) : Timeline!Kept(t, c)[k] = t[m + k]
  <1>1. Len(t) \in Nat /\ MaxHistory \in Nat \ {0}
    BY CanvasAssumption, LenProperties
  <1>2. CASE c > MaxHistory
    <2>1. Timeline!Kept(t, c) = SubSeq(t, m + 1, Len(t))
      BY <1>2 DEF Timeline!Kept
    <2>2. Len(t) \in Nat /\ m <= Len(t) /\ Len(t) <= Len(t)
      BY <1>1
    <2> QED  BY <2>1, <2>2, Stretch
  <1>3. CASE ~ (c > MaxHistory)
    BY <1>1, <1>3 DEF Timeline!Kept
  <1> QED  BY <1>2, <1>3

\* The past of the timeline is the undo stack, its present the document.
LEMMA PastAndPresent ==
  ASSUME CanvasInv, CanvasInv'
  PROVE  Timeline!Past = undo /\ Timeline!Present = Snapshot
  <1> DEFINE L == Line(undo, Snapshot, redo)
             n == Len(undo)
             V == AnyVersion
             a == 0
  <1>1. /\ undo \in Seq(V) /\ redo \in Seq(V) /\ n \in Nat /\ Len(redo) \in Nat
        /\ Snapshot \in V /\ a \in Nat /\ a <= n
    BY TimelineTypes
  <1>2. L \in Seq(V) /\ Len(L) = n + 1 + Len(redo) /\ L[n + 1] = Snapshot
    BY <1>1, LineElements
  <1>3. ASSUME NEW k \in 1..n PROVE L[k] = undo[k]
    BY <1>1, LineElements
  <1>4. undo \o <<Snapshot>> \o Reverse(redo) = L
    BY WalkIs DEF Walk
  <1> HIDE DEF L, a
  <1>5. /\ SubSeq(L, a + 1, n) \in Seq(V) /\ Len(SubSeq(L, a + 1, n)) = n - a
        /\ \A k \in 1..(n - a) : SubSeq(L, a + 1, n)[k] = L[a + k]
    BY <1>1, <1>2, Stretch
  <1>6. SubSeq(L, a + 1, n) = undo
    BY <1>1, <1>3, <1>5, SameSequence DEF a
  <1>7. n + 1 - 1 = n /\ a + 1 = 1
    BY <1>1 DEF a
  <1>8. Timeline!Past = undo
    BY <1>4, <1>6, <1>7 DEF Timeline!Past
  <1>9. Timeline!Present = Snapshot
    BY <1>2, <1>4 DEF Timeline!Present
  <1> QED  BY <1>8, <1>9

\* The timeline M continues the past u with k + 1 documents: they begin with the
\* first of ss, unless these are more than are kept.
Continues(u, ss, M) ==
  \E k \in 1..(Len(M) - 1) : \E new :
     /\ new = SubSeq(M, Len(M) - k, Len(M))
     /\ M = Timeline!Kept(u \o new, Len(u) + k)
     /\ Len(ss) <= MaxHistory => Head(new) = ss[1]
     /\ Len(ss) > MaxHistory => k = MaxHistory

\* After the N documents ss are pushed on u, the last of them that are kept and
\* the present are what the timeline has after its past u.
LEMMA RecordLine ==
  ASSUME NEW V, NEW u \in Seq(V), NEW ss \in Seq(V), NEW s \in V,
         Len(u) <= MaxHistory, Len(ss) # 0
  PROVE  Continues(u, ss, Line(Latest(u \o ss), s, <<>>))
  <1>0. MaxHistory \in Nat \ {0}
    BY CanvasAssumption
  <1>a. PICK n \in Nat : n = Len(u) /\ n <= MaxHistory
    BY LenProperties
  <1>b. PICK N \in Nat : N = Len(ss) /\ N # 0
    BY LenProperties
  <1>c. PICK w : w = Latest(u \o ss)
    OBVIOUS
  <1>d. PICK M : M = Line(w, s, <<>>)
    OBVIOUS
  <1>1. PICK U : U = u \o ss
    OBVIOUS
  <1>2. U \in Seq(V) /\ Len(U) = n + N
        /\ (\A j \in 1..n : U[j] = u[j]) /\ \A j \in 1..N : U[n + j] = ss[j]
    BY <1>a, <1>b, <1>1, ConcatElements
  <1>3. PICK m \in Nat :
          (n + N > MaxHistory => m = n + N - MaxHistory) /\ (n + N <= MaxHistory => m = 0)
    <2>1. CASE n + N > MaxHistory
      <3>1. n + N - MaxHistory \in Nat
        BY <1>0, <2>1
      <3> QED  BY <1>0, <2>1, <3>1
    <2>2. CASE n + N <= MaxHistory
      BY <1>0, <2>2
    <2> QED  BY <1>0, <2>1, <2>2
  <1>e. n + N - m \in Nat /\ m <= n + N
    <2>1. CASE n + N > MaxHistory
      BY <1>0, <1>3, <2>1
    <2>2. CASE n + N <= MaxHistory
      BY <1>0, <1>3, <2>2
    <2> QED  BY <1>0, <2>1, <2>2
  <1>4. PICK p \in Nat : p = n + N - m
    BY <1>e
  <1>5. PICK k \in 1..p : (N <= MaxHistory => k = N) /\ (N > MaxHistory => k = MaxHistory)
    <2>1. CASE N <= MaxHistory
      <3>1. N \in 1..p
        BY <1>0, <1>a, <1>b, <1>3, <1>4, <2>1
      <3> QED  BY <1>0, <2>1, <3>1
    <2>2. CASE N > MaxHistory
      <3>1. MaxHistory \in 1..p
        BY <1>0, <1>a, <1>b, <1>3, <1>4, <2>2
      <3> QED  BY <1>0, <2>2, <3>1
    <2> QED  BY <1>0, <2>1, <2>2
  <1>6. PICK q \in Nat :
          (n + k > MaxHistory => q = n + k - MaxHistory) /\ (n + k <= MaxHistory => q = 0)
    <2>1. CASE n + k > MaxHistory
      <3>1. n + k - MaxHistory \in Nat
        BY <1>0, <2>1
      <3> QED  BY <1>0, <2>1, <3>1
    <2>2. CASE n + k <= MaxHistory
      BY <1>0, <2>2
    <2> QED  BY <1>0, <2>1, <2>2
  <1>7. PICK a \in Nat : a = p - k
    OBVIOUS
  <1>8. w \in Seq(V) /\ Len(w) = p /\ \A j \in 1..p : w[j] = U[m + j]
    <2>1. (Len(U) > MaxHistory => m = Len(U) - MaxHistory) /\ (Len(U) <= MaxHistory => m = 0)
      BY <1>0, <1>2, <1>3
    <2>2. w = Latest(U)
      BY <1>1, <1>c
    <2>3. /\ Latest(U) \in Seq(V) /\ Len(Latest(U)) = Len(U) - m
          /\ \A j \in 1..(Len(U) - m) : Latest(U)[j] = U[m + j]
      BY <1>2, <2>1, LatestElements
    <2> QED  BY <1>2, <1>4, <2>2, <2>3
  <1>9. PICK b \in Nat : b = p + 1
    OBVIOUS
  <1>10. M \in Seq(V) /\ Len(M) = b /\ M[b] = s /\ \A j \in 1..p : M[j] = U[m + j]
    <2>0. <<>> \in Seq(V) /\ Len(<<>>) = 0
      OBVIOUS
    <2>1. PICK e \in Seq(V) : e = <<>> /\ Len(e) = 0
      BY <2>0, Zenon
    <2>2. /\ Line(w, s, e) \in Seq(V) /\ Len(Line(w, s, e)) = Len(w) + 1 + Len(e)
          /\ \A j \in 1..Len(w) : Line(w, s, e)[j] = w[j]
          /\ Line(w, s, e)[Len(w) + 1] = s
      <3>1. w \in Seq(V)
        BY <1>8
      <3> QED  BY <3>1, LineElements
    <2>3. M = Line(w, s, e)
      BY <1>d, <2>1
    <2> QED  BY <1>8, <1>9, <2>1, <2>2, <2>3
  <1>11. PICK new : new = SubSeq(M, a + 1, b)
    OBVIOUS
  <1>12. new \in Seq(V) /\ Len(new) = k + 1 /\ \A j \in 1..(k + 1) : new[j] = M[a + j]
    <2>1. a <= b /\ b <= Len(M) /\ b - a = k + 1
      BY <1>7, <1>9, <1>10
    <2> QED  BY <1>10, <1>11, <2>1, Stretch
  <1>13. N <= MaxHistory => Head(new) = ss[1]
    <2> SUFFICES ASSUME N <= MaxHistory PROVE Head(new) = ss[1]
      OBVIOUS
    <2>1. Head(new) = new[1]
      BY <1>12
    <2>2. k = N /\ a + 1 \in 1..p /\ 1 \in 1..(k + 1) /\ m + (a + 1) = n + 1 /\ 1 \in 1..N
      BY <1>b, <1>4, <1>5, <1>7
    <2>3. new[1] = M[a + 1] /\ M[a + 1] = U[m + (a + 1)] /\ U[n + 1] = ss[1]
      BY <1>2, <1>10, <1>12, <2>2
    <2> QED  BY <2>1, <2>2, <2>3
  <1>14. PICK X : X = u \o new
    OBVIOUS
  <1>15. X \in Seq(V) /\ Len(X) = n + (k + 1)
         /\ (\A j \in 1..n : X[j] = u[j]) /\ \A j \in 1..(k + 1) : X[n + j] = new[j]
    <2>1. new \in Seq(V)
      BY <1>12
    <2>2. /\ u \o new \in Seq(V) /\ Len(u \o new) = Len(u) + Len(new)
          /\ \A j \in 1..Len(u) : (u \o new)[j] = u[j]
          /\ \A j \in 1..Len(new) : (u \o new)[Len(u) + j] = new[j]
      BY <2>1, ConcatElements
    <2> QED  BY <1>a, <1>12, <1>14, <2>2
  <1>16. ASSUME NEW j \in 1..b PROVE M[j] = X[q + j]
    <2>1. CASE N <= MaxHistory /\ m + j <= n
      <3>1. q = m /\ m + j \in 1..n /\ j \in 1..p
        BY <1>0, <1>a, <1>b, <1>3, <1>4, <1>5, <1>6, <2>1
      <3> QED  BY <1>2, <1>10, <1>15, <3>1
    <2>2. CASE N <= MaxHistory /\ m + j > n
      <3>1. PICK i \in Nat : i = m + j - n
        BY <2>2
      <3>2. q = m /\ a = n - m /\ b = n + N - m + 1 /\ k = N
        <4>1. k = N
          BY <1>5, <2>2
        <4>2. q = m
          BY <1>0, <1>3, <1>6, <4>1
        <4> QED  BY <1>4, <1>7, <1>9, <4>1, <4>2
      <3>3. i \in 1..(k + 1) /\ q + j = n + i /\ a + i = j
        BY <1>e, <2>2, <3>1, <3>2
      <3> QED  BY <1>12, <1>15, <3>2, <3>3
    <2>3. CASE N > MaxHistory
      <3>1. q = n /\ j \in 1..(k + 1) /\ a + j = j
        BY <1>0, <1>a, <1>b, <1>3, <1>4, <1>5, <1>6, <1>7, <1>9, <2>3
      <3> QED  BY <1>12, <1>15, <3>1
    <2> QED  BY <1>0, <1>3, <2>1, <2>2, <2>3
  <1>17. PICK c \in Nat : c = n + k
    OBVIOUS
  <1>18. q <= Len(X) /\ Len(X) - q = b
    <2>1. Len(X) = n + (k + 1)
      BY <1>15
    <2>2. CASE N <= MaxHistory
      <3>1. k = N
        BY <1>5, <2>2
      <3>2. q = m
        BY <1>0, <1>3, <1>6, <3>1
      <3> QED  BY <1>e, <1>4, <1>9, <2>1, <3>1, <3>2
    <2>3. CASE ~ (N <= MaxHistory)
      <3>1. k = MaxHistory
        BY <1>0, <1>5, <2>3
      <3>2. q = n /\ m = n + N - MaxHistory
        BY <1>0, <1>a, <1>b, <1>3, <1>6, <2>3, <3>1
      <3> QED  BY <1>0, <1>4, <1>9, <2>1, <3>1, <3>2
    <2> QED  BY <2>2, <2>3
  <1>19. M = Timeline!Kept(X, c)
    <2>1. PICK K : K = Timeline!Kept(X, c)
      OBVIOUS
    <2>2. (c > MaxHistory => q = c - MaxHistory) /\ (c <= MaxHistory => q = 0)
      BY <1>0, <1>6, <1>17
    <2>3. K \in Seq(V) /\ Len(K) = Len(X) - q /\ \A j \in 1..(Len(X) - q) : K[j] = X[q + j]
      <3>1. X \in Seq(V) /\ q <= Len(X)
        BY <1>15, <1>18
      <3> QED  BY <2>1, <2>2, <3>1, KeptElements
    <2>4. \A j \in 1..b : M[j] = K[j]
      BY <1>16, <1>18, <2>3
    <2>5. M = K
      BY <1>10, <1>18, <2>3, <2>4, SameSequence
    <2> QED  BY <2>1, <2>5
  <1>20. k \in 1..(Len(M) - 1) /\ Len(M) - k = a + 1 /\ Len(M) = b
    BY <1>7, <1>9, <1>10
  <1>21. new = SubSeq(M, Len(M) - k, Len(M))
    BY <1>11, <1>20
  <1>22. N > MaxHistory => k = MaxHistory
    BY <1>0, <1>5
  <1>23. /\ M = Line(Latest(u \o ss), s, <<>>)
         /\ M = Timeline!Kept(u \o new, Len(u) + k)
    BY <1>a, <1>c, <1>d, <1>14, <1>17, <1>19
  <1> QED  BY <1>b, <1>13, <1>20, <1>21, <1>22, <1>23 DEF Continues

\* Operations that push the snapshots ss and empty the redo stack record a change,
\* when it starts from the first of them or there are more than are kept.
LEMMA RecordStep ==
  ASSUME CanvasInv, CanvasInv', NEW ss \in Seq(AnyVersion), NEW N \in Nat \ {0}, Len(ss) = N,
         undo' = Latest(undo \o ss), redo' = <<>>,
         N <= MaxHistory => Timeline!StartsFrom(ss[1]),
         N > MaxHistory => Timeline!Overrun
  PROVE  Timeline!Record
  <1> DEFINE M == Line(undo', Snapshot', redo')
             n == Len(undo)
  <1>1. /\ undo \in Seq(AnyVersion) /\ Snapshot' \in AnyVersion /\ undo' \in Seq(AnyVersion)
        /\ redo' \in Seq(AnyVersion) /\ n \in Nat /\ n <= MaxHistory
    BY TimelineTypes
  <1>a. PICK k \in 1..(Len(M) - 1) : \E new :
           /\ new = SubSeq(M, Len(M) - k, Len(M))
           /\ M = Timeline!Kept(undo \o new, n + k)
           /\ N <= MaxHistory => Head(new) = ss[1]
           /\ N > MaxHistory => k = MaxHistory
    <2>1. M = Line(Latest(undo \o ss), Snapshot', <<>>)
      OBVIOUS
    <2> HIDE DEF M
    <2>2. Len(undo) <= MaxHistory /\ Len(ss) # 0
      BY <1>1
    <2>3. Continues(undo, ss, Line(Latest(undo \o ss), Snapshot', <<>>))
      BY <1>1, <2>2, RecordLine
    <2>4. Continues(undo, ss, M)
      BY <2>1, <2>3
    <2> QED  BY <2>4 DEF Continues
  <1>2. PICK new :
           /\ new = SubSeq(M, Len(M) - k, Len(M))
           /\ M = Timeline!Kept(undo \o new, n + k)
           /\ N <= MaxHistory => Head(new) = ss[1]
           /\ N > MaxHistory => k = MaxHistory
    BY <1>a
  <1>3. (undo \o <<Snapshot>> \o Reverse(redo))' = M
    BY WalkIs
  <1>4. (Len(undo) + 1)' = Len(M)
    <2>1. Len(redo') = 0
      OBVIOUS
    <2>2. Len(M) = Len(undo') + 1 + Len(redo')
      BY <1>1, LineLength
    <2>3. Len(undo') \in Nat
      BY TimelineTypes
    <2> QED  BY <2>1, <2>2, <2>3
  <1> HIDE DEF M
  <1>5. Timeline!StartsFrom(Head(new)) \/ (k = MaxHistory /\ Timeline!Overrun)
    <2>1. CASE N <= MaxHistory
      BY <1>2, <2>1
    <2>2. CASE ~ (N <= MaxHistory)
      BY <1>2, <2>2, CanvasAssumption
    <2> QED  BY <2>1, <2>2
  <1>6. M = Timeline!Kept(Timeline!Past \o new, Len(Timeline!Past) + k)
    BY <1>2, PastAndPresent
  <1> QED  BY <1>2, <1>3, <1>4, <1>5, <1>6 DEF Timeline!Record

\* The refused update of updateExpression: the present is on the timeline twice,
\* and the oldest document is gone when the history was full.
LEMMA RefuseStep ==
  ASSUME CanvasInv, CanvasInv', NEW i \in Ids, RejectUpdate(i)
  PROVE  Timeline!Refuse
  <1> DEFINE V == AnyVersion
  <1>0. MaxHistory \in Nat \ {0}
    BY CanvasAssumption
  <1>1. /\ undo \in Seq(V) /\ Snapshot \in V /\ Snapshot' \in V
        /\ undo' \in Seq(V) /\ redo' \in Seq(V) /\ Len(undo) <= MaxHistory
    BY TimelineTypes
  <1>2. /\ undo' = Front(Pushed(undo, Snapshot)) /\ redo' = <<Snapshot>>
        /\ Snapshot' = Snapshot
    BY DEF RejectUpdate, docVars, Snapshot
  <1>3. PICK S : S = Snapshot
    OBVIOUS
  <1>4. PICK n \in Nat : n = Len(undo) /\ n <= MaxHistory
    BY <1>1, LenProperties
  <1>5. PICK m \in Nat : (n + 1 > MaxHistory => m = 1) /\ (n + 1 <= MaxHistory => m = 0)
    BY <1>0
  <1>6. m <= n /\ (n + 1 > MaxHistory => m = n + 1 - MaxHistory)
    BY <1>0, <1>4, <1>5
  <1>7. PICK U : U = undo \o <<S>>
    OBVIOUS
  <1>8. U \in Seq(V) /\ Len(U) = n + 1 /\ \A j \in 1..n : U[j] = undo[j]
    <2>1. <<S>> \in Seq(V) /\ Len(<<S>>) = 1
      BY <1>1, <1>3
    <2>2. PICK t \in Seq(V) : t = <<S>> /\ Len(t) = 1
      BY <2>1, Zenon
    <2> QED  BY <1>1, <1>4, <1>7, <2>2, ConcatElements
  <1>9. PICK K : K = Pushed(undo, S)
    OBVIOUS
  <1>10. K \in Seq(V) /\ Len(K) = n + 1 - m /\ \A j \in 1..(n + 1 - m) : K[j] = U[m + j]
    <2>1. K = Latest(U)
      <3>1. S \in V /\ Len(undo) <= MaxHistory
        BY <1>1, <1>3
      <3>2. Pushed(undo, S) = Latest(undo \o <<S>>)
        BY <1>1, <3>1, PushedIsLatest
      <3> QED  BY <1>7, <1>9, <3>2, Zenon
    <2>2. (Len(U) > MaxHistory => m = Len(U) - MaxHistory) /\ (Len(U) <= MaxHistory => m = 0)
      BY <1>0, <1>5, <1>6, <1>8
    <2>3. /\ Latest(U) \in Seq(V) /\ Len(Latest(U)) = Len(U) - m
          /\ \A j \in 1..(Len(U) - m) : Latest(U)[j] = U[m + j]
      BY <1>8, <2>2, LatestElements
    <2> QED  BY <1>8, <2>1, <2>3
  <1>11. Len(undo') = n - m /\ \A j \in 1..(n - m) : undo'[j] = undo[m + j]
    <2>1. PICK a \in Nat, b \in Nat : a = 0 /\ b = n - m
      BY <1>6
    <2>2. undo' = SubSeq(K, a + 1, b)
      <3>1. Len(K) - 1 = b /\ a + 1 = 1
        BY <1>6, <1>10, <2>1
      <3>2. undo' = SubSeq(K, 1, Len(K) - 1)
        BY <1>2, <1>3, <1>9 DEF Front
      <3> QED  BY <3>1, <3>2
    <2>3. a <= b /\ b <= Len(K)
      BY <1>6, <1>10, <2>1
    <2>4. /\ Len(SubSeq(K, a + 1, b)) = b - a
          /\ \A j \in 1..(b - a) : SubSeq(K, a + 1, b)[j] = K[a + j]
      BY <1>10, <2>3, Stretch
    <2>5. ASSUME NEW j \in 1..(n - m) PROVE undo'[j] = undo[m + j]
      <3>1. j \in 1..(b - a) /\ a + j = j /\ j \in 1..(n + 1 - m) /\ m + j \in 1..n
        BY <1>6, <2>1
      <3> QED  BY <1>8, <1>10, <2>2, <2>4, <3>1
    <2> QED  BY <1>6, <2>1, <2>2, <2>4, <2>5
  <1>12. PICK r \in Seq(V) : r = redo' /\ Len(r) = 1 /\ r[1] = S
    BY <1>1, <1>2, <1>3
  <1>13. PICK L : L = Line(undo', S, r)
    OBVIOUS
  <1>14. /\ L \in Seq(V) /\ Len(L) = n - m + 2
         /\ \A j \in 1..(n - m) : L[j] = undo[m + j]
         /\ L[n - m + 1] = S /\ L[n - m + 2] = S
    <2>1. /\ L \in Seq(V) /\ Len(L) = Len(undo') + 1 + Len(r)
          /\ \A k \in 1..Len(undo') : L[k] = undo'[k]
          /\ L[Len(undo') + 1] = S
          /\ \A k \in 1..Len(r) : L[Len(undo') + 1 + k] = r[Len(r) - k + 1]
      <3>1. S \in V /\ undo' \in Seq(V) /\ r \in Seq(V)
        BY <1>1, <1>3, <1>12
      <3> HIDE DEF V
      <3>2. PICK u \in Seq(V) : u = undo'
        BY <3>1
      <3>3. Line(u, S, r) \in Seq(V) /\ Len(Line(u, S, r)) = Len(u) + 1 + Len(r)
        BY <3>1, LineElements
      <3>4. ASSUME NEW k \in 1..Len(u) PROVE Line(u, S, r)[k] = u[k]
        BY <3>1, LineElements
      <3>5. Line(u, S, r)[Len(u) + 1] = S
        BY <3>1, LineElements
      <3>6. ASSUME NEW k \in 1..Len(r) PROVE Line(u, S, r)[Len(u) + 1 + k] = r[Len(r) - k + 1]
        BY <3>1, LineElements
      <3> QED  BY <1>13, <3>2, <3>3, <3>4, <3>5, <3>6
    <2>2. L[Len(undo') + 1 + 1] = r[Len(r) - 1 + 1]
      <3>1. 1 \in 1..Len(r)
        BY <1>12
      <3> QED  BY <2>1, <3>1
    <2>3. /\ Len(L) = n - m + 1 + 1 /\ L[n - m + 1] = S /\ L[n - m + 1 + 1] = S
      BY <1>11, <1>12, <2>1, <2>2
    <2>4. n - m + 1 + 1 = n - m + 2
      BY <1>6
    <2> QED  BY <1>11, <2>1, <2>3, <2>4
  <1>15. PICK T : T = undo \o <<S, S>>
    OBVIOUS
  <1>16. T \in Seq(V) /\ Len(T) = n + 2 /\ (\A j \in 1..n : T[j] = undo[j])
         /\ T[n + 1] = S /\ T[n + 2] = S
    <2>1. <<S, S>> \in Seq(V) /\ Len(<<S, S>>) = 2 /\ <<S, S>>[1] = S /\ <<S, S>>[2] = S
      BY <1>1, <1>3
    <2>2. PICK t \in Seq(V) : t = <<S, S>> /\ Len(t) = 2 /\ t[1] = S /\ t[2] = S
      BY <2>1, Zenon
    <2>3. /\ undo \o t \in Seq(V) /\ Len(undo \o t) = Len(undo) + Len(t)
          /\ \A k \in 1..Len(undo) : (undo \o t)[k] = undo[k]
          /\ \A k \in 1..Len(t) : (undo \o t)[Len(undo) + k] = t[k]
      BY <1>1, ConcatElements
    <2>4. T = undo \o t
      BY <1>15, <2>2
    <2>5. 1 \in 1..Len(t) /\ 2 \in 1..Len(t)
      BY <2>2
    <2> QED  BY <1>4, <2>2, <2>3, <2>4, <2>5
  <1>17. PICK c \in Nat : c = n + 1
    OBVIOUS
  <1>18. PICK Q : Q = Timeline!Kept(T, c)
    OBVIOUS
  <1>19. Q \in Seq(V) /\ Len(Q) = n + 2 - m /\ \A j \in 1..(n + 2 - m) : Q[j] = T[m + j]
    <2>1. m <= Len(T) /\ (c > MaxHistory => m = c - MaxHistory) /\ (c <= MaxHistory => m = 0)
      BY <1>0, <1>5, <1>6, <1>16, <1>17
    <2>2. /\ Timeline!Kept(T, c) \in Seq(V) /\ Len(Timeline!Kept(T, c)) = Len(T) - m
          /\ \A k \in 1..(Len(T) - m) : Timeline!Kept(T, c)[k] = T[m + k]
      <3>1. T \in Seq(V)
        BY <1>16
      <3> QED  BY <2>1, <3>1, KeptElements
    <2>3. Len(T) - m = n + 2 - m
      BY <1>16
    <2> QED  BY <1>18, <2>2, <2>3
  <1>20. L = Q
    <2>1. n - m + 2 = n + 2 - m
      BY <1>6
    <2>2. ASSUME NEW j \in 1..(n - m + 2) PROVE L[j] = Q[j]
      <3>0. Q[j] = T[m + j]
        BY <1>19, <2>1
      <3>1. CASE j <= n - m
        <4>1. j \in 1..(n - m) /\ m + j \in 1..n
          BY <1>6, <3>1
        <4> QED  BY <1>14, <1>16, <3>0, <4>1
      <3>2. CASE j = n - m + 1
        <4>1. m + j = n + 1
          BY <1>6, <3>2
        <4> QED  BY <1>14, <1>16, <3>0, <3>2, <4>1
      <3>3. CASE j = n - m + 2
        <4>1. m + j = n + 2
          BY <1>6, <3>3
        <4> QED  BY <1>14, <1>16, <3>0, <3>3, <4>1
      <3> QED  BY <1>6, <3>1, <3>2, <3>3
    <2> QED  BY <1>14, <1>19, <2>1, <2>2, SameSequence
  <1>21. (undo \o <<Snapshot>> \o Reverse(redo))' = L
    BY <1>2, <1>3, <1>12, <1>13, WalkIs
  <1>22. L = Timeline!Kept(Timeline!Past \o <<Timeline!Present, Timeline!Present>>, Len(undo) + 1)
    BY <1>3, <1>4, <1>15, <1>17, <1>18, <1>20, PastAndPresent
  <1>23. (Len(undo) + 1)' = Len(L) - 1
    BY <1>6, <1>11, <1>14
  <1> QED  BY <1>21, <1>22, <1>23 DEF Timeline!Refuse

\* A change that is recorded with one snapshot.
LEMMA CommitStep ==
  ASSUME CanvasInv, CanvasInv', NEW before \in AnyVersion,
         undo' = Pushed(undo, before), redo' = <<>>, Timeline!StartsFrom(before)
  PROVE  Timeline!Record
  <1>1. PICK ss \in Seq(AnyVersion) : ss = <<before>> /\ Len(ss) = 1 /\ ss[1] = before
    <2>1. <<before>> \in Seq(AnyVersion) /\ Len(<<before>>) = 1 /\ <<before>>[1] = before
      OBVIOUS
    <2> QED  BY <2>1, Zenon
  <1>2. Pushed(undo, before) = Latest(undo \o ss)
    BY <1>1, TimelineTypes, PushedIsLatest
  <1>3. PICK N \in Nat \ {0} : N = 1
    OBVIOUS
  <1>4. /\ Len(ss) = N /\ (N <= MaxHistory => Timeline!StartsFrom(ss[1]))
        /\ (N > MaxHistory => Timeline!Overrun)
    BY <1>1, <1>3, CanvasAssumption
  <1> QED  BY <1>2, <1>4, RecordStep

\* A change recorded with the current document as its snapshot.
LEMMA SnapshotStep ==
  ASSUME CanvasInv, CanvasInv', undo' = Pushed(undo, Snapshot), redo' = <<>>
  PROVE  Timeline!Record
  <1>1. Snapshot \in AnyVersion /\ Timeline!StartsFrom(Snapshot)
    BY TimelineTypes, PastAndPresent DEF Timeline!StartsFrom
  <1> QED  BY <1>1, CommitStep

-----------------------------------------------------------------------------
(* Paste and duplicate on the timeline. *)

\* N expressions under new ids make the document larger by N.
LEMMA AddedCount ==
  ASSUME CanvasInv, NEW news, NEW N, Adds(news, N)
  PROVE  Cardinality(DOMAIN doc') = Cardinality(Live) + N
  <1> DEFINE I == {news[k].id : k \in 1..N}
             f == [k \in 1..N |-> news[k].id]
  <1>1. N \in Nat /\ DOMAIN doc' = Live \cup I
    BY DEF Adds, AddAll, Added
  <1>2. \A k \in 1..N : news[k].id \in Ids /\ news[k].id \notin born
    BY DEF Adds, Addable
  <1>3. Live \cap I = {}
    BY <1>2, DocumentTypes DEF Known, Live
  <1>4. I \subseteq Ids
    BY <1>2
  <1>5. f \in Bijection(1..N, I)
    BY DEF Adds, Bijection, Injection, Surjection, IsInjective
  <1>6. IsFiniteSet(1..N) /\ Cardinality(1..N) = N
    BY <1>1, FS_Interval
  <1>7. ExistsBijection(1..N, I)
    BY <1>5 DEF ExistsBijection
  <1> HIDE DEF I, f
  <1>8. IsFiniteSet(I) /\ Cardinality(I) = N
    BY <1>6, <1>7, FS_Bijection
  <1>9. IsFiniteSet(Live)
    BY CanvasAssumption, DocumentTypes, FS_Subset
  <1>10. Cardinality(Live \cup I) = Cardinality(Live) + Cardinality(I) - Cardinality(Live \cap I)
    BY <1>8, <1>9, FS_Union
  <1>11. Cardinality(Live \cap I) = 0
    BY <1>3, FS_EmptySet
  <1>12. Cardinality(Live) \in Nat
    BY <1>9, FS_CardinalityType
  <1> QED  BY <1>1, <1>8, <1>10, <1>11, <1>12

\* The cardinality the abstract module counts with is the one of this module.
LEMMA SameCount == \A S : Timeline!Cardinality(S) = Cardinality(S)
  BY DEF Timeline!Cardinality, Cardinality

\* A paste or a duplicate records its copies one by one: the change starts from the
\* present, or so many snapshots have been pushed that the present fell out.
LEMMA AddsRecord ==
  ASSUME CanvasInv, CanvasInv', NEW news, NEW N, Adds(news, N)
  PROVE  Timeline!Record
  <1>0. MaxHistory \in Nat
    BY CanvasAssumption
  <1>1. N \in Nat \ {0} /\ AddAll(news) /\ DOMAIN news = 1..N /\ Len(news) = N
        /\ born \subseteq born' /\ \A k \in 1..N : Addable(news[k]) /\ news[k].id \in born'
    BY DEF Adds
  <1> DEFINE ss == [k \in 1..N |-> Added(news, k - 1)]
  <1>2. undo' = Latest(undo \o ss) /\ redo' = <<>>
    BY <1>1 DEF AddAll
  <1>3. \A n \in 0..N : Added(news, n) \in Whole(born')
    <2>1. DocInv
      BY DEF CanvasInv
    <2> QED  BY <1>1, <2>1, AddedGood
  <1>4. ss \in [1..N -> AnyVersion]
    <2>1. Whole(born') \subseteq AnyVersion
      BY DEF Whole, AnyVersion
    <2>2. \A k \in 1..N : k - 1 \in 0..N
      BY <1>1
    <2> QED  BY <1>3, <2>1, <2>2
  <1>5. ss[1] = Added(news, 0)
    BY <1>1
  <1> HIDE DEF ss
  <1>6. ss \in Seq(AnyVersion) /\ Len(ss) = N
    <2>1. ss \in Seq(AnyVersion)
      BY <1>1, <1>4, SeqDef
    <2> QED  BY <1>1, <1>4, <2>1, LenProperties
  <1>7. Added(news, 0) = Snapshot
    <2> DEFINE d == [j \in Live \cup {news[k].id : k \in 1..0} |->
                       IF {k \in 1..0 : news[k].id = j} # {}
                       THEN news[CHOOSE k \in {k \in 1..0 : news[k].id = j} : TRUE].e ELSE doc[j]]
               o == [k \in 1..0 |-> news[k].id]
    <2>1. Added(news, 0) = [doc |-> d, order |-> order \o o]
      BY DEF Added
    <2>2. d = doc
      <3>1. {news[k].id : k \in 1..0} = {}
        OBVIOUS
      <3>2. \A j : {k \in 1..0 : news[k].id = j} = {}
        OBVIOUS
      <3>3. d = [j \in Live |-> doc[j]]
        BY <3>1, <3>2
      <3> QED  BY <3>3, DocumentTypes
    <2>3. order \o o = order
      <3>1. o = <<>>
        OBVIOUS
      <3> HIDE DEF o
      <3>2. order \in Seq(Ids)
        BY DocumentTypes
      <3> QED  BY <3>1, <3>2
    <2> HIDE DEF d, o
    <2> QED  BY <2>1, <2>2, <2>3 DEF Snapshot
  <1>8. Timeline!StartsFrom(ss[1])
    BY <1>5, <1>7, PastAndPresent DEF Timeline!StartsFrom
  <1>9. ASSUME N > MaxHistory PROVE Timeline!Overrun
    <2> DEFINE M == Line(undo', Snapshot', redo')
    <2>1. undo' \in Seq(AnyVersion) /\ redo' \in Seq(AnyVersion) /\ Snapshot' \in AnyVersion
          /\ Len(undo') \in Nat
      BY TimelineTypes
    <2>2. Len(M) = Len(undo') + 1 + Len(redo') /\ M[Len(undo') + 1] = Snapshot'
      BY <2>1, LineElements
    <2>3. Len(redo') = 0
      BY <1>2
    <2>4. M[Len(M)] = Snapshot'
      BY <2>1, <2>2, <2>3
    <2>5. (undo \o <<Snapshot>> \o Reverse(redo))' = M
      BY WalkIs
    <2> HIDE DEF M
    <2>6. Cardinality(DOMAIN Snapshot'.doc) = Cardinality(Live) + N
      BY AddedCount DEF Snapshot
    <2>7. Timeline!Present.doc = doc
      BY PastAndPresent DEF Snapshot
    <2>8. Cardinality(Live) \in Nat
      BY CanvasAssumption, DocumentTypes, FS_Subset, FS_CardinalityType
    <2>9. Cardinality(Live) + N > Cardinality(Live) + MaxHistory
      BY <1>0, <1>1, <1>9, <2>8
    <2> QED  BY <2>4, <2>5, <2>6, <2>7, <2>9, SameCount DEF Timeline!Overrun, Live
  <1>10. N > MaxHistory => Timeline!Overrun
    BY <1>9
  <1> QED  BY <1>1, <1>2, <1>6, <1>8, <1>10, RecordStep

\* The snapshot a move or a resize pushes is where the drag started from.
LEMMA BeforeDragStarts ==
  ASSUME CanvasInv, CanvasInv', drag # NoDrag, NEW ids, ids \subseteq DOMAIN drag.from
  PROVE  Timeline!StartsFrom(BeforeDrag(ids)) /\ BeforeDrag(ids) \in AnyVersion
  <1>1. DOMAIN BeforeDrag(ids).doc = Live /\ BeforeDrag(ids).order = order
    BY DEF BeforeDrag
  <1>2. Timeline!Present.doc = doc /\ Timeline!Present.order = order
    BY PastAndPresent DEF Snapshot
  <1>3. BeforeDrag(ids) \in AnyVersion
    BY BeforeDragWhole DEF Whole, AnyVersion
  <1> QED  BY <1>1, <1>2, <1>3 DEF Timeline!StartsFrom, Live

-----------------------------------------------------------------------------
(* The refinement. *)

\* The operations that record the document as they found it.
Records == undo' = Pushed(undo, Snapshot) /\ redo' = <<>>

\* What the editing operations do to the stacks.
LEMMA EditRecords ==
  ASSUME Edit
  PROVE  \/ Records
         \/ \E i \in Ids : RejectUpdate(i)
         \/ UNCHANGED <<undo, redo>>
         \/ Paste \/ \E ids \in Selections : DuplicateGrouped(ids)
  <1>1. ASSUME NEW i \in Ids, NEW at, NEW t,
               AddExpression(i, at, t) \/ CreateContainer(i, at) \/ UpdateExpression(i, at)
        PROVE  Records
    BY <1>1 DEF AddExpression, CreateContainer, UpdateExpression, Commit, Records
  <1>2. ASSUME NEW i \in Ids, ToggleContainerCollapse(i) \/ AutoUnparentOnDrag(i) PROVE Records
    BY <1>2 DEF ToggleContainerCollapse, AutoUnparentOnDrag, Commit, Records
  <1>3. ASSUME NEW i \in Ids, NEW c \in Ids, AutoParentOnDrop(i, c) PROVE Records
    BY <1>3 DEF AutoParentOnDrop, Commit, Records
  <1>4. ASSUME NEW ids, NEW look, StyleExpressions(ids, look) PROVE Records
    BY <1>4 DEF StyleExpressions, Commit, Records
  <1>5. ASSUME NEW ids, Delete(ids) \/ Cut(ids) PROVE Records
    BY <1>5 DEF Delete, Cut, DeleteExpressions, Commit, Records
  <1>6. ASSUME NEW ids, Copy(ids) PROVE UNCHANGED <<undo, redo>>
    BY <1>6 DEF Copy, histVars
  <1>7. ASSUME NEW g, NEW ids, GroupExpressions(ids, g) \/ UngroupExpressions(g) PROVE Records
    BY <1>7 DEF GroupExpressions, UngroupExpressions, Commit, Records
  <1> QED  BY <1>1, <1>2, <1>3, <1>4, <1>5, <1>6, <1>7 DEF Edit

\* The z-order and the layers do not touch the stacks.
LEMMA ArrangeAmends ==
  ASSUME Arrange
  PROVE  UNCHANGED <<undo, redo>>
  <1>1. ASSUME NEW ids, BringToFront(ids) \/ SendToBack(ids) \/ BringForward(ids) \/ SendBackward(ids)
        PROVE  UNCHANGED <<undo, redo>>
    BY <1>1 DEF BringToFront, SendToBack, BringForward, SendBackward, Silently, histVars
  <1>2. ASSUME NEW l, AddLayer(l) \/ RemoveLayer(l) \/ ToggleLayerLock(l) \/ SetActiveLayer(l)
        PROVE  UNCHANGED <<undo, redo>>
    BY <1>2 DEF AddLayer, RemoveLayer, ToggleLayerLock, SetActiveLayer, Silently, histVars
  <1>3. ASSUME NEW l, NEW ids, MoveToLayer(ids, l) PROVE UNCHANGED <<undo, redo>>
    BY <1>3 DEF MoveToLayer, Silently, histVars
  <1> QED  BY <1>1, <1>2, <1>3 DEF Arrange

\* The end of a drag records the document with the expressions back in place.
LEMMA ReleaseStep ==
  ASSUME CanvasInv, CanvasInv', EndMove \/ EndResize \/ \E t \in Ids \cup {None} : EndPoint(t)
  PROVE  Timeline!Record \/ Timeline!Amend
  <1>1. ASSUME NEW ids, NEW e, ids \subseteq DOMAIN drag.from, drag # NoDrag,
               Commit(BeforeDrag(ids), e, order)
        PROVE  Timeline!Record
    <2>1. undo' = Pushed(undo, BeforeDrag(ids)) /\ redo' = <<>>
      BY <1>1 DEF Commit
    <2> QED  BY <1>1, <2>1, BeforeDragStarts, CommitStep
  <1>2. CASE UNCHANGED <<docVars, histVars>>
    BY <1>2, AmendStep DEF histVars
  <1>3. CASE EndMove
    <2> DEFINE ids == {i \in DOMAIN drag.from \cap Live : ~OnLockedLayer(i)}
    <2>1. drag # NoDrag /\ ids \subseteq DOMAIN drag.from
      BY <1>3 DEF EndMove, NoDrag
    <2>2. (\E e : Commit(BeforeDrag(ids), e, order)) \/ UNCHANGED <<docVars, histVars>>
      BY <1>3 DEF EndMove
    <2> HIDE DEF ids
    <2> QED  BY <1>1, <1>2, <2>1, <2>2
  <1>4. CASE EndResize
    <2> DEFINE ids == {i \in DOMAIN drag.from \cap Live : ~OnLockedLayer(i)}
    <2>1. drag # NoDrag /\ ids \subseteq DOMAIN drag.from
      BY <1>4 DEF EndResize, NoDrag
    <2>2. (\E e : Commit(BeforeDrag(ids), e, order)) \/ UNCHANGED <<docVars, histVars>>
      BY <1>4 DEF EndResize
    <2> HIDE DEF ids
    <2> QED  BY <1>1, <1>2, <2>1, <2>2
  <1>5. CASE \E t \in Ids \cup {None} : EndPoint(t)
    <2>1. (undo' = Pushed(undo, Snapshot) /\ redo' = <<>>) \/ UNCHANGED <<docVars, histVars>>
      BY <1>5 DEF EndPoint, Commit
    <2> QED  BY <1>2, <2>1, SnapshotStep
  <1> QED  BY <1>3, <1>4, <1>5

\* Every step of the store is a step on the timeline.
LEMMA StepWalks ==
  ASSUME CanvasInv, CanvasInv', Next
  PROVE  Timeline!Next
  <1>1. CASE Edit
    <2>1. CASE Records
      BY <2>1, SnapshotStep DEF Records, Timeline!Next
    <2>2. CASE \E i \in Ids : RejectUpdate(i)
      BY <2>2, RefuseStep DEF Timeline!Next
    <2>3. CASE UNCHANGED <<undo, redo>>
      BY <2>3, AmendStep DEF Timeline!Next
    <2>4. CASE Paste \/ \E ids \in Selections : DuplicateGrouped(ids)
      BY <2>4, PasteAdds, DuplicateAdds, AddsRecord DEF Timeline!Next
    <2> QED  BY <1>1, <2>1, <2>2, <2>3, <2>4, EditRecords
  <1>2. CASE Undo
    BY <1>2, BackStep DEF Timeline!Next
  <1>3. CASE Redo
    BY <1>3, ForwardStep DEF Timeline!Next
  <1>4. CASE ClearHistory
    BY <1>4, ResetStep DEF ClearHistory, ForgetHistory, Timeline!Next
  <1>5. CASE Arrange
    BY <1>5, ArrangeAmends, AmendStep DEF Timeline!Next
  <1>6. CASE Load
    BY <1>6, ResetStep DEF Load, ReplaceState, ImportDrawio, ForgetHistory, Timeline!Next
  <1>7. CASE Grab
    BY <1>7, AmendStep DEF Grab, Press, histVars, Timeline!Next
  <1>8. CASE \E delta \in 0..(Places - 1) : Preview(delta)
    <2>1. UNCHANGED <<undo, redo>>
      <3> SUFFICES ASSUME NEW delta, Preview(delta) PROVE UNCHANGED <<undo, redo>>
        BY <1>8
      <3>1. drag.kind \in {"move", "resize", "point"}
        BY DragTypes DEF Preview
      <3> QED  BY <3>1 DEF Preview, Silently, histVars
    <2> QED  BY <2>1, AmendStep DEF Timeline!Next
  <1>9. CASE EndMove \/ EndResize \/ \E t \in Ids \cup {None} : EndPoint(t)
    BY <1>9, ReleaseStep DEF Timeline!Next
  <1> QED  BY <1>1, <1>2, <1>3, <1>4, <1>5, <1>6, <1>7, <1>8, <1>9 DEF Next, Gesture

\* At the start there is one document.
LEMMA InitWalks ==
  ASSUME Init
  PROVE  Timeline!Init
  <1>1. undo = <<>> /\ redo = <<>> /\ drag = NoDrag
    BY DEF Init
  <1>2. CanvasInv
    BY InitCanvas
  <1>3. undo \in Seq(AnyVersion) /\ redo \in Seq(AnyVersion) /\ Snapshot \in AnyVersion
    BY <1>2, ListTypes DEF CanvasInv, HistInv, DocInv, Snapshot
  <1>4. Len(Line(undo, Snapshot, redo)) = Len(undo) + 1 + Len(redo)
    BY <1>3, LineLength
  <1>5. Len(undo) = 0 /\ Len(redo) = 0
    BY <1>1
  <1>6. Len(undo \o <<Snapshot>> \o Reverse(redo)) = 1
    BY <1>4, <1>5 DEF Line
  <1> QED  BY <1>1, <1>5, <1>6 DEF Timeline!Init

\* Undo and redo walk on one timeline: the store implements CanvasTimeline, where a
\* recorded change cuts off what lies after the present, a preview or a change of
\* the z-order amends the present, and nothing else rewrites a document.
THEOREM TimelineWalked == Spec => WalksTimeline
  <1>1. CanvasInv /\ CanvasInv' /\ [Next]_vars => [Timeline!Next]_Timeline!vars
    <2> SUFFICES ASSUME CanvasInv, CanvasInv', [Next]_vars
                 PROVE  [Timeline!Next]_Timeline!vars
      OBVIOUS
    <2>1. CASE Next
      BY <2>1, StepWalks
    <2>2. CASE UNCHANGED vars
      BY <2>2 DEF vars, Timeline!vars, Snapshot, NoDrag
    <2> QED  BY <2>1, <2>2
  <1>2. Init => Timeline!Init
    BY InitWalks
  <1> QED  BY <1>1, <1>2, InductiveInvariant, PTL DEF Spec, WalksTimeline, Timeline!Spec
=============================================================================
