------------------------- MODULE InterleaversProofs -------------------------
(***************************************************************************)
(* Proofs about Interleavers, for data of any three dimensions, any number *)
(* of levels, any size of the blocks, and each of the three orders.        *)
(***************************************************************************)
EXTENDS Interleavers, FiniteSetTheorems, SequenceTheorems, WellFoundedInduction, TLAPS

-----------------------------------------------------------------------------
(* Sequences                                                                *)

LEMMA LeastOf ==
    ASSUME NEW S \in SUBSET Nat, S # {}
    PROVE  \E i \in S : \A j \in S : i <= j
<1>1. PICK i \in S : \A j \in S : <<j, i>> \notin OpToRel(<, Nat)
  BY NatLessThanWellFounded, WFMin
<1>2. ASSUME NEW j \in S, j < i PROVE FALSE
  <2>1. <<j, i>> \in OpToRel(<, Nat)
    BY <1>2 DEF OpToRel
  <2> QED
    BY <1>1, <2>1
<1>3. \A j \in S : i <= j
  BY <1>2
<1> QED
  BY <1>3

LEMMA FunctionIsSeq ==
    ASSUME NEW n \in Nat, NEW S, NEW f \in [1 .. n -> S]
    PROVE  f \in Seq(S) /\ Len(f) = n
OBVIOUS

LEMMA ConcatFacts ==
    ASSUME NEW S, NEW a \in Seq(S), NEW b \in Seq(S)
    PROVE  /\ a \o b \in Seq(S) /\ DOMAIN (a \o b) = 1 .. Len(a) + Len(b)
           /\ \A r \in DOMAIN a : r \in DOMAIN (a \o b) /\ (a \o b)[r] = a[r]
           /\ \A j \in DOMAIN b : /\ Len(a) + j \in DOMAIN (a \o b)
                                  /\ (a \o b)[Len(a) + j] = b[j]
<1>1. Len(a) \in Nat /\ Len(b) \in Nat /\ DOMAIN a = 1 .. Len(a) /\ DOMAIN b = 1 .. Len(b)
  OBVIOUS
<1>2. a \o b \in Seq(S) /\ Len(a \o b) = Len(a) + Len(b)
  OBVIOUS
<1>3. DOMAIN (a \o b) = 1 .. Len(a) + Len(b)
  BY <1>1, <1>2
<1>4. \A i \in 1 .. Len(a) + Len(b) :
          (a \o b)[i] = IF i <= Len(a) THEN a[i] ELSE b[i - Len(a)]
  BY <1>1, ConcatProperties
<1> QED
  BY <1>1, <1>2, <1>3, <1>4

(* FlattenSeq concatenates one sequence after the other.                     *)
Concatenates(f, seqs, n) ==
    f = [i \in 1 .. n |-> IF i = 1 THEN seqs[i] ELSE f[i - 1] \o seqs[i]]

LEMMA ConcatenatesAt ==
    ASSUME NEW f, NEW seqs, NEW n, Concatenates(f, seqs, n), NEW i \in 1 .. n
    PROVE  f[i] = IF i = 1 THEN seqs[i] ELSE f[i - 1] \o seqs[i]
<1> DEFINE h == [k \in 1 .. n |-> IF k = 1 THEN seqs[k] ELSE f[k - 1] \o seqs[k]]
<1>1. f = h
  BY Zenon DEF Concatenates
<1>2. h[i] = IF i = 1 THEN seqs[i] ELSE f[i - 1] \o seqs[i]
  OBVIOUS
<1> HIDE DEF h
<1>3. f[i] = h[i]
  BY <1>1
<1> QED
  BY <1>2, <1>3

LEMMA ConcatenationExists ==
    ASSUME NEW seqs
    PROVE  \A n \in Nat : \E f : Concatenates(f, seqs, n)
<1> DEFINE T == {n \in Nat : ~ \E f : Concatenates(f, seqs, n)}
<1> SUFFICES ASSUME T # {} PROVE FALSE
  OBVIOUS
<1>1. PICK n \in T : \A m \in T : n <= m
  <2> HIDE DEF T
  <2>1. T \in SUBSET Nat
    BY DEF T
  <2> QED
    BY <2>1, LeastOf
<1>2. CASE n = 0
  <2>1. Concatenates([i \in 1 .. n |-> 0], seqs, n)
    BY <1>2 DEF Concatenates
  <2> QED
    BY <1>1, <2>1
<1>3. CASE n # 0
  <2>1. n - 1 \in Nat /\ n - 1 \notin T
    <3> HIDE DEF T
    <3>1. n \in Nat
      BY DEF T
    <3> QED
      BY <1>1, <1>3, <3>1
  <2>2. PICK f : Concatenates(f, seqs, n - 1)
    BY <2>1
  <2> DEFINE h == [i \in 1 .. n |-> IF i = 1 THEN seqs[i] ELSE f[i - 1] \o seqs[i]]
  <2>3. \A i \in 1 .. n - 1 : h[i] = f[i]
    BY <1>1, <2>2, ConcatenatesAt
  <2>4. h = [i \in 1 .. n |-> IF i = 1 THEN seqs[i] ELSE h[i - 1] \o seqs[i]]
    <3>1. \A i \in 1 .. n : h[i] = IF i = 1 THEN seqs[i] ELSE h[i - 1] \o seqs[i]
      <4> SUFFICES ASSUME NEW i \in 1 .. n, i # 1 PROVE h[i] = h[i - 1] \o seqs[i]
        OBVIOUS
      <4>1. i - 1 \in 1 .. n - 1
        BY <1>1
      <4>2. h[i - 1] = f[i - 1]
        BY <2>3, <4>1
      <4> QED
        BY <4>2
    <3> HIDE DEF h
    <3>2. h = [i \in 1 .. n |-> h[i]]
      BY DEF h
    <3> QED
      BY <3>1, <3>2
  <2>5. Concatenates(h, seqs, n)
    <3> HIDE DEF h
    <3> QED
      BY <2>4 DEF Concatenates
  <2> QED
    BY <1>1, <2>5
<1> QED
  BY <1>2, <1>3

LEMMA FlattenUnfolds ==
    ASSUME NEW seqs, Len(seqs) \in Nat \ {0}
    PROVE  \E f : /\ FlattenSeq(seqs) = f[Len(seqs)] /\ f[1] = seqs[1]
                  /\ \A i \in 2 .. Len(seqs) : f[i] = f[i - 1] \o seqs[i]
<1> DEFINE f == CHOOSE f : Concatenates(f, seqs, Len(seqs))
<1>1. FlattenSeq(seqs) = f[Len(seqs)]
  BY DEF FlattenSeq, Concatenates
<1>2. Concatenates(f, seqs, Len(seqs))
  BY ConcatenationExists
<1> HIDE DEF f
<1>3. /\ f[1] = seqs[1]
      /\ \A i \in 2 .. Len(seqs) : f[i] = f[i - 1] \o seqs[i]
  <2>1. ASSUME NEW i \in 1 .. Len(seqs)
        PROVE  f[i] = IF i = 1 THEN seqs[i] ELSE f[i - 1] \o seqs[i]
    BY <1>2, ConcatenatesAt
  <2>2. 1 \in 1 .. Len(seqs) /\ \A i \in 2 .. Len(seqs) : i \in 1 .. Len(seqs) /\ i # 1
    OBVIOUS
  <2> QED
    BY <2>1, <2>2
<1> QED
  BY <1>1, <1>3

-----------------------------------------------------------------------------
(* A sequence that has every element of a set once.                         *)

Lists(s, S) ==
    /\ s \in Seq(S)
    /\ \A x \in S : \E p \in DOMAIN s : s[p] = x
    /\ \A p, q \in DOMAIN s : s[p] = s[q] => p = q

LEMMA ListsNothing == Lists(<<>>, {})
BY DEF Lists

LEMMA ListsOne == ASSUME NEW x PROVE Lists(<<x>>, {x})
BY DEF Lists

LEMMA ListsConcat ==
    ASSUME NEW a, NEW b, NEW A, NEW B, Lists(a, A), Lists(b, B), A \cap B = {}
    PROVE  Lists(a \o b, A \cup B)
<1> DEFINE C == A \cup B
           s == a \o b
<1>1. a \in Seq(A) /\ b \in Seq(B)
  BY DEF Lists
<1>2. a \in Seq(C) /\ b \in Seq(C)
  BY <1>1
<1>3. /\ Len(a) \in Nat /\ Len(b) \in Nat /\ DOMAIN a = 1 .. Len(a) /\ DOMAIN b = 1 .. Len(b)
      /\ \A p \in DOMAIN a : a[p] \in A
      /\ \A p \in DOMAIN b : b[p] \in B
  BY <1>1
<1>4. /\ s \in Seq(C) /\ DOMAIN s = 1 .. Len(a) + Len(b)
      /\ \A r \in DOMAIN a : r \in DOMAIN s /\ s[r] = a[r]
      /\ \A j \in DOMAIN b : Len(a) + j \in DOMAIN s /\ s[Len(a) + j] = b[j]
  <2> HIDE DEF C
  <2> QED
    BY <1>2, ConcatFacts
<1> HIDE DEF s
<1>5. ASSUME NEW x \in C PROVE \E p \in DOMAIN s : s[p] = x
  <2>1. CASE x \in A
    BY <1>4, <2>1 DEF Lists
  <2>2. CASE x \in B
    <3>1. PICK j \in DOMAIN b : b[j] = x
      BY <2>2 DEF Lists
    <3> QED
      BY <1>4, <3>1
  <2> QED
    BY <2>1, <2>2
<1>6. ASSUME NEW p \in DOMAIN s
      PROVE  \/ p \in DOMAIN a /\ s[p] = a[p] /\ s[p] \in A
             \/ p - Len(a) \in DOMAIN b /\ s[p] = b[p - Len(a)] /\ s[p] \in B
                /\ p = Len(a) + (p - Len(a))
  <2>1. CASE p \in DOMAIN a
    BY <1>3, <1>4, <2>1
  <2>2. CASE p \notin DOMAIN a
    <3>1. p - Len(a) \in DOMAIN b /\ p = Len(a) + (p - Len(a))
      BY <1>3, <1>4, <2>2
    <3> QED
      BY <1>3, <1>4, <3>1
  <2> QED
    BY <2>1, <2>2
<1>7. ASSUME NEW p \in DOMAIN s, NEW q \in DOMAIN s, s[p] = s[q] PROVE p = q
  <2>1. CASE p \in DOMAIN a /\ s[p] = a[p] /\ s[p] \in A
    <3>1. q \in DOMAIN a /\ s[q] = a[q]
      BY <1>6, <1>7, <2>1
    <3> QED
      BY <1>7, <2>1, <3>1 DEF Lists
  <2>2. CASE p - Len(a) \in DOMAIN b /\ s[p] = b[p - Len(a)] /\ s[p] \in B
             /\ p = Len(a) + (p - Len(a))
    <3>1. q - Len(a) \in DOMAIN b /\ s[q] = b[q - Len(a)] /\ q = Len(a) + (q - Len(a))
      BY <1>6, <1>7, <2>2
    <3>2. p - Len(a) = q - Len(a)
      BY <1>7, <2>2, <3>1 DEF Lists
    <3> QED
      BY <2>2, <3>1, <3>2
  <2> QED
    BY <1>6, <2>1, <2>2
<1>8. Lists(s, C)
  <2> HIDE DEF C
  <2> QED
    BY <1>4, <1>5, <1>7 DEF Lists
<1> QED
  BY <1>8 DEF s

ListsPart(s, S, at, i) == Lists(s, {x \in S : at[x] = i})

(* One after the other, sequences that list the parts of a set list the set. *)
LEMMA ListsParts ==
    ASSUME NEW m \in Nat, NEW f, f = [i \in 1 .. m |-> f[i]], NEW S, NEW at,
           \A x \in S : at[x] \in 1 .. m,
           \A i \in 1 .. m : ListsPart(f[i], S, at, i)
    PROVE  Lists(FlattenSeq(f), S)
<1> DEFINE U(n) == {x \in S : at[x] \in 1 .. n}
<1>1. Len(f) = m
  OBVIOUS
<1>2. CASE m = 0
  <2>1. f = <<>> /\ S = {}
    BY <1>2
  <2>2. FlattenSeq(f) = <<>>
    BY <1>1, <1>2, <2>1 DEF FlattenSeq
  <2> QED
    BY <2>1, <2>2, ListsNothing
<1>3. CASE m # 0
  <2>1. PICK g : /\ FlattenSeq(f) = g[m] /\ g[1] = f[1]
                 /\ \A i \in 2 .. m : g[i] = g[i - 1] \o f[i]
    <3>1. Len(f) \in Nat \ {0}
      BY <1>1, <1>3
    <3> HIDE DEF U
    <3>2. \E g : /\ FlattenSeq(f) = g[Len(f)] /\ g[1] = f[1]
                 /\ \A i \in 2 .. Len(f) : g[i] = g[i - 1] \o f[i]
      BY <3>1, FlattenUnfolds
    <3> QED
      BY <1>1, <3>2
  <2> DEFINE T == {n \in 1 .. m : ~Lists(g[n], U(n))}
  <2>2. T = {}
    <3> SUFFICES ASSUME T # {} PROVE FALSE
      OBVIOUS
    <3>1. T \in SUBSET Nat
      OBVIOUS
    <3>2. PICK n \in T : \A k \in T : n <= k
      <4> HIDE DEF T
      <4> QED
        BY <3>1, LeastOf
    <3>3. n \in 1 .. m /\ ~Lists(g[n], U(n))
      OBVIOUS
    <3>4. CASE n = 1
      <4>1. U(1) = {x \in S : at[x] = 1} /\ 1 \in 1 .. m
        BY <1>3
      <4>2. Lists(f[1], U(1))
        <5> HIDE DEF U
        <5> QED
          BY <4>1 DEF ListsPart
      <4> QED
        <5> HIDE DEF U
        <5> QED
          BY <2>1, <3>3, <3>4, <4>2
    <3>5. CASE n # 1
      <4>1. n \in 2 .. m /\ n - 1 \in 1 .. m
        BY <3>3, <3>5
      <4>2. n - 1 \notin T
        <5> HIDE DEF T
        <5> QED
          BY <3>2, <4>1
      <4>3. Lists(g[n - 1], U(n - 1))
        BY <4>1, <4>2
      <4> DEFINE P == {x \in S : at[x] = n}
      <4>4. U(n) = U(n - 1) \cup P
        <5>1. 1 .. n = (1 .. n - 1) \cup {n}
          BY <4>1
        <5> QED
          BY <5>1
      <4>5. U(n - 1) \cap P = {}
        BY <4>1
      <4>6. Lists(f[n], P)
        BY <3>3 DEF ListsPart
      <4> HIDE DEF U, P
      <4>7. Lists(g[n - 1] \o f[n], U(n - 1) \cup P)
        BY <4>3, <4>5, <4>6, ListsConcat
      <4> QED
        BY <2>1, <3>3, <4>1, <4>4, <4>7
    <3> QED
      BY <3>4, <3>5
  <2>3. m \in 1 .. m
    BY <1>3
  <2>4. m \notin T
    <3> HIDE DEF T
    <3> QED
      BY <2>2
  <2>5. Lists(g[m], U(m))
    BY <2>3, <2>4
  <2>6. U(m) = S
    OBVIOUS
  <2> QED
    <3> HIDE DEF U
    <3> QED
      BY <2>1, <2>5, <2>6
<1> QED
  BY <1>2, <1>3

(* Loops list what their bodies list, of elements that belong to one cell.   *)
LEMMA LoopsList ==
    ASSUME NEW n, n[1] \in Nat, n[2] \in Nat, n[3] \in Nat, NEW body, NEW S, NEW at,
           \A x \in S : at[x] \in Cells(n),
           \A c \in Cells(n) : ListsPart(body[c], S, at, c)
    PROVE  Lists(Loops(n, body), S)
<1> DEFINE row(i, j) == [k \in 1 .. n[3] |-> body[<<i - 1, j - 1, k - 1>>]]
           slab(i) == [j \in 1 .. n[2] |-> FlattenSeq(row(i, j))]
           all == [i \in 1 .. n[1] |-> FlattenSeq(slab(i))]
           Slab(i) == {x \in S : at[x][1] = i - 1}
           Row(i, j) == {x \in Slab(i) : at[x][2] = j - 1}
<1>1. \A i \in 1 .. n[1], j \in 1 .. n[2], k \in 1 .. n[3] : <<i - 1, j - 1, k - 1>> \in Cells(n)
  BY DEF Cells
<1>2. ASSUME NEW x \in S
      PROVE  /\ at[x] = <<at[x][1], at[x][2], at[x][3]>>
             /\ at[x][1] + 1 \in 1 .. n[1] /\ at[x][2] + 1 \in 1 .. n[2]
             /\ at[x][3] + 1 \in 1 .. n[3]
             /\ at[x][1] \in Int /\ at[x][2] \in Int /\ at[x][3] \in Int
  <2>1. at[x] \in Cells(n)
    OBVIOUS
  <2>2. /\ at[x] = <<at[x][1], at[x][2], at[x][3]>>
        /\ at[x][1] \in 0 .. n[1] - 1 /\ at[x][2] \in 0 .. n[2] - 1 /\ at[x][3] \in 0 .. n[3] - 1
    BY <2>1 DEF Cells
  <2>3. \A d \in Nat : \A v \in 0 .. d - 1 : v + 1 \in 1 .. d /\ v \in Int
    OBVIOUS
  <2> QED
    BY <2>2, <2>3
<1>3. ASSUME NEW i \in 1 .. n[1], NEW j \in 1 .. n[2]
      PROVE  Lists(FlattenSeq(row(i, j)), Row(i, j))
  <2> DEFINE f == row(i, j)
             R == Row(i, j)
             h == [x \in R |-> at[x][3] + 1]
  <2>1. f = [k \in 1 .. n[3] |-> f[k]]
    OBVIOUS
  <2>2. \A x \in R : h[x] \in 1 .. n[3]
    BY <1>2
  <2>3. ASSUME NEW k \in 1 .. n[3]
        PROVE  ListsPart(f[k], R, h, k)
    <3>1. Lists(f[k], {x \in S : at[x] = <<i - 1, j - 1, k - 1>>})
      BY <1>1 DEF ListsPart
    <3>2. ASSUME NEW x \in S
          PROVE  at[x] = <<i - 1, j - 1, k - 1>> <=> x \in R /\ h[x] = k
      <4>1. x \in R => h[x] = at[x][3] + 1
        OBVIOUS
      <4>2. x \in R <=> at[x][1] = i - 1 /\ at[x][2] = j - 1
        OBVIOUS
      <4>3. at[x][3] + 1 = k <=> at[x][3] = k - 1
        BY <1>2
      <4>4. at[x] = <<i - 1, j - 1, k - 1>>
                <=> at[x][1] = i - 1 /\ at[x][2] = j - 1 /\ at[x][3] = k - 1
        BY <1>2
      <4> HIDE DEF R, h
      <4> QED
        BY <4>1, <4>2, <4>3, <4>4
    <3>3. R \subseteq S
      OBVIOUS
    <3>4. {x \in S : at[x] = <<i - 1, j - 1, k - 1>>} = {x \in R : h[x] = k}
      <4> HIDE DEF R, h
      <4> QED
        BY <3>2, <3>3
    <3> HIDE DEF f, R, h
    <3> QED
      BY <3>1, <3>4 DEF ListsPart
  <2> HIDE DEF f, R, h
  <2>4. Lists(FlattenSeq(f), R)
    BY <2>1, <2>2, <2>3, ListsParts
  <2> QED
    BY <2>4 DEF f, R
<1>4. ASSUME NEW i \in 1 .. n[1]
      PROVE  Lists(FlattenSeq(slab(i)), Slab(i))
  <2> DEFINE f == slab(i)
             R == Slab(i)
             h == [x \in R |-> at[x][2] + 1]
  <2>1. f = [j \in 1 .. n[2] |-> f[j]]
    OBVIOUS
  <2>2. \A x \in R : h[x] \in 1 .. n[2]
    BY <1>2
  <2>3. ASSUME NEW j \in 1 .. n[2]
        PROVE  ListsPart(f[j], R, h, j)
    <3>1. f[j] = FlattenSeq(row(i, j))
      OBVIOUS
    <3>2. \A x \in R : h[x] = j <=> at[x][2] = j - 1
      BY <1>2
    <3>3. Row(i, j) = {x \in R : h[x] = j}
      <4>1. Row(i, j) = {x \in R : at[x][2] = j - 1}
        OBVIOUS
      <4> HIDE DEF R, h, Row
      <4> QED
        BY <3>2, <4>1
    <3>4. Lists(FlattenSeq(row(i, j)), Row(i, j))
      BY <1>3
    <3> HIDE DEF f, R, h, row, Row
    <3> QED
      BY <3>1, <3>3, <3>4 DEF ListsPart
  <2> HIDE DEF f, R, h
  <2>4. Lists(FlattenSeq(f), R)
    BY <2>1, <2>2, <2>3, ListsParts
  <2> QED
    BY <2>4 DEF f, R
<1>5. Lists(FlattenSeq(all), S)
  <2> DEFINE f == all
             h == [x \in S |-> at[x][1] + 1]
  <2>1. f = [i \in 1 .. n[1] |-> f[i]]
    OBVIOUS
  <2>2. \A x \in S : h[x] \in 1 .. n[1]
    BY <1>2
  <2>3. ASSUME NEW i \in 1 .. n[1]
        PROVE  ListsPart(f[i], S, h, i)
    <3>1. f[i] = FlattenSeq(slab(i))
      OBVIOUS
    <3>2. \A x \in S : h[x] = i <=> at[x][1] = i - 1
      BY <1>2
    <3>3. Slab(i) = {x \in S : h[x] = i}
      <4> HIDE DEF h
      <4> QED
        BY <3>2
    <3>4. Lists(FlattenSeq(slab(i)), Slab(i))
      BY <1>4
    <3> HIDE DEF f, h, slab, Slab
    <3> QED
      BY <3>1, <3>3, <3>4 DEF ListsPart
  <2> HIDE DEF f, h
  <2>4. Lists(FlattenSeq(f), S)
    BY <2>1, <2>2, <2>3, ListsParts
  <2> QED
    BY <2>4 DEF f
<1>6. Loops(n, body) = FlattenSeq(all)
  BY DEF Loops
<1> QED
  <2> HIDE DEF all
  <2> QED
    BY <1>5, <1>6

-----------------------------------------------------------------------------
(* Cells and places                                                         *)

LEMMA Division ==
    ASSUME NEW m \in Nat \ {0}, NEW x \in Nat
    PROVE  /\ x \div m \in Nat /\ x % m \in 0 .. m - 1
           /\ x = m * (x \div m) + (x % m)
<1>1. x \div m \in Nat
  OBVIOUS
<1>2. x % m \in 0 .. m - 1
  OBVIOUS
<1>3. x = m * (x \div m) + (x % m)
  OBVIOUS
<1> QED
  BY <1>1, <1>2, <1>3

LEMMA Digits ==
    ASSUME NEW m \in Nat, NEW a \in Nat, NEW b \in 0 .. m - 1,
           NEW e \in Nat, NEW g \in 0 .. m - 1, a * m + b = e * m + g
    PROVE  a = e /\ b = g
<1>1. ASSUME NEW u \in Nat, NEW v \in Nat, u < v PROVE u * m + m <= v * m
  <2>1. v - u - 1 \in Nat
    BY <1>1
  <2>2. (v - u - 1) * m >= 0
    BY <2>1
  <2>3. (v - u - 1) * m = v * m - u * m - m
    BY <2>1
  <2>4. v * m \in Int /\ u * m \in Int
    OBVIOUS
  <2> QED
    BY <2>2, <2>3, <2>4
<1>2. a * m \in Int /\ e * m \in Int
  OBVIOUS
<1>3. CASE a < e
  <2>1. a * m + m <= e * m
    BY <1>1, <1>3
  <2> QED
    BY <1>2, <2>1
<1>4. CASE e < a
  <2>1. e * m + m <= a * m
    BY <1>1, <1>4
  <2> QED
    BY <1>2, <2>1
<1>5. CASE a = e
  BY <1>2, <1>5
<1> QED
  BY <1>3, <1>4, <1>5

LEMMA DigitsBound ==
    ASSUME NEW m \in Nat, NEW n \in Nat, NEW a \in 0 .. n - 1, NEW b \in 0 .. m - 1
    PROVE  a * m + b \in 0 .. n * m - 1
<1>1. a * m \in Nat /\ n * m \in Nat
  OBVIOUS
<1>2. n - a - 1 \in Nat
  OBVIOUS
<1>3. (n - a - 1) * m >= 0
  BY <1>2
<1>4. (n - a - 1) * m = n * m - a * m - m
  BY <1>2
<1> QED
  BY <1>1, <1>3, <1>4

LEMMA DigitsOf ==
    ASSUME NEW m \in Nat, NEW n \in Nat, NEW x \in 0 .. n * m - 1
    PROVE  \E a \in 0 .. n - 1, b \in 0 .. m - 1 : x = a * m + b
<1>1. m # 0
  <2> SUFFICES ASSUME m = 0 PROVE FALSE
    OBVIOUS
  <2>1. n * m = 0
    OBVIOUS
  <2> QED
    BY <2>1
<1>2. /\ x \div m \in Nat /\ x % m \in 0 .. m - 1
      /\ x = m * (x \div m) + (x % m)
  <2>1. n * m \in Int
    OBVIOUS
  <2>2. x \in Nat /\ m \in Nat \ {0}
    BY <1>1, <2>1
  <2> QED
    BY <2>2, Division
<1> DEFINE a == x \div m
           b == x % m
<1>3. a \in Nat /\ b \in 0 .. m - 1 /\ x = m * a + b
  BY <1>2
<1> HIDE DEF a, b
<1>4. x = a * m + b
  BY <1>3
<1>5. a < n
  <2> SUFFICES ASSUME a >= n PROVE FALSE
    BY <1>3
  <2>1. a - n \in Nat
    BY <1>3
  <2>2. (a - n) * m >= 0
    BY <2>1
  <2>3. (a - n) * m = a * m - n * m
    BY <1>3
  <2>4. a * m \in Nat /\ n * m \in Nat
    BY <1>3
  <2> QED
    BY <1>3, <2>2, <2>3, <2>4
<1>6. a \in 0 .. n - 1
  BY <1>3, <1>5
<1> QED
  BY <1>3, <1>4, <1>6

(* Dimensions.                                                              *)
Sized(n) == n[1] \in Nat /\ n[2] \in Nat /\ n[3] \in Nat

(* A cell is its three coordinates.                                         *)
LEMMA CellsAre ==
    ASSUME NEW n, Sized(n)
    PROVE  /\ \A c \in Cells(n) : /\ c = <<c[1], c[2], c[3]>>
                                  /\ c[1] \in 0 .. n[1] - 1 /\ c[1] \in Nat
                                  /\ c[2] \in 0 .. n[2] - 1 /\ c[2] \in Nat
                                  /\ c[3] \in 0 .. n[3] - 1 /\ c[3] \in Nat
           /\ \A i \in 0 .. n[1] - 1, j \in 0 .. n[2] - 1, k \in 0 .. n[3] - 1 :
                  <<i, j, k>> \in Cells(n)
<1>1. \A m \in Nat : \A i \in 0 .. m - 1 : i \in Nat
  OBVIOUS
<1> QED
  BY <1>1 DEF Cells, Sized

(* The arithmetic of Place, with the coordinates and dimensions as numbers. *)
Distinguished(m, n, i, j, k, ii, jj, kk) ==
    i * (m * n) + j * n + k = ii * (m * n) + jj * n + kk => i = ii /\ j = jj /\ k = kk

PlacesNumbered(d1, d2, d3) ==
    /\ \A i \in 0 .. d1 - 1, j \in 0 .. d2 - 1, k \in 0 .. d3 - 1 :
           i * (d2 * d3) + j * d3 + k \in 0 .. d1 * d2 * d3 - 1
    /\ \A i, ii \in 0 .. d1 - 1, j, jj \in 0 .. d2 - 1, k, kk \in 0 .. d3 - 1 :
           Distinguished(d2, d3, i, j, k, ii, jj, kk)
    /\ \A x \in 0 .. d1 * d2 * d3 - 1 :
           \E i \in 0 .. d1 - 1, j \in 0 .. d2 - 1, k \in 0 .. d3 - 1 :
               x = i * (d2 * d3) + j * d3 + k

LEMMA PlaceArithmetic ==
    ASSUME NEW d1 \in Nat, NEW d2 \in Nat, NEW d3 \in Nat
    PROVE  PlacesNumbered(d1, d2, d3)
<1> DEFINE m == d2 * d3
<1>1. m \in Nat /\ d1 * m = d1 * d2 * d3
  OBVIOUS
<1>2. \A i \in 0 .. d1 - 1 : i \in Nat /\ i * m \in Nat
  OBVIOUS
<1>3. \A j \in 0 .. d2 - 1 : j \in Nat /\ j * d3 \in Nat
  OBVIOUS
<1>4. \A j \in 0 .. d2 - 1, k \in 0 .. d3 - 1 : j * d3 + k \in 0 .. m - 1
  BY DigitsBound
<1>5. \A i \in 0 .. d1 - 1, j \in 0 .. d2 - 1, k \in 0 .. d3 - 1 :
          i * m + j * d3 + k = i * m + (j * d3 + k)
  BY <1>2, <1>3
<1> HIDE DEF m
<1>6. ASSUME NEW i \in 0 .. d1 - 1, NEW j \in 0 .. d2 - 1, NEW k \in 0 .. d3 - 1
      PROVE  i * m + j * d3 + k \in 0 .. d1 * d2 * d3 - 1
  <2>1. j * d3 + k \in 0 .. m - 1
    BY <1>4
  <2>2. i * m + (j * d3 + k) \in 0 .. d1 * m - 1
    BY <1>1, <2>1, DigitsBound
  <2> QED
    BY <1>1, <1>5, <2>2
<1>7. ASSUME NEW i \in 0 .. d1 - 1, NEW j \in 0 .. d2 - 1, NEW k \in 0 .. d3 - 1,
             NEW ii \in 0 .. d1 - 1, NEW jj \in 0 .. d2 - 1, NEW kk \in 0 .. d3 - 1,
             i * m + j * d3 + k = ii * m + jj * d3 + kk
      PROVE  i = ii /\ j = jj /\ k = kk
  <2>1. j * d3 + k \in 0 .. m - 1 /\ jj * d3 + kk \in 0 .. m - 1
    BY <1>4
  <2>2. i * m + (j * d3 + k) = ii * m + (jj * d3 + kk)
    <3>1. i * m + j * d3 + k = i * m + (j * d3 + k)
      BY <1>5
    <3>2. ii * m + jj * d3 + kk = ii * m + (jj * d3 + kk)
      BY <1>5
    <3> QED
      BY <1>7, <3>1, <3>2
  <2>3. i = ii /\ j * d3 + k = jj * d3 + kk
    BY <1>1, <1>2, <2>1, <2>2, Digits
  <2>4. j = jj /\ k = kk
    BY <1>3, <2>3, Digits
  <2> QED
    BY <2>3, <2>4
<1>8. ASSUME NEW x \in 0 .. d1 * d2 * d3 - 1
      PROVE  \E i \in 0 .. d1 - 1, j \in 0 .. d2 - 1, k \in 0 .. d3 - 1 :
                 x = i * m + j * d3 + k
  <2>1. PICK i \in 0 .. d1 - 1, y \in 0 .. m - 1 : x = i * m + y
    <3>1. x \in 0 .. d1 * m - 1
      BY <1>1
    <3> QED
      BY <1>1, <3>1, DigitsOf
  <2>2. y \in 0 .. d2 * d3 - 1
    BY <2>1 DEF m
  <2>3. PICK j \in 0 .. d2 - 1, k \in 0 .. d3 - 1 : y = j * d3 + k
    BY <2>2, DigitsOf
  <2> QED
    BY <1>5, <2>1, <2>3
<1> QED
  BY <1>6, <1>7, <1>8 DEF m, PlacesNumbered, Distinguished

(* The cell of a place.                                                     *)
At(d) == [x \in 0 .. Product(d) - 1 |-> CHOOSE c \in Cells(d) : Place(d, c) = x]

LEMMA PlacesAreCells ==
    ASSUME NEW d, Sized(d)
    PROVE  /\ \A c \in Cells(d) : /\ Place(d, c) \in 0 .. Product(d) - 1
                                  /\ At(d)[Place(d, c)] = c
           /\ \A x \in 0 .. Product(d) - 1 : /\ At(d)[x] \in Cells(d)
                                             /\ Place(d, At(d)[x]) = x
<1>0. PlacesNumbered(d[1], d[2], d[3])
  BY PlaceArithmetic DEF Sized
<1>1. \A c \in Cells(d) : Place(d, c) \in 0 .. Product(d) - 1
  <2> SUFFICES ASSUME NEW c \in Cells(d) PROVE Place(d, c) \in 0 .. Product(d) - 1
    OBVIOUS
  <2>1. c[1] \in 0 .. d[1] - 1 /\ c[2] \in 0 .. d[2] - 1 /\ c[3] \in 0 .. d[3] - 1
    BY CellsAre
  <2>2. c[1] * (d[2] * d[3]) + c[2] * d[3] + c[3] \in 0 .. d[1] * d[2] * d[3] - 1
    BY <1>0, <2>1, Zenon DEF PlacesNumbered
  <2> QED
    BY <2>2, Zenon DEF Place, Product
<1>2. ASSUME NEW c \in Cells(d), NEW e \in Cells(d), Place(d, c) = Place(d, e)
      PROVE  c = e
  <2>1. c[1] = e[1] /\ c[2] = e[2] /\ c[3] = e[3]
    <3>1. /\ c[1] \in 0 .. d[1] - 1 /\ c[2] \in 0 .. d[2] - 1 /\ c[3] \in 0 .. d[3] - 1
          /\ e[1] \in 0 .. d[1] - 1 /\ e[2] \in 0 .. d[2] - 1 /\ e[3] \in 0 .. d[3] - 1
      BY CellsAre
    <3>2. c[1] * (d[2] * d[3]) + c[2] * d[3] + c[3] = e[1] * (d[2] * d[3]) + e[2] * d[3] + e[3]
      BY <1>2, Zenon DEF Place
    <3>3. \A i, ii \in 0 .. d[1] - 1, j, jj \in 0 .. d[2] - 1, k, kk \in 0 .. d[3] - 1 :
              Distinguished(d[2], d[3], i, j, k, ii, jj, kk)
      BY <1>0, Zenon DEF PlacesNumbered
    <3>4. Distinguished(d[2], d[3], c[1], c[2], c[3], e[1], e[2], e[3])
      BY <3>1, <3>3
    <3> QED
      BY <3>2, <3>4, Zenon DEF Distinguished
  <2>2. c = <<c[1], c[2], c[3]>> /\ e = <<e[1], e[2], e[3]>>
    BY CellsAre
  <2> QED
    BY <2>1, <2>2
<1>3. ASSUME NEW x \in 0 .. Product(d) - 1
      PROVE  \E c \in Cells(d) : Place(d, c) = x
  <2>1. PICK i \in 0 .. d[1] - 1, j \in 0 .. d[2] - 1, k \in 0 .. d[3] - 1 :
            x = i * (d[2] * d[3]) + j * d[3] + k
    BY <1>0, Zenon DEF Product, PlacesNumbered
  <2>2. <<i, j, k>> \in Cells(d)
    BY CellsAre
  <2>3. Place(d, <<i, j, k>>) = x
    BY <2>1 DEF Place
  <2> QED
    BY <2>2, <2>3
<1>4. \A x \in 0 .. Product(d) - 1 : At(d)[x] \in Cells(d) /\ Place(d, At(d)[x]) = x
  BY <1>3 DEF At
<1> QED
  BY <1>1, <1>2, <1>4

-----------------------------------------------------------------------------
(* Counting                                                                 *)

LEMMA SameSize ==
    ASSUME NEW S, NEW T, IsFiniteSet(S), NEW f \in [S -> T],
           \A x, y \in S : f[x] = f[y] => x = y,
           \A t \in T : \E x \in S : f[x] = t
    PROVE  IsFiniteSet(T) /\ Cardinality(T) = Cardinality(S)
<1>1. f \in Bijection(S, T)
  BY DEF Bijection, Injection, Surjection, IsInjective
<1>2. ExistsBijection(S, T)
  BY <1>1 DEF ExistsBijection
<1> QED
  BY <1>2, FS_Bijection

LEMMA UpTo ==
    ASSUME NEW n \in Nat
    PROVE  /\ IsFiniteSet(1 .. n) /\ Cardinality(1 .. n) = n
           /\ IsFiniteSet(0 .. n - 1) /\ Cardinality(0 .. n - 1) = n
<1>1. /\ IsFiniteSet(1 .. n) /\ Cardinality(1 .. n) = IF 1 > n THEN 0 ELSE n - 1 + 1
      /\ IsFiniteSet(0 .. n - 1) /\ Cardinality(0 .. n - 1) = IF 0 > n - 1 THEN 0 ELSE n - 1 - 0 + 1
  BY FS_Interval
<1> QED
  BY <1>1

LEMMA ProductNat == ASSUME NEW n, Sized(n) PROVE Product(n) \in Nat
<1>1. \A a, b, c \in Nat : a * b * c \in Nat
  OBVIOUS
<1> QED
  BY <1>1 DEF Product, Sized

LEMMA ProductPositive ==
    ASSUME NEW n, Sized(n), n[1] # 0, n[2] # 0, n[3] # 0 PROVE Product(n) \in Nat \ {0}
<1>1. \A a, b \in Nat \ {0} : a * b \in Nat \ {0}
  OBVIOUS
<1>2. n[1] * n[2] \in Nat \ {0}
  BY <1>1 DEF Sized
<1>3. (n[1] * n[2]) * n[3] \in Nat \ {0}
  BY <1>1, <1>2 DEF Sized
<1> QED
  BY <1>3 DEF Product

LEMMA CellsCount ==
    ASSUME NEW n, Sized(n)
    PROVE  IsFiniteSet(Cells(n)) /\ Cardinality(Cells(n)) = Product(n)
<1> DEFINE S == 0 .. Product(n) - 1
           f == [x \in S |-> At(n)[x]]
<1>1. /\ \A c \in Cells(n) : Place(n, c) \in S /\ At(n)[Place(n, c)] = c
      /\ \A x \in S : At(n)[x] \in Cells(n) /\ Place(n, At(n)[x]) = x
  BY PlacesAreCells
<1>2. IsFiniteSet(S) /\ Cardinality(S) = Product(n)
  BY ProductNat, UpTo
<1> HIDE DEF S
<1>3. f \in [S -> Cells(n)]
  BY <1>1
<1>4. \A x, y \in S : f[x] = f[y] => x = y
  BY <1>1
<1>5. \A c \in Cells(n) : \E x \in S : f[x] = c
  BY <1>1
<1> HIDE DEF f
<1> QED
  BY <1>2, <1>3, <1>4, <1>5, SameSize

LEMMA ListsCount ==
    ASSUME NEW s, NEW S, Lists(s, S)
    PROVE  IsFiniteSet(S) /\ Cardinality(S) = Len(s)
<1>1. Len(s) \in Nat /\ s \in [1 .. Len(s) -> S] /\ DOMAIN s = 1 .. Len(s)
  BY DEF Lists
<1>2. IsFiniteSet(1 .. Len(s)) /\ Cardinality(1 .. Len(s)) = Len(s)
  BY <1>1, UpTo
<1>3. /\ \A p, q \in 1 .. Len(s) : s[p] = s[q] => p = q
      /\ \A x \in S : \E p \in 1 .. Len(s) : s[p] = x
  BY <1>1 DEF Lists
<1> QED
  BY <1>1, <1>2, <1>3, SameSize

-----------------------------------------------------------------------------
(* The places of sets of cells                                              *)

Within(from, n) ==
    (from[1] .. from[1] + n[1] - 1) \X (from[2] .. from[2] + n[2] - 1)
        \X (from[3] .. from[3] + n[3] - 1)

PlacesOf(d, A) == {x \in 0 .. Product(d) - 1 : At(d)[x] \in A}

LEMMA WithinIs ==
    ASSUME NEW from, NEW n, Sized(from), Sized(n)
    PROVE  /\ \A c \in Within(from, n) : /\ c = <<c[1], c[2], c[3]>>
                                         /\ c[1] \in Nat /\ c[2] \in Nat /\ c[3] \in Nat
                                         /\ c[1] - from[1] \in 0 .. n[1] - 1
                                         /\ c[2] - from[2] \in 0 .. n[2] - 1
                                         /\ c[3] - from[3] \in 0 .. n[3] - 1
           /\ \A c \in Cells(n) :
                  <<from[1] + c[1], from[2] + c[2], from[3] + c[3]>> \in Within(from, n)
           /\ \A i, j, k \in Nat :
                  <<i, j, k>> \in Within(from, n) <=> /\ from[1] <= i /\ i < from[1] + n[1]
                                                      /\ from[2] <= j /\ j < from[2] + n[2]
                                                      /\ from[3] <= k /\ k < from[3] + n[3]
<1>1. \A f, m \in Nat : /\ \A i \in f .. f + m - 1 : i \in Nat /\ i - f \in 0 .. m - 1
                        /\ \A i \in 0 .. m - 1 : f + i \in f .. f + m - 1
                        /\ \A i \in Nat : i \in f .. f + m - 1 <=> f <= i /\ i < f + m
  OBVIOUS
<1>2. ASSUME NEW c \in Within(from, n)
      PROVE  /\ c = <<c[1], c[2], c[3]>>
             /\ c[1] \in Nat /\ c[2] \in Nat /\ c[3] \in Nat
             /\ c[1] - from[1] \in 0 .. n[1] - 1
             /\ c[2] - from[2] \in 0 .. n[2] - 1
             /\ c[3] - from[3] \in 0 .. n[3] - 1
  <2>1. /\ c = <<c[1], c[2], c[3]>>
        /\ c[1] \in from[1] .. from[1] + n[1] - 1
        /\ c[2] \in from[2] .. from[2] + n[2] - 1
        /\ c[3] \in from[3] .. from[3] + n[3] - 1
    BY DEF Within
  <2>2. /\ from[1] \in Nat /\ from[2] \in Nat /\ from[3] \in Nat
        /\ n[1] \in Nat /\ n[2] \in Nat /\ n[3] \in Nat
    BY DEF Sized
  <2>3. c[1] \in Nat /\ c[1] - from[1] \in 0 .. n[1] - 1
    BY <1>1, <2>1, <2>2
  <2>4. c[2] \in Nat /\ c[2] - from[2] \in 0 .. n[2] - 1
    BY <1>1, <2>1, <2>2
  <2>5. c[3] \in Nat /\ c[3] - from[3] \in 0 .. n[3] - 1
    BY <1>1, <2>1, <2>2
  <2> QED
    BY <2>1, <2>3, <2>4, <2>5
<1>3. ASSUME NEW c \in Cells(n)
      PROVE  <<from[1] + c[1], from[2] + c[2], from[3] + c[3]>> \in Within(from, n)
  <2>1. c[1] \in 0 .. n[1] - 1 /\ c[2] \in 0 .. n[2] - 1 /\ c[3] \in 0 .. n[3] - 1
    BY CellsAre
  <2>2. /\ from[1] + c[1] \in from[1] .. from[1] + n[1] - 1
        /\ from[2] + c[2] \in from[2] .. from[2] + n[2] - 1
        /\ from[3] + c[3] \in from[3] .. from[3] + n[3] - 1
    BY <1>1, <2>1 DEF Sized
  <2> QED
    BY <2>2 DEF Within
<1>4. ASSUME NEW i \in Nat, NEW j \in Nat, NEW k \in Nat
      PROVE  <<i, j, k>> \in Within(from, n) <=> /\ from[1] <= i /\ i < from[1] + n[1]
                                                 /\ from[2] <= j /\ j < from[2] + n[2]
                                                 /\ from[3] <= k /\ k < from[3] + n[3]
  <2>1. <<i, j, k>> \in Within(from, n) <=> /\ i \in from[1] .. from[1] + n[1] - 1
                                            /\ j \in from[2] .. from[2] + n[2] - 1
                                            /\ k \in from[3] .. from[3] + n[3] - 1
    BY DEF Within
  <2> QED
    BY <1>1, <2>1 DEF Sized
<1> QED
  BY <1>2, <1>3, <1>4

LEMMA PlacesCount ==
    ASSUME NEW d, Sized(d), NEW A \in SUBSET Cells(d)
    PROVE  IsFiniteSet(PlacesOf(d, A)) /\ Cardinality(PlacesOf(d, A)) = Cardinality(A)
<1> DEFINE f == [c \in A |-> Place(d, c)]
<1>1. IsFiniteSet(A)
  BY CellsCount, FS_Subset
<1>2. f \in [A -> PlacesOf(d, A)]
  BY PlacesAreCells DEF PlacesOf
<1>3. \A c, e \in A : f[c] = f[e] => c = e
  BY PlacesAreCells
<1>4. \A x \in PlacesOf(d, A) : \E c \in A : f[c] = x
  BY PlacesAreCells DEF PlacesOf
<1> HIDE DEF f
<1> QED
  BY <1>1, <1>2, <1>3, <1>4, SameSize

LEMMA WithinCount ==
    ASSUME NEW from, NEW n, Sized(from), Sized(n)
    PROVE  IsFiniteSet(Within(from, n)) /\ Cardinality(Within(from, n)) = Product(n)
<1> DEFINE f == [c \in Cells(n) |-> <<from[1] + c[1], from[2] + c[2], from[3] + c[3]>>]
<1>1. f \in [Cells(n) -> Within(from, n)]
  BY WithinIs
<1>2. ASSUME NEW c \in Cells(n), NEW e \in Cells(n), f[c] = f[e] PROVE c = e
  <2>1. /\ from[1] + c[1] = from[1] + e[1]
        /\ from[2] + c[2] = from[2] + e[2]
        /\ from[3] + c[3] = from[3] + e[3]
    BY <1>2
  <2>2. /\ c = <<c[1], c[2], c[3]>> /\ c[1] \in Nat /\ c[2] \in Nat /\ c[3] \in Nat
        /\ e = <<e[1], e[2], e[3]>> /\ e[1] \in Nat /\ e[2] \in Nat /\ e[3] \in Nat
    BY CellsAre
  <2>3. \A a, b, g \in Nat : a + b = a + g => b = g
    OBVIOUS
  <2>4. c[1] = e[1] /\ c[2] = e[2] /\ c[3] = e[3]
    BY <2>1, <2>2, <2>3 DEF Sized
  <2> QED
    BY <2>2, <2>4
<1>3. ASSUME NEW e \in Within(from, n) PROVE \E c \in Cells(n) : f[c] = e
  <2> DEFINE c == <<e[1] - from[1], e[2] - from[2], e[3] - from[3]>>
  <2>1. /\ e = <<e[1], e[2], e[3]>>
        /\ e[1] \in Nat /\ e[2] \in Nat /\ e[3] \in Nat
        /\ e[1] - from[1] \in 0 .. n[1] - 1
        /\ e[2] - from[2] \in 0 .. n[2] - 1
        /\ e[3] - from[3] \in 0 .. n[3] - 1
    BY WithinIs
  <2>2. c \in Cells(n)
    BY <2>1, CellsAre
  <2>3. \A a, b \in Nat : a + (b - a) = b
    OBVIOUS
  <2>4. f[c] = <<from[1] + (e[1] - from[1]), from[2] + (e[2] - from[2]),
                 from[3] + (e[3] - from[3])>>
    BY <2>2
  <2>5. f[c] = e
    <3> HIDE DEF c, f
    <3> QED
      BY <2>1, <2>3, <2>4 DEF Sized
  <2> QED
    BY <2>2, <2>5
<1> HIDE DEF f
<1> QED
  BY <1>1, <1>2, <1>3, SameSize, CellsCount

-----------------------------------------------------------------------------
(* Blocks                                                                   *)

BlockOf(v, size) == v \div size
RestOf(v, size) == v - (v \div size) * size
Offset(b, o, size) == b * size + o

Blocks(m, size) ==
    /\ num_block(m, size) \in Nat
    /\ \A b \in 0 .. num_block(m, size) - 1 : BlockLength(m, b, size) \in Nat
    /\ \A v \in 0 .. m - 1 :
           /\ BlockOf(v, size) \in 0 .. num_block(m, size) - 1
           /\ RestOf(v, size) \in 0 .. BlockLength(m, BlockOf(v, size), size) - 1
           /\ Offset(BlockOf(v, size), RestOf(v, size), size) = v
    /\ \A b \in 0 .. num_block(m, size) - 1 :
       \A o \in 0 .. BlockLength(m, b, size) - 1 :
           /\ Offset(b, o, size) \in 0 .. m - 1
           /\ BlockOf(Offset(b, o, size), size) = b /\ RestOf(Offset(b, o, size), size) = o

(* A bigger factor gives at least one more size.                             *)
LEMMA Multiples ==
    ASSUME NEW size \in Nat \ {0}, NEW a \in Int, NEW b \in Int
    PROVE  /\ a * size \in Int
           /\ a < b => a * size + size <= b * size
           /\ a <= b => a * size <= b * size
<1>1. a * size \in Int /\ b * size \in Int
  OBVIOUS
<1>2. ASSUME a <= b PROVE a * size <= b * size
  <2>1. b - a \in Nat
    BY <1>2
  <2>2. (b - a) * size >= 0
    BY <2>1
  <2>3. (b - a) * size = b * size - a * size
    OBVIOUS
  <2> QED
    BY <1>1, <2>2, <2>3
<1>3. ASSUME a < b PROVE a * size + size <= b * size
  <2>1. b - a - 1 \in Nat
    BY <1>3
  <2>2. (b - a - 1) * size >= 0
    BY <2>1
  <2>3. (b - a - 1) * size = b * size - a * size - size
    OBVIOUS
  <2> QED
    BY <1>1, <2>2, <2>3
<1> QED
  BY <1>1, <1>2, <1>3

LEMMA Quotient ==
    ASSUME NEW size \in Nat \ {0}, NEW v \in Int
    PROVE  /\ v \div size \in Int /\ (v \div size) * size \in Int
           /\ (v \div size) * size <= v /\ v < (v \div size) * size + size
<1>1. v \div size \in Int
  OBVIOUS
<1>2. v % size \in 0 .. size - 1
  OBVIOUS
<1>3. v = size * (v \div size) + (v % size)
  OBVIOUS
<1> DEFINE q == v \div size
           r == v % size
<1>4. q \in Int /\ r \in 0 .. size - 1 /\ v = size * q + r
  BY <1>1, <1>2, <1>3
<1> HIDE DEF q, r
<1>5. q * size \in Int /\ q * size <= v /\ v < q * size + size
  <2>1. size * q = q * size /\ q * size \in Int
    BY <1>4
  <2> QED
    BY <1>4, <2>1
<1> QED
  BY <1>4, <1>5 DEF q

LEMMA QuotientIs ==
    ASSUME NEW size \in Nat \ {0}, NEW b \in Int, NEW o \in 0 .. size - 1
    PROVE  (b * size + o) \div size = b
<1> DEFINE v == b * size + o
           q == v \div size
<1>1. v \in Int /\ b * size \in Int /\ b * size <= v /\ v < b * size + size
  <2>1. b * size \in Int
    BY Multiples
  <2> QED
    BY <2>1
<1> HIDE DEF v
<1>2. q \in Int /\ q * size \in Int /\ q * size <= v /\ v < q * size + size
  BY <1>1, Quotient
<1> HIDE DEF q
<1>3. /\ q < b => q * size + size <= b * size
      /\ b < q => b * size + size <= q * size
  BY <1>2, Multiples
<1>4. q = b
  BY <1>1, <1>2, <1>3
<1> QED
  BY <1>4 DEF q, v

LEMMA BlocksCover ==
    ASSUME NEW m \in Nat, NEW size \in Nat \ {0}
    PROVE  Blocks(m, size)
<1> DEFINE q == (m - 1) \div size
<1>1. q \in Int /\ q * size \in Int /\ q * size <= m - 1 /\ m - 1 < q * size + size
  BY Quotient
<1>2. num_block(m, size) = q + 1
  BY DEF num_block
<1> HIDE DEF q
<1>3. \A a, b \in Int : /\ a * size \in Int
                        /\ a < b => a * size + size <= b * size
  BY Multiples
<1>4. 0 * size = 0 /\ (-1) * size = -size
  OBVIOUS
<1>5. q + 1 \in Nat
  <2> SUFFICES ASSUME q < -1 PROVE FALSE
    BY <1>1
  <2>1. q * size + size <= (-1) * size
    BY <1>1, <1>3
  <2> QED
    BY <1>1, <1>4, <2>1
<1>6. m = 0 => q = -1
  <2> SUFFICES ASSUME m = 0, q # -1 PROVE FALSE
    OBVIOUS
  <2>1. -1 < q
    BY <1>1, <1>5
  <2>2. (-1) * size + size <= q * size
    BY <1>1, <1>3, <2>1
  <2> QED
    BY <1>1, <1>4, <2>2
<1>7. ASSUME NEW b \in 0 .. q
      PROVE  /\ BlockLength(m, b, size) = IF b = q THEN m - b * size ELSE size
             /\ BlockLength(m, b, size) \in 0 .. size
             /\ b * size \in Nat /\ b * size + BlockLength(m, b, size) <= m
  <2>1. BlockLength(m, b, size) = IF b = q THEN m - b * size ELSE size
    BY <1>1, <1>2 DEF BlockLength
  <2>2. b * size \in Nat
    OBVIOUS
  <2>3. CASE b = q
    BY <1>1, <2>1, <2>2, <2>3
  <2>4. CASE b # q
    <3>1. b * size + size <= q * size
      BY <1>1, <1>3, <2>4
    <3> QED
      BY <1>1, <2>1, <2>2, <2>4, <3>1
  <2> QED
    BY <2>1, <2>2, <2>3, <2>4
<1>8. ASSUME NEW v \in 0 .. m - 1
      PROVE  /\ BlockOf(v, size) \in 0 .. q
             /\ RestOf(v, size) \in 0 .. BlockLength(m, BlockOf(v, size), size) - 1
             /\ Offset(BlockOf(v, size), RestOf(v, size), size) = v
  <2> DEFINE b == v \div size
  <2>1. b \in Int /\ b * size \in Int /\ b * size <= v /\ v < b * size + size
    BY Quotient
  <2>2. BlockOf(v, size) = b /\ RestOf(v, size) = v - b * size
    BY DEF BlockOf, RestOf
  <2> HIDE DEF b
  <2>3. b >= 0
    <3> SUFFICES ASSUME b < 0 PROVE FALSE
      BY <2>1
    <3>1. b * size + size <= 0 * size
      BY <1>3, <2>1
    <3> QED
      BY <1>4, <2>1, <3>1
  <2>4. b <= q
    <3> SUFFICES ASSUME q < b PROVE FALSE
      BY <1>1, <2>1
    <3>1. q * size + size <= b * size
      BY <1>1, <1>3, <2>1
    <3> QED
      BY <1>1, <2>1, <3>1
  <2>5. b \in 0 .. q
    BY <1>1, <2>1, <2>3, <2>4
  <2>6. v - b * size \in 0 .. BlockLength(m, b, size) - 1
    BY <1>7, <2>1, <2>5
  <2>7. Offset(b, v - b * size, size) = v
    BY <2>1 DEF Offset
  <2> QED
    BY <2>2, <2>5, <2>6, <2>7
<1>9. ASSUME NEW b \in 0 .. q, NEW o \in 0 .. BlockLength(m, b, size) - 1
      PROVE  /\ Offset(b, o, size) \in 0 .. m - 1
             /\ BlockOf(Offset(b, o, size), size) = b /\ RestOf(Offset(b, o, size), size) = o
  <2>1. o \in 0 .. size - 1 /\ b * size \in Nat /\ b * size + o \in 0 .. m - 1
    BY <1>7
  <2>2. (b * size + o) \div size = b
    BY <2>1, QuotientIs
  <2>3. (b * size + o) - b * size = o
    BY <2>1
  <2> QED
    BY <2>1, <2>2, <2>3 DEF Offset, BlockOf, RestOf
<1>10. num_block(m, size) - 1 = q
  BY <1>1, <1>2
<1>11. \A b \in 0 .. q : BlockLength(m, b, size) \in Nat
  BY <1>7
<1> QED
  BY <1>2, <1>5, <1>8, <1>9, <1>10, <1>11, Zenon DEF Blocks

-----------------------------------------------------------------------------
(* What the orders list                                                     *)

LEMMA DirectLists ==
    ASSUME NEW d, Sized(d), NEW fine, Sized(fine), NEW coarse, Cells(fine) \subseteq Cells(d)
    PROVE  Lists(Direct(d, fine, coarse), PlacesOf(d, Cells(fine) \ Cells(coarse)))
<1> DEFINE S == PlacesOf(d, Cells(fine) \ Cells(coarse))
           at == At(d)
           body == [c \in Cells(fine) |-> IF c \in Cells(coarse) THEN <<>> ELSE <<Place(d, c)>>]
<1>1. \A x \in S : at[x] \in Cells(fine) /\ at[x] \notin Cells(coarse)
  BY DEF PlacesOf
<1>2. ASSUME NEW c \in Cells(fine) PROVE ListsPart(body[c], S, at, c)
  <2>1. CASE c \in Cells(coarse)
    <3>1. body[c] = <<>>
      BY <2>1
    <3>2. {x \in S : at[x] = c} = {}
      <4> HIDE DEF S, at
      <4> QED
        BY <1>1, <2>1
    <3> HIDE DEF S, at, body
    <3> QED
      BY <3>1, <3>2, ListsNothing DEF ListsPart
  <2>2. CASE c \notin Cells(coarse)
    <3>1. body[c] = <<Place(d, c)>>
      BY <2>2
    <3>2. Place(d, c) \in S /\ at[Place(d, c)] = c
      BY <2>2, PlacesAreCells DEF PlacesOf
    <3>3. \A x \in S : Place(d, at[x]) = x
      BY PlacesAreCells DEF PlacesOf
    <3>4. {x \in S : at[x] = c} = {Place(d, c)}
      <4> HIDE DEF S, at
      <4> QED
        BY <3>2, <3>3
    <3> HIDE DEF S, at, body
    <3> QED
      BY <3>1, <3>4, ListsOne DEF ListsPart
  <2> QED
    BY <2>1, <2>2
<1>3. Direct(d, fine, coarse) = Loops(fine, body)
  BY DEF Direct
<1> HIDE DEF S, at, body
<1>4. Lists(Loops(fine, body), S)
  BY <1>1, <1>2, LoopsList DEF Sized
<1> QED
  BY <1>3, <1>4 DEF S

LEMMA BlockedLists ==
    ASSUME NEW d, Sized(d), NEW from, Sized(from), NEW n, Sized(n),
           NEW size \in Nat \ {0}, Within(from, n) \subseteq Cells(d)
    PROVE  Lists(Blocked(d, from, n, size), PlacesOf(d, Within(from, n)))
<1> DEFINE S == PlacesOf(d, Within(from, n))
           v(x, i) == At(d)[x][i] - from[i]
           blocks == [x \in 1 .. 3 |-> num_block(n[x], size)]
           at == [x \in S |-> <<BlockOf(v(x, 1), size), BlockOf(v(x, 2), size),
                                BlockOf(v(x, 3), size)>>]
           lengths(b) == [x \in 1 .. 3 |-> BlockLength(n[x], b[x], size)]
           spot(b, c) == [x \in 1 .. 3 |-> from[x] + (b[x] * size + c[x])]
           rows(b) == [c \in Cells(lengths(b)) |-> <<Place(d, spot(b, c))>>]
           body == [b \in Cells(blocks) |-> Loops(lengths(b), rows(b))]
<1>1. /\ n[1] \in Nat /\ n[2] \in Nat /\ n[3] \in Nat
      /\ from[1] \in Nat /\ from[2] \in Nat /\ from[3] \in Nat
  BY DEF Sized
<1>2. Blocks(n[1], size) /\ Blocks(n[2], size) /\ Blocks(n[3], size)
  BY <1>1, BlocksCover
<1>3. /\ blocks[1] = num_block(n[1], size) /\ blocks[2] = num_block(n[2], size)
      /\ blocks[3] = num_block(n[3], size)
  OBVIOUS
<1>4. blocks[1] \in Nat /\ blocks[2] \in Nat /\ blocks[3] \in Nat /\ Sized(blocks)
  <2> HIDE DEF blocks
  <2> QED
    BY <1>2, <1>3 DEF Blocks, Sized
<1>5. ASSUME NEW x \in S
      PROVE  /\ At(d)[x] = <<At(d)[x][1], At(d)[x][2], At(d)[x][3]>>
             /\ At(d)[x][1] \in Nat /\ At(d)[x][2] \in Nat /\ At(d)[x][3] \in Nat
             /\ v(x, 1) \in 0 .. n[1] - 1 /\ v(x, 2) \in 0 .. n[2] - 1 /\ v(x, 3) \in 0 .. n[3] - 1
  <2>1. At(d)[x] \in Within(from, n)
    BY DEF PlacesOf
  <2> QED
    BY <2>1, WithinIs
<1>6. ASSUME NEW x \in S PROVE at[x] \in Cells(blocks)
  <2>1. v(x, 1) \in 0 .. n[1] - 1 /\ v(x, 2) \in 0 .. n[2] - 1 /\ v(x, 3) \in 0 .. n[3] - 1
    BY <1>5
  <2>2. at[x] = <<BlockOf(v(x, 1), size), BlockOf(v(x, 2), size), BlockOf(v(x, 3), size)>>
    OBVIOUS
  <2> HIDE DEF at, blocks, v, S
  <2>3. /\ BlockOf(v(x, 1), size) \in 0 .. blocks[1] - 1
        /\ BlockOf(v(x, 2), size) \in 0 .. blocks[2] - 1
        /\ BlockOf(v(x, 3), size) \in 0 .. blocks[3] - 1
    BY <1>2, <1>3, <2>1 DEF Blocks
  <2> QED
    BY <1>4, <2>2, <2>3, CellsAre
<1>7. ASSUME NEW b \in Cells(blocks) PROVE ListsPart(body[b], S, at, b)
  <2> DEFINE P == {x \in S : at[x] = b}
             in == [x \in P |-> <<RestOf(v(x, 1), size), RestOf(v(x, 2), size),
                                  RestOf(v(x, 3), size)>>]
             len == lengths(b)
  <2>1. /\ b = <<b[1], b[2], b[3]>> /\ b[1] \in 0 .. num_block(n[1], size) - 1
        /\ b[2] \in 0 .. num_block(n[2], size) - 1 /\ b[3] \in 0 .. num_block(n[3], size) - 1
    <3> HIDE DEF blocks
    <3> QED
      BY <1>3, <1>4, CellsAre
  <2>2. /\ len[1] = BlockLength(n[1], b[1], size) /\ len[2] = BlockLength(n[2], b[2], size)
        /\ len[3] = BlockLength(n[3], b[3], size)
    OBVIOUS
  <2>3. len[1] \in Nat /\ len[2] \in Nat /\ len[3] \in Nat /\ Sized(len)
    <3> HIDE DEF len
    <3> QED
      BY <1>2, <2>1, <2>2 DEF Blocks, Sized
  <2>4. ASSUME NEW x \in P
        PROVE  /\ x \in S
               /\ v(x, 1) \in 0 .. n[1] - 1 /\ v(x, 2) \in 0 .. n[2] - 1
               /\ v(x, 3) \in 0 .. n[3] - 1
               /\ BlockOf(v(x, 1), size) = b[1] /\ BlockOf(v(x, 2), size) = b[2]
               /\ BlockOf(v(x, 3), size) = b[3]
    <3>1. x \in S /\ at[x] = b
      OBVIOUS
    <3>2. at[x] = <<BlockOf(v(x, 1), size), BlockOf(v(x, 2), size), BlockOf(v(x, 3), size)>>
      BY <3>1
    <3> HIDE DEF S, at, P, v
    <3>3. /\ BlockOf(v(x, 1), size) = b[1] /\ BlockOf(v(x, 2), size) = b[2]
          /\ BlockOf(v(x, 3), size) = b[3]
      BY <3>1, <3>2
    <3> QED
      BY <1>5, <3>1, <3>3
  <2>5. ASSUME NEW x \in P PROVE in[x] \in Cells(len)
    <3>1. in[x] = <<RestOf(v(x, 1), size), RestOf(v(x, 2), size), RestOf(v(x, 3), size)>>
      OBVIOUS
    <3> HIDE DEF S, at, P, v, in, len
    <3>2. /\ RestOf(v(x, 1), size) \in 0 .. len[1] - 1
          /\ RestOf(v(x, 2), size) \in 0 .. len[2] - 1
          /\ RestOf(v(x, 3), size) \in 0 .. len[3] - 1
      BY <1>2, <2>2, <2>4 DEF Blocks
    <3> QED
      BY <2>3, <3>1, <3>2, CellsAre
  <2>6. ASSUME NEW c \in Cells(len) PROVE ListsPart(rows(b)[c], P, in, c)
    <3> DEFINE e == <<from[1] + Offset(b[1], c[1], size), from[2] + Offset(b[2], c[2], size),
                      from[3] + Offset(b[3], c[3], size)>>
    <3>1. /\ c = <<c[1], c[2], c[3]>> /\ c[1] \in 0 .. len[1] - 1
          /\ c[2] \in 0 .. len[2] - 1 /\ c[3] \in 0 .. len[3] - 1
      <4> HIDE DEF len
      <4> QED
        BY <2>3, CellsAre
    <3>2. rows(b)[c] = <<Place(d, e)>>
      <4>1. rows(b)[c] = <<Place(d, spot(b, c))>>
        OBVIOUS
      <4>2. /\ spot(b, c)[1] = e[1] /\ spot(b, c)[2] = e[2] /\ spot(b, c)[3] = e[3]
        BY DEF Offset
      <4>3. Place(d, spot(b, c)) = Place(d, e)
        <5> HIDE DEF spot, e
        <5> QED
          BY <4>2 DEF Place
      <4> QED
        BY <4>1, <4>3
    <3>3. /\ Offset(b[1], c[1], size) \in 0 .. n[1] - 1
          /\ BlockOf(Offset(b[1], c[1], size), size) = b[1]
          /\ RestOf(Offset(b[1], c[1], size), size) = c[1]
          /\ Offset(b[2], c[2], size) \in 0 .. n[2] - 1
          /\ BlockOf(Offset(b[2], c[2], size), size) = b[2]
          /\ RestOf(Offset(b[2], c[2], size), size) = c[2]
          /\ Offset(b[3], c[3], size) \in 0 .. n[3] - 1
          /\ BlockOf(Offset(b[3], c[3], size), size) = b[3]
          /\ RestOf(Offset(b[3], c[3], size), size) = c[3]
      <4> HIDE DEF len
      <4> QED
        BY <1>2, <2>1, <2>2, <3>1 DEF Blocks
    <3>4. e \in Within(from, n)
      <4> DEFINE o == <<Offset(b[1], c[1], size), Offset(b[2], c[2], size),
                        Offset(b[3], c[3], size)>>
      <4>1. o \in Cells(n)
        BY <3>3, CellsAre
      <4>2. <<from[1] + o[1], from[2] + o[2], from[3] + o[3]>> \in Within(from, n)
        <5> HIDE DEF o
        <5> QED
          BY <4>1, WithinIs
      <4>3. e = <<from[1] + o[1], from[2] + o[2], from[3] + o[3]>>
        OBVIOUS
      <4> QED
        BY <4>2, <4>3
    <3>5. Place(d, e) \in 0 .. Product(d) - 1 /\ At(d)[Place(d, e)] = e
      <4> HIDE DEF e
      <4> QED
        BY <3>4, PlacesAreCells
    <3>6. Place(d, e) \in S
      <4> HIDE DEF e
      <4> QED
        BY <3>4, <3>5 DEF PlacesOf
    <3> DEFINE y == Place(d, e)
    <3>7. \A f, o \in Nat : (f + o) - f = o
      OBVIOUS
    <3>8. \A m \in Nat : \A o \in 0 .. m - 1 : o \in Nat
      OBVIOUS
    <3>9. /\ v(y, 1) = Offset(b[1], c[1], size) /\ v(y, 2) = Offset(b[2], c[2], size)
          /\ v(y, 3) = Offset(b[3], c[3], size)
      <4>1. /\ v(y, 1) = (from[1] + Offset(b[1], c[1], size)) - from[1]
            /\ v(y, 2) = (from[2] + Offset(b[2], c[2], size)) - from[2]
            /\ v(y, 3) = (from[3] + Offset(b[3], c[3], size)) - from[3]
        BY <3>5
      <4>2. /\ Offset(b[1], c[1], size) \in Nat /\ Offset(b[2], c[2], size) \in Nat
            /\ Offset(b[3], c[3], size) \in Nat
        BY <1>1, <3>3, <3>8
      <4> HIDE DEF v, y, e
      <4> QED
        BY <1>1, <3>7, <4>1, <4>2
    <3>10. y \in P /\ in[y] = c
      <4>1. at[y] = <<BlockOf(v(y, 1), size), BlockOf(v(y, 2), size), BlockOf(v(y, 3), size)>>
        BY <3>6
      <4>2. at[y] = b
        <5> HIDE DEF at, v, y
        <5> QED
          BY <2>1, <3>3, <3>9, <4>1
      <4>3. y \in P
        BY <3>6, <4>2
      <4>4. in[y] = <<RestOf(v(y, 1), size), RestOf(v(y, 2), size), RestOf(v(y, 3), size)>>
        BY <4>3
      <4>5. in[y] = c
        <5> HIDE DEF in, v, y
        <5> QED
          BY <3>1, <3>3, <3>9, <4>4
      <4> QED
        BY <4>3, <4>5
    <3>11. ASSUME NEW x \in P, in[x] = c PROVE x = y
      <4>1. in[x] = <<RestOf(v(x, 1), size), RestOf(v(x, 2), size), RestOf(v(x, 3), size)>>
        OBVIOUS
      <4>2. /\ RestOf(v(x, 1), size) = c[1] /\ RestOf(v(x, 2), size) = c[2]
            /\ RestOf(v(x, 3), size) = c[3]
        <5> HIDE DEF in, v, P
        <5> QED
          BY <3>11, <4>1
      <4>3. /\ v(x, 1) = Offset(b[1], c[1], size) /\ v(x, 2) = Offset(b[2], c[2], size)
            /\ v(x, 3) = Offset(b[3], c[3], size)
        <5> HIDE DEF v, P
        <5> QED
          BY <1>2, <2>4, <4>2 DEF Blocks
      <4>4. /\ At(d)[x] = <<At(d)[x][1], At(d)[x][2], At(d)[x][3]>>
            /\ At(d)[x][1] \in Nat /\ At(d)[x][2] \in Nat /\ At(d)[x][3] \in Nat
        <5> HIDE DEF P, v, S
        <5> QED
          BY <1>5, <2>4
      <4>5. /\ At(d)[x][1] - from[1] = Offset(b[1], c[1], size)
            /\ At(d)[x][2] - from[2] = Offset(b[2], c[2], size)
            /\ At(d)[x][3] - from[3] = Offset(b[3], c[3], size)
        BY <4>3
      <4>6. \A f, u, o \in Nat : u - f = o => u = f + o
        OBVIOUS
      <4>7. /\ Offset(b[1], c[1], size) \in Nat /\ Offset(b[2], c[2], size) \in Nat
            /\ Offset(b[3], c[3], size) \in Nat
        BY <1>1, <3>3, <3>8
      <4>8. /\ At(d)[x][1] = from[1] + Offset(b[1], c[1], size)
            /\ At(d)[x][2] = from[2] + Offset(b[2], c[2], size)
            /\ At(d)[x][3] = from[3] + Offset(b[3], c[3], size)
        BY <1>1, <4>4, <4>5, <4>6, <4>7
      <4>9. At(d)[x] = e
        BY <4>4, <4>8
      <4>10. Place(d, At(d)[x]) = x
        <5>1. x \in 0 .. Product(d) - 1
          BY DEF PlacesOf
        <5> QED
          BY <5>1, PlacesAreCells
      <4> QED
        BY <4>9, <4>10
    <3>12. {x \in P : in[x] = c} = {y}
      <4> HIDE DEF P, in, y
      <4> QED
        BY <3>10, <3>11
    <3>13. rows(b)[c] = <<y>>
      BY <3>2
    <3> HIDE DEF P, in, y, rows
    <3> QED
      BY <3>12, <3>13, ListsOne DEF ListsPart
  <2>7. body[b] = Loops(len, rows(b))
    OBVIOUS
  <2>8. Lists(Loops(len, rows(b)), P)
    <3> DEFINE r == rows(b)
    <3>1. \A c \in Cells(len) : ListsPart(r[c], P, in, c)
      BY <2>6
    <3> HIDE DEF P, in, r, len
    <3>2. Lists(Loops(len, r), P)
      BY <2>3, <2>5, <3>1, LoopsList
    <3> QED
      BY <3>2 DEF r
  <2>9. Lists(body[b], P)
    <3> HIDE DEF body, rows, len, P
    <3> QED
      BY <2>7, <2>8
  <2> HIDE DEF body, S, at
  <2> QED
    BY <2>9 DEF ListsPart
<1>8. Blocked(d, from, n, size) = Loops(blocks, body)
  BY DEF Blocked
<1> HIDE DEF S, at, body, blocks
<1>9. Lists(Loops(blocks, body), S)
  BY <1>4, <1>6, <1>7, LoopsList
<1> QED
  BY <1>8, <1>9 DEF S

-----------------------------------------------------------------------------
(* The boxes                                                                *)

SameSides(A, B) == /\ 1 \in A <=> 1 \in B
                   /\ 2 \in A <=> 2 \in B
                   /\ 3 \in A <=> 3 \in B

LEMMA BeyondTable ==
    /\ \A b \in 1 .. 7 : Beyond[b] \subseteq 1 .. 3 /\ Beyond[b] # {}
    /\ \A b, e \in 1 .. 7 : SameSides(Beyond[b], Beyond[e]) => b = e
    /\ \A B \in SUBSET (1 .. 3) : B # {} => \E b \in 1 .. 7 : SameSides(Beyond[b], B)
<1>1. /\ Beyond[1] = {3} /\ Beyond[2] = {2} /\ Beyond[3] = {2, 3} /\ Beyond[4] = {1}
      /\ Beyond[5] = {1, 3} /\ Beyond[6] = {1, 2} /\ Beyond[7] = {1, 2, 3}
  BY DEF Beyond
<1>2. \A b \in 1 .. 7 : b = 1 \/ b = 2 \/ b = 3 \/ b = 4 \/ b = 5 \/ b = 6 \/ b = 7
  OBVIOUS
<1>3. /\ 1 \notin Beyond[1] /\ 2 \notin Beyond[1] /\ 3 \in Beyond[1]
      /\ 1 \notin Beyond[2] /\ 2 \in Beyond[2] /\ 3 \notin Beyond[2]
      /\ 1 \notin Beyond[3] /\ 2 \in Beyond[3] /\ 3 \in Beyond[3]
      /\ 1 \in Beyond[4] /\ 2 \notin Beyond[4] /\ 3 \notin Beyond[4]
      /\ 1 \in Beyond[5] /\ 2 \notin Beyond[5] /\ 3 \in Beyond[5]
      /\ 1 \in Beyond[6] /\ 2 \in Beyond[6] /\ 3 \notin Beyond[6]
      /\ 1 \in Beyond[7] /\ 2 \in Beyond[7] /\ 3 \in Beyond[7]
  BY <1>1
<1>4. \A b \in 1 .. 7 : Beyond[b] \subseteq 1 .. 3 /\ Beyond[b] # {}
  BY <1>1, <1>2
<1>5. \A b, e \in 1 .. 7 : SameSides(Beyond[b], Beyond[e]) => b = e
  BY <1>2, <1>3 DEF SameSides
<1>6. ASSUME NEW B \in SUBSET (1 .. 3), B # {}
      PROVE  \E b \in 1 .. 7 : SameSides(Beyond[b], B)
  <2>1. 1 \in B \/ 2 \in B \/ 3 \in B
    <3>1. \A x \in 1 .. 3 : x = 1 \/ x = 2 \/ x = 3
      OBVIOUS
    <3>2. PICK x \in B : TRUE
      BY <1>6
    <3>3. x \in 1 .. 3
      BY <3>2
    <3> QED
      BY <3>1, <3>2, <3>3
  <2>2. /\ 1 \in 1 .. 7 /\ 2 \in 1 .. 7 /\ 3 \in 1 .. 7 /\ 4 \in 1 .. 7 /\ 5 \in 1 .. 7
        /\ 6 \in 1 .. 7 /\ 7 \in 1 .. 7
    OBVIOUS
  <2>3. CASE 1 \notin B /\ 2 \notin B /\ 3 \in B
    <3>1. SameSides(Beyond[1], B)
      BY <1>3, <2>3 DEF SameSides
    <3> QED
      BY <2>2, <3>1
  <2>4. CASE 1 \notin B /\ 2 \in B /\ 3 \notin B
    <3>1. SameSides(Beyond[2], B)
      BY <1>3, <2>4 DEF SameSides
    <3> QED
      BY <2>2, <3>1
  <2>5. CASE 1 \notin B /\ 2 \in B /\ 3 \in B
    <3>1. SameSides(Beyond[3], B)
      BY <1>3, <2>5 DEF SameSides
    <3> QED
      BY <2>2, <3>1
  <2>6. CASE 1 \in B /\ 2 \notin B /\ 3 \notin B
    <3>1. SameSides(Beyond[4], B)
      BY <1>3, <2>6 DEF SameSides
    <3> QED
      BY <2>2, <3>1
  <2>7. CASE 1 \in B /\ 2 \notin B /\ 3 \in B
    <3>1. SameSides(Beyond[5], B)
      BY <1>3, <2>7 DEF SameSides
    <3> QED
      BY <2>2, <3>1
  <2>8. CASE 1 \in B /\ 2 \in B /\ 3 \notin B
    <3>1. SameSides(Beyond[6], B)
      BY <1>3, <2>8 DEF SameSides
    <3> QED
      BY <2>2, <3>1
  <2>9. CASE 1 \in B /\ 2 \in B /\ 3 \in B
    <3>1. SameSides(Beyond[7], B)
      BY <1>3, <2>9 DEF SameSides
    <3> QED
      BY <2>2, <3>1
  <2> QED
    BY <2>1, <2>3, <2>4, <2>5, <2>6, <2>7, <2>8, <2>9
<1> QED
  BY <1>4, <1>5, <1>6

(* Dimensions of a level and of the next coarser one, in data of dims. d.   *)
Nested(d, fine, coarse) ==
    /\ Sized(d) /\ Sized(fine) /\ Sized(coarse)
    /\ coarse[1] <= fine[1] /\ coarse[2] <= fine[2] /\ coarse[3] <= fine[3]
    /\ fine[1] <= d[1] /\ fine[2] <= d[2] /\ fine[3] <= d[3]

BoxCells(fine, coarse, b) == Within(BoxFrom(coarse, b), BoxDims(fine, coarse, b))

LEMMA CellsNested ==
    ASSUME NEW m, NEW n, Sized(m), Sized(n), m[1] <= n[1], m[2] <= n[2], m[3] <= n[3]
    PROVE  Cells(m) \subseteq Cells(n)
<1> SUFFICES ASSUME NEW c \in Cells(m) PROVE c \in Cells(n)
  OBVIOUS
<1>1. /\ c = <<c[1], c[2], c[3]>> /\ c[1] \in 0 .. m[1] - 1
      /\ c[2] \in 0 .. m[2] - 1 /\ c[3] \in 0 .. m[3] - 1
  BY CellsAre
<1>2. \A a, b \in Nat : a <= b => \A i \in 0 .. a - 1 : i \in 0 .. b - 1
  OBVIOUS
<1>3. c[1] \in 0 .. n[1] - 1 /\ c[2] \in 0 .. n[2] - 1 /\ c[3] \in 0 .. n[3] - 1
  BY <1>1, <1>2 DEF Sized
<1> QED
  BY <1>1, <1>3, CellsAre

LEMMA BoxSized ==
    ASSUME NEW d, NEW fine, NEW coarse, Nested(d, fine, coarse), NEW b \in 1 .. 7
    PROVE  /\ Sized(BoxFrom(coarse, b)) /\ Sized(BoxDims(fine, coarse, b))
           /\ \A x \in 1 .. 3 :
                  /\ BoxFrom(coarse, b)[x] = IF x \in Beyond[b] THEN coarse[x] ELSE 0
                  /\ BoxDims(fine, coarse, b)[x] =
                         IF x \in Beyond[b] THEN fine[x] - coarse[x] ELSE coarse[x]
<1>1. \A x \in 1 .. 3 :
          /\ BoxFrom(coarse, b)[x] = IF x \in Beyond[b] THEN coarse[x] ELSE 0
          /\ BoxDims(fine, coarse, b)[x] =
                 IF x \in Beyond[b] THEN fine[x] - coarse[x] ELSE coarse[x]
  BY DEF BoxFrom, BoxDims
<1>2. \A x \in 1 .. 3 : coarse[x] \in Nat /\ fine[x] - coarse[x] \in Nat
  BY DEF Nested, Sized
<1>3. \A x \in 1 .. 3 : BoxFrom(coarse, b)[x] \in Nat /\ BoxDims(fine, coarse, b)[x] \in Nat
  BY <1>1, <1>2
<1>4. 1 \in 1 .. 3 /\ 2 \in 1 .. 3 /\ 3 \in 1 .. 3
  OBVIOUS
<1> QED
  BY <1>1, <1>3, <1>4 DEF Sized

LEMMA BoxIs ==
    ASSUME NEW d, NEW fine, NEW coarse, Nested(d, fine, coarse), NEW b \in 1 .. 7
    PROVE  \A i, j, k \in Nat :
               <<i, j, k>> \in BoxCells(fine, coarse, b)
                   <=> /\ i < fine[1] /\ j < fine[2] /\ k < fine[3]
                       /\ 1 \in Beyond[b] <=> coarse[1] <= i
                       /\ 2 \in Beyond[b] <=> coarse[2] <= j
                       /\ 3 \in Beyond[b] <=> coarse[3] <= k
<1> SUFFICES ASSUME NEW i \in Nat, NEW j \in Nat, NEW k \in Nat
             PROVE  <<i, j, k>> \in BoxCells(fine, coarse, b)
                        <=> /\ i < fine[1] /\ j < fine[2] /\ k < fine[3]
                            /\ 1 \in Beyond[b] <=> coarse[1] <= i
                            /\ 2 \in Beyond[b] <=> coarse[2] <= j
                            /\ 3 \in Beyond[b] <=> coarse[3] <= k
  OBVIOUS
<1> DEFINE from == BoxFrom(coarse, b)
           n == BoxDims(fine, coarse, b)
<1>1. Sized(from) /\ Sized(n)
  BY BoxSized
<1>2. <<i, j, k>> \in Within(from, n) <=> /\ from[1] <= i /\ i < from[1] + n[1]
                                          /\ from[2] <= j /\ j < from[2] + n[2]
                                          /\ from[3] <= k /\ k < from[3] + n[3]
  <2> HIDE DEF from, n
  <2> QED
    BY <1>1, WithinIs
<1>3. ASSUME NEW x \in 1 .. 3, NEW v \in Nat
      PROVE  from[x] <= v /\ v < from[x] + n[x]
                 <=> v < fine[x] /\ (x \in Beyond[b] <=> coarse[x] <= v)
  <2>1. coarse[x] \in Nat /\ fine[x] \in Nat /\ coarse[x] <= fine[x]
    BY DEF Nested, Sized
  <2>2. /\ from[x] = IF x \in Beyond[b] THEN coarse[x] ELSE 0
        /\ n[x] = IF x \in Beyond[b] THEN fine[x] - coarse[x] ELSE coarse[x]
    BY BoxSized
  <2> HIDE DEF from, n
  <2> QED
    BY <2>1, <2>2
<1>4. 1 \in 1 .. 3 /\ 2 \in 1 .. 3 /\ 3 \in 1 .. 3
  OBVIOUS
<1> HIDE DEF from, n
<1> QED
  BY <1>2, <1>3, <1>4 DEF BoxCells, from, n

LEMMA BoxesPartition ==
    ASSUME NEW d, NEW fine, NEW coarse, Nested(d, fine, coarse)
    PROVE  /\ \A b \in 1 .. 7 : BoxCells(fine, coarse, b) \subseteq Cells(fine) \ Cells(coarse)
           /\ \A b, e \in 1 .. 7 : \A c \in BoxCells(fine, coarse, b) :
                  c \in BoxCells(fine, coarse, e) => b = e
           /\ \A c \in Cells(fine) \ Cells(coarse) :
                  \E b \in 1 .. 7 : c \in BoxCells(fine, coarse, b)
<1>0. Sized(fine) /\ Sized(coarse)
  BY DEF Nested
<1>1. ASSUME NEW b \in 1 .. 7, NEW c \in BoxCells(fine, coarse, b)
      PROVE  /\ c = <<c[1], c[2], c[3]>> /\ c[1] \in Nat /\ c[2] \in Nat /\ c[3] \in Nat
             /\ c[1] < fine[1] /\ c[2] < fine[2] /\ c[3] < fine[3]
             /\ 1 \in Beyond[b] <=> coarse[1] <= c[1]
             /\ 2 \in Beyond[b] <=> coarse[2] <= c[2]
             /\ 3 \in Beyond[b] <=> coarse[3] <= c[3]
  <2>1. c = <<c[1], c[2], c[3]>> /\ c[1] \in Nat /\ c[2] \in Nat /\ c[3] \in Nat
    BY BoxSized, WithinIs DEF BoxCells
  <2> QED
    BY <2>1, BoxIs
<1>2. \A n \in Nat : \A i \in Nat : i \in 0 .. n - 1 <=> i < n
  OBVIOUS
<1>3. ASSUME NEW b \in 1 .. 7, NEW c \in BoxCells(fine, coarse, b)
      PROVE  c \in Cells(fine) /\ c \notin Cells(coarse)
  <2>1. c \in Cells(fine)
    <3>1. c[1] \in 0 .. fine[1] - 1 /\ c[2] \in 0 .. fine[2] - 1 /\ c[3] \in 0 .. fine[3] - 1
      BY <1>0, <1>1, <1>2 DEF Sized
    <3> QED
      BY <1>0, <1>1, <3>1, CellsAre
  <2>2. c \notin Cells(coarse)
    <3> SUFFICES ASSUME c \in Cells(coarse) PROVE FALSE
      OBVIOUS
    <3>1. c[1] < coarse[1] /\ c[2] < coarse[2] /\ c[3] < coarse[3]
      BY <1>0, <1>1, <1>2, CellsAre DEF Sized
    <3>2. 1 \in Beyond[b] \/ 2 \in Beyond[b] \/ 3 \in Beyond[b]
      <4>1. \A x \in 1 .. 3 : x = 1 \/ x = 2 \/ x = 3
        OBVIOUS
      <4> QED
        BY <4>1, BeyondTable
    <3>3. \A n, i \in Nat : i < n => ~(n <= i)
      OBVIOUS
    <3> QED
      BY <1>0, <1>1, <3>1, <3>2, <3>3 DEF Sized
  <2> QED
    BY <2>1, <2>2
<1>4. ASSUME NEW b \in 1 .. 7, NEW e \in 1 .. 7, NEW c \in BoxCells(fine, coarse, b),
             c \in BoxCells(fine, coarse, e)
      PROVE  b = e
  <2>1. SameSides(Beyond[b], Beyond[e])
    BY <1>1, <1>4 DEF SameSides
  <2> QED
    BY <2>1, BeyondTable
<1>5. ASSUME NEW c \in Cells(fine) \ Cells(coarse)
      PROVE  \E b \in 1 .. 7 : c \in BoxCells(fine, coarse, b)
  <2>1. /\ c = <<c[1], c[2], c[3]>> /\ c[1] \in Nat /\ c[2] \in Nat /\ c[3] \in Nat
        /\ c[1] < fine[1] /\ c[2] < fine[2] /\ c[3] < fine[3]
    BY <1>0, <1>2, CellsAre DEF Sized
  <2> DEFINE B == {x \in 1 .. 3 : coarse[x] <= c[x]}
  <2>2. /\ 1 \in B <=> coarse[1] <= c[1]
        /\ 2 \in B <=> coarse[2] <= c[2]
        /\ 3 \in B <=> coarse[3] <= c[3]
    OBVIOUS
  <2>3. B # {}
    <3> SUFFICES ASSUME B = {} PROVE FALSE
      OBVIOUS
    <3>1. ~(coarse[1] <= c[1]) /\ ~(coarse[2] <= c[2]) /\ ~(coarse[3] <= c[3])
      BY <2>2
    <3>2. \A n, i \in Nat : ~(n <= i) => i < n
      OBVIOUS
    <3>3. c[1] \in 0 .. coarse[1] - 1 /\ c[2] \in 0 .. coarse[2] - 1 /\ c[3] \in 0 .. coarse[3] - 1
      <4> HIDE DEF B
      <4> QED
        BY <1>0, <1>2, <2>1, <3>1, <3>2 DEF Sized
    <3>4. c \in Cells(coarse)
      <4> HIDE DEF B
      <4> QED
        BY <1>0, <2>1, <3>3, CellsAre
    <3> QED
      BY <3>4
  <2>4. B \in SUBSET (1 .. 3)
    OBVIOUS
  <2> HIDE DEF B
  <2>5. PICK b \in 1 .. 7 : SameSides(Beyond[b], B)
    BY <2>3, <2>4, BeyondTable
  <2>6. <<c[1], c[2], c[3]>> \in BoxCells(fine, coarse, b)
    BY <2>1, <2>2, <2>5, BoxIs DEF SameSides
  <2> QED
    BY <2>1, <2>6
<1> QED
  BY <1>3, <1>4, <1>5

LEMMA BoxLists ==
    ASSUME NEW d, NEW fine, NEW coarse, Nested(d, fine, coarse), NEW size \in Nat \ {0},
           NEW b \in 1 .. 7
    PROVE  /\ Lists(Boxes(d, fine, coarse, size)[b], PlacesOf(d, BoxCells(fine, coarse, b)))
           /\ Len(Boxes(d, fine, coarse, size)[b]) = Product(BoxDims(fine, coarse, b))
<1> DEFINE from == BoxFrom(coarse, b)
           n == BoxDims(fine, coarse, b)
<1>1. Boxes(d, fine, coarse, size)[b] = Blocked(d, from, n, size)
  BY DEF Boxes
<1>2. Sized(d) /\ Sized(from) /\ Sized(n)
  BY BoxSized DEF Nested
<1>3. Within(from, n) = BoxCells(fine, coarse, b)
  BY DEF BoxCells
<1>4. BoxCells(fine, coarse, b) \subseteq Cells(d)
  BY BoxesPartition, CellsNested DEF Nested
<1> HIDE DEF from, n
<1>5. Lists(Blocked(d, from, n, size), PlacesOf(d, Within(from, n)))
  BY <1>2, <1>3, <1>4, BlockedLists
<1>6. /\ Cardinality(PlacesOf(d, Within(from, n))) = Cardinality(Within(from, n))
      /\ Cardinality(Within(from, n)) = Product(n)
  BY <1>2, <1>3, <1>4, PlacesCount, WithinCount
<1>7. Len(Blocked(d, from, n, size)) = Product(n)
  BY <1>5, <1>6, ListsCount
<1> QED
  BY <1>1, <1>3, <1>5, <1>7 DEF n

LEMMA AllBoxesList ==
    ASSUME NEW d, NEW fine, NEW coarse, Nested(d, fine, coarse), NEW size \in Nat \ {0}
    PROVE  Lists(FlattenSeq(Boxes(d, fine, coarse, size)), PlacesOf(d, Cells(fine) \ Cells(coarse)))
<1> DEFINE S == PlacesOf(d, Cells(fine) \ Cells(coarse))
           f == Boxes(d, fine, coarse, size)
           box == [x \in S |-> CHOOSE b \in 1 .. 7 : At(d)[x] \in BoxCells(fine, coarse, b)]
<1>1. \A x \in S : box[x] \in 1 .. 7 /\ At(d)[x] \in BoxCells(fine, coarse, box[x])
  BY BoxesPartition DEF PlacesOf
<1>2. ASSUME NEW b \in 1 .. 7 PROVE ListsPart(f[b], S, box, b)
  <2>1. Lists(f[b], PlacesOf(d, BoxCells(fine, coarse, b)))
    BY BoxLists
  <2>2. PlacesOf(d, BoxCells(fine, coarse, b)) \subseteq S
    BY BoxesPartition DEF PlacesOf
  <2>3. ASSUME NEW x \in S
        PROVE  box[x] = b <=> x \in PlacesOf(d, BoxCells(fine, coarse, b))
    <3>1. x \in PlacesOf(d, BoxCells(fine, coarse, b)) <=> At(d)[x] \in BoxCells(fine, coarse, b)
      BY DEF PlacesOf
    <3>2. box[x] \in 1 .. 7 /\ At(d)[x] \in BoxCells(fine, coarse, box[x])
      BY <1>1
    <3> HIDE DEF S, box
    <3> QED
      BY <3>1, <3>2, BoxesPartition
  <2>4. {x \in S : box[x] = b} = PlacesOf(d, BoxCells(fine, coarse, b))
    <3> HIDE DEF S, box
    <3> QED
      BY <2>2, <2>3
  <2> HIDE DEF S, box, f
  <2> QED
    BY <2>1, <2>4 DEF ListsPart
<1>3. f = [b \in 1 .. 7 |-> f[b]] /\ 7 \in Nat
  BY DEF Boxes
<1> HIDE DEF S, f, box
<1>4. Lists(FlattenSeq(f), S)
  BY <1>1, <1>2, <1>3, ListsParts
<1> QED
  BY <1>4 DEF S, f

-----------------------------------------------------------------------------
(* How often a box is picked                                                *)

Count(s, b) == Cardinality({c \in DOMAIN s : s[c] = b})

LEMMA CountNat ==
    ASSUME NEW S, NEW s \in Seq(S), NEW b
    PROVE  IsFiniteSet({c \in DOMAIN s : s[c] = b}) /\ Count(s, b) \in Nat
<1>1. DOMAIN s = 1 .. Len(s) /\ Len(s) \in Nat
  OBVIOUS
<1>2. IsFiniteSet(DOMAIN s)
  BY <1>1, UpTo
<1>3. {c \in DOMAIN s : s[c] = b} \in SUBSET DOMAIN s
  OBVIOUS
<1>4. IsFiniteSet({c \in DOMAIN s : s[c] = b})
  BY <1>2, <1>3, FS_Subset
<1> QED
  BY <1>4, FS_CardinalityType DEF Count

LEMMA CountConcat ==
    ASSUME NEW S, NEW s \in Seq(S), NEW t \in Seq(S), NEW b
    PROVE  s \o t \in Seq(S) /\ Count(s \o t, b) = Count(s, b) + Count(t, b)
<1> DEFINE u == s \o t
           A == {c \in DOMAIN s : s[c] = b}
           B == {c \in DOMAIN t : t[c] = b}
           C == {c \in DOMAIN u : u[c] = b}
           D == {c \in C : c > Len(s)}
           f == [c \in B |-> Len(s) + c]
<1>1. /\ u \in Seq(S) /\ DOMAIN u = 1 .. Len(s) + Len(t)
      /\ \A r \in DOMAIN s : r \in DOMAIN u /\ u[r] = s[r]
      /\ \A j \in DOMAIN t : Len(s) + j \in DOMAIN u /\ u[Len(s) + j] = t[j]
  BY ConcatFacts
<1>2. /\ Len(s) \in Nat /\ DOMAIN s = 1 .. Len(s)
      /\ Len(t) \in Nat /\ DOMAIN t = 1 .. Len(t)
  OBVIOUS
<1> HIDE DEF u
<1>3. C = A \cup D
  <2>1. A \subseteq C
    BY <1>1
  <2>2. ASSUME NEW c \in C, c \notin D PROVE c \in A
    <3>1. c \in DOMAIN s
      BY <1>1, <1>2, <2>2
    <3> QED
      BY <1>1, <3>1
  <2>3. D \subseteq C
    OBVIOUS
  <2> QED
    <3> HIDE DEF A, C, D
    <3> QED
      BY <2>1, <2>2, <2>3
<1>4. A \cap D = {}
  BY <1>2
<1>5. IsFiniteSet(A) /\ IsFiniteSet(B) /\ Cardinality(A) \in Nat
  BY CountNat DEF Count
<1>6. f \in [B -> D]
  BY <1>1, <1>2
<1>7. \A c, e \in B : f[c] = f[e] => c = e
  BY <1>2
<1>8. ASSUME NEW c \in D PROVE \E e \in B : f[e] = c
  <2>1. c - Len(s) \in DOMAIN t /\ c = Len(s) + (c - Len(s))
    BY <1>1, <1>2
  <2>2. c - Len(s) \in B
    BY <1>1, <2>1
  <2> QED
    BY <2>1, <2>2
<1> HIDE DEF A, B, C, D, f
<1>9. IsFiniteSet(D) /\ Cardinality(D) = Cardinality(B)
  BY <1>5, <1>6, <1>7, <1>8, SameSize
<1>10. Cardinality(C) = Cardinality(A) + Cardinality(D) - Cardinality({})
  BY <1>3, <1>4, <1>5, <1>9, FS_Union
<1>11. Cardinality({}) = 0 /\ Cardinality(B) \in Nat
  BY <1>5, FS_EmptySet, FS_CardinalityType
<1>12. Cardinality(C) = Cardinality(A) + Cardinality(B)
  BY <1>5, <1>9, <1>10, <1>11
<1>13. Count(u, b) = Cardinality(C) /\ Count(s, b) = Cardinality(A) /\ Count(t, b) = Cardinality(B)
  BY DEF Count, A, B, C
<1> QED
  BY <1>1, <1>12, <1>13 DEF u

LEMMA CountNothing == \A b : Count(<<>>, b) = 0
<1> SUFFICES ASSUME NEW b PROVE Count(<<>>, b) = 0
  OBVIOUS
<1>1. {c \in DOMAIN <<>> : <<>>[c] = b} = {}
  OBVIOUS
<1> QED
  BY <1>1, FS_EmptySet DEF Count

LEMMA CountRepeat ==
    ASSUME NEW S, NEW m \in Nat, NEW s \in Seq(S), NEW b
    PROVE  Repeat(m, s) \in Seq(S) /\ Count(Repeat(m, s), b) = m * Count(s, b)
<1> DEFINE f == [i \in 1 .. m |-> s]
<1>1. Len(f) = m /\ Repeat(m, s) = FlattenSeq(f)
  BY DEF Repeat
<1>2. Count(s, b) \in Nat
  BY CountNat
<1>3. CASE m = 0
  <2>1. f = <<>>
    BY <1>3
  <2>2. FlattenSeq(f) = <<>>
    BY <1>1, <1>3, <2>1 DEF FlattenSeq
  <2>3. 0 * Count(s, b) = 0 /\ <<>> \in Seq(S)
    BY <1>2
  <2> QED
    BY <1>1, <1>3, <2>2, <2>3, CountNothing
<1>4. CASE m # 0
  <2>1. PICK g : /\ FlattenSeq(f) = g[m] /\ g[1] = f[1]
                 /\ \A i \in 2 .. m : g[i] = g[i - 1] \o f[i]
    <3>1. Len(f) \in Nat \ {0}
      BY <1>1, <1>4
    <3> HIDE DEF f
    <3> QED
      BY <1>1, <3>1, FlattenUnfolds
  <2>2. g[1] = s /\ \A i \in 2 .. m : g[i] = g[i - 1] \o s
    <3>1. \A i \in 1 .. m : f[i] = s
      OBVIOUS
    <3>2. 1 \in 1 .. m /\ \A i \in 2 .. m : i \in 1 .. m
      BY <1>4
    <3> HIDE DEF f
    <3> QED
      BY <2>1, <3>1, <3>2
  <2> DEFINE T == {n \in 1 .. m : ~(g[n] \in Seq(S) /\ Count(g[n], b) = n * Count(s, b))}
  <2>3. T = {}
    <3> SUFFICES ASSUME T # {} PROVE FALSE
      OBVIOUS
    <3>1. T \in SUBSET Nat
      OBVIOUS
    <3>2. PICK n \in T : \A k \in T : n <= k
      <4> HIDE DEF T
      <4> QED
        BY <3>1, LeastOf
    <3>3. n \in 1 .. m /\ ~(g[n] \in Seq(S) /\ Count(g[n], b) = n * Count(s, b))
      OBVIOUS
    <3>4. CASE n = 1
      BY <1>2, <2>2, <3>3, <3>4
    <3>5. CASE n # 1
      <4>1. n \in 2 .. m /\ n - 1 \in 1 .. m
        BY <3>3, <3>5
      <4>2. n - 1 \notin T
        <5> HIDE DEF T
        <5> QED
          BY <3>2, <4>1
      <4>3. g[n - 1] \in Seq(S) /\ Count(g[n - 1], b) = (n - 1) * Count(s, b)
        BY <4>1, <4>2
      <4>4. /\ g[n - 1] \o s \in Seq(S)
            /\ Count(g[n - 1] \o s, b) = Count(g[n - 1], b) + Count(s, b)
        BY <4>3, CountConcat
      <4>5. (n - 1) * Count(s, b) + Count(s, b) = n * Count(s, b)
        BY <1>2, <4>1
      <4> HIDE DEF T
      <4> QED
        BY <2>2, <3>3, <4>1, <4>3, <4>4, <4>5
    <3> QED
      BY <3>4, <3>5
  <2>4. m \in 1 .. m
    BY <1>4
  <2>5. m \notin T
    <3> HIDE DEF T
    <3> QED
      BY <2>3
  <2>6. g[m] \in Seq(S) /\ Count(g[m], b) = m * Count(s, b)
    BY <2>4, <2>5
  <2> QED
    BY <1>1, <2>1, <2>6
<1> QED
  BY <1>3, <1>4

LEMMA CountListed ==
    ASSUME NEW s, NEW S, Lists(s, S), NEW b
    PROVE  Count(s, b) = IF b \in S THEN 1 ELSE 0
<1> DEFINE C == {c \in DOMAIN s : s[c] = b}
<1>1. CASE b \in S
  <2>1. PICK p \in DOMAIN s : s[p] = b
    BY <1>1 DEF Lists
  <2>2. C = {p}
    BY <2>1 DEF Lists
  <2>3. Cardinality({p}) = 1
    BY FS_Singleton
  <2> QED
    BY <1>1, <2>2, <2>3 DEF Count
<1>2. CASE b \notin S
  <2>1. C = {}
    <3>1. \A c \in DOMAIN s : s[c] \in S
      BY DEF Lists
    <3> QED
      BY <1>2, <3>1
  <2> QED
    BY <1>2, <2>1, FS_EmptySet DEF Count
<1> QED
  BY <1>1, <1>2

LEMMA PatternsList ==
    /\ Lists(<<2, 1, 3, 6, 4, 5, 7>>, 1 .. 7) /\ Lists(<<2, 6, 4>>, {2, 4, 6})
    /\ Lists(<<1, 4, 5>>, {1, 4, 5}) /\ Lists(<<4>>, {4})
    /\ Lists(<<2, 1, 3>>, {1, 2, 3}) /\ Lists(<<2>>, {2}) /\ Lists(<<1>>, {1})
<1>1. Lists(<<4>>, {4}) /\ Lists(<<2>>, {2}) /\ Lists(<<1>>, {1})
  BY ListsOne
<1>2. Lists(<<2, 6, 4>>, {2, 4, 6})
  <2> DEFINE s == <<2, 6, 4>>
  <2>1. s \in Seq({2, 4, 6}) /\ DOMAIN s = {1, 2, 3} /\ s[1] = 2 /\ s[2] = 6 /\ s[3] = 4
    OBVIOUS
  <2> HIDE DEF s
  <2>2. Lists(s, {2, 4, 6})
    BY <2>1 DEF Lists
  <2> QED
    BY <2>2 DEF s
<1>3. Lists(<<1, 4, 5>>, {1, 4, 5})
  <2> DEFINE s == <<1, 4, 5>>
  <2>1. s \in Seq({1, 4, 5}) /\ DOMAIN s = {1, 2, 3} /\ s[1] = 1 /\ s[2] = 4 /\ s[3] = 5
    OBVIOUS
  <2> HIDE DEF s
  <2>2. Lists(s, {1, 4, 5})
    BY <2>1 DEF Lists
  <2> QED
    BY <2>2 DEF s
<1>4. Lists(<<2, 1, 3>>, {1, 2, 3})
  <2> DEFINE s == <<2, 1, 3>>
  <2>1. s \in Seq({1, 2, 3}) /\ DOMAIN s = {1, 2, 3} /\ s[1] = 2 /\ s[2] = 1 /\ s[3] = 3
    OBVIOUS
  <2> HIDE DEF s
  <2>2. Lists(s, {1, 2, 3})
    BY <2>1 DEF Lists
  <2> QED
    BY <2>2 DEF s
<1>5. Lists(<<2, 1, 3, 6, 4, 5, 7>>, 1 .. 7)
  <2> DEFINE s == <<2, 1, 3, 6, 4, 5, 7>>
  <2>1. s \in Seq(1 .. 7) /\ DOMAIN s = {1, 2, 3, 4, 5, 6, 7}
        /\ s[1] = 2 /\ s[2] = 1 /\ s[3] = 3 /\ s[4] = 6 /\ s[5] = 4 /\ s[6] = 5 /\ s[7] = 7
    OBVIOUS
  <2> HIDE DEF s
  <2>2. \A b \in 1 .. 7 : b = 1 \/ b = 2 \/ b = 3 \/ b = 4 \/ b = 5 \/ b = 6 \/ b = 7
    OBVIOUS
  <2>3. \A b \in 1 .. 7 : \E p \in DOMAIN s : s[p] = b
    BY <2>1, <2>2
  <2>4. \A p, q \in DOMAIN s : s[p] = s[q] => p = q
    BY <2>1
  <2>5. Lists(s, 1 .. 7)
    BY <2>1, <2>3, <2>4 DEF Lists
  <2> QED
    BY <2>5 DEF s
<1> QED
  BY <1>1, <1>2, <1>3, <1>4, <1>5

(* A level has at least as many nodal places as coefficients in a direction. *)
Halves(fine, coarse) ==
    /\ fine[1] - coarse[1] <= coarse[1]
    /\ fine[2] - coarse[2] <= coarse[2]
    /\ fine[3] - coarse[3] <= coarse[3]

Mixed(m, r, p, q) == m * p + r * q

LEMMA CountAlternate ==
    ASSUME NEW d, NEW fine, NEW coarse, Nested(d, fine, coarse), Halves(fine, coarse),
           NEW x \in 1 .. 3, NEW S, NEW both \in Seq(S), NEW nodalOnly \in Seq(S), NEW b
    PROVE  /\ Alternate(fine, coarse, x, both, nodalOnly) \in Seq(S)
           /\ Count(Alternate(fine, coarse, x, both, nodalOnly), b)
                  = Mixed(fine[x] - coarse[x], coarse[x] - (fine[x] - coarse[x]),
                          Count(both, b), Count(nodalOnly, b))
<1> DEFINE m == fine[x] - coarse[x]
           r == coarse[x] - (fine[x] - coarse[x])
<1>1. m \in Nat /\ r \in Nat
  <2>1. x = 1 \/ x = 2 \/ x = 3
    OBVIOUS
  <2>2. /\ coarse[x] \in Nat /\ fine[x] \in Nat /\ coarse[x] <= fine[x]
        /\ fine[x] - coarse[x] <= coarse[x]
    BY <2>1 DEF Nested, Halves, Sized
  <2> QED
    BY <2>2
<1> HIDE DEF m, r
<1>2. /\ Repeat(m, both) \in Seq(S) /\ Count(Repeat(m, both), b) = m * Count(both, b)
      /\ Repeat(r, nodalOnly) \in Seq(S)
      /\ Count(Repeat(r, nodalOnly), b) = r * Count(nodalOnly, b)
  BY <1>1, CountRepeat
<1>3. /\ Repeat(m, both) \o Repeat(r, nodalOnly) \in Seq(S)
      /\ Count(Repeat(m, both) \o Repeat(r, nodalOnly), b)
             = Count(Repeat(m, both), b) + Count(Repeat(r, nodalOnly), b)
  BY <1>2, CountConcat
<1> QED
  BY <1>2, <1>3 DEF Alternate, Mixed, m, r

(* The sums of products that the patterns add up to, for each box: for every *)
(* direction m coefficients and r more nodal places.                        *)
Mixture(m1, r1, m2, r2, m3, r3, a, b, c, d, e, f, g) ==
    Mixed(m1, r1, Mixed(m2, r2, Mixed(m3, r3, a, b), Mixed(m3, r3, c, d)),
                  Mixed(m2, r2, Mixed(m3, r3, e, f), Mixed(m3, r3, g, 0)))

MixturesAre(m1, r1, m2, r2, m3, r3) ==
    /\ Mixture(m1, r1, m2, r2, m3, r3, 1, 0, 1, 0, 1, 0, 1) = (m1 + r1) * (m2 + r2) * m3
    /\ Mixture(m1, r1, m2, r2, m3, r3, 1, 1, 0, 0, 1, 1, 0) = (m1 + r1) * m2 * (m3 + r3)
    /\ Mixture(m1, r1, m2, r2, m3, r3, 1, 0, 0, 0, 1, 0, 0) = (m1 + r1) * m2 * m3
    /\ Mixture(m1, r1, m2, r2, m3, r3, 1, 1, 1, 1, 0, 0, 0) = m1 * (m2 + r2) * (m3 + r3)
    /\ Mixture(m1, r1, m2, r2, m3, r3, 1, 0, 1, 0, 0, 0, 0) = m1 * (m2 + r2) * m3
    /\ Mixture(m1, r1, m2, r2, m3, r3, 1, 1, 0, 0, 0, 0, 0) = m1 * m2 * (m3 + r3)
    /\ Mixture(m1, r1, m2, r2, m3, r3, 1, 0, 0, 0, 0, 0, 0) = m1 * m2 * m3

LEMMA Mixtures ==
    ASSUME NEW m1 \in Nat, NEW r1 \in Nat, NEW m2 \in Nat, NEW r2 \in Nat,
           NEW m3 \in Nat, NEW r3 \in Nat
    PROVE  MixturesAre(m1, r1, m2, r2, m3, r3)
<1>1. Mixture(m1, r1, m2, r2, m3, r3, 1, 0, 1, 0, 1, 0, 1) = (m1 + r1) * (m2 + r2) * m3
  BY DEF Mixture, Mixed
<1>2. Mixture(m1, r1, m2, r2, m3, r3, 1, 1, 0, 0, 1, 1, 0) = (m1 + r1) * m2 * (m3 + r3)
  BY DEF Mixture, Mixed
<1>3. Mixture(m1, r1, m2, r2, m3, r3, 1, 0, 0, 0, 1, 0, 0) = (m1 + r1) * m2 * m3
  BY DEF Mixture, Mixed
<1>4. Mixture(m1, r1, m2, r2, m3, r3, 1, 1, 1, 1, 0, 0, 0) = m1 * (m2 + r2) * (m3 + r3)
  BY DEF Mixture, Mixed
<1>5. Mixture(m1, r1, m2, r2, m3, r3, 1, 0, 1, 0, 0, 0, 0) = m1 * (m2 + r2) * m3
  BY DEF Mixture, Mixed
<1>6. Mixture(m1, r1, m2, r2, m3, r3, 1, 1, 0, 0, 0, 0, 0) = m1 * m2 * (m3 + r3)
  BY DEF Mixture, Mixed
<1>7. Mixture(m1, r1, m2, r2, m3, r3, 1, 0, 0, 0, 0, 0, 0) = m1 * m2 * m3
  BY DEF Mixture, Mixed
<1> QED
  BY <1>1, <1>2, <1>3, <1>4, <1>5, <1>6, <1>7 DEF MixturesAre

LEMMA PicksCount ==
    ASSUME NEW d, NEW fine, NEW coarse, Nested(d, fine, coarse), Halves(fine, coarse),
           NEW b \in 1 .. 7
    PROVE  /\ Picks(fine, coarse) \in Seq(1 .. 7)
           /\ Count(Picks(fine, coarse), b) = Product(BoxDims(fine, coarse, b))
<1> DEFINE l0 == <<>>
           l1 == <<2, 1, 3, 6, 4, 5, 7>>
           l2 == <<2, 6, 4>>
           l3 == <<1, 4, 5>>
           l4 == <<4>>
           l5 == <<2, 1, 3>>
           l6 == <<2>>
           l7 == <<1>>
           m(x) == fine[x] - coarse[x]
           r(x) == coarse[x] - (fine[x] - coarse[x])
           alt(x, s, t) == Alternate(fine, coarse, x, s, t)
           mix(x, p, q) == Mixed(m(x), r(x), p, q)
<1>1. /\ l0 \in Seq(1 .. 7) /\ l1 \in Seq(1 .. 7) /\ l2 \in Seq(1 .. 7) /\ l3 \in Seq(1 .. 7)
      /\ l4 \in Seq(1 .. 7) /\ l5 \in Seq(1 .. 7) /\ l6 \in Seq(1 .. 7) /\ l7 \in Seq(1 .. 7)
  OBVIOUS
<1>2. ASSUME NEW x \in 1 .. 3, NEW s \in Seq(1 .. 7), NEW t \in Seq(1 .. 7)
      PROVE  alt(x, s, t) \in Seq(1 .. 7)
             /\ Count(alt(x, s, t), b) = mix(x, Count(s, b), Count(t, b))
  BY CountAlternate
<1>3. 1 \in 1 .. 3 /\ 2 \in 1 .. 3 /\ 3 \in 1 .. 3
  OBVIOUS
<1> DEFINE p1 == Count(l1, b)
           p2 == Count(l2, b)
           p3 == Count(l3, b)
           p4 == Count(l4, b)
           p5 == Count(l5, b)
           p6 == Count(l6, b)
           p7 == Count(l7, b)
           s1 == alt(3, l1, l2)
           s2 == alt(3, l3, l4)
           s3 == alt(3, l5, l6)
           s4 == alt(3, l7, l0)
           t1 == alt(2, s1, s2)
           t2 == alt(2, s3, s4)
<1>4. Picks(fine, coarse) = alt(1, t1, t2)
  BY DEF Picks
<1>5. /\ s1 \in Seq(1 .. 7) /\ Count(s1, b) = mix(3, p1, p2)
      /\ s2 \in Seq(1 .. 7) /\ Count(s2, b) = mix(3, p3, p4)
      /\ s3 \in Seq(1 .. 7) /\ Count(s3, b) = mix(3, p5, p6)
      /\ s4 \in Seq(1 .. 7) /\ Count(s4, b) = mix(3, p7, 0)
  <2>1. Count(l0, b) = 0
    BY CountNothing
  <2> HIDE DEF l0, l1, l2, l3, l4, l5, l6, l7, alt, mix
  <2> QED
    BY <1>1, <1>2, <1>3, <2>1
<1>6. /\ t1 \in Seq(1 .. 7) /\ Count(t1, b) = mix(2, mix(3, p1, p2), mix(3, p3, p4))
      /\ t2 \in Seq(1 .. 7) /\ Count(t2, b) = mix(2, mix(3, p5, p6), mix(3, p7, 0))
  <2> HIDE DEF s1, s2, s3, s4, alt, mix, p1, p2, p3, p4, p5, p6, p7
  <2> QED
    BY <1>2, <1>3, <1>5
<1>7. /\ Picks(fine, coarse) \in Seq(1 .. 7)
      /\ Count(Picks(fine, coarse), b) =
             mix(1, mix(2, mix(3, p1, p2), mix(3, p3, p4)), mix(2, mix(3, p5, p6), mix(3, p7, 0)))
  <2> HIDE DEF t1, t2, alt, mix, p1, p2, p3, p4, p5, p6, p7
  <2> QED
    BY <1>2, <1>3, <1>4, <1>6
<1>8. /\ p1 = 1
      /\ p2 = IF b \in {2, 4, 6} THEN 1 ELSE 0
      /\ p3 = IF b \in {1, 4, 5} THEN 1 ELSE 0
      /\ p4 = IF b \in {4} THEN 1 ELSE 0
      /\ p5 = IF b \in {1, 2, 3} THEN 1 ELSE 0
      /\ p6 = IF b \in {2} THEN 1 ELSE 0
      /\ p7 = IF b \in {1} THEN 1 ELSE 0
  <2>1. /\ Lists(l1, 1 .. 7) /\ Lists(l2, {2, 4, 6}) /\ Lists(l3, {1, 4, 5}) /\ Lists(l4, {4})
        /\ Lists(l5, {1, 2, 3}) /\ Lists(l6, {2}) /\ Lists(l7, {1})
    BY PatternsList
  <2> HIDE DEF l0, l1, l2, l3, l4, l5, l6, l7
  <2>2. p1 = IF b \in 1 .. 7 THEN 1 ELSE 0
    BY <2>1, CountListed
  <2> QED
    BY <2>1, <2>2, CountListed
<1> DEFINE count == Mixture(m(1), r(1), m(2), r(2), m(3), r(3), p1, p2, p3, p4, p5, p6, p7)
<1>9. Count(Picks(fine, coarse), b) = count
  BY <1>7 DEF Mixture
<1>10. \A x \in 1 .. 3 : m(x) \in Nat /\ r(x) \in Nat /\ m(x) + r(x) = coarse[x]
  <2> SUFFICES ASSUME NEW x \in 1 .. 3
               PROVE  m(x) \in Nat /\ r(x) \in Nat /\ m(x) + r(x) = coarse[x]
    OBVIOUS
  <2>1. x = 1 \/ x = 2 \/ x = 3
    OBVIOUS
  <2>2. /\ coarse[x] \in Nat /\ fine[x] \in Nat /\ coarse[x] <= fine[x]
        /\ fine[x] - coarse[x] <= coarse[x]
    BY <2>1 DEF Nested, Halves, Sized
  <2> QED
    BY <2>2
<1> DEFINE side(x) == IF x \in Beyond[b] THEN m(x) ELSE m(x) + r(x)
<1>11. Product(BoxDims(fine, coarse, b)) = side(1) * side(2) * side(3)
  <2> DEFINE n == BoxDims(fine, coarse, b)
  <2>1. \A x \in 1 .. 3 : n[x] = IF x \in Beyond[b] THEN m(x) ELSE coarse[x]
    BY BoxSized
  <2>2. n[1] = side(1) /\ n[2] = side(2) /\ n[3] = side(3)
    <3> HIDE DEF n, m, r
    <3> QED
      BY <1>3, <1>10, <2>1
  <2>3. Product(n) = n[1] * n[2] * n[3]
    BY DEF Product
  <2> HIDE DEF n, side
  <2>4. Product(n) = side(1) * side(2) * side(3)
    BY <2>2, <2>3
  <2> QED
    BY <2>4 DEF n
<1> HIDE DEF m, r, p1, p2, p3, p4, p5, p6, p7
<1>12. /\ m(1) \in Nat /\ r(1) \in Nat /\ m(2) \in Nat /\ r(2) \in Nat
       /\ m(3) \in Nat /\ r(3) \in Nat
  BY <1>3, <1>10
<1>13. /\ Beyond[1] = {3} /\ Beyond[2] = {2} /\ Beyond[3] = {2, 3} /\ Beyond[4] = {1}
       /\ Beyond[5] = {1, 3} /\ Beyond[6] = {1, 2} /\ Beyond[7] = {1, 2, 3}
  BY DEF Beyond
<1>14. MixturesAre(m(1), r(1), m(2), r(2), m(3), r(3))
  BY <1>12, Mixtures
<1>15. count = side(1) * side(2) * side(3)
  <2>1. CASE b = 1
    <3>1. p1 = 1 /\ p2 = 0 /\ p3 = 1 /\ p4 = 0 /\ p5 = 1 /\ p6 = 0 /\ p7 = 1
      BY <1>8, <2>1
    <3>2. side(1) = m(1) + r(1) /\ side(2) = m(2) + r(2) /\ side(3) = m(3)
      BY <1>13, <2>1
    <3>3. Mixture(m(1), r(1), m(2), r(2), m(3), r(3), 1, 0, 1, 0, 1, 0, 1)
              = (m(1) + r(1)) * (m(2) + r(2)) * m(3)
      BY <1>14, Zenon DEF MixturesAre
    <3> HIDE DEF side
    <3> QED
      BY <3>1, <3>2, <3>3
  <2>2. CASE b = 2
    <3>1. p1 = 1 /\ p2 = 1 /\ p3 = 0 /\ p4 = 0 /\ p5 = 1 /\ p6 = 1 /\ p7 = 0
      BY <1>8, <2>2
    <3>2. side(1) = m(1) + r(1) /\ side(2) = m(2) /\ side(3) = m(3) + r(3)
      BY <1>13, <2>2
    <3>3. Mixture(m(1), r(1), m(2), r(2), m(3), r(3), 1, 1, 0, 0, 1, 1, 0)
              = (m(1) + r(1)) * m(2) * (m(3) + r(3))
      BY <1>14, Zenon DEF MixturesAre
    <3> HIDE DEF side
    <3> QED
      BY <3>1, <3>2, <3>3
  <2>3. CASE b = 3
    <3>1. p1 = 1 /\ p2 = 0 /\ p3 = 0 /\ p4 = 0 /\ p5 = 1 /\ p6 = 0 /\ p7 = 0
      BY <1>8, <2>3
    <3>2. side(1) = m(1) + r(1) /\ side(2) = m(2) /\ side(3) = m(3)
      BY <1>13, <2>3
    <3>3. Mixture(m(1), r(1), m(2), r(2), m(3), r(3), 1, 0, 0, 0, 1, 0, 0)
              = (m(1) + r(1)) * m(2) * m(3)
      BY <1>14, Zenon DEF MixturesAre
    <3> HIDE DEF side
    <3> QED
      BY <3>1, <3>2, <3>3
  <2>4. CASE b = 4
    <3>1. p1 = 1 /\ p2 = 1 /\ p3 = 1 /\ p4 = 1 /\ p5 = 0 /\ p6 = 0 /\ p7 = 0
      BY <1>8, <2>4
    <3>2. side(1) = m(1) /\ side(2) = m(2) + r(2) /\ side(3) = m(3) + r(3)
      BY <1>13, <2>4
    <3>3. Mixture(m(1), r(1), m(2), r(2), m(3), r(3), 1, 1, 1, 1, 0, 0, 0)
              = m(1) * (m(2) + r(2)) * (m(3) + r(3))
      BY <1>14, Zenon DEF MixturesAre
    <3> HIDE DEF side
    <3> QED
      BY <3>1, <3>2, <3>3
  <2>5. CASE b = 5
    <3>1. p1 = 1 /\ p2 = 0 /\ p3 = 1 /\ p4 = 0 /\ p5 = 0 /\ p6 = 0 /\ p7 = 0
      BY <1>8, <2>5
    <3>2. side(1) = m(1) /\ side(2) = m(2) + r(2) /\ side(3) = m(3)
      BY <1>13, <2>5
    <3>3. Mixture(m(1), r(1), m(2), r(2), m(3), r(3), 1, 0, 1, 0, 0, 0, 0)
              = m(1) * (m(2) + r(2)) * m(3)
      BY <1>14, Zenon DEF MixturesAre
    <3> HIDE DEF side
    <3> QED
      BY <3>1, <3>2, <3>3
  <2>6. CASE b = 6
    <3>1. p1 = 1 /\ p2 = 1 /\ p3 = 0 /\ p4 = 0 /\ p5 = 0 /\ p6 = 0 /\ p7 = 0
      BY <1>8, <2>6
    <3>2. side(1) = m(1) /\ side(2) = m(2) /\ side(3) = m(3) + r(3)
      BY <1>13, <2>6
    <3>3. Mixture(m(1), r(1), m(2), r(2), m(3), r(3), 1, 1, 0, 0, 0, 0, 0)
              = m(1) * m(2) * (m(3) + r(3))
      BY <1>14, Zenon DEF MixturesAre
    <3> HIDE DEF side
    <3> QED
      BY <3>1, <3>2, <3>3
  <2>7. CASE b = 7
    <3>1. p1 = 1 /\ p2 = 0 /\ p3 = 0 /\ p4 = 0 /\ p5 = 0 /\ p6 = 0 /\ p7 = 0
      BY <1>8, <2>7
    <3>2. side(1) = m(1) /\ side(2) = m(2) /\ side(3) = m(3)
      BY <1>13, <2>7
    <3>3. Mixture(m(1), r(1), m(2), r(2), m(3), r(3), 1, 0, 0, 0, 0, 0, 0)
              = m(1) * m(2) * m(3)
      BY <1>14, Zenon DEF MixturesAre
    <3> HIDE DEF side
    <3> QED
      BY <3>1, <3>2, <3>3
  <2> QED
    BY <2>1, <2>2, <2>3, <2>4, <2>5, <2>6, <2>7
<1> QED
  BY <1>7, <1>9, <1>11, <1>15

-----------------------------------------------------------------------------
(* The order of the SFC interleaver                                         *)

OrdinalsNumber(picks) ==
    LET ordinals == Ordinals(picks)
    IN  /\ DOMAIN ordinals = DOMAIN picks
        /\ \A c \in DOMAIN picks : ordinals[c] \in 1 .. Count(picks, picks[c])
        /\ \A c, e \in DOMAIN picks :
               picks[c] = picks[e] /\ ordinals[c] = ordinals[e] => c = e
        /\ \A b \in 1 .. 7 : \A k \in 1 .. Count(picks, b) :
               \E c \in DOMAIN picks : picks[c] = b /\ ordinals[c] = k

(* The picks of a box are numbered from 1 up to how many there are.          *)
LEMMA OrdinalsFacts ==
    ASSUME NEW picks \in Seq(1 .. 7)
    PROVE  OrdinalsNumber(picks)
<1> DEFINE ordinals == Ordinals(picks)
           upto(c) == {e \in 1 .. c : picks[e] = picks[c]}
           of(b) == {c \in DOMAIN picks : picks[c] = b}
<1>1. DOMAIN picks = 1 .. Len(picks) /\ Len(picks) \in Nat
  OBVIOUS
<1>2. DOMAIN ordinals = DOMAIN picks /\ \A c \in DOMAIN picks : ordinals[c] = Cardinality(upto(c))
  BY DEF Ordinals
<1>3. ASSUME NEW b
      PROVE  /\ IsFiniteSet(of(b)) /\ Count(picks, b) = Cardinality(of(b))
             /\ Count(picks, b) \in Nat
  BY CountNat DEF Count
<1>4. ASSUME NEW c \in DOMAIN picks
      PROVE  /\ upto(c) \subseteq of(picks[c]) /\ c \in upto(c)
             /\ IsFiniteSet(upto(c)) /\ ordinals[c] \in 1 .. Count(picks, picks[c])
  <2>1. upto(c) \subseteq of(picks[c]) /\ c \in upto(c)
    BY <1>1
  <2> DEFINE U == upto(c)
             F == of(picks[c])
  <2>2. ordinals[c] = Cardinality(U)
    BY <1>2
  <2>3. IsFiniteSet(F) /\ Count(picks, picks[c]) = Cardinality(F) /\ Cardinality(F) \in Nat
    BY <1>3
  <2> HIDE DEF U, F
  <2>4. U \in SUBSET F /\ c \in U
    BY <2>1 DEF U, F
  <2>5. IsFiniteSet(U) /\ Cardinality(U) <= Cardinality(F)
    BY <2>3, <2>4, FS_Subset
  <2>6. Cardinality(U) \in Nat /\ Cardinality(U) # 0
    BY <2>4, <2>5, FS_CardinalityType, FS_EmptySet
  <2>7. ordinals[c] \in 1 .. Count(picks, picks[c])
    <3> HIDE DEF ordinals
    <3> QED
      BY <2>2, <2>3, <2>5, <2>6
  <2> QED
    BY <2>1, <2>5, <2>7 DEF U
<1>5. ASSUME NEW c \in DOMAIN picks, NEW e \in DOMAIN picks, picks[c] = picks[e], c < e
      PROVE  ordinals[c] # ordinals[e]
  <2>1. upto(c) \subseteq upto(e)
    BY <1>1, <1>5
  <2>2. e \notin upto(c)
    BY <1>1, <1>5
  <2>3. IsFiniteSet(upto(e)) /\ e \in upto(e)
    BY <1>4
  <2> DEFINE U == upto(c)
             V == upto(e)
  <2>4. U \in SUBSET V /\ U # V /\ IsFiniteSet(V)
    BY <2>1, <2>2, <2>3
  <2>5. ordinals[c] = Cardinality(U) /\ ordinals[e] = Cardinality(V)
    BY <1>2
  <2> HIDE DEF U, V, ordinals
  <2>6. Cardinality(U) # Cardinality(V)
    BY <2>4, FS_Subset
  <2> QED
    BY <2>5, <2>6
<1>6. ASSUME NEW c \in DOMAIN picks, NEW e \in DOMAIN picks, picks[c] = picks[e],
             ordinals[c] = ordinals[e]
      PROVE  c = e
  <2>1. c < e \/ e < c \/ c = e
    BY <1>1
  <2> HIDE DEF ordinals
  <2> QED
    BY <1>5, <1>6, <2>1
<1>7. ASSUME NEW b \in 1 .. 7, NEW k \in 1 .. Count(picks, b)
      PROVE  \E c \in DOMAIN picks : picks[c] = b /\ ordinals[c] = k
  <2> DEFINE F == of(b)
             f == [c \in F |-> ordinals[c]]
             n == Count(picks, b)
  <2>1. IsFiniteSet(F) /\ n = Cardinality(F) /\ n \in Nat
    BY <1>3
  <2>2. \A c \in F : c \in DOMAIN picks /\ picks[c] = b
    OBVIOUS
  <2>3. f \in [F -> 1 .. n]
    BY <1>4, <2>2
  <2>4. \A c, e \in F : f[c] = f[e] => c = e
    <3> HIDE DEF ordinals, F
    <3> QED
      BY <1>6, <2>2
  <2>5. \A c \in F : f[c] = ordinals[c]
    OBVIOUS
  <2> HIDE DEF F, f, n, ordinals
  <2>6. f \in Injection(F, 1 .. n)
    BY <2>3, <2>4 DEF Injection, IsInjective
  <2>7. IsFiniteSet(1 .. n) /\ Cardinality(1 .. n) = n
    BY <2>1, UpTo
  <2>8. f \in Surjection(F, 1 .. n)
    BY <2>1, <2>6, <2>7, FS_Injection
  <2>9. \E c \in F : f[c] = k
    BY <2>8 DEF Surjection, n
  <2> QED
    BY <2>2, <2>5, <2>9
<1> HIDE DEF ordinals
<1>8. \A c \in DOMAIN picks : ordinals[c] \in 1 .. Count(picks, picks[c])
  BY <1>4
<1> QED
  BY <1>2, <1>6, <1>7, <1>8 DEF OrdinalsNumber, ordinals

(* The places in the order in which the coefficients are picked.             *)
Picked(d, fine, coarse) ==
    LET boxes == Boxes(d, fine, coarse, 1)
        picks == Picks(fine, coarse)
        ordinals == Ordinals(picks)
    IN  [c \in DOMAIN picks |-> boxes[picks[c]][ordinals[c]]]

(* The box from which coefficients are picked has as many as there are picks. *)
LEMMA BoxPicked ==
    ASSUME NEW d, NEW fine, NEW coarse, Nested(d, fine, coarse), Halves(fine, coarse),
           NEW b \in 1 .. 7
    PROVE  /\ Lists(Boxes(d, fine, coarse, 1)[b], PlacesOf(d, BoxCells(fine, coarse, b)))
           /\ Len(Boxes(d, fine, coarse, 1)[b]) = Count(Picks(fine, coarse), b)
<1>1. 1 \in Nat \ {0}
  OBVIOUS
<1>2. /\ Lists(Boxes(d, fine, coarse, 1)[b], PlacesOf(d, BoxCells(fine, coarse, b)))
      /\ Len(Boxes(d, fine, coarse, 1)[b]) = Product(BoxDims(fine, coarse, b))
  BY <1>1, BoxLists
<1>3. Count(Picks(fine, coarse), b) = Product(BoxDims(fine, coarse, b))
  BY PicksCount
<1> QED
  BY <1>2, <1>3

LEMMA PickedLists ==
    ASSUME NEW d, NEW fine, NEW coarse, Nested(d, fine, coarse), Halves(fine, coarse)
    PROVE  /\ Lists(Picked(d, fine, coarse), PlacesOf(d, Cells(fine) \ Cells(coarse)))
           /\ DOMAIN Picked(d, fine, coarse) = DOMAIN Picks(fine, coarse)
<1> DEFINE boxes == Boxes(d, fine, coarse, 1)
           picks == Picks(fine, coarse)
           ordinals == Ordinals(picks)
           order == [c \in DOMAIN picks |-> boxes[picks[c]][ordinals[c]]]
           S == PlacesOf(d, Cells(fine) \ Cells(coarse))
           P(b) == PlacesOf(d, BoxCells(fine, coarse, b))
<1>1. picks \in Seq(1 .. 7)
  <2>1. 1 \in 1 .. 7
    OBVIOUS
  <2> QED
    BY <2>1, PicksCount
<1>2. \A b \in 1 .. 7 : /\ Lists(boxes[b], P(b))
                        /\ Len(boxes[b]) = Count(picks, b)
  BY BoxPicked
<1>3. OrdinalsNumber(picks)
  BY <1>1, OrdinalsFacts
<1>4. /\ \A c \in DOMAIN picks : ordinals[c] \in 1 .. Count(picks, picks[c])
      /\ \A c, e \in DOMAIN picks :
             picks[c] = picks[e] /\ ordinals[c] = ordinals[e] => c = e
      /\ \A b \in 1 .. 7 : \A k \in 1 .. Count(picks, b) :
             \E c \in DOMAIN picks : picks[c] = b /\ ordinals[c] = k
  BY <1>3 DEF OrdinalsNumber
<1>5. /\ \A b \in 1 .. 7 : P(b) \subseteq S
      /\ \A b, e \in 1 .. 7 : \A x \in P(b) : x \in P(e) => b = e
      /\ \A x \in S : \E b \in 1 .. 7 : x \in P(b)
  BY BoxesPartition DEF PlacesOf
<1>6. \A c \in DOMAIN picks : picks[c] \in 1 .. 7
  BY <1>1
<1> HIDE DEF boxes, picks, ordinals, S, P
<1>7. \A b \in 1 .. 7 : /\ DOMAIN boxes[b] = 1 .. Count(picks, b)
                        /\ \A k \in 1 .. Count(picks, b) : boxes[b][k] \in P(b)
                        /\ \A x \in P(b) : \E k \in 1 .. Count(picks, b) : boxes[b][k] = x
                        /\ \A k, h \in 1 .. Count(picks, b) : boxes[b][k] = boxes[b][h] => k = h
  <2> SUFFICES ASSUME NEW b \in 1 .. 7
               PROVE  /\ DOMAIN boxes[b] = 1 .. Count(picks, b)
                      /\ \A k \in 1 .. Count(picks, b) : boxes[b][k] \in P(b)
                      /\ \A x \in P(b) : \E k \in 1 .. Count(picks, b) : boxes[b][k] = x
                      /\ \A k, h \in 1 .. Count(picks, b) : boxes[b][k] = boxes[b][h] => k = h
    OBVIOUS
  <2>1. boxes[b] \in Seq(P(b)) /\ Len(boxes[b]) = Count(picks, b)
    BY <1>2 DEF Lists
  <2>2. DOMAIN boxes[b] = 1 .. Count(picks, b) /\ \A k \in DOMAIN boxes[b] : boxes[b][k] \in P(b)
    BY <2>1
  <2> QED
    BY <1>2, <2>2 DEF Lists
<1>8. ASSUME NEW c \in DOMAIN picks PROVE order[c] \in P(picks[c]) /\ order[c] \in S
  BY <1>4, <1>5, <1>6, <1>7
<1>9. ASSUME NEW c \in DOMAIN picks, NEW e \in DOMAIN picks, order[c] = order[e] PROVE c = e
  <2>1. picks[c] = picks[e]
    BY <1>5, <1>6, <1>8, <1>9
  <2>2. boxes[picks[c]][ordinals[c]] = boxes[picks[c]][ordinals[e]]
    BY <1>9, <2>1
  <2>3. ordinals[c] = ordinals[e]
    <3>1. /\ ordinals[c] \in 1 .. Count(picks, picks[c])
          /\ ordinals[e] \in 1 .. Count(picks, picks[c])
      BY <1>4, <2>1
    <3>2. \A k, h \in 1 .. Count(picks, picks[c]) :
              boxes[picks[c]][k] = boxes[picks[c]][h] => k = h
      BY <1>6, <1>7
    <3> QED
      BY <2>2, <3>1, <3>2
  <2> QED
    BY <1>4, <2>1, <2>3
<1>10. ASSUME NEW x \in S PROVE \E c \in DOMAIN picks : order[c] = x
  <2>1. PICK b \in 1 .. 7 : x \in P(b)
    BY <1>5
  <2>2. PICK k \in 1 .. Count(picks, b) : boxes[b][k] = x
    BY <1>7, <2>1
  <2>3. PICK c \in DOMAIN picks : picks[c] = b /\ ordinals[c] = k
    BY <1>4
  <2> QED
    BY <2>2, <2>3
<1>11. order \in Seq(S) /\ DOMAIN order = DOMAIN picks
  <2>1. Len(picks) \in Nat /\ DOMAIN picks = 1 .. Len(picks)
    BY <1>1
  <2>2. order \in [1 .. Len(picks) -> S]
    BY <1>8, <2>1
  <2>3. DOMAIN order = DOMAIN picks
    OBVIOUS
  <2> HIDE DEF order
  <2> QED
    BY <2>1, <2>2, <2>3, FunctionIsSeq
<1>12. Picked(d, fine, coarse) = order
  BY DEF Picked, boxes, picks, ordinals
<1>13. Lists(order, S)
  <2> HIDE DEF order
  <2> QED
    BY <1>9, <1>10, <1>11 DEF Lists
<1> QED
  <2> HIDE DEF order
  <2> QED
    BY <1>11, <1>12, <1>13 DEF S, picks

(* Where the boxes begin in tmp_buffer.                                     *)
LEMMA PosFacts ==
    ASSUME NEW d, NEW fine, NEW coarse, Nested(d, fine, coarse)
    PROVE  /\ \A b \in 1 .. 7 : pos(fine, coarse)[b] \in Nat
           /\ pos(fine, coarse)[1] = 0
           /\ \A b \in 2 .. 7 : pos(fine, coarse)[b] =
                  pos(fine, coarse)[b - 1] + Product(BoxDims(fine, coarse, b - 1))
<1> DEFINE size(b) == Product(BoxDims(fine, coarse, b))
           P(at) == at = [b \in 1 .. 7 |-> IF b = 1 THEN 0 ELSE at[b - 1] + size(b - 1)]
           h == [b \in 1 .. 7 |-> IF b = 1 THEN 0
                                  ELSE IF b = 2 THEN size(1)
                                  ELSE IF b = 3 THEN size(1) + size(2)
                                  ELSE IF b = 4 THEN size(1) + size(2) + size(3)
                                  ELSE IF b = 5 THEN size(1) + size(2) + size(3) + size(4)
                                  ELSE IF b = 6 THEN size(1) + size(2) + size(3) + size(4) + size(5)
                                  ELSE size(1) + size(2) + size(3) + size(4) + size(5) + size(6)]
<1>1. \A b \in 1 .. 7 : size(b) \in Nat
  BY BoxSized, ProductNat
<1> HIDE DEF size
<1>2. P(h)
  <2>1. \A b \in 1 .. 7 : h[b] = IF b = 1 THEN 0 ELSE h[b - 1] + size(b - 1)
    <3> SUFFICES ASSUME NEW b \in 1 .. 7, b # 1 PROVE h[b] = h[b - 1] + size(b - 1)
      OBVIOUS
    <3>1. b = 2 \/ b = 3 \/ b = 4 \/ b = 5 \/ b = 6 \/ b = 7
      OBVIOUS
    <3>2. /\ h[1] = 0 /\ h[2] = size(1) /\ h[3] = size(1) + size(2)
          /\ h[4] = size(1) + size(2) + size(3)
          /\ h[5] = size(1) + size(2) + size(3) + size(4)
          /\ h[6] = size(1) + size(2) + size(3) + size(4) + size(5)
          /\ h[7] = size(1) + size(2) + size(3) + size(4) + size(5) + size(6)
      OBVIOUS
    <3>3. /\ 2 - 1 = 1 /\ 3 - 1 = 2 /\ 4 - 1 = 3 /\ 5 - 1 = 4 /\ 6 - 1 = 5 /\ 7 - 1 = 6
          /\ 1 \in 1 .. 7
      OBVIOUS
    <3>4. 0 + size(1) = size(1)
      BY <1>1, <3>3
    <3> HIDE DEF h
    <3> QED
      BY <3>1, <3>2, <3>3, <3>4
  <2>2. h = [b \in 1 .. 7 |-> h[b]]
    OBVIOUS
  <2> HIDE DEF h
  <2> QED
    BY <2>1, <2>2
<1> DEFINE at == CHOOSE at : P(at)
<1>3. P(at)
  <2> HIDE DEF P, h
  <2> QED
    BY <1>2
<1>4. pos(fine, coarse) = at
  BY DEF pos, size
<1> HIDE DEF at
<1>5. \A b \in 1 .. 7 : at[b] = IF b = 1 THEN 0 ELSE at[b - 1] + size(b - 1)
  <2> DEFINE g == [b \in 1 .. 7 |-> IF b = 1 THEN 0 ELSE at[b - 1] + size(b - 1)]
  <2>1. at = g
    BY <1>3
  <2>2. \A b \in 1 .. 7 : g[b] = IF b = 1 THEN 0 ELSE at[b - 1] + size(b - 1)
    OBVIOUS
  <2> HIDE DEF g, P
  <2> QED
    BY <2>1, <2>2
<1> HIDE DEF P
<1>6. /\ at[1] = 0 /\ at[2] = at[1] + size(1) /\ at[3] = at[2] + size(2)
      /\ at[4] = at[3] + size(3) /\ at[5] = at[4] + size(4) /\ at[6] = at[5] + size(5)
      /\ at[7] = at[6] + size(6)
  BY <1>5
<1>7. /\ size(1) \in Nat /\ size(2) \in Nat /\ size(3) \in Nat /\ size(4) \in Nat
      /\ size(5) \in Nat /\ size(6) \in Nat
  BY <1>1
<1>8. \A b \in 1 .. 7 : at[b] \in Nat
  <2>1. \A b \in 1 .. 7 : b = 1 \/ b = 2 \/ b = 3 \/ b = 4 \/ b = 5 \/ b = 6 \/ b = 7
    OBVIOUS
  <2>2. /\ at[1] \in Nat /\ at[2] \in Nat /\ at[3] \in Nat /\ at[4] \in Nat
        /\ at[5] \in Nat /\ at[6] \in Nat /\ at[7] \in Nat
    BY <1>6, <1>7
  <2> QED
    BY <2>1, <2>2
<1>9. \A b \in 2 .. 7 : at[b] = at[b - 1] + size(b - 1)
  BY <1>5
<1> QED
  BY <1>4, <1>6, <1>8, <1>9 DEF size

LEMMA SegmentsApart ==
    ASSUME NEW at, NEW size,
           \A b \in 1 .. 7 : at[b] \in Nat /\ size[b] \in Nat,
           \A b \in 2 .. 7 : at[b] = at[b - 1] + size[b - 1],
           NEW b \in 1 .. 7, NEW e \in 1 .. 7, NEW k \in 1 .. size[b],
           (at[b] + k) - at[e] \in 1 .. size[e]
    PROVE  b = e
<1>1. /\ at[2] = at[1] + size[1] /\ at[3] = at[2] + size[2] /\ at[4] = at[3] + size[3]
      /\ at[5] = at[4] + size[4] /\ at[6] = at[5] + size[5] /\ at[7] = at[6] + size[6]
  <2>1. /\ 2 \in 2 .. 7 /\ 3 \in 2 .. 7 /\ 4 \in 2 .. 7 /\ 5 \in 2 .. 7 /\ 6 \in 2 .. 7
        /\ 7 \in 2 .. 7
    OBVIOUS
  <2> QED
    BY <2>1
<1>2. /\ at[1] \in Nat /\ at[2] \in Nat /\ at[3] \in Nat /\ at[4] \in Nat
      /\ at[5] \in Nat /\ at[6] \in Nat /\ at[7] \in Nat
      /\ size[1] \in Nat /\ size[2] \in Nat /\ size[3] \in Nat /\ size[4] \in Nat
      /\ size[5] \in Nat /\ size[6] \in Nat /\ size[7] \in Nat
  OBVIOUS
<1>3. \A i \in 1 .. 7 : i = 1 \/ i = 2 \/ i = 3 \/ i = 4 \/ i = 5 \/ i = 6 \/ i = 7
  OBVIOUS
<1>4. \A i, j \in 1 .. 7 : i < j => at[i] + size[i] <= at[j]
  BY <1>1, <1>2, <1>3
<1>5. /\ at[b] \in Nat /\ at[e] \in Nat /\ size[b] \in Nat /\ size[e] \in Nat
  OBVIOUS
<1>6. b < e => at[b] + size[b] <= at[e]
  BY <1>4
<1>7. e < b => at[e] + size[e] <= at[b]
  BY <1>4
<1>8. b < e \/ e < b \/ b = e
  OBVIOUS
<1>9. /\ k \in Nat /\ k >= 1 /\ k <= size[b]
      /\ (at[b] + k) - at[e] >= 1 /\ (at[b] + k) - at[e] <= size[e]
  BY <1>5
<1> QED
  BY <1>5, <1>6, <1>7, <1>8, <1>9

(* Box by box, every coefficient of the buffer is put to the place it was    *)
(* picked from.                                                             *)
LEMMA PutToPlaces ==
    ASSUME NEW d, NEW fine, NEW coarse, Nested(d, fine, coarse), Halves(fine, coarse), NEW buffer
    PROVE  LET boxes == Boxes(d, fine, coarse, 1)
               picks == Picks(fine, coarse)
               at == pos(fine, coarse)
               ordinals == Ordinals(picks)
               cell(c) == at[picks[c]] + ordinals[c]
           IN  UNION {
                   {<<boxes[b][cell(c) - ReadFrom(at, b, picks)], buffer[c]>> :
                       c \in {c \in DOMAIN picks :
                                 cell(c) - ReadFrom(at, b, picks) \in DOMAIN boxes[b]}} :
                   b \in 1 .. 7}
               = {<<Picked(d, fine, coarse)[c], buffer[c]>> : c \in DOMAIN picks}
<1> DEFINE boxes == Boxes(d, fine, coarse, 1)
           picks == Picks(fine, coarse)
           at == pos(fine, coarse)
           ordinals == Ordinals(picks)
           cell(c) == at[picks[c]] + ordinals[c]
           size == [b \in 1 .. 7 |-> Count(picks, b)]
           order == Picked(d, fine, coarse)
           from(b) == ReadFrom(at, b, picks)
<1>1. picks \in Seq(1 .. 7)
  <2>1. 1 \in 1 .. 7
    OBVIOUS
  <2> QED
    BY <2>1, PicksCount
<1>2. \A b \in 1 .. 7 : DOMAIN boxes[b] = 1 .. size[b] /\ size[b] \in Nat
  <2> SUFFICES ASSUME NEW b \in 1 .. 7
               PROVE  DOMAIN boxes[b] = 1 .. size[b] /\ size[b] \in Nat
    OBVIOUS
  <2>1. Lists(boxes[b], PlacesOf(d, BoxCells(fine, coarse, b))) /\ Len(boxes[b]) = Count(picks, b)
    BY BoxPicked
  <2>2. size[b] = Count(picks, b)
    OBVIOUS
  <2> HIDE DEF boxes, picks, size
  <2>3. boxes[b] \in Seq(PlacesOf(d, BoxCells(fine, coarse, b)))
    BY <2>1 DEF Lists
  <2> QED
    BY <2>1, <2>2, <2>3
<1>3. /\ \A b \in 1 .. 7 : at[b] \in Nat
      /\ at[1] = 0
      /\ \A b \in 2 .. 7 : at[b] = at[b - 1] + size[b - 1]
  <2>1. \A b \in 2 .. 7 : b - 1 \in 1 .. 7
    OBVIOUS
  <2>2. \A b \in 1 .. 7 : size[b] = Product(BoxDims(fine, coarse, b))
    BY PicksCount
  <2> HIDE DEF size, picks
  <2> QED
    BY <2>1, <2>2, PosFacts
<1>4. \A b \in 1 .. 7 : from(b) = at[b]
  <2> SUFFICES ASSUME NEW b \in 1 .. 7 PROVE from(b) = at[b]
    OBVIOUS
  <2>1. CASE b = 1
    BY <1>3, <2>1 DEF ReadFrom
  <2>2. CASE b # 1
    <3>1. b \in 2 .. 7 /\ b - 1 \in 1 .. 7
      BY <2>2
    <3>2. size[b - 1] = Cardinality({c \in DOMAIN picks : picks[c] = b - 1})
      BY <3>1 DEF Count
    <3>3. from(b) = at[b - 1] + Cardinality({c \in DOMAIN picks : picks[c] = b - 1})
      BY <2>2 DEF ReadFrom
    <3> HIDE DEF from, at, picks, size
    <3> QED
      BY <1>3, <3>1, <3>2, <3>3
  <2> QED
    BY <2>1, <2>2
<1>5. \A c \in DOMAIN picks : picks[c] \in 1 .. 7 /\ ordinals[c] \in 1 .. size[picks[c]]
  <2>1. OrdinalsNumber(picks)
    BY <1>1, OrdinalsFacts
  <2>2. \A c \in DOMAIN picks : ordinals[c] \in 1 .. Count(picks, picks[c])
    BY <2>1 DEF OrdinalsNumber
  <2>3. \A c \in DOMAIN picks : picks[c] \in 1 .. 7
    BY <1>1
  <2>4. \A b \in 1 .. 7 : size[b] = Count(picks, b)
    OBVIOUS
  <2> HIDE DEF picks, ordinals, size
  <2> QED
    BY <2>2, <2>3, <2>4
<1>6. \A c \in DOMAIN picks : order[c] = boxes[picks[c]][ordinals[c]]
  BY DEF Picked
<1> HIDE DEF boxes, picks, at, ordinals, size, order, from
<1>7. ASSUME NEW c \in DOMAIN picks
      PROVE  /\ cell(c) - from(picks[c]) = ordinals[c]
             /\ cell(c) - from(picks[c]) \in DOMAIN boxes[picks[c]]
             /\ \A b \in 1 .. 7 : cell(c) - from(b) \in DOMAIN boxes[b] => b = picks[c]
  <2>1. picks[c] \in 1 .. 7 /\ ordinals[c] \in 1 .. size[picks[c]] /\ size[picks[c]] \in Nat
    BY <1>2, <1>5
  <2>2. at[picks[c]] \in Nat /\ from(picks[c]) = at[picks[c]]
    BY <1>3, <1>4, <2>1
  <2>3. cell(c) - from(picks[c]) = ordinals[c]
    BY <2>1, <2>2
  <2>4. cell(c) - from(picks[c]) \in DOMAIN boxes[picks[c]]
    BY <1>2, <2>1, <2>3
  <2>5. ASSUME NEW b \in 1 .. 7, cell(c) - from(b) \in DOMAIN boxes[b] PROVE b = picks[c]
    <3>1. (at[picks[c]] + ordinals[c]) - at[b] \in 1 .. size[b]
      BY <1>2, <1>4, <2>5
    <3> QED
      BY <1>2, <1>3, <2>1, <3>1, SegmentsApart
  <2> QED
    BY <2>3, <2>4, <2>5
<1> DEFINE part(b) == {<<boxes[b][cell(c) - from(b)], buffer[c]>> :
                          c \in {c \in DOMAIN picks : cell(c) - from(b) \in DOMAIN boxes[b]}}
           whole == {<<order[c], buffer[c]>> : c \in DOMAIN picks}
<1>8. ASSUME NEW z, z \in UNION {part(b) : b \in 1 .. 7} PROVE z \in whole
  <2>1. PICK b \in 1 .. 7 : z \in part(b)
    BY <1>8
  <2>2. PICK c \in DOMAIN picks : /\ cell(c) - from(b) \in DOMAIN boxes[b]
                                  /\ z = <<boxes[b][cell(c) - from(b)], buffer[c]>>
    BY <2>1
  <2>3. b = picks[c] /\ cell(c) - from(b) = ordinals[c]
    <3>1. b = picks[c]
      BY <1>7, <2>2
    <3> QED
      BY <1>7, <3>1
  <2>4. z = <<order[c], buffer[c]>>
    BY <1>6, <2>2, <2>3
  <2> QED
    BY <2>4
<1>9. ASSUME NEW z, z \in whole PROVE z \in UNION {part(b) : b \in 1 .. 7}
  <2>1. PICK c \in DOMAIN picks : z = <<order[c], buffer[c]>>
    BY <1>9
  <2> DEFINE b == picks[c]
  <2>2. b \in 1 .. 7 /\ cell(c) - from(b) = ordinals[c] /\ cell(c) - from(b) \in DOMAIN boxes[b]
    BY <1>5, <1>7
  <2>3. z = <<boxes[b][cell(c) - from(b)], buffer[c]>>
    BY <1>6, <2>1, <2>2
  <2>4. z \in part(b)
    <3> HIDE DEF b, cell
    <3> QED
      BY <2>2, <2>3
  <2> QED
    BY <2>2, <2>4
<1>10. UNION {part(b) : b \in 1 .. 7} = whole
  <2> HIDE DEF part, whole
  <2> QED
    BY <1>8, <1>9
<1> QED
  BY <1>10 DEF boxes, picks, at, ordinals, order, from

-----------------------------------------------------------------------------
(* The dimensions of the levels                                             *)

Halvings(n, d, m) ==
    n = [j \in 0 .. m |-> IF j = 0 THEN d ELSE [x \in 1 .. 3 |-> Halved(n[j - 1][x])]]

LEMMA HalvingsAt ==
    ASSUME NEW n, NEW d, NEW m, Halvings(n, d, m), NEW j \in 0 .. m
    PROVE  n[j] = IF j = 0 THEN d ELSE [x \in 1 .. 3 |-> Halved(n[j - 1][x])]
<1> DEFINE h == [k \in 0 .. m |-> IF k = 0 THEN d ELSE [x \in 1 .. 3 |-> Halved(n[k - 1][x])]]
<1>1. n = h
  BY Zenon DEF Halvings
<1>2. h[j] = IF j = 0 THEN d ELSE [x \in 1 .. 3 |-> Halved(n[j - 1][x])]
  OBVIOUS
<1> HIDE DEF h
<1>3. n[j] = h[j]
  BY <1>1
<1> QED
  BY <1>2, <1>3

LEMMA HalvingsExist ==
    ASSUME NEW d
    PROVE  \A m \in Nat : \E n : Halvings(n, d, m)
<1> DEFINE T == {m \in Nat : ~ \E n : Halvings(n, d, m)}
<1> SUFFICES ASSUME T # {} PROVE FALSE
  OBVIOUS
<1>1. PICK m \in T : \A k \in T : m <= k
  <2> HIDE DEF T
  <2>1. T \in SUBSET Nat
    BY DEF T
  <2> QED
    BY <2>1, LeastOf
<1>2. CASE m = 0
  <2> DEFINE h == [j \in 0 .. m |-> d]
  <2>1. h = [j \in 0 .. m |-> IF j = 0 THEN d ELSE [x \in 1 .. 3 |-> Halved(h[j - 1][x])]]
    BY <1>2
  <2>2. Halvings(h, d, m)
    <3> HIDE DEF h
    <3> QED
      BY <2>1 DEF Halvings
  <2> QED
    BY <1>1, <2>2
<1>3. CASE m # 0
  <2>1. m - 1 \in Nat /\ m - 1 \notin T
    <3> HIDE DEF T
    <3>1. m \in Nat
      BY DEF T
    <3> QED
      BY <1>1, <1>3, <3>1
  <2>2. PICK n : Halvings(n, d, m - 1)
    BY <2>1
  <2> DEFINE h == [j \in 0 .. m |-> IF j = 0 THEN d ELSE [x \in 1 .. 3 |-> Halved(n[j - 1][x])]]
  <2>3. \A j \in 0 .. m - 1 : h[j] = n[j]
    BY <1>1, <2>2, HalvingsAt
  <2>4. h = [j \in 0 .. m |-> IF j = 0 THEN d ELSE [x \in 1 .. 3 |-> Halved(h[j - 1][x])]]
    <3>1. \A j \in 0 .. m : h[j] = IF j = 0 THEN d ELSE [x \in 1 .. 3 |-> Halved(h[j - 1][x])]
      <4> SUFFICES ASSUME NEW j \in 0 .. m, j # 0
                   PROVE  h[j] = [x \in 1 .. 3 |-> Halved(h[j - 1][x])]
        OBVIOUS
      <4>1. j - 1 \in 0 .. m - 1
        BY <1>1
      <4>2. h[j - 1] = n[j - 1]
        BY <2>3, <4>1
      <4>3. h[j] = [x \in 1 .. 3 |-> Halved(n[j - 1][x])]
        OBVIOUS
      <4> HIDE DEF h
      <4> QED
        BY <4>2, <4>3
    <3> HIDE DEF h
    <3>2. h = [j \in 0 .. m |-> h[j]]
      BY DEF h
    <3> QED
      BY <3>1, <3>2
  <2>5. Halvings(h, d, m)
    <3> HIDE DEF h
    <3> QED
      BY <2>4 DEF Halvings
  <2> QED
    BY <1>1, <2>5
<1> QED
  BY <1>2, <1>3

LEMMA HalvedBounds ==
    ASSUME NEW m \in Nat \ {0}
    PROVE  Halved(m) \in Nat \ {0} /\ Halved(m) <= m /\ m - Halved(m) <= Halved(m)
BY DEF Halved

Dimensions == [1 .. 3 -> Nat \ {0}]

LEMMA HalvingsShrink ==
    ASSUME NEW n, NEW d \in Dimensions, NEW m \in Nat, Halvings(n, d, m)
    PROVE  \A j \in 0 .. m : /\ n[j] \in Dimensions
                             /\ \A i \in 0 .. j, x \in 1 .. 3 : n[j][x] <= n[i][x]
<1> DEFINE Good(j) == /\ n[j] \in Dimensions
                      /\ \A i \in 0 .. j, x \in 1 .. 3 : n[j][x] <= n[i][x]
           T == {j \in 0 .. m : ~Good(j)}
<1> SUFFICES ASSUME T # {} PROVE FALSE
  OBVIOUS
<1>1. PICK j \in T : \A k \in T : j <= k
  <2>1. T \in SUBSET Nat
    OBVIOUS
  <2> HIDE DEF T
  <2> QED
    BY <2>1, LeastOf
<1>2. j \in 0 .. m /\ ~Good(j)
  OBVIOUS
<1>3. CASE j = 0
  <2>1. n[0] = d
    BY <1>2, <1>3, HalvingsAt
  <2>2. \A x \in 1 .. 3 : d[x] \in Nat
    BY DEF Dimensions
  <2>3. \A i \in 0 .. 0 : i = 0
    OBVIOUS
  <2>4. Good(0)
    BY <2>1, <2>2, <2>3
  <2> QED
    BY <1>2, <1>3, <2>4
<1>4. CASE j # 0
  <2>1. j - 1 \in 0 .. m
    BY <1>2, <1>4
  <2>2. j - 1 \notin T
    <3>1. j - 1 < j
      BY <1>2
    <3> HIDE DEF T, Good
    <3> QED
      BY <1>1, <1>2, <2>1, <3>1
  <2>3. Good(j - 1)
    BY <2>1, <2>2
  <2>4. n[j] = [x \in 1 .. 3 |-> Halved(n[j - 1][x])]
    BY <1>2, <1>4, HalvingsAt
  <2>5. \A x \in 1 .. 3 : /\ n[j - 1][x] \in Nat \ {0}
                          /\ n[j][x] = Halved(n[j - 1][x])
    BY <2>3, <2>4 DEF Dimensions
  <2>6. \A x \in 1 .. 3 : n[j][x] \in Nat \ {0} /\ n[j][x] <= n[j - 1][x]
    BY <2>5, HalvedBounds
  <2>7. n[j] \in Dimensions
    BY <2>4, <2>5, <2>6 DEF Dimensions
  <2>8. ASSUME NEW i \in 0 .. j, NEW x \in 1 .. 3 PROVE n[j][x] <= n[i][x]
    <3>1. CASE i = j
      BY <2>6, <3>1
    <3>2. CASE i # j
      <4>1. i \in 0 .. j - 1 /\ i \in 0 .. m
        BY <1>2, <3>2
      <4>2. n[j - 1][x] <= n[i][x]
        BY <2>3, <4>1
      <4>3. i \notin T
        <5>1. i < j
          BY <1>2, <3>2
        <5> HIDE DEF T, Good
        <5> QED
          BY <1>1, <1>2, <4>1, <5>1
      <4>4. n[i][x] \in Nat
        BY <4>1, <4>3 DEF Dimensions
      <4> QED
        BY <2>5, <2>6, <4>2, <4>4
    <3> QED
      BY <3>1, <3>2
  <2>9. Good(j)
    BY <2>7, <2>8
  <2> QED
    BY <1>2, <2>9
<1> QED
  BY <1>3, <1>4

(* Every level halves the next finer one, and the finest is the data.        *)
Levels(n, d, top) ==
    /\ d \in Dimensions /\ top \in Nat
    /\ n[top] = d
    /\ \A l \in 0 .. top : n[l] \in Dimensions
    /\ \A l \in 1 .. top, x \in 1 .. 3 : n[l - 1][x] = Halved(n[l][x])
    /\ \A l \in 0 .. top : \A m \in l .. top, x \in 1 .. 3 : n[l][x] <= n[m][x]

LEMMA LevelDimsFacts ==
    ASSUME NEW d \in Dimensions, NEW top \in Nat
    PROVE  Levels(LevelDims(d, top), d, top)
<1> DEFINE h == CHOOSE h : Halvings(h, d, top)
           n == [l \in 0 .. top |-> h[top - l]]
<1>1. LevelDims(d, top) = n
  BY DEF LevelDims, Halvings
<1>2. Halvings(h, d, top)
  BY HalvingsExist
<1> HIDE DEF h
<1>3. \A j \in 0 .. top : /\ h[j] \in Dimensions
                          /\ \A i \in 0 .. j, x \in 1 .. 3 : h[j][x] <= h[i][x]
  BY <1>2, HalvingsShrink
<1>4. n[top] = d
  <2>1. top - top = 0 /\ 0 \in 0 .. top /\ top \in 0 .. top
    OBVIOUS
  <2>2. h[0] = d
    BY <1>2, <2>1, HalvingsAt
  <2> QED
    BY <2>1, <2>2
<1>5. \A l \in 0 .. top : n[l] = h[top - l] /\ top - l \in 0 .. top
  OBVIOUS
<1> HIDE DEF n
<1>6. \A l \in 0 .. top : n[l] \in Dimensions
  BY <1>3, <1>5
<1>7. ASSUME NEW l \in 1 .. top, NEW x \in 1 .. 3 PROVE n[l - 1][x] = Halved(n[l][x])
  <2>1. l - 1 \in 0 .. top /\ l \in 0 .. top
    OBVIOUS
  <2> DEFINE j == top - (l - 1)
  <2>2. j \in 0 .. top /\ j # 0 /\ j - 1 = top - l
    OBVIOUS
  <2> HIDE DEF j
  <2>3. h[j] = [y \in 1 .. 3 |-> Halved(h[j - 1][y])]
    BY <1>2, <2>2, HalvingsAt
  <2>4. h[j][x] = Halved(h[j - 1][x])
    BY <2>3
  <2> QED
    BY <1>5, <2>1, <2>2, <2>4 DEF j
<1>8. ASSUME NEW l \in 0 .. top, NEW m \in l .. top, NEW x \in 1 .. 3
      PROVE  n[l][x] <= n[m][x]
  <2>1. m \in 0 .. top /\ top - m \in 0 .. top - l
    OBVIOUS
  <2>2. h[top - l][x] <= h[top - m][x]
    BY <1>3, <1>5, <2>1
  <2> QED
    BY <1>5, <2>1, <2>2
<1> QED
  BY <1>1, <1>4, <1>6, <1>7, <1>8 DEF Levels

-----------------------------------------------------------------------------
(* The invariant                                                            *)

(* The places of a level in the order of its buffer, as a set, and what is  *)
(* in the buffer; and the places of all levels before one.                  *)
Order(l) == IF InBoxes(l) THEN Picked(dims, level_dims[l], dims_coarse(l)) ELSE PlacesInOrder(l)
Own(l) == PlacesOf(dims, Cells(level_dims[l]) \ Cells(dims_coarse(l)))
Coefficients(l) == [c \in DOMAIN Order(l) |-> Datum(Order(l)[c])]
Reached(m) == IF m = 0 THEN {} ELSE PlacesOf(dims, Cells(level_dims[m - 1]))
WithData(S) == {<<x, Datum(x)>> : x \in S}
Filled == IF pc = "interleave" THEN level ELSE target_level + 1

InputInv ==
    /\ interleaver \in {"direct", "blocked", "sfc"}
    /\ Levels(level_dims, dims, target_level)

PhaseInv ==
    /\ pc \in {"interleave", "reposition", "done"}
    /\ level \in 0 .. target_level + 1
    /\ pc = "done" => level = target_level + 1

BuffersInv == buffers = [k \in 1 .. Filled |-> Coefficients(k - 1)]

OutInv == out = IF pc = "interleave" THEN {} ELSE WithData(Reached(level))

IInv == InputInv /\ PhaseInv /\ BuffersInv /\ OutInv

(* The levels of the input, level by level.                                 *)
LEMMA LevelFacts ==
    ASSUME InputInv, NEW l \in 0 .. target_level
    PROVE  /\ Nested(dims, level_dims[l], dims_coarse(l))
           /\ l = 0 => dims_coarse(l) = [x \in 1 .. 3 |-> 0]
           /\ l # 0 => /\ dims_coarse(l) = level_dims[l - 1]
                       /\ Product(dims_coarse(l)) # 0
                       /\ Halves(level_dims[l], dims_coarse(l))
<1>1. /\ dims \in Dimensions /\ target_level \in Nat /\ level_dims[target_level] = dims
      /\ level_dims[l] \in Dimensions
      /\ \A k \in 1 .. target_level, x \in 1 .. 3 : level_dims[k - 1][x] = Halved(level_dims[k][x])
      /\ \A x \in 1 .. 3 : level_dims[l][x] <= level_dims[target_level][x]
  BY DEF InputInv, Levels
<1>2. 1 \in 1 .. 3 /\ 2 \in 1 .. 3 /\ 3 \in 1 .. 3
  OBVIOUS
<1>3. ASSUME NEW n \in Dimensions
      PROVE  Sized(n) /\ n[1] \in Nat \ {0} /\ n[2] \in Nat \ {0} /\ n[3] \in Nat \ {0}
  BY <1>2 DEF Dimensions, Sized
<1>4. CASE l = 0
  <2>1. dims_coarse(l) = [x \in 1 .. 3 |-> 0]
    BY <1>4 DEF dims_coarse
  <2> DEFINE coarse == dims_coarse(l)
  <2>2. coarse[1] = 0 /\ coarse[2] = 0 /\ coarse[3] = 0
    BY <2>1
  <2> HIDE DEF coarse
  <2>3. Nested(dims, level_dims[l], coarse)
    BY <1>1, <1>2, <1>3, <2>2 DEF Nested, Sized
  <2> QED
    BY <1>4, <2>1, <2>3 DEF coarse
<1>5. CASE l # 0
  <2>1. dims_coarse(l) = level_dims[l - 1]
    BY <1>5 DEF dims_coarse
  <2>2. l \in 1 .. target_level /\ l - 1 \in 0 .. target_level
    BY <1>1, <1>5
  <2> DEFINE coarse == level_dims[l - 1]
             fine == level_dims[l]
  <2>3. coarse \in Dimensions
    BY <2>2 DEF InputInv, Levels
  <2>4. \A x \in 1 .. 3 : coarse[x] = Halved(fine[x]) /\ fine[x] <= dims[x]
    BY <1>1, <2>2
  <2>5. fine \in Dimensions
    BY <1>1
  <2> HIDE DEF coarse, fine
  <2>6. \A x \in 1 .. 3 : coarse[x] <= fine[x] /\ fine[x] - coarse[x] <= coarse[x]
    <3>1. \A x \in 1 .. 3 : fine[x] \in Nat \ {0}
      BY <2>5 DEF Dimensions
    <3> QED
      BY <2>4, <3>1, HalvedBounds
  <2>7. Nested(dims, fine, coarse)
    BY <1>1, <1>2, <1>3, <2>3, <2>4, <2>5, <2>6 DEF Nested
  <2>8. Halves(fine, coarse)
    BY <1>2, <2>6 DEF Halves
  <2>9. Product(coarse) # 0
    BY <1>3, <2>3, ProductPositive
  <2> QED
    BY <1>5, <2>1, <2>7, <2>8, <2>9 DEF coarse, fine
<1> QED
  BY <1>4, <1>5

LEMMA Zeros ==
    ASSUME NEW z, z = [x \in 1 .. 3 |-> 0]
    PROVE  Sized(z) /\ Cells(z) = {} /\ Product(z) = 0 /\ z[1] = 0 /\ z[2] = 0 /\ z[3] = 0
<1>1. z[1] = 0 /\ z[2] = 0 /\ z[3] = 0
  OBVIOUS
<1>2. Sized(z) /\ Product(z) = 0
  BY <1>1 DEF Sized, Product
<1>3. Cells(z) = {}
  <2> SUFFICES ASSUME NEW c \in Cells(z) PROVE FALSE
    OBVIOUS
  <2>1. c[1] \in 0 .. 0 - 1
    BY <1>1, <1>2, CellsAre
  <2> QED
    BY <2>1
<1> QED
  BY <1>1, <1>2, <1>3

(* A whole box, from its first cell on.                                     *)
LEMMA WholeBox ==
    ASSUME NEW fine, Sized(fine), NEW z, z = [x \in 1 .. 3 |-> 0],
           NEW n, n = [x \in 1 .. 3 |-> fine[x] - z[x]]
    PROVE  Sized(n) /\ Within(z, n) = Cells(fine)
<1>1. Sized(z) /\ z[1] = 0 /\ z[2] = 0 /\ z[3] = 0
  BY Zeros
<1>2. n[1] = fine[1] - z[1] /\ n[2] = fine[2] - z[2] /\ n[3] = fine[3] - z[3]
  OBVIOUS
<1>3. /\ fine[1] \in Nat /\ fine[2] \in Nat /\ fine[3] \in Nat
      /\ \A m \in Nat : m - 0 = m /\ 0 + m - 1 = m - 1
  BY DEF Sized
<1>4. n[1] = fine[1] /\ n[2] = fine[2] /\ n[3] = fine[3] /\ Sized(n)
  BY <1>1, <1>2, <1>3 DEF Sized
<1>5. Within(z, n) = Cells(fine)
  BY <1>1, <1>3, <1>4 DEF Within, Cells
<1> QED
  BY <1>4, <1>5

(* Every order lists the places of the level, and as many as its elements.   *)
LEMMA OrderLists ==
    ASSUME InputInv, NEW l \in 0 .. target_level
    PROVE  /\ Lists(Order(l), Own(l))
           /\ Len(Order(l)) = level_elements(l)
<1> DEFINE fine == level_dims[l]
           coarse == dims_coarse(l)
<1>1. Nested(dims, fine, coarse)
  BY LevelFacts
<1>2. /\ l = 0 => coarse = [x \in 1 .. 3 |-> 0]
      /\ l # 0 => Product(coarse) # 0 /\ Halves(fine, coarse)
  BY LevelFacts
<1>3. l = 0 => Product(coarse) = 0 /\ Cells(coarse) = {}
  <2> HIDE DEF coarse
  <2> QED
    BY <1>2, Zeros
<1>4. Own(l) = PlacesOf(dims, Cells(fine) \ Cells(coarse))
  BY DEF Own
<1>5. BlockSize \in Nat \ {0} /\ 1 \in Nat \ {0}
  BY InterleaverAssumption
<1>6. Cells(fine) \subseteq Cells(dims) /\ Cells(coarse) \subseteq Cells(fine)
  <2> HIDE DEF fine, coarse
  <2> QED
    BY <1>1, CellsNested DEF Nested
<1>7. ASSUME InBoxes(l) PROVE Lists(Order(l), Own(l))
  <2>1. Product(coarse) # 0
    BY <1>7 DEF InBoxes
  <2>2. Halves(fine, coarse)
    BY <1>2, <1>3, <2>1
  <2>3. Order(l) = Picked(dims, fine, coarse)
    BY <1>7 DEF Order
  <2> HIDE DEF fine, coarse
  <2> QED
    BY <1>1, <1>4, <2>2, <2>3, PickedLists
<1>8. ASSUME ~InBoxes(l) /\ interleaver = "direct" PROVE Lists(Order(l), Own(l))
  <2>1. Order(l) = Direct(dims, fine, coarse)
    BY <1>8 DEF Order, PlacesInOrder
  <2> HIDE DEF fine, coarse
  <2> QED
    BY <1>1, <1>4, <1>6, <2>1, DirectLists DEF Nested
<1>9. ASSUME ~InBoxes(l) /\ interleaver # "direct" /\ Product(coarse) = 0
      PROVE  Lists(Order(l), Own(l))
  <2> DEFINE z == [x \in 1 .. 3 |-> 0]
             n == [x \in 1 .. 3 |-> fine[x] - coarse[x]]
             size == IF interleaver = "sfc" THEN 1 ELSE BlockSize
  <2>1. Order(l) = Blocked(dims, z, n, size)
    BY <1>9 DEF Order, PlacesInOrder
  <2>2. l = 0
    BY <1>2, <1>9
  <2>3. coarse = z
    BY <1>2, <2>2
  <2>4. n = [x \in 1 .. 3 |-> fine[x] - z[x]]
    BY <2>3
  <2>5. size \in Nat \ {0}
    BY <1>5
  <2>6. Sized(z)
    <3>1. z = [x \in 1 .. 3 |-> 0]
      OBVIOUS
    <3> HIDE DEF z
    <3> QED
      BY <3>1, Zeros
  <2>7. z = [x \in 1 .. 3 |-> 0]
    OBVIOUS
  <2>8. Own(l) = PlacesOf(dims, Cells(fine))
    BY <1>3, <1>4, <2>2
  <2> HIDE DEF fine, coarse, z, n, size
  <2>9. Sized(n) /\ Within(z, n) = Cells(fine)
    BY <1>1, <2>4, <2>7, WholeBox DEF Nested
  <2>10. Lists(Blocked(dims, z, n, size), PlacesOf(dims, Within(z, n)))
    BY <1>1, <1>6, <2>5, <2>6, <2>9, BlockedLists DEF Nested
  <2> QED
    BY <2>1, <2>8, <2>9, <2>10
<1>10. ASSUME ~InBoxes(l) /\ interleaver # "direct" /\ Product(coarse) # 0
       PROVE  Lists(Order(l), Own(l))
  <2>1. Order(l) = FlattenSeq(Boxes(dims, fine, coarse, BlockSize))
    BY <1>10 DEF Order, PlacesInOrder
  <2> HIDE DEF fine, coarse
  <2> QED
    BY <1>1, <1>4, <1>5, <2>1, AllBoxesList
<1>11. Lists(Order(l), Own(l))
  <2> HIDE DEF fine, coarse
  <2> QED
    BY <1>7, <1>8, <1>9, <1>10
<1>12. Len(Order(l)) = level_elements(l)
  <2>1. level_elements(l) = Product(fine) - Product(coarse)
    <3>1. l = 0 => level_elements(l) = Product(fine) - 0
      BY DEF level_elements
    <3>2. l # 0 => level_elements(l) = Product(fine) - Product(level_dims[l - 1])
      BY DEF level_elements
    <3>3. l # 0 => coarse = level_dims[l - 1]
      BY LevelFacts
    <3> HIDE DEF fine, coarse
    <3> QED
      BY <1>3, <3>1, <3>2, <3>3
  <2> HIDE DEF fine, coarse
  <2>2. Sized(dims) /\ Sized(fine) /\ Sized(coarse)
    BY <1>1 DEF Nested
  <2>3. IsFiniteSet(Cells(fine)) /\ Cardinality(Cells(fine)) = Product(fine)
    BY <2>2, CellsCount
  <2>4. Cardinality(Cells(coarse)) = Product(coarse)
    BY <2>2, CellsCount
  <2>5. Cells(fine) \cap Cells(coarse) = Cells(coarse)
    BY <1>6
  <2>6. Cardinality(Cells(fine) \ Cells(coarse)) = Product(fine) - Product(coarse)
    BY <2>3, <2>4, <2>5, FS_Difference
  <2>7. Cardinality(Own(l)) = Cardinality(Cells(fine) \ Cells(coarse))
    BY <1>4, <1>6, <2>2, PlacesCount
  <2>8. Cardinality(Own(l)) = Len(Order(l))
    BY <1>11, ListsCount
  <2> QED
    BY <2>1, <2>6, <2>7, <2>8
<1> QED
  BY <1>11, <1>12

(* The places of the levels.                                                *)
LEMMA OwnPlaces ==
    ASSUME InputInv
    PROVE  /\ \A l \in 0 .. target_level : Own(l) \subseteq Places
           /\ \A l \in 0 .. target_level, m \in 0 .. target_level :
                  l < m => Own(l) \cap Own(m) = {}
           /\ \A l \in 0 .. target_level : Reached(l + 1) = Reached(l) \cup Own(l)
           /\ Reached(0) = {} /\ Reached(target_level + 1) = Places
           /\ \A m \in 0 .. target_level + 1 : Reached(m) \subseteq Places
<1>0. target_level \in Nat /\ Sized(dims)
  BY DEF InputInv, Levels, Dimensions, Sized
<1>1. Places = 0 .. Product(dims) - 1
  BY DEF Places
<1>2. \A l \in 0 .. target_level : Own(l) \subseteq Places
  BY DEF Own, PlacesOf, Places
<1>3. ASSUME NEW l \in 0 .. target_level, NEW m \in 0 .. target_level, l < m
      PROVE  Own(l) \cap Own(m) = {}
  <2>1. m # 0 /\ m - 1 \in 0 .. target_level /\ m - 1 \in l .. target_level
    BY <1>0, <1>3
  <2>2. dims_coarse(m) = level_dims[m - 1]
    BY <2>1 DEF dims_coarse
  <2>3. \A x \in 1 .. 3 : level_dims[l][x] <= level_dims[m - 1][x]
    BY <2>1 DEF InputInv, Levels
  <2>4. Sized(level_dims[l]) /\ Sized(level_dims[m - 1])
    BY <2>1 DEF InputInv, Levels, Dimensions, Sized
  <2>5. Cells(level_dims[l]) \subseteq Cells(level_dims[m - 1])
    BY <2>3, <2>4, CellsNested
  <2> QED
    BY <2>2, <2>5 DEF Own, PlacesOf
<1>4. ASSUME NEW l \in 0 .. target_level PROVE Reached(l + 1) = Reached(l) \cup Own(l)
  <2>1. l + 1 # 0 /\ (l + 1) - 1 = l
    OBVIOUS
  <2>2. Reached(l + 1) = PlacesOf(dims, Cells(level_dims[l]))
    BY <2>1 DEF Reached
  <2>3. CASE l = 0
    <3>1. Cells(dims_coarse(l)) = {}
      BY <2>3, LevelFacts, Zeros
    <3> QED
      BY <2>2, <2>3, <3>1 DEF Reached, Own
  <2>4. CASE l # 0
    <3>1. Cells(dims_coarse(l)) \subseteq Cells(level_dims[l])
      BY LevelFacts, CellsNested DEF Nested
    <3>2. Reached(l) = PlacesOf(dims, Cells(dims_coarse(l)))
      BY <2>4 DEF Reached, dims_coarse
    <3> QED
      BY <2>2, <3>1, <3>2 DEF Own, PlacesOf
  <2> QED
    BY <2>3, <2>4
<1>5. Reached(target_level + 1) = Places
  <2>1. target_level + 1 # 0 /\ (target_level + 1) - 1 = target_level
    BY <1>0
  <2>2. Reached(target_level + 1) = PlacesOf(dims, Cells(level_dims[target_level]))
    BY <2>1 DEF Reached
  <2>3. level_dims[target_level] = dims
    BY DEF InputInv, Levels
  <2>4. \A x \in Places : At(dims)[x] \in Cells(dims)
    BY <1>0, <1>1, PlacesAreCells
  <2> QED
    BY <2>2, <2>3, <2>4 DEF PlacesOf, Places
<1>6. Reached(0) = {} /\ \A m \in 0 .. target_level + 1 : Reached(m) \subseteq Places
  BY DEF Reached, PlacesOf, Places
<1> QED
  BY <1>2, <1>3, <1>4, <1>5, <1>6

(* What a level adds when it is put back.                                   *)
LEMMA CoefficientsAre ==
    ASSUME InputInv, NEW l \in 0 .. target_level
    PROVE  /\ DOMAIN Coefficients(l) = DOMAIN Order(l)
           /\ {<<Order(l)[c], Coefficients(l)[c]>> : c \in DOMAIN Order(l)} = WithData(Own(l))
           /\ Len(Coefficients(l)) = level_elements(l)
           /\ Lists(Coefficients(l), {Datum(x) : x \in Own(l)})
<1> DEFINE order == Order(l)
           S == Own(l)
           D == {Datum(x) : x \in S}
           co == Coefficients(l)
<1>1. Lists(order, S) /\ Len(order) = level_elements(l)
  BY OrderLists
<1>2. co = [c \in DOMAIN order |-> Datum(order[c])]
  BY DEF Coefficients
<1>3. \A x, y \in S : Datum(x) = Datum(y) => x = y
  <2>1. S \subseteq Nat
    BY OwnPlaces DEF Places
  <2> QED
    BY <2>1 DEF Datum
<1> HIDE DEF order, S, co
<1>4. order \in Seq(S) /\ Len(order) \in Nat /\ DOMAIN order = 1 .. Len(order)
      /\ \A c \in DOMAIN order : order[c] \in S
  BY <1>1 DEF Lists
<1>5. co \in [1 .. Len(order) -> D] /\ DOMAIN co = DOMAIN order
      /\ \A c \in DOMAIN order : co[c] = Datum(order[c])
  BY <1>2, <1>4
<1>6. co \in Seq(D) /\ Len(co) = Len(order)
  <2> HIDE DEF D
  <2> QED
    BY <1>4, <1>5, FunctionIsSeq
<1>7. Lists(co, D)
  <2>1. \A y \in D : \E c \in DOMAIN co : co[c] = y
    BY <1>1, <1>5 DEF Lists
  <2>2. \A p, q \in DOMAIN co : co[p] = co[q] => p = q
    BY <1>1, <1>3, <1>4, <1>5 DEF Lists
  <2> HIDE DEF D
  <2> QED
    BY <1>6, <2>1, <2>2 DEF Lists
<1>8. {<<order[c], co[c]>> : c \in DOMAIN order} = WithData(S)
  <2>1. ASSUME NEW c \in DOMAIN order PROVE <<order[c], co[c]>> \in WithData(S)
    BY <1>4, <1>5 DEF WithData
  <2>2. ASSUME NEW z \in WithData(S) PROVE z \in {<<order[c], co[c]>> : c \in DOMAIN order}
    <3>1. PICK x \in S : z = <<x, Datum(x)>>
      BY DEF WithData
    <3>2. PICK c \in DOMAIN order : order[c] = x
      BY <1>1 DEF Lists
    <3> QED
      BY <1>5, <3>1, <3>2
  <2> QED
    BY <2>1, <2>2
<1> QED
  BY <1>1, <1>5, <1>6, <1>7, <1>8 DEF order, S, co

-----------------------------------------------------------------------------
(* The steps                                                                *)

LEMMA InputKept ==
    ASSUME UNCHANGED input
    PROVE  /\ target_level' = target_level
           /\ InputInv => InputInv'
           /\ \A l : Coefficients(l)' = Coefficients(l)
           /\ \A m : Reached(m)' = Reached(m)
<1>1. /\ interleaver' = interleaver /\ dims' = dims /\ target_level' = target_level
      /\ level_dims' = level_dims
  BY DEF input
<1>2. \A l : dims_coarse(l)' = dims_coarse(l)
  BY <1>1 DEF dims_coarse
<1>3. \A l : InBoxes(l)' = InBoxes(l)
  BY <1>1, <1>2 DEF InBoxes
<1>4. \A l : PlacesInOrder(l)' = PlacesInOrder(l)
  BY <1>1, <1>2 DEF PlacesInOrder
<1>5. \A l : Order(l)' = Order(l)
  BY <1>1, <1>2, <1>3, <1>4 DEF Order
<1>6. \A l : Coefficients(l)' = Coefficients(l)
  BY <1>5 DEF Coefficients, Datum
<1>7. \A m : Reached(m)' = Reached(m)
  BY <1>1 DEF Reached
<1>8. InputInv => InputInv'
  BY <1>1 DEF InputInv
<1> QED
  BY <1>1, <1>6, <1>7, <1>8

LEMMA InitInv == ASSUME Init PROVE IInv
<1>1. dims \in Dimensions /\ target_level \in Nat
  BY InterleaverAssumption DEF Init, Dimensions
<1>2. level_dims = LevelDims(dims, target_level)
  BY DEF Init
<1>3. InputInv
  BY <1>1, <1>2, LevelDimsFacts, InterleaverAssumption DEF Init, InputInv
<1>4. pc = "interleave" /\ level = 0 /\ buffers = <<>> /\ out = {}
  BY DEF Init
<1>5. PhaseInv /\ OutInv
  BY <1>1, <1>4 DEF PhaseInv, OutInv
<1>6. BuffersInv
  <2>1. Filled = 0
    BY <1>4 DEF Filled
  <2>2. [k \in 1 .. 0 |-> Coefficients(k - 1)] = <<>>
    OBVIOUS
  <2> QED
    BY <1>4, <2>1, <2>2 DEF BuffersInv
<1> QED
  BY <1>3, <1>5, <1>6 DEF IInv

(* Both ways to fill a buffer append the coefficients of the level.          *)
LEMMA Interleaved ==
    ASSUME IInv, interleave \/ interleave_sfc
    PROVE  /\ pc = "interleave" /\ pc' = pc /\ level \in 0 .. target_level
           /\ level' = level + 1 /\ UNCHANGED <<input, out>>
           /\ buffers' = Append(buffers, Coefficients(level))
<1>1. CASE interleave
  <2>1. /\ pc = "interleave" /\ pc' = pc /\ level <= target_level /\ ~InBoxes(level)
        /\ level' = level + 1 /\ UNCHANGED <<input, out>>
        /\ buffers' = Append(buffers, [c \in DOMAIN PlacesInOrder(level) |->
                                           Datum(PlacesInOrder(level)[c])])
    BY <1>1 DEF interleave
  <2>2. level \in 0 .. target_level
    BY <2>1 DEF IInv, PhaseInv, InputInv, Levels
  <2>3. Order(level) = PlacesInOrder(level)
    BY <2>1 DEF Order
  <2> QED
    BY <2>1, <2>2, <2>3 DEF Coefficients
<1>2. CASE interleave_sfc
  <2> DEFINE fine == level_dims[level]
             coarse == dims_coarse(level)
             boxes == Boxes(dims, fine, coarse, 1)
             picks == Picks(fine, coarse)
             ordinals == Ordinals(picks)
  <2>1. /\ pc = "interleave" /\ pc' = pc /\ level <= target_level /\ InBoxes(level)
        /\ level' = level + 1 /\ UNCHANGED <<input, out>>
        /\ buffers' = Append(buffers, [c \in DOMAIN picks |->
                                           Datum(boxes[picks[c]][ordinals[c]])])
    BY <1>2 DEF interleave_sfc
  <2>2. level \in 0 .. target_level
    BY <2>1 DEF IInv, PhaseInv, InputInv, Levels
  <2>3. Order(level) = [c \in DOMAIN picks |-> boxes[picks[c]][ordinals[c]]]
    BY <2>1 DEF Order, Picked
  <2>4. Coefficients(level) = [c \in DOMAIN picks |-> Datum(boxes[picks[c]][ordinals[c]])]
    <3> HIDE DEF picks, boxes, ordinals
    <3> QED
      BY <2>3 DEF Coefficients
  <2> QED
    BY <2>1, <2>2, <2>4
<1> QED
  BY <1>1, <1>2

(* Both ways to empty a buffer put the coefficients of the level back.       *)
LEMMA Repositioned ==
    ASSUME IInv, reposition \/ reposition_sfc
    PROVE  /\ pc = "reposition" /\ pc' = pc /\ level \in 0 .. target_level
           /\ level' = level + 1 /\ UNCHANGED <<input, buffers>>
           /\ out' = out \cup WithData(Own(level))
<1>1. target_level \in Nat /\ InputInv /\ level \in 0 .. target_level + 1
  BY DEF IInv, PhaseInv, InputInv, Levels
<1>2. ASSUME pc = "reposition", level <= target_level
      PROVE  /\ level \in 0 .. target_level
             /\ buffers[level + 1] = Coefficients(level)
  <2>1. level \in 0 .. target_level
    BY <1>1, <1>2
  <2>2. buffers = [k \in 1 .. target_level + 1 |-> Coefficients(k - 1)]
    BY <1>2 DEF IInv, BuffersInv, Filled
  <2>3. level + 1 \in 1 .. target_level + 1 /\ (level + 1) - 1 = level
    BY <1>1, <2>1
  <2>4. buffers[level + 1] = Coefficients((level + 1) - 1)
    BY <2>2, <2>3
  <2> QED
    BY <2>1, <2>3, <2>4
<1>3. CASE reposition
  <2>1. /\ pc = "reposition" /\ pc' = pc /\ level <= target_level /\ ~InBoxes(level)
        /\ level' = level + 1 /\ UNCHANGED <<input, buffers>>
        /\ out' = out \cup {<<PlacesInOrder(level)[c], buffers[level + 1][c]>> :
                               c \in DOMAIN PlacesInOrder(level) \cap DOMAIN buffers[level + 1]}
    BY <1>3 DEF reposition
  <2>2. level \in 0 .. target_level /\ buffers[level + 1] = Coefficients(level)
    BY <1>2, <2>1
  <2>3. Order(level) = PlacesInOrder(level)
    BY <2>1 DEF Order
  <2>4. DOMAIN Coefficients(level) = DOMAIN Order(level)
    BY <1>1, <2>2, CoefficientsAre
  <2>5. out' = out \cup {<<Order(level)[c], Coefficients(level)[c]>> : c \in DOMAIN Order(level)}
    BY <2>1, <2>2, <2>3, <2>4
  <2>6. {<<Order(level)[c], Coefficients(level)[c]>> : c \in DOMAIN Order(level)}
            = WithData(Own(level))
    BY <1>1, <2>2, CoefficientsAre
  <2> QED
    BY <2>1, <2>2, <2>5, <2>6
<1>4. CASE reposition_sfc
  <2> DEFINE fine == level_dims[level]
             coarse == dims_coarse(level)
             boxes == Boxes(dims, fine, coarse, 1)
             picks == Picks(fine, coarse)
             at == pos(fine, coarse)
             ordinals == Ordinals(picks)
             cell(c) == at[picks[c]] + ordinals[c]
             put(buffer) == UNION {
                 {<<boxes[b][cell(c) - ReadFrom(at, b, picks)], buffer[c]>> :
                     c \in {c \in DOMAIN picks :
                               cell(c) - ReadFrom(at, b, picks) \in DOMAIN boxes[b]}} :
                 b \in 1 .. 7}
  <2>1. /\ pc = "reposition" /\ pc' = pc /\ level <= target_level /\ InBoxes(level)
        /\ level' = level + 1 /\ UNCHANGED <<input, buffers>>
    BY <1>4 DEF reposition_sfc
  <2>2. out' = out \cup put(buffers[level + 1])
    <3> DEFINE Put(bs, ps, begin, os) == UNION {
                   {<<bs[b][(begin[ps[c]] + os[c]) - ReadFrom(begin, b, ps)],
                      buffers[level + 1][c]>> :
                       c \in {c \in DOMAIN ps :
                             (begin[ps[c]] + os[c]) - ReadFrom(begin, b, ps) \in DOMAIN bs[b]}} :
                   b \in 1 .. 7}
    <3>1. \E bs \in {boxes}, ps \in {picks}, begin \in {at} : \E os \in {Ordinals(ps)} :
              out' = out \cup Put(bs, ps, begin, os)
      BY <1>4, Zenon DEF reposition_sfc
    <3>2. put(buffers[level + 1]) = Put(boxes, picks, at, ordinals)
      OBVIOUS
    <3> HIDE DEF Put, put, boxes, picks, at
    <3>3. out' = out \cup Put(boxes, picks, at, Ordinals(picks))
      BY <3>1
    <3> QED
      BY <3>2, <3>3
  <2>3. level \in 0 .. target_level /\ buffers[level + 1] = Coefficients(level)
    BY <1>2, <2>1
  <2>4. Order(level) = Picked(dims, fine, coarse)
    BY <2>1 DEF Order
  <2>5. Nested(dims, fine, coarse) /\ Halves(fine, coarse)
    <3>1. Product(dims_coarse(level)) # 0
      BY <2>1 DEF InBoxes
    <3>2. level # 0
      BY <1>1, <2>3, <3>1, LevelFacts, Zeros
    <3> QED
      BY <1>1, <2>3, <3>2, LevelFacts
  <2>6. \A buffer :
            put(buffer) = {<<Picked(dims, fine, coarse)[c], buffer[c]>> : c \in DOMAIN picks}
    <3> TAKE buffer
    <3> QED
      BY <2>5, PutToPlaces
  <2>7. DOMAIN Picked(dims, fine, coarse) = DOMAIN picks
    BY <2>5, PickedLists
  <2> HIDE DEF put, picks, fine, coarse
  <2>8. out' = out \cup {<<Order(level)[c], Coefficients(level)[c]>> : c \in DOMAIN Order(level)}
    BY <2>2, <2>3, <2>4, <2>6, <2>7
  <2>9. {<<Order(level)[c], Coefficients(level)[c]>> : c \in DOMAIN Order(level)}
            = WithData(Own(level))
    BY <1>1, <2>3, CoefficientsAre
  <2> QED
    BY <2>1, <2>3, <2>8, <2>9
<1> QED
  BY <1>3, <1>4

LEMMA NextInv == ASSUME IInv, [Next]_vars PROVE IInv'
<1>0. /\ target_level \in Nat /\ InputInv /\ level \in 0 .. target_level + 1
      /\ pc \in {"interleave", "reposition", "done"}
  BY DEF IInv, PhaseInv, InputInv, Levels
<1>1. CASE interleave \/ interleave_sfc
  <2>1. /\ pc = "interleave" /\ pc' = pc /\ level \in 0 .. target_level
        /\ level' = level + 1 /\ UNCHANGED <<input, out>>
        /\ buffers' = Append(buffers, Coefficients(level))
    BY <1>1, Interleaved
  <2>2. /\ target_level' = target_level /\ InputInv' /\ \A l : Coefficients(l)' = Coefficients(l)
    BY <1>0, <2>1, InputKept
  <2>3. PhaseInv'
    BY <1>0, <2>1, <2>2 DEF PhaseInv
  <2>4. OutInv'
    BY <2>1 DEF IInv, OutInv
  <2>5. BuffersInv'
    <3>1. buffers = [k \in 1 .. level |-> Coefficients(k - 1)]
      BY <2>1 DEF IInv, BuffersInv, Filled
    <3> DEFINE g == [k \in 1 .. level |-> Coefficients(k - 1)]
               h == [k \in 1 .. level + 1 |-> Coefficients(k - 1)]
    <3>2. Append(g, Coefficients(level)) = h
      <4>1. Len(g) = level /\ level \in Nat
        BY <2>1
      <4>2. Append(g, Coefficients(level))
                = [k \in 1 .. level + 1 |-> IF k <= level THEN g[k] ELSE Coefficients(level)]
        BY <4>1
      <4>3. \A k \in 1 .. level + 1 :
                h[k] = IF k <= level THEN g[k] ELSE Coefficients(level)
        BY <4>1
      <4>4. h = [k \in 1 .. level + 1 |-> h[k]]
        OBVIOUS
      <4> HIDE DEF g, h
      <4> QED
        BY <4>2, <4>3, <4>4
    <3>3. buffers' = [k \in 1 .. level + 1 |-> Coefficients(k - 1)]
      <4>1. buffers = g
        BY <3>1
      <4> HIDE DEF g
      <4> QED
        BY <2>1, <3>2, <4>1
    <3>4. Filled' = level + 1
      BY <2>1 DEF Filled
    <3>5. buffers' = [k \in 1 .. Filled' |-> Coefficients(k - 1)']
      BY <2>2, <3>3, <3>4
    <3> QED
      BY <3>5 DEF BuffersInv
  <2> QED
    BY <2>2, <2>3, <2>4, <2>5 DEF IInv
<1>2. CASE begin_reposition
  <2>1. /\ pc = "interleave" /\ level = target_level + 1 /\ pc' = "reposition" /\ level' = 0
        /\ UNCHANGED <<input, buffers, out>>
    BY <1>2 DEF begin_reposition
  <2>2. /\ target_level' = target_level /\ InputInv' /\ \A l : Coefficients(l)' = Coefficients(l)
        /\ \A m : Reached(m)' = Reached(m)
    BY <1>0, <2>1, InputKept
  <2>3. PhaseInv'
    BY <1>0, <2>1, <2>2 DEF PhaseInv
  <2>4. OutInv'
    <3>1. out' = {}
      BY <2>1 DEF IInv, OutInv
    <3>2. WithData(Reached(0)) = {}
      BY DEF WithData, Reached
    <3>3. Reached(level)' = {}
      BY <2>1 DEF Reached
    <3>4. WithData(Reached(level))' = {}
      BY <3>3 DEF WithData, Datum
    <3> QED
      BY <2>1, <3>1, <3>4 DEF OutInv
  <2>5. BuffersInv'
    <3>1. Filled = target_level + 1 /\ Filled' = target_level + 1
      BY <2>1, <2>2 DEF Filled
    <3>2. buffers = [k \in 1 .. target_level + 1 |-> Coefficients(k - 1)]
      BY <3>1 DEF IInv, BuffersInv
    <3>3. buffers' = [k \in 1 .. Filled' |-> Coefficients(k - 1)']
      BY <2>1, <2>2, <3>1, <3>2
    <3> QED
      BY <3>3 DEF BuffersInv
  <2> QED
    BY <2>2, <2>3, <2>4, <2>5 DEF IInv
<1>3. CASE reposition \/ reposition_sfc
  <2>1. /\ pc = "reposition" /\ pc' = pc /\ level \in 0 .. target_level
        /\ level' = level + 1 /\ UNCHANGED <<input, buffers>>
        /\ out' = out \cup WithData(Own(level))
    BY <1>3, Repositioned
  <2>2. /\ target_level' = target_level /\ InputInv' /\ \A l : Coefficients(l)' = Coefficients(l)
        /\ \A m : Reached(m)' = Reached(m)
    BY <1>0, <2>1, InputKept
  <2>3. PhaseInv'
    BY <1>0, <2>1, <2>2 DEF PhaseInv
  <2>4. OutInv'
    <3>1. out = WithData(Reached(level))
      BY <2>1 DEF IInv, OutInv
    <3>2. Reached(level + 1) = Reached(level) \cup Own(level)
      BY <1>0, <2>1, OwnPlaces
    <3>3. \A S, T : WithData(S) \cup WithData(T) = WithData(S \cup T)
      BY DEF WithData
    <3>4. out' = WithData(Reached(level + 1))
      BY <2>1, <3>1, <3>2, <3>3
    <3>5. Reached(level)' = Reached(level + 1)
      <4>1. level + 1 # 0 /\ level' # 0
        BY <2>1
      <4>2. dims' = dims /\ level_dims' = level_dims
        BY <2>1 DEF input
      <4> QED
        BY <2>1, <4>1, <4>2 DEF Reached
    <3>6. WithData(Reached(level))' = WithData(Reached(level + 1))
      BY <3>5 DEF WithData, Datum
    <3> QED
      BY <2>1, <3>4, <3>6 DEF OutInv
  <2>5. BuffersInv'
    <3>1. Filled = target_level + 1 /\ Filled' = target_level + 1
      BY <2>1, <2>2 DEF Filled
    <3>2. buffers = [k \in 1 .. target_level + 1 |-> Coefficients(k - 1)]
      BY <3>1 DEF IInv, BuffersInv
    <3>3. buffers' = [k \in 1 .. Filled' |-> Coefficients(k - 1)']
      BY <2>1, <2>2, <3>1, <3>2
    <3> QED
      BY <3>3 DEF BuffersInv
  <2> QED
    BY <2>2, <2>3, <2>4, <2>5 DEF IInv
<1>4. ASSUME pc # "interleave", pc' \in {"reposition", "done"},
             UNCHANGED <<input, level, buffers, out>>,
             pc' = "done" => level = target_level + 1
      PROVE  IInv'
  <2>1. /\ target_level' = target_level /\ InputInv' /\ \A l : Coefficients(l)' = Coefficients(l)
        /\ \A m : Reached(m)' = Reached(m)
    BY <1>0, <1>4, InputKept
  <2>2. PhaseInv'
    BY <1>0, <1>4, <2>1 DEF PhaseInv
  <2>3. OutInv'
    <3>1. out' = WithData(Reached(level)) /\ pc' # "interleave"
      BY <1>4 DEF IInv, OutInv
    <3>2. Reached(level)' = Reached(level)
      BY <1>4 DEF Reached, input
    <3>3. WithData(Reached(level))' = WithData(Reached(level))
      BY <3>2 DEF WithData, Datum
    <3> QED
      BY <3>1, <3>3 DEF OutInv
  <2>4. BuffersInv'
    <3>1. Filled = target_level + 1 /\ Filled' = target_level + 1
      BY <1>4, <2>1 DEF Filled
    <3>2. buffers = [k \in 1 .. target_level + 1 |-> Coefficients(k - 1)]
      BY <3>1 DEF IInv, BuffersInv
    <3>3. buffers' = [k \in 1 .. Filled' |-> Coefficients(k - 1)']
      BY <1>4, <2>1, <3>1, <3>2
    <3> QED
      BY <3>3 DEF BuffersInv
  <2> QED
    BY <2>1, <2>2, <2>3, <2>4 DEF IInv
<1>5. CASE end_reposition
  <2>1. /\ pc # "interleave" /\ pc' = "done" /\ level = target_level + 1
        /\ UNCHANGED <<input, level, buffers, out>>
    BY <1>5 DEF end_reposition
  <2> QED
    BY <1>4, <2>1
<1>6. CASE UNCHANGED vars
  <2>1. /\ interleaver' = interleaver /\ dims' = dims /\ target_level' = target_level
        /\ level_dims' = level_dims /\ level' = level /\ pc' = pc /\ buffers' = buffers
        /\ out' = out
    BY <1>6 DEF vars, input
  <2> QED
    BY <2>1, <1>0, InputKept
       DEF IInv, InputInv, PhaseInv, BuffersInv, OutInv, Filled, WithData, Datum, input,
           Reached, Coefficients, Order, InBoxes, PlacesInOrder, dims_coarse
<1> QED
  BY <1>1, <1>2, <1>3, <1>5, <1>6 DEF Next

-----------------------------------------------------------------------------
(* The theorems                                                             *)

LEMMA BuffersList ==
    ASSUME IInv
    PROVE  /\ Filled \in 0 .. target_level + 1
           /\ DOMAIN buffers = 1 .. Filled /\ Len(buffers) = Filled
           /\ \A k \in 1 .. Filled : /\ k - 1 \in 0 .. target_level
                                     /\ buffers[k] = Coefficients(k - 1)
                                     /\ Lists(buffers[k], {Datum(x) : x \in Own(k - 1)})
                                     /\ Len(buffers[k]) = level_elements(k - 1)
<1>1. InputInv /\ target_level \in Nat /\ Filled \in 0 .. target_level + 1
  BY DEF IInv, InputInv, Levels, PhaseInv, Filled
<1>2. buffers = [k \in 1 .. Filled |-> Coefficients(k - 1)]
  BY DEF IInv, BuffersInv
<1>3. DOMAIN buffers = 1 .. Filled /\ Len(buffers) = Filled
  BY <1>1, <1>2
<1>4. \A k \in 1 .. Filled : k - 1 \in 0 .. target_level
  BY <1>1
<1>5. \A k \in 1 .. Filled : buffers[k] = Coefficients(k - 1)
  BY <1>2
<1> QED
  BY <1>1, <1>3, <1>4, <1>5, CoefficientsAre

LEMMA PartitionHolds == ASSUME IInv PROVE LevelsPartition
<1> DEFINE S == {y \in {Datum(x) : x \in Places} : \E k \in 1 .. Filled : y - 1 \in Own(k - 1)}
           at == [y \in S |-> CHOOSE k \in 1 .. Filled : y - 1 \in Own(k - 1)]
<1>1. InputInv /\ target_level \in Nat
  BY DEF IInv, InputInv, Levels
<1>2. /\ Filled \in Nat /\ buffers = [k \in 1 .. Filled |-> buffers[k]]
      /\ \A k \in 1 .. Filled : /\ k - 1 \in 0 .. target_level
                                /\ Lists(buffers[k], {Datum(x) : x \in Own(k - 1)})
  <2>1. Filled \in Nat
    BY <1>1, BuffersList
  <2>2. buffers = [k \in 1 .. Filled |-> Coefficients(k - 1)]
    BY DEF IInv, BuffersInv
  <2>3. buffers = [k \in 1 .. Filled |-> buffers[k]]
    BY <2>2
  <2> QED
    BY <2>1, <2>3, BuffersList
<1>3. \A y \in S : at[y] \in 1 .. Filled /\ y - 1 \in Own(at[y] - 1)
  OBVIOUS
<1>4. \A x \in Places : x \in Nat /\ Datum(x) - 1 = x
  BY DEF Places, Datum
<1>5. ASSUME NEW k \in 1 .. Filled PROVE ListsPart(buffers[k], S, at, k)
  <2>1. Own(k - 1) \subseteq Places
    BY <1>1, <1>2, OwnPlaces
  <2>2. ASSUME NEW x \in Own(k - 1) PROVE Datum(x) \in S /\ at[Datum(x)] = k
    <3>1. x \in Places /\ Datum(x) - 1 = x
      BY <1>4, <2>1
    <3>2. Datum(x) \in S
      BY <3>1
    <3> DEFINE h == at[Datum(x)]
    <3>3. h \in 1 .. Filled /\ x \in Own(h - 1)
      <4> HIDE DEF at, S
      <4> QED
        BY <1>3, <3>1, <3>2
    <3> HIDE DEF h
    <3>4. h - 1 \in 0 .. target_level /\ k - 1 \in 0 .. target_level
      BY <1>2, <3>3
    <3>5. ~(h - 1 < k - 1) /\ ~(k - 1 < h - 1)
      <4>1. Own(h - 1) \cap Own(k - 1) # {}
        BY <3>3
      <4>2. Own(k - 1) \cap Own(h - 1) # {}
        BY <3>3
      <4> QED
        BY <1>1, <3>4, <4>1, <4>2, OwnPlaces
    <3>6. h = k
      BY <1>2, <3>3, <3>5
    <3> QED
      BY <3>2, <3>6 DEF h
  <2>3. ASSUME NEW y \in S, at[y] = k PROVE \E x \in Own(k - 1) : y = Datum(x)
    <3>1. y - 1 \in Own(k - 1)
      BY <1>3, <2>3
    <3>2. PICK x \in Places : y = Datum(x)
      OBVIOUS
    <3> QED
      BY <1>4, <3>1, <3>2
  <2>4. {y \in S : at[y] = k} = {Datum(x) : x \in Own(k - 1)}
    <3> HIDE DEF S, at
    <3> QED
      BY <2>2, <2>3
  <2> HIDE DEF S, at
  <2> QED
    BY <1>2, <2>4 DEF ListsPart
<1> HIDE DEF S, at
<1>6. Lists(FlattenSeq(buffers), S)
  BY <1>2, <1>3, <1>5, ListsParts
<1>7. IsInjective(FlattenSeq(buffers))
  BY <1>6 DEF Lists, IsInjective
<1>8. \A l \in DOMAIN buffers : Len(buffers[l]) = level_elements(l - 1)
  BY BuffersList
<1> QED
  BY <1>7, <1>8 DEF LevelsPartition

LEMMA PutBackHolds == ASSUME IInv PROVE PutBack
<1> SUFFICES ASSUME pc = "done" PROVE out = {<<x, Datum(x)>> : x \in Places}
  BY DEF PutBack
<1>1. out = WithData(Reached(target_level + 1))
  BY DEF IInv, PhaseInv, OutInv
<1>2. Reached(target_level + 1) = Places
  BY OwnPlaces DEF IInv
<1> QED
  BY <1>1, <1>2 DEF WithData

LEMMA TypeHolds == ASSUME IInv PROVE TypeOK
<1>1. InputInv /\ PhaseInv /\ level \in 0 .. target_level + 1 /\ target_level \in Nat
  BY DEF IInv, PhaseInv, InputInv, Levels
<1>2. Len(buffers) <= target_level + 1
  BY <1>1, BuffersList
<1>3. ASSUME NEW l \in DOMAIN buffers PROVE Range(buffers[l]) \subseteq {Datum(x) : x \in Places}
  <2>1. Own(l - 1) \subseteq Places /\ Lists(buffers[l], {Datum(x) : x \in Own(l - 1)})
    BY <1>1, BuffersList, OwnPlaces
  <2> DEFINE D == {Datum(x) : x \in Own(l - 1)}
  <2>2. D \subseteq {Datum(x) : x \in Places}
    BY <2>1
  <2>3. Range(buffers[l]) \subseteq D
    <3> HIDE DEF D
    <3>1. buffers[l] \in Seq(D)
      BY <2>1 DEF Lists, D
    <3>2. \A c \in DOMAIN buffers[l] : buffers[l][c] \in D
      BY <3>1
    <3> QED
      BY <3>2 DEF Range
  <2> QED
    BY <2>2, <2>3
<1>4. \A o \in out : o[1] \in Places /\ o[2] \in {Datum(x) : x \in Places}
  <2>1. Reached(level) \subseteq Places
    BY <1>1, OwnPlaces
  <2>2. out \subseteq WithData(Places)
    BY <2>1 DEF IInv, OutInv, WithData
  <2>3. \A o \in WithData(Places) : o[1] \in Places /\ o[2] \in {Datum(x) : x \in Places}
    BY DEF WithData
  <2> QED
    BY <2>2, <2>3
<1> QED
  BY <1>1, <1>2, <1>3, <1>4 DEF TypeOK, PhaseInv

LEMMA Invariant == Spec => []IInv
<1>1. Init => IInv
  BY InitInv
<1>2. IInv /\ [Next]_vars => IInv'
  BY NextInv
<1> QED
  BY <1>1, <1>2, PTL DEF Spec

(* The coefficients and places that interleave and reposition handle are    *)
(* always places and data of the variable, for every level.                 *)
THEOREM TypeCorrect == Spec => []TypeOK
<1>1. IInv => TypeOK
  BY TypeHolds
<1> QED
  BY <1>1, Invariant, PTL

(* Whatever the dimensions, the number of levels, the size of the blocks and *)
(* the interleaver: each buffer is filled with exactly the elements of its   *)
(* level, and no coefficient is collected twice.                            *)
THEOREM Partition == Spec => []LevelsPartition
<1>1. IInv => LevelsPartition
  BY PartitionHolds
<1> QED
  BY <1>1, Invariant, PTL

(* After reposition of all levels every place of the data has its own        *)
(* coefficient again, whichever interleaver collected the buffers.           *)
THEOREM PutsBack == Spec => []PutBack
<1>1. IInv => PutBack
  BY PutBackHolds
<1> QED
  BY <1>1, Invariant, PTL
=============================================================================
