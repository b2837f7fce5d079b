-------------------------- MODULE TierRestoreProofs --------------------------
(***************************************************************************)
(* Proofs about TierRestore, for any number of tiers below SizeMax, any    *)
(* bitplanes and parities, and whatever was received and is unavailable.   *)
(***************************************************************************)
EXTENDS TierRestore, FiniteSetTheorems, SequenceTheorems, WellFoundedInduction, TLAPS

(* Arithmetic of splitVector.                                               *)
LEMMA Quotient ==
    ASSUME NEW x \in Nat, NEW n \in Nat \ {0}
    PROVE  x = n * (x \div n) + (x % n) /\ x % n \in 0 .. n - 1 /\ x \div n \in Nat
OBVIOUS

LEMMA RoundedUp ==
    ASSUME NEW x \in Nat \ {0}, NEW a \in Nat \ {0}
    PROVE  (x + a - 1) \div a \in Nat \ {0} /\ (x + a - 1) \div a <= x
<1> DEFINE d == (x + a - 1) \div a
<1>1. d \in Nat \ {0} /\ a * d <= x + a - 1
  OBVIOUS
<1> HIDE DEF d
<1>2. ASSUME d >= x + 1 PROVE FALSE
  <2>1. a * d >= a * (x + 1)
    BY <1>1, <1>2
  <2>2. a * (x + 1) = a * x + a /\ a * x >= x /\ a * x \in Nat
    OBVIOUS
  <2> QED
    BY <1>1, <2>1, <2>2
<1>3. d <= x
  BY <1>1, <1>2
<1> QED
  BY <1>1, <1>3 DEF d

(* A quotient of at least one.                                              *)
LEMMA NoEmptyPart ==
    ASSUME NEW x \in Nat \ {0}, NEW n \in Nat \ {0}, NEW q \in Nat, NEW m \in 0 .. n - 1,
           x = n * q + m, n <= x
    PROVE  q >= 1
<1> SUFFICES ASSUME q = 0 PROVE FALSE
  OBVIOUS
<1>1. n * q = 0
  OBVIOUS
<1> QED
  BY <1>1

LEMMA ProductFacts ==
    ASSUME NEW c \in Nat, NEW n \in Nat, NEW q \in Nat, c <= n
    PROVE  /\ c * q \in Nat /\ n * q \in Nat /\ c * q <= n * q
           /\ (c + 1) * q = c * q + q /\ n * q = q * n
OBVIOUS

LEMMA NextChunk ==
    ASSUME NEW c \in Nat, NEW m \in Nat, NEW q \in Nat, NEW x \in Nat
    PROVE  /\ x + (IF c < m THEN c ELSE m) \in Nat
           /\ q + (IF c < m THEN 1 ELSE 0) \in Nat
           /\ x + q + (IF c + 1 < m THEN c + 1 ELSE m)
                 = (x + (IF c < m THEN c ELSE m)) + (q + (IF c < m THEN 1 ELSE 0))
<1>1. CASE c < m
  BY <1>1
<1>2. CASE ~ (c < m)
  BY <1>2
<1> QED
  BY <1>1, <1>2

LEMMA FirstChunks ==
    ASSUME NEW c \in Nat, NEW m \in Nat, NEW x \in Nat, NEW y \in Nat, x <= y
    PROVE  x + (IF c < m THEN c ELSE m) \in 0 .. y + m
<1>1. CASE c < m
  BY <1>1
<1>2. CASE ~ (c < m)
  BY <1>2
<1> QED
  BY <1>1, <1>2

(* What the code does to the count, whose type has no numbers below zero.    *)
LEMMA CountedDown ==
    ASSUME NEW d \in 0 .. 254
    PROVE  /\ (((d - 1) % 256) + 1) % 256 = d
           /\ (d + 1) % 256 = d + 1
OBVIOUS

LEMMA Remaining ==
    ASSUME NEW t \in 0 .. 254, NEW f \in 0 .. t, NEW a \in 0 .. f
    PROVE  (t - f) + a \in 0 .. 254
OBVIOUS

USE RestoreAssumption

LEMMA LeastOf ==
    ASSUME NEW S \in SUBSET Nat, S # {}
    PROVE  \E i \in S : \A j \in S : i <= j
<1>1. PICK i \in S : \A j \in S : <<j, i>> \notin OpToRel(<, Nat)
  BY NatLessThanWellFounded, WFMin
<1>2. ASSUME NEW j \in S, j < i PROVE FALSE
  <2>1. <<j, i>> \in OpToRel(<, Nat)
    BY <1>2 DEF OpToRel
  <2> QED
    BY <1>1, <2>1
<1>3. \A j \in S : i <= j
  BY <1>2
<1> QED
  BY <1>3

LEMMA FunctionIsSeq ==
    ASSUME NEW n \in Nat, NEW S, NEW f \in [1 .. n -> S]
    PROVE  f \in Seq(S) /\ Len(f) = n
OBVIOUS

LEMMA ConcatFacts ==
    ASSUME NEW S, NEW a \in Seq(S), NEW b \in Seq(S)
    PROVE  /\ a \o b \in Seq(S) /\ DOMAIN (a \o b) = 1 .. Len(a) + Len(b)
           /\ \A r \in DOMAIN a : r \in DOMAIN (a \o b) /\ (a \o b)[r] = a[r]
           /\ \A j \in DOMAIN b : /\ Len(a) + j \in DOMAIN (a \o b)
                                  /\ (a \o b)[Len(a) + j] = b[j]
<1>1. Len(a) \in Nat /\ Len(b) \in Nat /\ DOMAIN a = 1 .. Len(a) /\ DOMAIN b = 1 .. Len(b)
  OBVIOUS
<1>2. a \o b \in Seq(S) /\ Len(a \o b) = Len(a) + Len(b)
  OBVIOUS
<1>3. DOMAIN (a \o b) = 1 .. Len(a) + Len(b)
  BY <1>1, <1>2
<1>4. \A i \in 1 .. Len(a) + Len(b) :
          (a \o b)[i] = IF i <= Len(a) THEN a[i] ELSE b[i - Len(a)]
  BY <1>1, ConcatProperties
<1> QED
  BY <1>1, <1>2, <1>3, <1>4

(* FlattenSeq concatenates one sequence after the other.                     *)
Concatenates(f, seqs, n) ==
    f = [i \in 1 .. n |-> IF i = 1 THEN seqs[i] ELSE f[i - 1] \o seqs[i]]

LEMMA ConcatenatesAt ==
    ASSUME NEW f, NEW seqs, NEW n, Concatenates(f, seqs, n), NEW i \in 1 .. n
    PROVE  f[i] = IF i = 1 THEN seqs[i] ELSE f[i - 1] \o seqs[i]
<1> DEFINE h == [k \in 1 .. n |-> IF k = 1 THEN seqs[k] ELSE f[k - 1] \o seqs[k]]
<1>1. f = h
  BY Zenon DEF Concatenates
<1>2. h[i] = IF i = 1 THEN seqs[i] ELSE f[i - 1] \o seqs[i]
  OBVIOUS
<1> HIDE DEF h
<1>3. f[i] = h[i]
  BY <1>1
<1> QED
  BY <1>2, <1>3

LEMMA ConcatenationExists ==
    ASSUME NEW seqs
    PROVE  \A n \in Nat : \E f : Concatenates(f, seqs, n)
<1> DEFINE T == {n \in Nat : ~ \E f : Concatenates(f, seqs, n)}
<1> SUFFICES ASSUME T # {} PROVE FALSE
  OBVIOUS
<1>1. PICK n \in T : \A m \in T : n <= m
  <2> HIDE DEF T
  <2>1. T \in SUBSET Nat
    BY DEF T
  <2> QED
    BY <2>1, LeastOf
<1>2. CASE n = 0
  <2>1. Concatenates([i \in 1 .. n |-> 0], seqs, n)
    BY <1>2 DEF Concatenates
  <2> QED
    BY <1>1, <2>1
<1>3. CASE n # 0
  <2>1. n - 1 \in Nat /\ n - 1 \notin T
    <3> HIDE DEF T
    <3>1. n \in Nat
      BY DEF T
    <3> QED
      BY <1>1, <1>3, <3>1
  <2>2. PICK f : Concatenates(f, seqs, n - 1)
    BY <2>1
  <2> DEFINE h == [i \in 1 .. n |-> IF i = 1 THEN seqs[i] ELSE f[i - 1] \o seqs[i]]
  <2>3. \A i \in 1 .. n - 1 : h[i] = f[i]
    BY <1>1, <2>2, ConcatenatesAt
  <2>4. h = [i \in 1 .. n |-> IF i = 1 THEN seqs[i] ELSE h[i - 1] \o seqs[i]]
    <3>1. \A i \in 1 .. n : h[i] = IF i = 1 THEN seqs[i] ELSE h[i - 1] \o seqs[i]
      <4> SUFFICES ASSUME NEW i \in 1 .. n, i # 1 PROVE h[i] = h[i - 1] \o seqs[i]
        OBVIOUS
      <4>1. i - 1 \in 1 .. n - 1
        BY <1>1
      <4>2. h[i - 1] = f[i - 1]
        BY <2>3, <4>1
      <4> QED
        BY <4>2
    <3> HIDE DEF h
    <3>2. h = [i \in 1 .. n |-> h[i]]
      BY DEF h
    <3> QED
      BY <3>1, <3>2
  <2>5. Concatenates(h, seqs, n)
    <3> HIDE DEF h
    <3> QED
      BY <2>4 DEF Concatenates
  <2> QED
    BY <1>1, <2>5
<1> QED
  BY <1>2, <1>3

LEMMA FlattenUnfolds ==
    ASSUME NEW seqs, Len(seqs) \in Nat \ {0}
    PROVE  \E f : /\ FlattenSeq(seqs) = f[Len(seqs)] /\ f[1] = seqs[1]
                  /\ \A i \in 2 .. Len(seqs) : f[i] = f[i - 1] \o seqs[i]
<1> DEFINE f == CHOOSE f : Concatenates(f, seqs, Len(seqs))
<1>1. FlattenSeq(seqs) = f[Len(seqs)]
  BY DEF FlattenSeq, Concatenates
<1>2. Concatenates(f, seqs, Len(seqs))
  BY ConcatenationExists
<1> HIDE DEF f
<1>3. /\ f[1] = seqs[1]
      /\ \A i \in 2 .. Len(seqs) : f[i] = f[i - 1] \o seqs[i]
  <2>1. ASSUME NEW i \in 1 .. Len(seqs)
        PROVE  f[i] = IF i = 1 THEN seqs[i] ELSE f[i - 1] \o seqs[i]
    BY <1>2, ConcatenatesAt
  <2>2. 1 \in 1 .. Len(seqs) /\ \A i \in 2 .. Len(seqs) : i \in 1 .. Len(seqs) /\ i # 1
    OBVIOUS
  <2> QED
    BY <2>1, <2>2
<1> QED
  BY <1>1, <1>3

-----------------------------------------------------------------------------
(* The query table                                                          *)

Row == [tier : Tiers, size : Nat, offset : Nat]

\* The rows of tier u - 1.
RowsOf(u) ==
    [j \in DOMAIN Pieces[u - 1] |->
        [tier |-> u - 1, size |-> Pieces[u - 1][j],
         offset |-> currentTierCopidedSize(u - 1)[j - 1]]]

(* The sizes copied so far, as the loop over the bitplanes has them.         *)
Adds(c, p, n) == c = [j \in 0 .. n |-> IF j = 0 THEN 0 ELSE c[j - 1] + p[j]]

LEMMA AddsAt ==
    ASSUME NEW c, NEW p, NEW n, Adds(c, p, n), NEW j \in 0 .. n
    PROVE  c[j] = IF j = 0 THEN 0 ELSE c[j - 1] + p[j]
<1> DEFINE h == [k \in 0 .. n |-> IF k = 0 THEN 0 ELSE c[k - 1] + p[k]]
<1>1. c = h
  BY Zenon DEF Adds
<1>2. h[j] = IF j = 0 THEN 0 ELSE c[j - 1] + p[j]
  OBVIOUS
<1> HIDE DEF h
<1>3. c[j] = h[j]
  BY <1>1
<1> QED
  BY <1>2, <1>3

LEMMA AdditionExists ==
    ASSUME NEW p
    PROVE  \A n \in Nat : \E c : Adds(c, p, n)
<1> DEFINE T == {n \in Nat : ~ \E c : Adds(c, p, n)}
<1> SUFFICES ASSUME T # {} PROVE FALSE
  OBVIOUS
<1>1. PICK n \in T : \A m \in T : n <= m
  <2> HIDE DEF T
  <2>1. T \in SUBSET Nat
    BY DEF T
  <2> QED
    BY <2>1, LeastOf
<1>2. CASE n = 0
  <2>1. Adds([j \in 0 .. n |-> 0], p, n)
    BY <1>2 DEF Adds
  <2> QED
    BY <1>1, <2>1
<1>3. CASE n # 0
  <2>1. n - 1 \in Nat /\ n - 1 \notin T
    <3> HIDE DEF T
    <3>1. n \in Nat
      BY DEF T
    <3> QED
      BY <1>1, <1>3, <3>1
  <2>2. PICK c : Adds(c, p, n - 1)
    BY <2>1
  <2> DEFINE h == [j \in 0 .. n |-> IF j = 0 THEN 0 ELSE c[j - 1] + p[j]]
  <2>3. \A j \in 0 .. n - 1 : h[j] = c[j]
    BY <1>1, <2>2, AddsAt
  <2>4. \A j \in 0 .. n : h[j] = IF j = 0 THEN 0 ELSE h[j - 1] + p[j]
    <3> SUFFICES ASSUME NEW j \in 0 .. n, j # 0 PROVE h[j] = h[j - 1] + p[j]
      OBVIOUS
    <3>1. j - 1 \in 0 .. n - 1
      BY <1>1
    <3>2. h[j - 1] = c[j - 1]
      BY <2>3, <3>1
    <3> QED
      BY <3>2
  <2>5. Adds(h, p, n)
    <3> HIDE DEF h
    <3>1. h = [j \in 0 .. n |-> h[j]]
      BY DEF h
    <3> QED
      BY <2>4, <3>1 DEF Adds
  <2> QED
    BY <1>1, <2>5
<1> QED
  BY <1>2, <1>3

LEMMA CopiedSize ==
    ASSUME NEW t \in Tiers
    PROVE  /\ Pieces[t] \in Seq(Nat)
           /\ currentTierCopidedSize(t)[0] = 0
           /\ \A j \in DOMAIN Pieces[t] :
                 currentTierCopidedSize(t)[j] = currentTierCopidedSize(t)[j - 1] + Pieces[t][j]
<1> DEFINE p == Pieces[t]
           n == Len(p)
           c == CHOOSE f : Adds(f, p, n)
<1>1. p \in Seq(Nat)
  OBVIOUS
<1>2. n \in Nat /\ DOMAIN p = 1 .. n
  BY <1>1
<1>3. currentTierCopidedSize(t) = c
  BY DEF currentTierCopidedSize, Adds
<1>4. Adds(c, p, n)
  <2> HIDE DEF p, n
  <2> QED
    BY <1>2, AdditionExists
<1> HIDE DEF c, p, n
<1>5. \A j \in 0 .. n : c[j] = IF j = 0 THEN 0 ELSE c[j - 1] + p[j]
  BY <1>4, AddsAt
<1>6. c[0] = 0 /\ \A j \in 1 .. n : c[j] = c[j - 1] + p[j]
  <2>1. 0 \in 0 .. n /\ \A j \in 1 .. n : j \in 0 .. n /\ j # 0
    BY <1>2
  <2> QED
    BY <1>5, <2>1
<1> QED
  BY <1>1, <1>2, <1>3, <1>6 DEF p

(* No size is below zero, so that each is at most those after it.             *)
LEMMA CopiedAscends ==
    ASSUME NEW t \in Tiers, NEW n \in 0 .. Len(Pieces[t])
    PROVE  /\ currentTierCopidedSize(t)[n] \in Nat
           /\ \A j \in 0 .. n : /\ currentTierCopidedSize(t)[j] \in Nat
                               /\ currentTierCopidedSize(t)[j] <= currentTierCopidedSize(t)[n]
<1> DEFINE c == currentTierCopidedSize(t)
           p == Pieces[t]
           Good(m) == /\ c[m] \in Nat
                      /\ \A j \in 0 .. m : c[j] \in Nat /\ c[j] <= c[m]
           T == {m \in 0 .. Len(p) : ~Good(m)}
<1>1. /\ c[0] = 0 /\ \A j \in 1 .. Len(p) : p[j] \in Nat /\ c[j] = c[j - 1] + p[j]
      /\ Len(p) \in Nat
  BY CopiedSize
<1> HIDE DEF c, p
<1>2. T = {}
  <2> SUFFICES ASSUME T # {} PROVE FALSE
    OBVIOUS
  <2>1. T \in SUBSET Nat
    OBVIOUS
  <2>2. PICK m \in T : \A k \in T : m <= k
    <3> HIDE DEF T
    <3> QED
      BY <2>1, LeastOf
  <2>3. m \in 0 .. Len(p) /\ ~Good(m)
    OBVIOUS
  <2>4. CASE m = 0
    BY <1>1, <2>3, <2>4
  <2>5. CASE m # 0
    <3>1. m - 1 \in 0 .. Len(p) /\ m \in 1 .. Len(p)
      BY <1>1, <2>3, <2>5
    <3>2. m - 1 \notin T
      <4> HIDE DEF T
      <4> QED
        BY <2>2, <3>1
    <3>3. Good(m - 1)
      BY <3>1, <3>2
    <3>4. c[m] = c[m - 1] + p[m] /\ p[m] \in Nat
      BY <1>1, <3>1
    <3>5. ASSUME NEW j \in 0 .. m PROVE c[j] \in Nat /\ c[j] <= c[m]
      <4>1. CASE j = m
        <5>1. c[m - 1] \in Nat
          BY <3>3
        <5>2. c[m] \in Nat
          BY <3>4, <5>1
        <5> QED
          BY <4>1, <5>2
      <4>2. CASE j # m
        <5>1. j \in 0 .. m - 1
          BY <3>1, <4>2
        <5>2. c[j] \in Nat /\ c[j] <= c[m - 1]
          <6>1. \A i \in 0 .. m - 1 : c[i] \in Nat /\ c[i] <= c[m - 1]
            BY <3>3
          <6> QED
            BY <5>1, <6>1
        <5>3. c[m - 1] \in Nat
          BY <3>3
        <5>4. ASSUME NEW u \in Nat, NEW v \in Nat, NEW w \in Nat, NEW z, z = v + w, u <= v
              PROVE  u <= z
          BY <5>4
        <5> QED
          BY <3>4, <5>2, <5>3, <5>4
      <4> QED
        BY <4>1, <4>2
    <3>6. c[m] \in Nat
      BY <3>3, <3>4
    <3> QED
      BY <2>3, <3>5, <3>6
  <2> QED
    BY <2>4, <2>5
<1>3. Good(n)
  BY <1>2 DEF p
<1> QED
  BY <1>3 DEF c

LEMMA PrefixSum ==
    ASSUME NEW t \in Tiers, NEW j \in DOMAIN Pieces[t]
    PROVE  /\ currentTierCopidedSize(t)[j - 1] \in Nat
           /\ currentTierCopidedSize(t)[j - 1] + Pieces[t][j] <= TierSize(t)
<1> DEFINE n == Len(Pieces[t])
<1>1. j \in 1 .. n /\ n \in Nat /\ j \in 0 .. n /\ j - 1 \in 0 .. n /\ n \in 0 .. n
  BY CopiedSize
<1>2. currentTierCopidedSize(t)[j - 1] + Pieces[t][j] = currentTierCopidedSize(t)[j]
  BY CopiedSize
<1> HIDE DEF n
<1>3. currentTierCopidedSize(t)[j - 1] \in Nat
  BY <1>1, CopiedAscends DEF n
<1>4. currentTierCopidedSize(t)[j] <= currentTierCopidedSize(t)[n]
  BY <1>1, CopiedAscends DEF n
<1> QED
  BY <1>2, <1>3, <1>4 DEF TierSize, n

FromPieces(x) == \E j \in DOMAIN Pieces[x.tier] : x = RowsOf(x.tier + 1)[j]

\* What the first i tiers put into the table.
Made(s, i) == \A r \in DOMAIN s : s[r].tier < i /\ FromPieces(s[r])
Ascending(s) == \A r, q \in DOMAIN s : r <= q => s[r].tier <= s[q].tier
\* The last bitplane of tier t.
Ends(x, t) == x.tier = t /\ x.offset + x.size = TierSize(t)
Complete(s, i) == \A t \in 0 .. i - 1 : \E r \in DOMAIN s : Ends(s[r], t)
Tabulated(s, i) == s \in Seq(Row) /\ Made(s, i) /\ Ascending(s) /\ Complete(s, i)

LEMMA RowsFacts ==
    ASSUME NEW u \in 1 .. NumTiers
    PROVE  /\ RowsOf(u) \in Seq(Row) /\ Len(RowsOf(u)) \in Nat \ {0}
           /\ DOMAIN RowsOf(u) = DOMAIN Pieces[u - 1] /\ DOMAIN RowsOf(u) = 1 .. Len(RowsOf(u))
           /\ \A j \in DOMAIN RowsOf(u) : RowsOf(u)[j].tier = u - 1 /\ FromPieces(RowsOf(u)[j])
           /\ \E j \in DOMAIN RowsOf(u) : Ends(RowsOf(u)[j], u - 1)
<1>1. u - 1 \in Tiers /\ Pieces[u - 1] \in Seq(Nat)
  BY DEF Tiers
<1>2. Pieces[u - 1] # <<>>
  <2> SUFFICES ASSUME Pieces[u - 1] = <<>> PROVE FALSE
    OBVIOUS
  <2>1. DOMAIN Pieces[u - 1] = {}
    OBVIOUS
  <2>2. TierSize(u - 1) = 0
    BY <1>1, <2>1, CopiedSize DEF TierSize
  <2> QED
    BY <1>1, <2>2, TiersAssumption
<1>3. /\ DOMAIN Pieces[u - 1] = 1 .. Len(Pieces[u - 1]) /\ Len(Pieces[u - 1]) \in Nat \ {0}
      /\ \A j \in DOMAIN Pieces[u - 1] : Pieces[u - 1][j] \in Nat
  BY <1>1, <1>2
<1>4. \A j \in DOMAIN RowsOf(u) : RowsOf(u)[j] \in Row /\ RowsOf(u)[j].tier = u - 1
  BY <1>1, <1>3, PrefixSum DEF RowsOf, Row
<1>5. DOMAIN RowsOf(u) = 1 .. Len(Pieces[u - 1])
  BY <1>3 DEF RowsOf
<1>6. RowsOf(u) \in [1 .. Len(Pieces[u - 1]) -> Row]
  BY <1>4, <1>5 DEF RowsOf
<1>7. RowsOf(u) \in Seq(Row) /\ Len(RowsOf(u)) = Len(Pieces[u - 1])
  <2> DEFINE m == Len(Pieces[u - 1])
  <2>1. m \in Nat /\ RowsOf(u) \in [1 .. m -> Row]
    BY <1>3, <1>6
  <2> HIDE DEF m
  <2>2. RowsOf(u) \in Seq(Row) /\ Len(RowsOf(u)) = m
    BY <2>1, FunctionIsSeq
  <2> QED
    BY <2>2 DEF m
<1>8. \A j \in DOMAIN RowsOf(u) : FromPieces(RowsOf(u)[j])
  <2> SUFFICES ASSUME NEW j \in DOMAIN RowsOf(u) PROVE FromPieces(RowsOf(u)[j])
    OBVIOUS
  <2> DEFINE x == RowsOf(u)[j]
  <2>1. x.tier = u - 1 /\ (u - 1) + 1 = u
    BY <1>4
  <2>2. j \in DOMAIN Pieces[u - 1]
    BY <1>3, <1>5
  <2>3. x = RowsOf(x.tier + 1)[j]
    BY <2>1
  <2> HIDE DEF x
  <2>4. FromPieces(x)
    BY <2>1, <2>2, <2>3 DEF FromPieces
  <2> QED
    BY <2>4 DEF x
<1>9. \E j \in DOMAIN RowsOf(u) : Ends(RowsOf(u)[j], u - 1)
  <2> DEFINE n == Len(Pieces[u - 1])
             t == u - 1
  <2>1. n \in DOMAIN Pieces[t] /\ n \in DOMAIN RowsOf(u)
    BY <1>3, <1>5
  <2>2. /\ RowsOf(u)[n].tier = t /\ RowsOf(u)[n].size = Pieces[t][n]
        /\ RowsOf(u)[n].offset = currentTierCopidedSize(t)[n - 1]
    BY <2>1 DEF RowsOf
  <2>3. currentTierCopidedSize(t)[n - 1] + Pieces[t][n] = TierSize(t)
    BY <1>1, <2>1, CopiedSize DEF TierSize
  <2> HIDE DEF n, t
  <2>4. Ends(RowsOf(u)[n], t)
    BY <2>2, <2>3 DEF Ends
  <2> QED
    BY <2>1, <2>4 DEF t
<1> QED
  BY <1>3, <1>4, <1>5, <1>7, <1>8, <1>9

LEMMA TabulatedFirst == Tabulated(RowsOf(1), 1)
<1>1. /\ RowsOf(1) \in Seq(Row) /\ 1 \in DOMAIN RowsOf(1)
      /\ \A j \in DOMAIN RowsOf(1) : RowsOf(1)[j].tier = 0 /\ FromPieces(RowsOf(1)[j])
      /\ \E j \in DOMAIN RowsOf(1) : Ends(RowsOf(1)[j], 0)
  <2>1. 1 \in 1 .. NumTiers
    BY DEF SizeMax
  <2> QED
    BY <2>1, RowsFacts
<1> QED
  BY <1>1 DEF Tabulated, Made, Ascending, Complete

LEMMA TabulatedNext ==
    ASSUME NEW i \in 1 .. NumTiers - 1, NEW s, Tabulated(s, i)
    PROVE  Tabulated(s \o RowsOf(i + 1), i + 1)
<1> DEFINE w == RowsOf(i + 1)
           a == s \o w
<1>1. /\ w \in Seq(Row) /\ Len(w) \in Nat \ {0} /\ DOMAIN w = 1 .. Len(w)
      /\ \A j \in DOMAIN w : w[j].tier = i /\ FromPieces(w[j])
      /\ \E j \in DOMAIN w : Ends(w[j], i)
  <2>1. i + 1 \in 1 .. NumTiers /\ (i + 1) - 1 = i
    OBVIOUS
  <2> QED
    BY <2>1, RowsFacts
<1>2. s \in Seq(Row) /\ Len(s) \in Nat /\ DOMAIN s = 1 .. Len(s)
  BY DEF Tabulated
<1>3. /\ a \in Seq(Row) /\ DOMAIN a = 1 .. Len(s) + Len(w)
      /\ \A r \in DOMAIN s : r \in DOMAIN a /\ a[r] = s[r]
      /\ \A j \in DOMAIN w : Len(s) + j \in DOMAIN a /\ a[Len(s) + j] = w[j]
  <2> HIDE DEF w
  <2> QED
    BY <1>1, <1>2, ConcatFacts
<1>4. \A r \in DOMAIN a :
          \/ r \in DOMAIN s /\ a[r] = s[r] /\ s[r].tier < i
          \/ /\ r - Len(s) \in DOMAIN w /\ a[r] = w[r - Len(s)] /\ a[r].tier = i
             /\ r > Len(s)
  <2> SUFFICES ASSUME NEW r \in DOMAIN a, r \notin DOMAIN s
               PROVE  /\ r - Len(s) \in DOMAIN w /\ a[r] = w[r - Len(s)] /\ a[r].tier = i
                      /\ r > Len(s)
    BY <1>3 DEF Tabulated, Made
  <2> HIDE DEF w, a
  <2>1. r > Len(s) /\ r - Len(s) \in DOMAIN w /\ Len(s) + (r - Len(s)) = r
    BY <1>1, <1>2, <1>3
  <2> QED
    BY <1>1, <1>3, <2>1
<1>5. Made(a, i + 1)
  <2> SUFFICES ASSUME NEW r \in DOMAIN a PROVE a[r].tier < i + 1 /\ FromPieces(a[r])
    BY DEF Made
  <2> HIDE DEF a, w
  <2>1. CASE r \in DOMAIN s /\ a[r] = s[r] /\ s[r].tier < i
    <3>1. s[r] \in Row /\ FromPieces(s[r])
      BY <1>2, <2>1 DEF Tabulated, Made
    <3>2. s[r].tier \in Int
      BY <3>1 DEF Row, Tiers
    <3> QED
      BY <2>1, <3>1, <3>2
  <2>2. CASE r - Len(s) \in DOMAIN w /\ a[r] = w[r - Len(s)] /\ a[r].tier = i
    BY <1>1, <2>2
  <2> QED
    BY <1>4, <2>1, <2>2
<1>6. Ascending(a)
  <2> SUFFICES ASSUME NEW r \in DOMAIN a, NEW q \in DOMAIN a, r <= q
               PROVE  a[r].tier <= a[q].tier
    BY DEF Ascending
  <2> HIDE DEF a, w
  <2>1. \A p \in DOMAIN a : a[p].tier \in Nat
    <3>1. \A p \in DOMAIN a : a[p] \in Row
      BY <1>3
    <3> QED
      BY <3>1 DEF Row, Tiers
  <2>2. CASE q \in DOMAIN s
    <3>1. r \in DOMAIN s
      BY <1>2, <1>3, <2>2
    <3>2. a[r] = s[r] /\ a[q] = s[q]
      BY <1>3, <2>2, <3>1
    <3> QED
      BY <2>2, <3>1, <3>2 DEF Tabulated, Ascending
  <2>3. CASE q \notin DOMAIN s
    <3>1. a[q].tier = i /\ a[r].tier <= i
      BY <1>4, <2>1, <2>3
    <3> QED
      BY <3>1
  <2> QED
    BY <2>2, <2>3
<1>7. Complete(a, i + 1)
  <2> HIDE DEF a, w
  <2> SUFFICES ASSUME NEW t \in 0 .. (i + 1) - 1 PROVE \E r \in DOMAIN a : Ends(a[r], t)
    BY DEF Complete
  <2>1. CASE t = i
    <3>1. PICK j \in DOMAIN w : Ends(w[j], i)
      BY <1>1
    <3>2. Len(s) + j \in DOMAIN a /\ a[Len(s) + j] = w[j]
      BY <1>3, <3>1
    <3> QED
      BY <2>1, <3>1, <3>2
  <2>2. CASE t \in 0 .. i - 1
    <3>1. PICK r \in DOMAIN s : Ends(s[r], t)
      BY <2>2 DEF Tabulated, Complete
    <3> QED
      BY <1>3, <3>1
  <2> QED
    BY <2>1, <2>2
<1> HIDE DEF a
<1>8. Tabulated(a, i + 1)
  BY <1>3, <1>5, <1>6, <1>7 DEF Tabulated
<1> QED
  BY <1>8 DEF a

LEMMA TableFacts == Tabulated(queryTable, NumTiers)
<1> DEFINE seqs == [u \in 1 .. NumTiers |-> RowsOf(u)]
<1>1. queryTable = FlattenSeq(seqs)
  BY DEF queryTable, RowsOf
<1>2. Len(seqs) = NumTiers /\ NumTiers \in Nat \ {0}
  BY DEF SizeMax
<1>3. \A u \in 1 .. NumTiers : seqs[u] = RowsOf(u)
  OBVIOUS
<1> HIDE DEF seqs
<1>4. PICK f : /\ queryTable = f[NumTiers] /\ f[1] = RowsOf(1)
               /\ \A i \in 2 .. NumTiers : f[i] = f[i - 1] \o RowsOf(i)
  <2>1. PICK f : /\ FlattenSeq(seqs) = f[Len(seqs)] /\ f[1] = seqs[1]
                 /\ \A i \in 2 .. Len(seqs) : f[i] = f[i - 1] \o seqs[i]
    BY <1>2, FlattenUnfolds
  <2>2. ASSUME NEW i \in 2 .. NumTiers PROVE f[i] = f[i - 1] \o RowsOf(i)
    <3>1. i \in 2 .. Len(seqs) /\ seqs[i] = RowsOf(i)
      BY <1>2, <1>3
    <3> QED
      BY <2>1, <3>1
  <2>3. f[1] = RowsOf(1) /\ queryTable = f[NumTiers]
    BY <1>1, <1>2, <1>3, <2>1
  <2> QED
    BY <2>2, <2>3
<1> DEFINE T == {i \in 1 .. NumTiers : ~ Tabulated(f[i], i)}
<1>5. T = {}
  <2> SUFFICES ASSUME T # {} PROVE FALSE
    OBVIOUS
  <2>1. T \in SUBSET Nat
    OBVIOUS
  <2>2. PICK n \in T : \A m \in T : n <= m
    <3> HIDE DEF T
    <3> QED
      BY <2>1, LeastOf
  <2>3. CASE n = 1
    BY <1>4, <2>2, <2>3, TabulatedFirst
  <2>4. CASE n # 1
    <3>1. n \in 2 .. NumTiers /\ n - 1 \in 1 .. NumTiers - 1 /\ (n - 1) + 1 = n
      BY <1>2, <2>2, <2>4
    <3>2. Tabulated(f[n - 1], n - 1)
      <4>1. n - 1 \in 1 .. NumTiers /\ n - 1 \notin T
        <5> HIDE DEF T
        <5> QED
          BY <1>2, <2>2, <3>1
      <4> QED
        BY <4>1
    <3>3. Tabulated(f[n - 1] \o RowsOf(n), n)
      BY <3>1, <3>2, TabulatedNext
    <3>4. f[n] = f[n - 1] \o RowsOf(n)
      BY <1>4, <3>1
    <3> QED
      BY <2>2, <3>3, <3>4
  <2> QED
    BY <2>3, <2>4
<1> QED
  BY <1>2, <1>4, <1>5

\* As the theorems need it.
LEMMA QueryTable ==
    /\ DOMAIN queryTable = 1 .. Len(queryTable) /\ Len(queryTable) \in Nat
    /\ \A r \in DOMAIN queryTable :
          /\ queryTable[r].tier \in Tiers
          /\ queryTable[r].offset \in Nat /\ queryTable[r].size \in Nat
          /\ queryTable[r].offset + queryTable[r].size <= TierSize(queryTable[r].tier)
    /\ \A r, q \in DOMAIN queryTable : r <= q => queryTable[r].tier <= queryTable[q].tier
    /\ \A t \in Tiers : \E r \in DOMAIN queryTable :
          /\ queryTable[r].tier = t
          /\ queryTable[r].offset + queryTable[r].size = TierSize(t)
<1>1. /\ queryTable \in Seq(Row) /\ Made(queryTable, NumTiers)
      /\ Ascending(queryTable) /\ Complete(queryTable, NumTiers)
  BY TableFacts DEF Tabulated
<1> HIDE DEF queryTable
<1>2. DOMAIN queryTable = 1 .. Len(queryTable) /\ Len(queryTable) \in Nat
  BY <1>1
<1>3. ASSUME NEW r \in DOMAIN queryTable
      PROVE  /\ queryTable[r].tier \in Tiers
             /\ queryTable[r].offset \in Nat /\ queryTable[r].size \in Nat
             /\ queryTable[r].offset + queryTable[r].size <= TierSize(queryTable[r].tier)
  <2> DEFINE x == queryTable[r]
  <2>1. x \in Row /\ FromPieces(x)
    BY <1>1 DEF Made
  <2> HIDE DEF x
  <2>2. x.tier \in Tiers /\ x.size \in Nat /\ x.offset \in Nat
    BY <2>1 DEF Row
  <2>3. PICK j \in DOMAIN Pieces[x.tier] : x = RowsOf(x.tier + 1)[j]
    BY <2>1 DEF FromPieces
  <2>4. (x.tier + 1) - 1 = x.tier /\ Pieces[x.tier] \in Seq(Nat)
    BY <2>2 DEF Tiers
  <2>5. /\ x.size = Pieces[x.tier][j]
        /\ x.offset = currentTierCopidedSize(x.tier)[j - 1]
    <3> DEFINE t == x.tier
    <3>1. (t + 1) - 1 = t /\ j \in DOMAIN Pieces[t] /\ x = RowsOf(t + 1)[j]
      BY <2>3, <2>4
    <3> HIDE DEF t
    <3>2. RowsOf(t + 1)[j] = [tier |-> t, size |-> Pieces[t][j],
                              offset |-> currentTierCopidedSize(t)[j - 1]]
      BY <3>1 DEF RowsOf
    <3>3. x.size = Pieces[t][j] /\ x.offset = currentTierCopidedSize(t)[j - 1]
      BY <3>1, <3>2
    <3> QED
      BY <3>3 DEF t
  <2>6. x.offset + x.size <= TierSize(x.tier)
    BY <2>2, <2>5, PrefixSum
  <2> QED
    BY <2>2, <2>6 DEF x
<1>4. \A r, q \in DOMAIN queryTable : r <= q => queryTable[r].tier <= queryTable[q].tier
  BY <1>1 DEF Ascending
<1>5. \A t \in Tiers : \E r \in DOMAIN queryTable :
          /\ queryTable[r].tier = t
          /\ queryTable[r].offset + queryTable[r].size = TierSize(t)
  BY <1>1 DEF Complete, Tiers, Ends
<1> QED
  BY <1>2, <1>3, <1>4, <1>5

-----------------------------------------------------------------------------
(* The chunks                                                               *)

\* The size of the first c chunks of tier t.
UpTo(t, c) ==
    c * (TierSize(t) \div NumChunks(t))
        + IF c < TierSize(t) % NumChunks(t) THEN c ELSE TierSize(t) % NumChunks(t)

(* splitVector: one chunk after the other, the chunks make up the tier.      *)
LEMMA ChunksFacts ==
    ASSUME NEW t \in Tiers
    PROVE  /\ TierSize(t) \in Nat \ {0} /\ NumChunks(t) \in Nat \ {0}
           /\ UpTo(t, 0) = 0 /\ UpTo(t, NumChunks(t)) = TierSize(t)
           /\ \A c \in 0 .. NumChunks(t) - 1 :
                 /\ UpTo(t, c) \in Nat /\ ChunkSize(t, c) \in Nat
                 /\ UpTo(t, c + 1) = UpTo(t, c) + ChunkSize(t, c)
                 /\ UpTo(t, c) < TierSize(t)
           /\ \A c \in 0 .. NumChunks(t) : UpTo(t, c) \in 0 .. TierSize(t)
<1> DEFINE T == TierSize(t)
           n == NumChunks(t)
           q == T \div n
           m == T % n
<1>1. T \in Nat \ {0}
  <2>1. Len(Pieces[t]) \in 0 .. Len(Pieces[t])
    BY CopiedSize
  <2> QED
    BY <2>1, CopiedAscends, TiersAssumption DEF TierSize
<1>2. n \in Nat \ {0} /\ n <= T
  <2> DEFINE a == FragmentSize * K(t)
  <2>1. K(t) \in Nat \ {0}
    BY DEF K
  <2>2. a \in Nat \ {0}
    BY <2>1
  <2>3. n = (T + a - 1) \div a
    BY DEF NumChunks
  <2> HIDE DEF a, T, n
  <2>4. (T + a - 1) \div a \in Nat \ {0} /\ (T + a - 1) \div a <= T
    BY <1>1, <2>2, RoundedUp
  <2> QED
    BY <2>3, <2>4
<1> HIDE DEF T, n
<1>3. T = n * q + m /\ m \in 0 .. n - 1 /\ q \in Nat
  BY <1>1, <1>2, Quotient
<1>3a. q >= 1
  <2> HIDE DEF q, m
  <2> QED
    BY <1>1, <1>2, <1>3, NoEmptyPart
<1>4. \A c : UpTo(t, c) = c * q + (IF c < m THEN c ELSE m)
  BY DEF UpTo, T, n
<1>5. \A c : ChunkSize(t, c) = q + (IF c < m THEN 1 ELSE 0)
  BY DEF ChunkSize, T, n
<1> HIDE DEF q, m
<1>6. UpTo(t, 0) = 0 /\ UpTo(t, n) = T
  <2>1. 0 * q = 0 /\ n * q \in Nat
    BY <1>2, <1>3, ProductFacts
  <2> QED
    BY <1>2, <1>3, <1>4, <2>1
<1>7. ASSUME NEW c \in 0 .. n - 1
      PROVE  /\ UpTo(t, c) \in Nat /\ ChunkSize(t, c) \in Nat
             /\ UpTo(t, c + 1) = UpTo(t, c) + ChunkSize(t, c)
  <2> DEFINE x == c * q
  <2>1. c \in Nat /\ m \in Nat /\ q \in Nat /\ x \in Nat /\ (c + 1) * q = x + q
    BY <1>2, <1>3, ProductFacts
  <2>2. UpTo(t, c) = x + (IF c < m THEN c ELSE m)
    BY <1>4
  <2>3. UpTo(t, c + 1) = x + q + (IF c + 1 < m THEN c + 1 ELSE m)
    BY <1>4, <2>1
  <2>4. ChunkSize(t, c) = q + (IF c < m THEN 1 ELSE 0)
    BY <1>5
  <2> HIDE DEF x
  <2>5. /\ x + (IF c < m THEN c ELSE m) \in Nat
        /\ q + (IF c < m THEN 1 ELSE 0) \in Nat
        /\ x + q + (IF c + 1 < m THEN c + 1 ELSE m)
              = (x + (IF c < m THEN c ELSE m)) + (q + (IF c < m THEN 1 ELSE 0))
    BY <2>1, NextChunk
  <2> QED
    BY <2>2, <2>3, <2>4, <2>5, Zenon
<1>8. ASSUME NEW c \in 0 .. n PROVE UpTo(t, c) \in 0 .. T
  <2> DEFINE x == c * q
             y == n * q
  <2>1. c \in Nat /\ m \in Nat /\ x \in Nat /\ y \in Nat /\ x <= y
    BY <1>2, <1>3, ProductFacts
  <2>2. UpTo(t, c) = x + (IF c < m THEN c ELSE m) /\ T = y + m
    BY <1>3, <1>4
  <2> HIDE DEF x, y
  <2> QED
    BY <2>1, <2>2, FirstChunks
<1>9. ASSUME NEW c \in 0 .. n - 1 PROVE UpTo(t, c) < T
  <2>1. /\ UpTo(t, c) \in Nat /\ ChunkSize(t, c) \in Nat
        /\ UpTo(t, c + 1) = UpTo(t, c) + ChunkSize(t, c)
    BY <1>7
  <2>2. c + 1 \in 0 .. n
    BY <1>2
  <2>3. UpTo(t, c + 1) \in 0 .. T
    BY <1>8, <2>2
  <2>4. ChunkSize(t, c) >= 1
    BY <1>3, <1>5, <1>3a
  <2> QED
    BY <1>1, <2>1, <2>3, <2>4
<1> QED
  BY <1>1, <1>2, <1>6, <1>7, <1>8, <1>9 DEF T, n

-----------------------------------------------------------------------------
(* The invariant                                                            *)

Pcs == {"decode", "rows", "done", "nothing", "undefined", "aborted", "outside"}

Types ==
    /\ pc \in Pcs /\ tier \in 0 .. NumTiers /\ chunk \in Nat /\ got \in Nat
    /\ dataTiersRecovered \in 0 .. SizeMax - 1
    /\ dataTiersValues \in [Tiers -> Nat] /\ failed \in SUBSET (0 .. tier - 1)
    /\ row \in 1 .. Len(queryTable) + 1 /\ read = 1 .. row - 1

\* The chunks decoded so far are the first ones of the tier.
InOrder ==
    IF tier \in Tiers THEN chunk <= NumChunks(tier) /\ got = UpTo(tier, chunk) ELSE got = 0

\* A tier whose chunks were all decoded is whole, one left before is shorter.
Whole ==
    /\ \A t \in Tiers : dataTiersValues[t] <= TierSize(t)
    /\ \A t \in Tiers : t < tier /\ t \notin failed => dataTiersValues[t] = TierSize(t)
    /\ \A t \in failed : dataTiersValues[t] < TierSize(t)

\* Bitplanes are taken out once all tiers are counted, up to the first of the tier the count
\* stands for, or to the first that lies outside.
Reading ==
    /\ IF pc \in {"rows", "done", "outside"}
       THEN tier = NumTiers /\ dataTiersRecovered > 0
       ELSE row = 1
    /\ \A r \in read : queryTable[r].tier # dataTiersRecovered /\ Inside(r)
    /\ pc = "done" => LastRow
    /\ pc = "outside" => ~LastRow /\ ~Inside(row)

IInv == Types /\ InOrder /\ Whole /\ CountIncludesAbandoned /\ Reading

LEMMA InitInv == Init => IInv
<1> SUFFICES ASSUME Init PROVE IInv
  OBVIOUS
<1>1. Len(queryTable) \in Nat
  BY QueryTable
<1>2. NumTiers \in Nat \ {0} /\ 0 \in Tiers /\ Tiers = 0 .. NumTiers - 1
  BY DEF Tiers, SizeMax
<1>3. Types
  BY <1>1, <1>2 DEF Init, Types, Pcs, SizeMax
<1>4. InOrder
  <2>1. UpTo(0, 0) = 0 /\ NumChunks(0) \in Nat
    BY <1>2, ChunksFacts
  <2> QED
    BY <1>2, <2>1 DEF Init, InOrder
<1>5. Whole
  <2>1. \A t \in Tiers : TierSize(t) \in Nat
    BY ChunksFacts
  <2> QED
    BY <1>2, <2>1 DEF Init, Whole
<1>6. CountIncludesAbandoned
  <2>1. failed = {} /\ Abandoned = {} /\ tier = 0 /\ dataTiersRecovered = 0
    BY DEF Init, Abandoned
  <2> QED
    BY <2>1, FS_EmptySet DEF CountIncludesAbandoned
<1>7. Reading
  BY DEF Init, Reading
<1> QED
  BY <1>3, <1>4, <1>5, <1>6, <1>7 DEF IInv

LEMMA FailedFacts ==
    ASSUME Types
    PROVE  /\ IsFiniteSet(failed) /\ Cardinality(failed) \in 0 .. tier
           /\ Cardinality(Abandoned) \in 0 .. Cardinality(failed)
           /\ IsFiniteSet(Abandoned)
           /\ tier \notin failed
           /\ Cardinality(failed \cup {tier}) = Cardinality(failed) + 1
           /\ Cardinality(Abandoned \cup {tier}) = Cardinality(Abandoned) + 1
<1>1. tier \in Nat /\ failed \subseteq 0 .. tier - 1 /\ tier \notin 0 .. tier - 1
  BY DEF Types
<1>2. IsFiniteSet(0 .. tier - 1) /\ Cardinality(0 .. tier - 1) = tier
  BY <1>1, FS_Interval
<1>3. IsFiniteSet(failed) /\ Cardinality(failed) <= tier
  BY <1>1, <1>2, FS_Subset
<1>4. Cardinality(failed) \in Nat
  BY <1>3, FS_CardinalityType
<1>5. Abandoned \subseteq failed
  BY DEF Abandoned
<1>6. IsFiniteSet(Abandoned) /\ Cardinality(Abandoned) <= Cardinality(failed)
  BY <1>3, <1>5, FS_Subset
<1>7. Cardinality(Abandoned) \in Nat
  BY <1>6, FS_CardinalityType
<1>8. tier \notin failed /\ tier \notin Abandoned
  BY <1>1, <1>5
<1>9. Cardinality(failed \cup {tier}) = Cardinality(failed) + 1
  BY <1>3, <1>8, FS_AddElement
<1>10. Cardinality(Abandoned \cup {tier}) = Cardinality(Abandoned) + 1
  BY <1>6, <1>8, FS_AddElement
<1>11. Cardinality(failed) \in 0 .. tier /\ Cardinality(Abandoned) \in 0 .. Cardinality(failed)
  BY <1>1, <1>3, <1>4, <1>6, <1>7
<1> QED
  BY <1>3, <1>6, <1>8, <1>9, <1>10, <1>11

(* What end_tier does to the count and to the tiers that failed.             *)
LEMMA EndTierCounts ==
    ASSUME Types, CountIncludesAbandoned, end_tier
    PROVE  CountIncludesAbandoned'
<1> DEFINE d == dataTiersRecovered
           f == Cardinality(failed)
           a == Cardinality(Abandoned)
<1>1. /\ tier \in 0 .. 254 /\ tier' = tier + 1 /\ unavailable' = unavailable
      /\ failed' = IF InLoop THEN failed \cup {tier} ELSE failed
      /\ d' = ((IF InLoop /\ HasParity(tier) THEN Uncounted ELSE d) + 1) % 256
  <2>1. tier \in 0 .. NumTiers /\ NumTiers \in 1 .. 255 /\ tier < NumTiers
    BY DEF end_tier, Types, SizeMax
  <2>2. tier \in 0 .. 254
    BY <2>1
  <2> QED
    BY <2>2 DEF end_tier, input, SizeMax
<1>2. /\ f \in 0 .. tier /\ a \in 0 .. f /\ tier \notin failed
      /\ Cardinality(failed \cup {tier}) = f + 1
      /\ Cardinality(Abandoned \cup {tier}) = a + 1
  BY FailedFacts
<1>3. Abandoned' = {t \in failed' : ~HasParity(t)}
  BY <1>1 DEF Abandoned, HasParity
<1>4. d = (tier - f) + a
  BY DEF CountIncludesAbandoned
<1>5. Uncounted = (d - 1) % 256
  BY DEF Uncounted, SizeMax
<1>6. CountIncludesAbandoned' <=> d' = (tier' - Cardinality(failed')) + Cardinality(Abandoned')
  BY DEF CountIncludesAbandoned
<1>7. Abandoned = {t \in failed : ~HasParity(t)}
  BY DEF Abandoned
<1> HIDE DEF d, f, a
<1>8. d \in 0 .. 254
  BY <1>1, <1>2, <1>4, Remaining
<1>9. (((d - 1) % 256) + 1) % 256 = d /\ (d + 1) % 256 = d + 1
  BY <1>8, CountedDown
<1>10. CASE ~InLoop
  <2>1. failed' = failed /\ d' = d + 1
    BY <1>1, <1>9, <1>10
  <2>2. Cardinality(failed') = f /\ Cardinality(Abandoned') = a
    BY <1>3, <1>7, <2>1 DEF f, a
  <2>3. d' = (tier' - Cardinality(failed')) + Cardinality(Abandoned')
    BY <1>1, <1>2, <1>4, <2>1, <2>2
  <2> QED
    BY <1>6, <2>3
<1>11. CASE InLoop /\ HasParity(tier)
  <2>1. failed' = failed \cup {tier} /\ d' = d
    BY <1>1, <1>5, <1>9, <1>11
  <2>2. Abandoned' = Abandoned
    BY <1>3, <1>7, <1>11, <2>1
  <2>3. Cardinality(failed') = f + 1 /\ Cardinality(Abandoned') = a
    BY <1>2, <2>1, <2>2 DEF a
  <2>4. d' = (tier' - Cardinality(failed')) + Cardinality(Abandoned')
    BY <1>1, <1>2, <1>4, <2>1, <2>3
  <2> QED
    BY <1>6, <2>4
<1>12. CASE InLoop /\ ~HasParity(tier)
  <2>1. failed' = failed \cup {tier} /\ d' = d + 1
    BY <1>1, <1>9, <1>12
  <2>2. Abandoned' = Abandoned \cup {tier}
    BY <1>3, <1>7, <1>12, <2>1
  <2>3. Cardinality(failed') = f + 1 /\ Cardinality(Abandoned') = a + 1
    BY <1>2, <2>1, <2>2
  <2>4. d' = (tier' - Cardinality(failed')) + Cardinality(Abandoned')
    BY <1>1, <1>2, <1>4, <2>1, <2>3
  <2> QED
    BY <1>6, <2>4
<1> QED
  BY <1>10, <1>11, <1>12

LEMMA EndTierInv == IInv /\ end_tier => IInv'
<1> SUFFICES ASSUME IInv, end_tier PROVE IInv'
  OBVIOUS
<1>1. /\ pc = "decode" /\ tier < NumTiers
      /\ failed' = IF InLoop THEN failed \cup {tier} ELSE failed
      /\ dataTiersRecovered' =
             ((IF InLoop /\ HasParity(tier) THEN Uncounted ELSE dataTiersRecovered) + 1)
                 % SizeMax
      /\ dataTiersValues' = [dataTiersValues EXCEPT ![tier] = got]
      /\ tier' = tier + 1 /\ chunk' = 0 /\ got' = 0
      /\ pc' = pc /\ row' = row /\ read' = read
  BY DEF end_tier
<1>2. InLoop <=> chunk < NumChunks(tier)
  BY <1>1 DEF InLoop
<1>3. /\ Types /\ InOrder /\ Whole /\ CountIncludesAbandoned /\ Reading
  BY DEF IInv
<1>4. /\ tier \in Tiers /\ tier \in Nat /\ tier + 1 \in 0 .. NumTiers /\ NumTiers \in 1 .. 255
      /\ Tiers = 0 .. NumTiers - 1
  <2>1. tier \in 0 .. NumTiers
    BY <1>3 DEF Types
  <2>2. NumTiers \in 1 .. 255
    BY DEF SizeMax
  <2> QED
    BY <1>1, <2>1, <2>2 DEF Tiers
<1>5. CountIncludesAbandoned'
  BY <1>3, EndTierCounts
<1>6. failed' \subseteq 0 .. tier /\ failed \subseteq failed'
  <2>1. failed \subseteq 0 .. tier - 1
    BY <1>3 DEF Types
  <2>2. failed' = failed \/ failed' = failed \cup {tier}
    BY <1>1
  <2>3. failed \subseteq 0 .. tier /\ tier \in 0 .. tier
    BY <1>4, <2>1
  <2> QED
    BY <2>2, <2>3
<1>7. Types'
  <2>1. dataTiersRecovered' \in 0 .. SizeMax - 1
    <3>1. Uncounted \in Int /\ dataTiersRecovered \in Int
      BY <1>3 DEF Types, Uncounted, SizeMax
    <3> QED
      BY <1>1, <3>1 DEF SizeMax
  <2>2. dataTiersValues' \in [Tiers -> Nat]
    BY <1>1, <1>3, <1>4 DEF Types
  <2>3. failed' \in SUBSET (0 .. tier' - 1)
    BY <1>1, <1>4, <1>6
  <2>4. /\ pc \in Pcs /\ row \in 1 .. Len(queryTable) + 1 /\ read = 1 .. row - 1
    BY <1>3 DEF Types
  <2>5. queryTable' = queryTable
    BY DEF queryTable
  <2> QED
    BY <1>1, <1>4, <2>1, <2>2, <2>3, <2>4 DEF Types
<1>8. /\ got <= TierSize(tier)
      /\ InLoop => got < TierSize(tier)
      /\ ~InLoop => got = TierSize(tier)
  <2>1. chunk \in Nat /\ chunk <= NumChunks(tier) /\ got = UpTo(tier, chunk)
    BY <1>3, <1>4 DEF Types, InOrder
  <2>2. /\ NumChunks(tier) \in Nat /\ UpTo(tier, NumChunks(tier)) = TierSize(tier)
        /\ \A c \in 0 .. NumChunks(tier) - 1 : /\ UpTo(tier, c) \in Nat
                                                /\ UpTo(tier, c) < TierSize(tier)
        /\ TierSize(tier) \in Nat
    BY <1>4, ChunksFacts
  <2>3. CASE InLoop
    <3>1. chunk \in 0 .. NumChunks(tier) - 1
      BY <1>2, <2>1, <2>2, <2>3
    <3>2. UpTo(tier, chunk) < TierSize(tier) /\ UpTo(tier, chunk) \in Nat
      BY <2>2, <3>1
    <3> QED
      BY <2>1, <2>2, <2>3, <3>2
  <2>4. CASE ~InLoop
    <3>1. chunk = NumChunks(tier)
      BY <1>2, <2>1, <2>2, <2>4
    <3> QED
      BY <2>1, <2>2, <2>4, <3>1
  <2> QED
    BY <2>3, <2>4
<1>9. /\ \A t \in Tiers : t # tier => dataTiersValues'[t] = dataTiersValues[t]
      /\ dataTiersValues'[tier] = got
  BY <1>1, <1>3, <1>4 DEF Types
<1>10. \A t \in failed : t \in Tiers /\ t # tier
  BY <1>3, <1>4 DEF Types
<1>11. Whole'
  <2>1. /\ \A t \in Tiers : dataTiersValues[t] <= TierSize(t)
        /\ \A t \in Tiers : t < tier /\ t \notin failed => dataTiersValues[t] = TierSize(t)
        /\ \A t \in failed : dataTiersValues[t] < TierSize(t)
    BY <1>3 DEF Whole
  <2>2. ASSUME NEW t \in Tiers PROVE dataTiersValues'[t] <= TierSize(t)
    <3>1. CASE t = tier
      <4>1. dataTiersValues'[t] = got /\ TierSize(t) = TierSize(tier)
        BY <1>9, <3>1
      <4> QED
        BY <1>8, <4>1
    <3>2. CASE t # tier
      <4>1. dataTiersValues'[t] = dataTiersValues[t]
        BY <1>9, <3>2
      <4> QED
        BY <2>1, <4>1
    <3> QED
      BY <3>1, <3>2
  <2>3. ASSUME NEW t \in Tiers, t < tier', t \notin failed'
        PROVE  dataTiersValues'[t] = TierSize(t)
    <3>1. CASE t = tier
      <4>1. ~InLoop
        BY <1>1, <2>3, <3>1
      <4>2. dataTiersValues'[t] = got /\ TierSize(t) = TierSize(tier)
        BY <1>9, <3>1
      <4> QED
        BY <1>8, <4>1, <4>2
    <3>2. CASE t # tier
      <4>1. t < tier /\ t \notin failed
        BY <1>1, <1>4, <1>6, <2>3, <3>2
      <4>2. dataTiersValues'[t] = dataTiersValues[t]
        BY <1>9, <3>2
      <4> QED
        BY <2>1, <4>1, <4>2
    <3> QED
      BY <3>1, <3>2
  <2>4. ASSUME NEW t \in failed' PROVE dataTiersValues'[t] < TierSize(t)
    <3>1. CASE t \in failed
      <4>1. dataTiersValues'[t] = dataTiersValues[t]
        BY <1>9, <1>10, <3>1
      <4> QED
        BY <2>1, <3>1, <4>1
    <3>2. CASE t \notin failed
      <4>1. t = tier /\ InLoop
        BY <1>1, <2>4, <3>2
      <4>2. dataTiersValues'[t] = got /\ TierSize(t) = TierSize(tier)
        BY <1>9, <4>1
      <4> QED
        BY <1>8, <4>1, <4>2
    <3> QED
      BY <3>1, <3>2
  <2> QED
    BY <2>2, <2>3, <2>4 DEF Whole, Tiers, TierSize
<1>12. InOrder'
  <2>1. \A t \in Tiers : UpTo(t, 0) = 0 /\ NumChunks(t) \in Nat
    BY ChunksFacts
  <2>2. tier' \in Tiers => UpTo(tier', 0) = 0 /\ 0 <= NumChunks(tier')
    BY <2>1
  <2> QED
    BY <1>1, <2>2 DEF InOrder, UpTo, NumChunks, TierSize, K, Tiers
<1>13. Reading'
  <2>1. row = 1 /\ read = 1 .. row - 1
    BY <1>1, <1>3 DEF Reading, Types
  <2>2. read' = {} /\ row' = 1 /\ pc' = "decode"
    BY <1>1, <2>1
  <2> QED
    BY <2>2 DEF Reading
<1> QED
  BY <1>5, <1>7, <1>11, <1>12, <1>13 DEF IInv

LEMMA DecodeChunkInv == IInv /\ decode_chunk => IInv'
<1> SUFFICES ASSUME IInv, decode_chunk PROVE IInv'
  OBVIOUS
<1>1. /\ pc = "decode" /\ tier < NumTiers /\ chunk < NumChunks(tier)
      /\ got' = got + ChunkSize(tier, chunk) /\ chunk' = chunk + 1
      /\ pc' = pc /\ tier' = tier /\ dataTiersValues' = dataTiersValues
      /\ dataTiersRecovered' = dataTiersRecovered /\ row' = row /\ read' = read
      /\ failed' = failed /\ unavailable' = unavailable
  BY DEF decode_chunk, InLoop, input
<1>2. /\ Types /\ InOrder /\ Whole /\ CountIncludesAbandoned /\ Reading
  BY DEF IInv
<1>3. tier \in Tiers /\ chunk \in Nat /\ got \in Nat /\ got = UpTo(tier, chunk)
  <2>1. tier \in 0 .. NumTiers /\ NumTiers \in Nat
    BY <1>2 DEF Types, SizeMax
  <2>2. tier \in Tiers
    BY <1>1, <2>1 DEF Tiers
  <2> QED
    BY <1>2, <2>2 DEF Types, InOrder
<1>4. /\ NumChunks(tier) \in Nat /\ ChunkSize(tier, chunk) \in Nat
      /\ UpTo(tier, chunk + 1) = UpTo(tier, chunk) + ChunkSize(tier, chunk)
  <2>1. NumChunks(tier) \in Nat
    BY <1>3, ChunksFacts
  <2>2. chunk \in 0 .. NumChunks(tier) - 1
    BY <1>1, <1>3, <2>1
  <2> QED
    BY <1>3, <2>1, <2>2, ChunksFacts
<1>5. chunk' \in Nat /\ chunk' <= NumChunks(tier) /\ got' \in Nat /\ got' = UpTo(tier, chunk')
  BY <1>1, <1>3, <1>4
<1>6. Types'
  <2>1. queryTable' = queryTable
    BY DEF queryTable
  <2> QED
    BY <1>1, <1>2, <1>5, <2>1 DEF Types
<1>7. InOrder'
  BY <1>1, <1>3, <1>5 DEF InOrder, UpTo, NumChunks, TierSize, K, Tiers
<1>8. Whole' /\ CountIncludesAbandoned'
  BY <1>1, <1>2
     DEF Whole, CountIncludesAbandoned, Abandoned, Tiers, TierSize, HasParity
<1>9. Reading'
  <2>1. row = 1 /\ read = 1 .. row - 1
    BY <1>1, <1>2 DEF Reading, Types
  <2>2. read' = {} /\ row' = 1 /\ pc' = "decode"
    BY <1>1, <2>1
  <2> QED
    BY <2>2 DEF Reading
<1> QED
  BY <1>6, <1>7, <1>8, <1>9 DEF IInv

(* A step that only moves pc, out of the loop over the tiers.                *)
LEMMA ControlInv ==
    ASSUME IInv, pc' \in Pcs, Reading',
           UNCHANGED <<unavailable, tier, chunk, got, dataTiersValues, dataTiersRecovered, row,
                       read, failed>>
    PROVE  IInv'
<1>1. /\ Types /\ InOrder /\ Whole /\ CountIncludesAbandoned
  BY DEF IInv
<1>2. Types'
  BY <1>1 DEF Types, queryTable
<1>3. InOrder'
  BY <1>1 DEF InOrder, UpTo, NumChunks, TierSize, K, Tiers
<1>4. Whole' /\ CountIncludesAbandoned'
  BY <1>1 DEF Whole, CountIncludesAbandoned, Abandoned, Tiers, TierSize, HasParity
<1> QED
  BY <1>2, <1>3, <1>4 DEF IInv

LEMMA StoppedInv == IInv /\ (no_data_fragment \/ nothing_available) => IInv'
<1> SUFFICES ASSUME IInv, no_data_fragment \/ nothing_available PROVE IInv'
  OBVIOUS
<1>1. /\ pc = "decode" /\ pc' \in Pcs /\ pc' \notin {"rows", "done", "outside"}
      /\ UNCHANGED <<unavailable, tier, chunk, got, dataTiersValues, dataTiersRecovered, row, read,
                     failed>>
  BY DEF no_data_fragment, nothing_available, InLoop, Pcs, input
<1>2. row = 1 /\ read = 1 .. row - 1
  BY <1>1 DEF IInv, Reading, Types
<1>3. Reading'
  <2>1. read' = {} /\ row' = 1
    BY <1>1, <1>2
  <2> QED
    BY <1>1, <2>1 DEF Reading
<1> QED
  BY <1>1, <1>3, ControlInv

LEMMA BeginRowsInv == IInv /\ begin_rows => IInv'
<1> SUFFICES ASSUME IInv, begin_rows PROVE IInv'
  OBVIOUS
<1>1. /\ pc = "decode" /\ tier = NumTiers
      /\ pc' = IF dataTiersRecovered = 0 THEN "nothing" ELSE "rows"
      /\ UNCHANGED <<unavailable, tier, chunk, got, dataTiersValues, dataTiersRecovered, row, read,
                     failed>>
  BY DEF begin_rows, input
<1>2. row = 1 /\ read = 1 .. row - 1 /\ dataTiersRecovered \in Nat
  BY <1>1 DEF IInv, Reading, Types, SizeMax
<1>3. Reading'
  <2>1. read' = {} /\ row' = 1
    BY <1>1, <1>2
  <2>2. pc' \in {"rows", "done", "outside"} => tier' = NumTiers /\ dataTiersRecovered' > 0
    BY <1>1, <1>2
  <2>3. pc' \notin {"done", "outside"}
    BY <1>1
  <2> QED
    BY <2>1, <2>2, <2>3 DEF Reading
<1>4. pc' \in Pcs
  BY <1>1 DEF Pcs
<1> QED
  BY <1>1, <1>3, <1>4, ControlInv

(* The end of the rows, or the first that is outside: nothing moves but pc.  *)
LEMMA EndRowsInv == IInv /\ (end_rows \/ read_outside) => IInv'
<1> SUFFICES ASSUME IInv, end_rows \/ read_outside PROVE IInv'
  OBVIOUS
<1>1. /\ pc = "rows"
      /\ \/ pc' = "done" /\ LastRow
         \/ pc' = "outside" /\ ~LastRow /\ ~Inside(row)
      /\ UNCHANGED <<unavailable, tier, chunk, got, dataTiersValues, dataTiersRecovered, row, read,
                     failed>>
  BY DEF end_rows, read_outside, input
<1>2. Reading'
  <2>1. Reading
    BY DEF IInv
  <2>2. LastRow' = LastRow /\ queryTable' = queryTable
    BY <1>1 DEF LastRow, queryTable
  <2>3. \A r : (Inside(r))' = Inside(r)
    BY <1>1, <2>2 DEF Inside
  <2>4. /\ tier' = NumTiers /\ dataTiersRecovered' > 0
        /\ \A r \in read' : queryTable'[r].tier # dataTiersRecovered' /\ (Inside(r))'
    BY <1>1, <2>1, <2>2, <2>3 DEF Reading
  <2>5. pc' = "done" => LastRow'
    BY <1>1, <2>2
  <2>6. pc' = "outside" => ~LastRow' /\ ~(Inside(row))'
    BY <1>1, <2>2 DEF Inside
  <2> QED
    BY <1>1, <2>4, <2>5, <2>6 DEF Reading
<1>3. pc' \in Pcs
  BY <1>1 DEF Pcs
<1> QED
  BY <1>1, <1>2, <1>3, ControlInv

LEMMA ReadRowInv == IInv /\ read_row => IInv'
<1> SUFFICES ASSUME IInv, read_row PROVE IInv'
  OBVIOUS
<1>1. /\ pc = "rows" /\ ~LastRow /\ Inside(row) /\ read' = read \cup {row} /\ row' = row + 1
      /\ UNCHANGED <<unavailable, pc, tier, chunk, got, dataTiersValues, dataTiersRecovered,
                     failed>>
  BY DEF read_row, input
<1>2. /\ Types /\ InOrder /\ Whole /\ CountIncludesAbandoned /\ Reading
  BY DEF IInv
<1>3. row \in DOMAIN queryTable /\ queryTable[row].tier # dataTiersRecovered
  BY <1>1 DEF LastRow
<1>4. queryTable' = queryTable
  BY DEF queryTable
<1>5. DOMAIN queryTable = 1 .. Len(queryTable) /\ Len(queryTable) \in Nat
  BY QueryTable
<1> HIDE DEF queryTable
<1>6. row' \in 1 .. Len(queryTable) + 1 /\ read' = 1 .. row' - 1
  <2>1. row \in 1 .. Len(queryTable) /\ read = 1 .. row - 1
    BY <1>2, <1>3, <1>5 DEF Types
  <2>2. read' = (1 .. row - 1) \cup {row}
    BY <1>1, <2>1
  <2> QED
    BY <1>1, <1>5, <2>1, <2>2
<1>7. Types'
  BY <1>1, <1>2, <1>4, <1>6 DEF Types
<1>8. InOrder'
  BY <1>1, <1>2 DEF InOrder, UpTo, NumChunks, TierSize, K, Tiers
<1>9. Whole' /\ CountIncludesAbandoned'
  BY <1>1, <1>2 DEF Whole, CountIncludesAbandoned, Abandoned, Tiers, TierSize, HasParity
<1>10. Reading'
  <2>1. ASSUME NEW r \in read'
        PROVE  queryTable'[r].tier # dataTiersRecovered' /\ (Inside(r))'
    <3>1. queryTable[r].tier # dataTiersRecovered /\ Inside(r)
      BY <1>1, <1>2, <1>3, <2>1 DEF Reading
    <3> QED
      BY <1>1, <1>4, <3>1 DEF Inside
  <2>2. pc' = "rows" /\ tier' = NumTiers /\ dataTiersRecovered' > 0
    BY <1>1, <1>2 DEF Reading
  <2> QED
    BY <2>1, <2>2 DEF Reading
<1> QED
  BY <1>7, <1>8, <1>9, <1>10 DEF IInv

LEMMA NextInv == IInv /\ [Next]_vars => IInv'
<1> SUFFICES ASSUME IInv, [Next]_vars PROVE IInv'
  OBVIOUS
<1>1. CASE no_data_fragment \/ nothing_available
  BY <1>1, StoppedInv
<1>2. CASE decode_chunk
  BY <1>2, DecodeChunkInv
<1>3. CASE end_tier
  BY <1>3, EndTierInv
<1>4. CASE begin_rows
  BY <1>4, BeginRowsInv
<1>5. CASE read_row
  BY <1>5, ReadRowInv
<1>6. CASE end_rows \/ read_outside
  BY <1>6, EndRowsInv
<1>7. CASE UNCHANGED vars
  <2>1. Reading
    BY DEF IInv
  <2>2. queryTable' = queryTable
    BY DEF queryTable
  <2> HIDE DEF queryTable
  <2>3. Reading' /\ pc' \in Pcs
    BY <1>7, <2>1, <2>2 DEF IInv, Types, Reading, LastRow, Inside, vars
  <2> QED
    BY <1>7, <2>3, ControlInv DEF vars, input
<1> QED
  BY <1>1, <1>2, <1>3, <1>4, <1>5, <1>6, <1>7 DEF Next

\* The invariant of restoreData: the tiers so far are counted, and whole unless they failed, the
\* chunks of the current one put together, and the rows read are inside and before the first
\* of the counted tier.
THEOREM Invariant == Spec => []IInv
  BY InitInv, NextInv, PTL DEF Spec

-----------------------------------------------------------------------------
(* The properties                                                           *)

\* The position in the table, the tier and the count stay in their ranges, and no tier
\* becomes longer than it was before it was split.
THEOREM TypeCorrect == Spec => []TypeOK
<1>1. IInv => TypeOK
  <2> SUFFICES ASSUME IInv PROVE TypeOK
    OBVIOUS
  <2>1. Types /\ Whole
    BY DEF IInv
  <2>2. \A t \in Tiers : TierSize(t) \in Nat
    BY ChunksFacts
  <2>3. \A t \in Tiers : dataTiersValues[t] \in 0 .. TierSize(t)
    BY <2>1, <2>2 DEF Types, Whole
  <2>4. read \subseteq DOMAIN queryTable
    <3>1. DOMAIN queryTable = 1 .. Len(queryTable) /\ Len(queryTable) \in Nat
      BY QueryTable
    <3> HIDE DEF queryTable
    <3> QED
      BY <2>1, <3>1 DEF Types
  <2>5. failed \subseteq Tiers
    <3>1. tier \in 0 .. NumTiers /\ NumTiers \in Nat /\ failed \subseteq 0 .. tier - 1
      BY <2>1 DEF Types, SizeMax
    <3> QED
      BY <3>1 DEF Tiers
  <2> QED
    BY <2>1, <2>3, <2>4, <2>5 DEF TypeOK, Types, Pcs
<1> QED
  BY <1>1, Invariant, PTL

\* restoreData counts a tier down and then up when a chunk cannot be decoded, at zero through
\* the largest number of the type, and only up when it abandons a tier for lack of parity: the
\* count exceeds the tiers whose chunks were all decoded by exactly those abandoned.
THEOREM CountsAbandonedToo == Spec => []CountIncludesAbandoned
<1>1. IInv => CountIncludesAbandoned
  BY DEF IInv
<1> QED
  BY <1>1, Invariant, PTL

\* What splitVector divided, restoreData puts together: of a tier whose chunks were all decoded
\* every bitplane lies at its offset inside the tier.
THEOREM ReadsInside == Spec => []DecodedIsWhole
<1>1. IInv => DecodedIsWhole
  <2> SUFFICES ASSUME IInv, NEW r \in DOMAIN queryTable, queryTable[r].tier < tier,
                      queryTable[r].tier \notin failed
               PROVE  Inside(r)
    BY DEF DecodedIsWhole
  <2>1. /\ queryTable[r].tier \in Tiers
        /\ queryTable[r].offset + queryTable[r].size <= TierSize(queryTable[r].tier)
    BY QueryTable
  <2>2. dataTiersValues[queryTable[r].tier] = TierSize(queryTable[r].tier)
    BY <2>1 DEF IInv, Whole
  <2> QED
    BY <2>1, <2>2 DEF Inside
<1> QED
  BY <1>1, Invariant, PTL

(* When the tiers that failed are the last ones, they begin at the number of the others. *)
LEMMA FailedAreTheLast ==
    ASSUME NEW S \in SUBSET Tiers, \A t \in S : \A u \in Tiers : u > t => u \in S
    PROVE  S = NumTiers - Cardinality(S) .. NumTiers - 1
<1>1. NumTiers \in Nat /\ Tiers = 0 .. NumTiers - 1
  BY DEF SizeMax, Tiers
<1>2. CASE S = {}
  <2>1. Cardinality(S) = 0
    BY <1>2, FS_EmptySet
  <2> QED
    BY <1>1, <1>2, <2>1
<1>3. CASE S # {}
  <2>1. S \in SUBSET Nat
    BY <1>1
  <2>2. PICK i \in S : \A j \in S : i <= j
    BY <1>3, <2>1, LeastOf
  <2>3. i \in Nat /\ i < NumTiers
    BY <1>1, <2>1, <2>2
  <2>4. S = i .. NumTiers - 1
    <3>1. ASSUME NEW u \in i .. NumTiers - 1 PROVE u \in S
      <4>1. u \in Tiers /\ (u = i \/ u > i)
        BY <1>1, <2>3
      <4> QED
        BY <2>2, <4>1
    <3>2. ASSUME NEW u \in S PROVE u \in i .. NumTiers - 1
      BY <1>1, <2>2, <2>3
    <3> QED
      BY <3>1, <3>2
  <2>5. Cardinality(i .. NumTiers - 1) = NumTiers - i
    BY <1>1, <2>3, FS_Interval
  <2>6. NumTiers - Cardinality(S) = i
    BY <1>1, <2>3, <2>4, <2>5
  <2> QED
    BY <2>4, <2>6
<1> QED
  BY <1>2, <1>3

(* As many numbers below n as there are from d on, none of them below d.     *)
LEMMA FromOn ==
    ASSUME NEW n \in Nat, NEW d \in 0 .. n, NEW S \in SUBSET (d .. n - 1)
    PROVE  /\ Cardinality(S) <= n - d
           /\ Cardinality(S) = n - d => S = d .. n - 1
<1>1. IsFiniteSet(d .. n - 1) /\ Cardinality(d .. n - 1) = n - d
  <2>1. CASE d < n
    BY <2>1, FS_Interval
  <2>2. CASE d = n
    <3>1. d .. n - 1 = {}
      BY <2>2
    <3> QED
      BY <2>2, <3>1, FS_EmptySet
  <2> QED
    BY <2>1, <2>2
<1>2. Cardinality(S) <= Cardinality(d .. n - 1)
  BY <1>1, FS_Subset
<1>3. Cardinality(S) = Cardinality(d .. n - 1) => S = d .. n - 1
  BY <1>1, FS_Subset
<1> QED
  BY <1>1, <1>2, <1>3

(* The rows that were read when the end is reached are those of the tiers    *)
(* below the count, of which none failed: what is short has a row outside.   *)
LEMMA ReadsBelowTheCount ==
    ASSUME IInv, pc = "done"
    PROVE  /\ failed \in SUBSET (dataTiersRecovered .. NumTiers - 1)
           /\ dataTiersRecovered \in 0 .. NumTiers
           /\ \A r \in DOMAIN queryTable :
                 r \in read <=> queryTable[r].tier < dataTiersRecovered
<1> DEFINE d == dataTiersRecovered
<1>1. Types /\ Reading /\ CountIncludesAbandoned /\ Whole /\ tier = NumTiers /\ LastRow
  BY DEF IInv, Reading
<1>2. NumTiers \in Nat /\ Tiers = 0 .. NumTiers - 1 /\ failed \in SUBSET Tiers
  BY <1>1 DEF Types, Tiers, SizeMax
<1>3. d \in 0 .. NumTiers
  <2>1. /\ Cardinality(failed) \in 0 .. NumTiers
        /\ Cardinality(Abandoned) \in 0 .. Cardinality(failed)
    BY <1>1, FailedFacts
  <2>2. d = (NumTiers - Cardinality(failed)) + Cardinality(Abandoned)
    BY <1>1 DEF CountIncludesAbandoned
  <2> QED
    BY <1>2, <2>1, <2>2
<1>4. /\ DOMAIN queryTable = 1 .. Len(queryTable) /\ Len(queryTable) \in Nat
      /\ \A r \in DOMAIN queryTable : queryTable[r].tier \in Tiers
      /\ \A r, q \in DOMAIN queryTable : r <= q => queryTable[r].tier <= queryTable[q].tier
  BY QueryTable
<1>5. /\ row \in 1 .. Len(queryTable) + 1 /\ read = 1 .. row - 1
      /\ \A r \in read : queryTable[r].tier # d
  BY <1>1 DEF Types, Reading
<1>6. row \in DOMAIN queryTable => queryTable[row].tier = d
  BY <1>1 DEF LastRow
<1>7. \A t \in Tiers : \E r \in DOMAIN queryTable : queryTable[r].tier = t
  BY QueryTable
<1>8. ASSUME NEW t \in failed
      PROVE  \E r \in DOMAIN queryTable : queryTable[r].tier = t /\ r \notin read
  <2>1. t \in Tiers
    BY <1>2
  <2>2. PICK r \in DOMAIN queryTable :
           /\ queryTable[r].tier = t
           /\ queryTable[r].offset + queryTable[r].size = TierSize(t)
    BY <2>1, QueryTable
  <2>3. dataTiersValues[t] < TierSize(t) /\ dataTiersValues[t] \in Nat /\ TierSize(t) \in Nat
    BY <1>1, <2>1, ChunksFacts DEF Whole, Types
  <2>4. ~Inside(r)
    BY <2>2, <2>3 DEF Inside
  <2>5. r \notin read
    BY <1>1, <2>4 DEF Reading
  <2> QED
    BY <2>2, <2>5
<1> HIDE DEF d, queryTable
<1>9. ASSUME NEW r \in read PROVE r \in DOMAIN queryTable /\ queryTable[r].tier < d
  <2>1. r \in DOMAIN queryTable /\ r < row /\ queryTable[r].tier # d
    BY <1>4, <1>5
  <2>2. CASE row \in DOMAIN queryTable
    <3>1. r <= row /\ queryTable[row].tier = d
      BY <1>4, <1>5, <1>6, <2>1, <2>2
    <3>2. queryTable[r].tier <= d
      BY <1>4, <2>1, <2>2, <3>1
    <3>3. queryTable[r].tier \in Nat /\ d \in Nat
      BY <1>2, <1>3, <1>4, <2>1
    <3> QED
      BY <2>1, <3>2, <3>3
  <2>3. CASE row \notin DOMAIN queryTable
    <3>1. read = DOMAIN queryTable
      BY <1>4, <1>5, <2>3
    <3>2. d = NumTiers
      <4>1. d \notin Tiers
        BY <1>5, <1>7, <3>1
      <4> QED
        BY <1>2, <1>3, <4>1
    <3>3. queryTable[r].tier \in 0 .. NumTiers - 1
      BY <1>2, <1>4, <2>1
    <3> QED
      BY <1>2, <2>1, <3>2, <3>3
  <2> QED
    BY <2>2, <2>3
<1>10. ASSUME NEW r \in DOMAIN queryTable, r \notin read
      PROVE  d <= queryTable[r].tier
  <2>1. row <= r /\ row \in DOMAIN queryTable
    BY <1>4, <1>5, <1>10
  <2> QED
    BY <1>4, <1>6, <2>1
<1>11. failed \in SUBSET (d .. NumTiers - 1)
  <2> SUFFICES ASSUME NEW t \in failed PROVE t \in d .. NumTiers - 1
    OBVIOUS
  <2>1. PICK r \in DOMAIN queryTable : queryTable[r].tier = t /\ r \notin read
    BY <1>8
  <2>2. d <= t
    BY <1>10, <2>1
  <2> QED
    BY <1>2, <1>3, <2>2
<1>12. ASSUME NEW r \in DOMAIN queryTable PROVE r \in read <=> queryTable[r].tier < d
  <2>1. queryTable[r].tier \in Nat /\ d \in Nat
    BY <1>2, <1>3, <1>4
  <2> QED
    BY <1>9, <1>10, <2>1
<1> QED
  BY <1>3, <1>11, <1>12 DEF d

\* At the end of the rows exactly those of the tiers whose chunks were all decoded are read: had
\* the count included a tier it should not, a row before would have been outside.  And with
\* the failed tiers the last ones, none of them abandoned, no row before the end is outside.
THEOREM ReadsTheRecovered == Spec => []RecoveredAreRead
<1>1. ASSUME IInv, pc = "done"
      PROVE  read = {r \in DOMAIN queryTable : queryTable[r].tier \notin failed}
  <2> DEFINE d == dataTiersRecovered
  <2>1. /\ failed \in SUBSET (d .. NumTiers - 1) /\ d \in 0 .. NumTiers
        /\ \A r \in DOMAIN queryTable : r \in read <=> queryTable[r].tier < d
    BY <1>1, ReadsBelowTheCount
  <2>2. NumTiers \in Nat /\ Tiers = 0 .. NumTiers - 1
    BY DEF Tiers, SizeMax
  <2>3. Types /\ CountIncludesAbandoned /\ tier = NumTiers
    BY <1>1 DEF IInv, Reading
  <2>4. /\ d = (NumTiers - Cardinality(failed)) + Cardinality(Abandoned)
        /\ Cardinality(failed) \in Nat /\ Cardinality(Abandoned) \in Nat
    <3>1. Cardinality(failed) \in Nat /\ Cardinality(Abandoned) \in Nat
      BY <2>3, FailedFacts, FS_CardinalityType
    <3> QED
      BY <2>3, <3>1 DEF CountIncludesAbandoned
  <2>5. /\ DOMAIN queryTable = 1 .. Len(queryTable) /\ Len(queryTable) \in Nat
        /\ \A r \in DOMAIN queryTable : queryTable[r].tier \in Tiers
    BY QueryTable
  <2>6. read \subseteq DOMAIN queryTable
    <3>1. row \in 1 .. Len(queryTable) + 1 /\ read = 1 .. row - 1
      BY <2>3 DEF Types
    <3> HIDE DEF queryTable
    <3> QED
      BY <2>5, <3>1
  <2> HIDE DEF d, queryTable
  <2>7. Cardinality(failed) <= NumTiers - d
    BY <2>1, <2>2, FromOn
  <2>8. Cardinality(failed) = NumTiers - d
    <3> DEFINE f == Cardinality(failed)
               a == Cardinality(Abandoned)
    <3>1. /\ d \in Nat /\ NumTiers \in Nat /\ f \in Nat /\ a \in Nat
          /\ d = (NumTiers - f) + a /\ f <= NumTiers - d
      BY <2>1, <2>2, <2>4, <2>7
    <3> HIDE DEF f, a
    <3>2. f = NumTiers - d
      BY <3>1
    <3> QED
      BY <3>2 DEF f
  <2>9. failed = d .. NumTiers - 1
    BY <2>1, <2>2, <2>8, FromOn
  <2>10. ASSUME NEW r \in DOMAIN queryTable
         PROVE  r \in read <=> queryTable[r].tier \notin failed
    <3>1. queryTable[r].tier \in 0 .. NumTiers - 1
      BY <2>2, <2>5
    <3>2. queryTable[r].tier < d <=> queryTable[r].tier \notin failed
      BY <2>1, <2>2, <2>9, <3>1
    <3> QED
      BY <2>1, <3>2
  <2> QED
    BY <2>6, <2>10
<1>2. ASSUME IInv, pc = "outside", OnlyLastFailed PROVE FALSE
  <2> DEFINE d == dataTiersRecovered
             t == queryTable[row].tier
  <2>1. /\ Types /\ Reading /\ Whole /\ CountIncludesAbandoned /\ tier = NumTiers
        /\ ~LastRow /\ ~Inside(row)
    BY <1>2 DEF IInv, Reading
  <2>2. NumTiers \in Nat /\ Tiers = 0 .. NumTiers - 1 /\ failed \in SUBSET Tiers
    BY <2>1 DEF Types, Tiers, SizeMax
  <2>3. failed = d .. NumTiers - 1 /\ d \in 0 .. NumTiers
    <3>1. failed = NumTiers - Cardinality(failed) .. NumTiers - 1
      BY <1>2, <2>2, FailedAreTheLast DEF OnlyLastFailed
    <3>2. Abandoned = {} /\ Cardinality(Abandoned) = 0
      BY <1>2, FS_EmptySet DEF OnlyLastFailed
    <3>3. Cardinality(failed) \in 0 .. NumTiers
      BY <2>1, FailedFacts
    <3>4. d = NumTiers - Cardinality(failed)
      BY <2>1, <2>2, <3>2, <3>3 DEF CountIncludesAbandoned
    <3> QED
      BY <2>2, <3>1, <3>3, <3>4
  <2>4. row \in DOMAIN queryTable /\ t # d
    BY <2>1 DEF LastRow
  <2>5. /\ t \in Tiers
        /\ queryTable[row].offset + queryTable[row].size <= TierSize(t)
    BY <2>4, QueryTable
  <2>6. t \in failed
    <3> SUFFICES ASSUME t \notin failed PROVE FALSE
      OBVIOUS
    <3>1. t < tier
      BY <2>1, <2>2, <2>5
    <3>2. dataTiersValues[t] = TierSize(t)
      BY <2>1, <2>5, <3>1 DEF Whole
    <3> QED
      BY <2>1, <2>5, <3>2 DEF Inside
  <2>7. PICK q \in DOMAIN queryTable : queryTable[q].tier = d
    <3>1. d \in Tiers
      BY <2>2, <2>3, <2>6
    <3> QED
      BY <3>1, QueryTable
  <2>8. /\ DOMAIN queryTable = 1 .. Len(queryTable) /\ Len(queryTable) \in Nat
        /\ \A r, p \in DOMAIN queryTable : r <= p => queryTable[r].tier <= queryTable[p].tier
    BY QueryTable
  <2>9. /\ row \in 1 .. Len(queryTable) + 1 /\ read = 1 .. row - 1
        /\ \A r \in read : queryTable[r].tier # d
    BY <2>1 DEF Types, Reading
  <2>10. q \notin read
    BY <2>7, <2>9
  <2> HIDE DEF d, queryTable
  <2>11. row <= q
    BY <2>8, <2>9, <2>10
  <2>12. t <= d
    BY <2>4, <2>7, <2>8, <2>11
  <2>13. t \in d .. NumTiers - 1 /\ d \in Nat
    BY <2>2, <2>3, <2>6
  <2> HIDE DEF t
  <2> QED
    BY <2>4, <2>12, <2>13
<1>3. IInv => RecoveredAreRead
  BY <1>1, <1>2 DEF RecoveredAreRead
<1> QED
  BY <1>3, Invariant, PTL
=============================================================================
