-------------------------- MODULE LossReportProofs --------------------------
(***************************************************************************)
(* Proofs about LossReport, for any number of tiers, chunks and fragments, *)
(* any thresholds, and any losses, copies and orders of the datagrams.     *)
(***************************************************************************)
EXTENDS LossReport, FiniteSetTheorems, SequenceTheorems, WellFoundedInduction, TLAPS

(* Sums over finite sets, as the community modules define them.               *)

(* What the sum over a finite set takes apart, one element at a time.        *)
Unfolds(iter, g, S) ==
    iter = [s \in SUBSET S |->
               IF s = {} THEN 0
               ELSE LET x == CHOOSE x \in s : TRUE IN g[x] + iter[s \ {x}]]

LEMMA SumFunctionDef ==
    ASSUME NEW g
    PROVE  SumFunction(g) = (CHOOSE iter : Unfolds(iter, g, DOMAIN g))[DOMAIN g]
BY DEF SumFunction, SumFunctionOnSet, FoldFunctionOnSet, MapThenFoldSet, Unfolds

(* Two functions that take the sum apart in this way agree: there is no smallest set     *)
(* about which they differ.                                                              *)
LEMMA UnfoldsUnique ==
    ASSUME NEW S, IsFiniteSet(S), NEW g, NEW e, NEW h, Unfolds(e, g, S), Unfolds(h, g, S)
    PROVE  \A s \in SUBSET S : e[s] = h[s]
<1> DEFINE T == {s \in SUBSET S : e[s] # h[s]}
<1> SUFFICES ASSUME T # {} PROVE FALSE
  OBVIOUS
<1>1. IsWellFoundedOn(StrictSubsetOrdering(S), SUBSET S)
  BY FS_StrictSubsetOrderingWellFounded, FS_FiniteSubsetsOfFinite
<1>2. PICK m \in T : \A s \in T : <<s, m>> \notin StrictSubsetOrdering(S)
  <2> HIDE DEF T
  <2>1. T \subseteq SUBSET S
    BY DEF T
  <2> QED
    BY <1>1, <2>1, WFMin
<1> DEFINE x == CHOOSE y \in m : TRUE
<1>3. CASE m = {}
  BY <1>2, <1>3 DEF Unfolds
<1>4. CASE m # {}
  <2>1. x \in m /\ m \ {x} \in SUBSET S /\ m \in SUBSET S
    BY <1>2, <1>4
  <2>2. <<m \ {x}, m>> \in StrictSubsetOrdering(S)
    BY <2>1 DEF StrictSubsetOrdering
  <2>3. e[m \ {x}] = h[m \ {x}]
    BY <1>2, <2>1, <2>2
  <2>4. e[m] = g[x] + e[m \ {x}] /\ h[m] = g[x] + h[m \ {x}]
    BY <1>4, <2>1 DEF Unfolds
  <2> QED
    BY <1>2, <2>3, <2>4
<1> QED
  BY <1>3, <1>4

LEMMA DisjointUnion ==
    ASSUME NEW X, NEW Y, IsFiniteSet(X), IsFiniteSet(Y), X \cap Y = {}
    PROVE  /\ IsFiniteSet(X \cup Y)
           /\ Cardinality(X \cup Y) = Cardinality(X) + Cardinality(Y)
<1>1. Cardinality({}) = 0 /\ Cardinality(X) \in Nat /\ Cardinality(Y) \in Nat
  BY FS_EmptySet, FS_CardinalityType
<1>2. /\ IsFiniteSet(X \cup Y)
      /\ Cardinality(X \cup Y) = Cardinality(X) + Cardinality(Y) - Cardinality(X \cap Y)
  BY FS_Union
<1>3. Cardinality(X \cap Y) = 0
  BY <1>1, Zenon
<1> QED
  BY <1>1, <1>2, <1>3

(* The sum of the sizes of disjoint sets is the size of their union.         *)
LEMMA SumOfCardinalities ==
    ASSUME NEW g, IsFiniteSet(DOMAIN g), NEW A,
           \A x \in DOMAIN g : IsFiniteSet(A[x]) /\ g[x] = Cardinality(A[x]),
           \A x, y \in DOMAIN g : x # y => A[x] \cap A[y] = {},
           NEW V, \A x \in DOMAIN g : A[x] \subseteq V,
           \A v \in V : \E x \in DOMAIN g : v \in A[x]
    PROVE  IsFiniteSet(V) /\ SumFunction(g) = Cardinality(V)
<1> DEFINE S == DOMAIN g
           U(s) == UNION {A[x] : x \in s}
           h == [s \in SUBSET S |-> Cardinality(U(s))]
<1>1. \A s \in SUBSET S : IsFiniteSet(U(s))
  <2> SUFFICES ASSUME NEW s \in SUBSET S PROVE IsFiniteSet(U(s))
    OBVIOUS
  <2>1. IsFiniteSet(s)
    BY FS_Subset
  <2>2. IsFiniteSet({A[x] : x \in s})
    <3>1. [x \in s |-> A[x]] \in Surjection(s, {A[x] : x \in s})
      BY DEF Surjection
    <3> QED
      BY <2>1, <3>1, FS_Surjection
  <2> QED
    BY <2>2, FS_UNION
<1>2. Unfolds(h, g, S)
  <2> SUFFICES ASSUME NEW s \in SUBSET S
               PROVE  h[s] = IF s = {} THEN 0
                             ELSE LET x == CHOOSE x \in s : TRUE IN g[x] + h[s \ {x}]
    BY DEF Unfolds
  <2>1. CASE s = {}
    BY <2>1, FS_EmptySet
  <2>2. CASE s # {}
    <3> DEFINE x == CHOOSE x \in s : TRUE
    <3>1. x \in s /\ s \ {x} \in SUBSET S
      BY <2>2
    <3> HIDE DEF x
    <3>2. U(s) = A[x] \cup U(s \ {x}) /\ A[x] \cap U(s \ {x}) = {}
      BY <3>1
    <3>3. Cardinality(U(s)) = Cardinality(A[x]) + Cardinality(U(s \ {x}))
      <4>1. IsFiniteSet(A[x]) /\ IsFiniteSet(U(s \ {x}))
        BY <1>1, <3>1
      <4> QED
        BY <3>2, <4>1, DisjointUnion
    <3>4. h[s] = g[x] + h[s \ {x}]
      BY <3>1, <3>3
    <3> QED
      BY <2>2, <3>4 DEF x
  <2> QED
    BY <2>1, <2>2
<1> DEFINE e == CHOOSE iter : Unfolds(iter, g, S)
<1>3. Unfolds(e, g, S)
  <2> HIDE DEF h
  <2> QED
    BY <1>2
<1>4. e[S] = h[S]
  <2> HIDE DEF h, e
  <2> QED
    BY <1>2, <1>3, UnfoldsUnique
<1>5. U(S) = V
  OBVIOUS
<1>6. h[S] = Cardinality(V) /\ IsFiniteSet(V)
  BY <1>1, <1>5
<1> QED
  BY <1>4, <1>6, SumFunctionDef

LEMMA UnitsOf ==
    ASSUME NEW x, NEW n \in Nat
    PROVE  IsFiniteSet({x} \X (1 .. n)) /\ Cardinality({x} \X (1 .. n)) = n
<1> DEFINE X == {x}
           Y == 1 .. n
<1>1. IsFiniteSet(X) /\ Cardinality(X) = 1
  BY FS_Singleton
<1>2. IsFiniteSet(Y) /\ Cardinality(Y) = n
  BY FS_Interval
<1> HIDE DEF X, Y
<1>3. IsFiniteSet(X \X Y) /\ Cardinality(X \X Y) = 1 * n
  BY <1>1, <1>2, FS_Product
<1> QED
  BY <1>3 DEF X, Y

(* A sum of natural numbers is one, and no less than any of them.            *)
LEMMA SumOfNaturals ==
    ASSUME NEW g, IsFiniteSet(DOMAIN g), \A x \in DOMAIN g : g[x] \in Nat
    PROVE  SumFunction(g) \in Nat /\ \A x \in DOMAIN g : g[x] <= SumFunction(g)
<1> DEFINE A == [x \in DOMAIN g |-> {x} \X (1 .. g[x])]
           U == UNION {A[x] : x \in DOMAIN g}
<1>1. \A x \in DOMAIN g : IsFiniteSet(A[x]) /\ Cardinality(A[x]) = g[x]
  <2> SUFFICES ASSUME NEW x \in DOMAIN g
               PROVE  IsFiniteSet(A[x]) /\ Cardinality(A[x]) = g[x]
    OBVIOUS
  <2>1. A[x] = {x} \X (1 .. g[x])
    OBVIOUS
  <2> QED
    BY <2>1, UnitsOf
<1>2. \A x, y \in DOMAIN g : x # y => A[x] \cap A[y] = {}
  OBVIOUS
<1>3. IsFiniteSet(U) /\ SumFunction(g) = Cardinality(U)
  <2> HIDE DEF A
  <2> QED
    BY <1>1, <1>2, SumOfCardinalities
<1>4. \A x \in DOMAIN g : Cardinality(A[x]) <= Cardinality(U)
  <2> SUFFICES ASSUME NEW x \in DOMAIN g PROVE Cardinality(A[x]) <= Cardinality(U)
    OBVIOUS
  <2>1. A[x] \subseteq U
    OBVIOUS
  <2> HIDE DEF A, U
  <2> QED
    BY <1>3, <2>1, FS_Subset
<1> HIDE DEF A, U
<1>5. Cardinality(U) \in Nat
  BY <1>3, FS_CardinalityType
<1> QED
  BY <1>1, <1>3, <1>4, <1>5

-----------------------------------------------------------------------------

USE ReportAssumption

Report == [tier : Tiers, received : Nat, expected : Nat, after : Nat]

\* The last report of a tier was about as many chunk numbers as were remembered.
Latest == \A i \in DOMAIN reports : reports[i].after <= processed_chunks_count_[reports[i].tier]

Bounded == ByCount = FALSE => NeverNegative

IInv == TypeOK /\ reports \in Seq(Report) /\ Latest /\ ReportsAscend /\ Bounded

-----------------------------------------------------------------------------
(* Fragments and chunk numbers                                              *)

LEMMA FragFacts ==
    ASSUME NEW f \in Frags
    PROVE  /\ f[1] \in Tiers /\ f[2] \in 0 .. NumChunks[f[1]] - 1 /\ f[3] \in 0 .. N - 1
           /\ f = <<f[1], f[2], f[3]>> /\ f[2] \in Numbers
<1>1. PICK t \in Tiers : f \in {<<t, c, i>> : c \in 0 .. NumChunks[t] - 1, i \in 0 .. N - 1}
  BY DEF Frags
<1>2. PICK c \in 0 .. NumChunks[t] - 1, i \in 0 .. N - 1 : f = <<t, c, i>>
  BY <1>1
<1> QED
  BY <1>2 DEF Numbers

LEMMA NumbersFinite == IsFiniteSet(Numbers)
<1> DEFINE S == {0 .. NumChunks[t] - 1 : t \in Tiers}
<1>1. IsFiniteSet(Tiers)
  BY FS_Interval DEF Tiers
<1>2. [t \in Tiers |-> 0 .. NumChunks[t] - 1] \in Surjection(Tiers, S)
  BY DEF Surjection
<1>3. IsFiniteSet(S)
  <2> HIDE DEF S
  <2> QED
    BY <1>1, <1>2, FS_Surjection
<1>4. \A T \in S : IsFiniteSet(T)
  <2>1. \A t \in Tiers : NumChunks[t] \in Int /\ IsFiniteSet(0 .. NumChunks[t] - 1)
    BY FS_Interval
  <2> QED
    BY <2>1
<1>5. Numbers = UNION S
  BY DEF Numbers
<1> HIDE DEF S
<1> QED
  BY <1>3, <1>4, <1>5, FS_UNION

(* Of the chunks with the numbers in L a tier has N fragments each.          *)
LEMMA FragsOfChunks ==
    ASSUME NEW t, NEW L, IsFiniteSet(L),
           NEW F \in SUBSET Frags, \A f \in F : f[1] = t /\ f[2] \in L
    PROVE  IsFiniteSet(F) /\ Cardinality(F) <= N * Cardinality(L)
<1> DEFINE j == [f \in F |-> <<f[2], f[3]>>]
<1>1. IsFiniteSet(0 .. N - 1) /\ Cardinality(0 .. N - 1) = N
  BY FS_Interval
<1>2. /\ IsFiniteSet(L \X (0 .. N - 1))
      /\ Cardinality(L \X (0 .. N - 1)) = Cardinality(L) * N
  BY <1>1, FS_Product
<1>3. j \in Injection(F, L \X (0 .. N - 1))
  <2>1. \A f \in F : f = <<t, f[2], f[3]>> /\ f[2] \in L /\ f[3] \in 0 .. N - 1
    BY FragFacts
  <2> QED
    BY <2>1 DEF Injection, IsInjective
<1>4. IsFiniteSet(F) /\ Cardinality(F) <= Cardinality(L) * N
  <2> HIDE DEF j
  <2> QED
    BY <1>2, <1>3, FS_Injection
<1>5. Cardinality(L) \in Nat /\ Cardinality(L) * N = N * Cardinality(L)
  BY FS_CardinalityType
<1> QED
  BY <1>4, <1>5

(* What the report of receiver_adaptive.cpp adds up is what is held of the chunks it is  *)
(* about, none of it twice.                                                              *)
StoredIn(t, counts) == {f \in stored : f[1] = t /\ f[2] \in LastChunks(counts)}

LEMMA TotalIsStored ==
    ASSUME ByCount = FALSE, stored \subseteq Frags, NEW t, NEW counts,
           IsFiniteSet(LastChunks(counts))
    PROVE  TotalReceived(t, counts) = Cardinality(StoredIn(t, counts))
<1> DEFINE L == LastChunks(counts)
           A == [c \in L |-> StoredOf(t, c)]
           g == [c \in L |-> Cardinality(StoredOf(t, c))]
<1>1. \A c \in L : IsFiniteSet(A[c])
  <2> SUFFICES ASSUME NEW c \in L PROVE IsFiniteSet(StoredOf(t, c))
    OBVIOUS
  <2>1. IsFiniteSet({c}) /\ \A f \in StoredOf(t, c) : f[1] = t /\ f[2] \in {c}
    BY FS_Singleton DEF StoredOf
  <2> QED
    BY <2>1, FragsOfChunks DEF StoredOf
<1>2. \A c, d \in L : c # d => A[c] \cap A[d] = {}
  BY DEF StoredOf
<1>3. /\ \A c \in L : A[c] \subseteq StoredIn(t, counts)
      /\ \A f \in StoredIn(t, counts) : \E c \in L : f \in A[c]
  BY DEF StoredOf, StoredIn
<1>4. TotalReceived(t, counts) = SumFunction(g)
  BY DEF TotalReceived
<1>5. DOMAIN g = L /\ \A c \in L : g[c] = Cardinality(A[c])
  OBVIOUS
<1> HIDE DEF L, A, g
<1> QED
  BY <1>1, <1>2, <1>3, <1>4, <1>5, SumOfCardinalities DEF L

(* What is held and what is lost of the chunks a report is about is together no more     *)
(* than what it expects.                                                                 *)
LEMMA ReportIsEnough ==
    ASSUME ByCount = FALSE, stored \subseteq Frags, NEW t, NEW counts,
           IsFiniteSet(LastChunks(counts)),
           NEW F \in SUBSET Frags, F \cap stored = {},
           \A f \in F : f[1] = t /\ f[2] \in LastChunks(counts)
    PROVE  Cardinality(F) <= Expected(t, counts) - TotalReceived(t, counts)
<1> DEFINE G == StoredIn(t, counts)
<1>1. IsFiniteSet(F) /\ IsFiniteSet(G) /\ F \cap G = {}
  <2>1. IsFiniteSet(F)
    BY FragsOfChunks
  <2>2. G \in SUBSET Frags /\ \A f \in G : f[1] = t /\ f[2] \in LastChunks(counts)
    BY DEF StoredIn
  <2>3. IsFiniteSet(G)
    BY <2>2, FragsOfChunks
  <2> QED
    BY <2>1, <2>3 DEF StoredIn
<1>2. Cardinality(F \cup G) = Cardinality(F) + Cardinality(G)
  BY <1>1, DisjointUnion
<1>3. Cardinality(F \cup G) <= N * Cardinality(LastChunks(counts))
  <2>1. /\ F \cup G \in SUBSET Frags
        /\ \A f \in F \cup G : f[1] = t /\ f[2] \in LastChunks(counts)
    BY DEF StoredIn
  <2> QED
    BY <2>1, FragsOfChunks
<1>4. /\ Cardinality(F) \in Nat /\ Cardinality(G) \in Nat
      /\ Cardinality(LastChunks(counts)) \in Nat
  BY <1>1, FS_CardinalityType
<1>5. N * Cardinality(LastChunks(counts)) \in Nat
  BY <1>4
<1>6. TotalReceived(t, counts) = Cardinality(G)
  BY TotalIsStored
<1>7. Expected(t, counts) = N * Cardinality(LastChunks(counts))
  BY DEF Expected
<1> HIDE DEF G
<1> QED
  BY <1>2, <1>3, <1>4, <1>5, <1>6, <1>7

-----------------------------------------------------------------------------
LEMMA InitInv == Init => IInv
<1> SUFFICES ASSUME Init PROVE IInv
  OBVIOUS
<1>1. reports = <<>> /\ DOMAIN reports = {}
  BY DEF Init
<1>2. fragments_per_chunk_ \in [{} -> 1 .. MaxArrivals]
  BY DEF Init
<1>3. Cardinality(Numbers) \in Nat
  BY NumbersFinite, FS_CardinalityType
<1>4. TypeOK
  <2>1. fragments_per_chunk_ \in UNION {[S -> 1 .. MaxArrivals] : S \in SUBSET Numbers}
    BY <1>2
  <2>2. processed_chunks_count_ \in [Tiers -> 0 .. Cardinality(Numbers)]
    <3>1. 0 \in 0 .. Cardinality(Numbers)
      BY <1>3
    <3> QED
      BY <3>1 DEF Init
  <2>3. sent \subseteq Frags /\ udp \subseteq sent /\ stored \subseteq sent
    BY DEF Init
  <2>4. \A i \in DOMAIN reports : reports[i].tier \in Tiers /\ reports[i].received \in Nat
    BY <1>1
  <2> QED
    BY <2>1, <2>2, <2>3, <2>4 DEF TypeOK
<1>5. reports \in Seq(Report) /\ Latest /\ ReportsAscend /\ Bounded
  BY <1>1 DEF Latest, ReportsAscend, Bounded, NeverNegative
<1> QED
  BY <1>4, <1>5 DEF IInv

LEMMA StutterInv == IInv /\ UNCHANGED vars => IInv'
BY DEF vars, IInv, TypeOK, Latest, ReportsAscend, Bounded, NeverNegative

\* What is on its way has been sent.
LEMMA NetworkInv ==
    ASSUME IInv,
           \/ \E f \in Frags : send(f)
           \/ \E t \in Tiers : \E c \in 0 .. NumChunks[t] - 1 : retransmit(t, c)
           \/ \E f \in udp : lose(f)
    PROVE  IInv'
<1>1. sent' \subseteq Frags /\ udp' \subseteq sent' /\ sent \subseteq sent'
  BY DEF IInv, TypeOK, send, retransmit, lose
<1>2. UNCHANGED <<stored, fragments_per_chunk_, processed_chunks_count_, reports>>
  BY DEF send, retransmit, lose
<1> QED
  BY <1>1, <1>2 DEF IInv, TypeOK, Latest, ReportsAscend, Bounded, NeverNegative

(* What is remembered once a fragment has been tracked.                      *)
LEMMA TrackedFacts ==
    ASSUME IInv, NEW f \in udp, Arrivals < MaxArrivals
    PROVE  LET counts == Tracked(f[2])
           IN  /\ f \in Frags /\ f[1] \in Tiers /\ f[2] \in Numbers
               /\ DOMAIN counts \in SUBSET Numbers /\ IsFiniteSet(DOMAIN counts)
               /\ Cardinality(DOMAIN counts) \in 0 .. Cardinality(Numbers)
               /\ \A d \in DOMAIN counts : counts[d] \in 1 .. MaxArrivals
               /\ IsFiniteSet(LastChunks(counts)) /\ LastChunks(counts) \subseteq DOMAIN counts
<1> DEFINE fpc == fragments_per_chunk_
           counts == Tracked(f[2])
<1>1. f \in Frags /\ f[1] \in Tiers /\ f[2] \in Numbers
  BY FragFacts DEF IInv, TypeOK
<1>2. PICK S \in SUBSET Numbers : fpc \in [S -> 1 .. MaxArrivals]
  BY DEF IInv, TypeOK
<1>3. IsFiniteSet(DOMAIN fpc) /\ \A d \in DOMAIN fpc : fpc[d] \in Nat
  BY <1>2, NumbersFinite, FS_Subset
<1>4. \A d \in DOMAIN fpc : fpc[d] <= Arrivals /\ Arrivals \in Nat
  BY <1>3, SumOfNaturals DEF Arrivals
<1>5. Arrivals \in Nat
  BY <1>3, SumOfNaturals DEF Arrivals
<1>6. DOMAIN counts = S \cup {f[2]}
  BY <1>2 DEF Tracked
<1>7. \A d \in DOMAIN counts : counts[d] \in 1 .. MaxArrivals
  BY <1>2, <1>4, <1>5 DEF Tracked
<1>8. DOMAIN counts \in SUBSET Numbers
  BY <1>1, <1>2, <1>6
<1>9. IsFiniteSet(DOMAIN counts) /\ Cardinality(DOMAIN counts) <= Cardinality(Numbers)
  BY <1>8, NumbersFinite, FS_Subset
<1>10. Cardinality(DOMAIN counts) \in Nat /\ Cardinality(Numbers) \in Nat
  BY <1>9, NumbersFinite, FS_CardinalityType
<1>11. LastChunks(counts) \subseteq DOMAIN counts
  BY DEF LastChunks
<1>12. IsFiniteSet(LastChunks(counts))
  BY <1>9, <1>11, FS_Subset
<1> QED
  BY <1>1, <1>7, <1>8, <1>9, <1>10, <1>11, <1>12

LEMMA ReportFacts ==
    ASSUME IInv, NEW f \in udp, Arrivals < MaxArrivals
    PROVE  LET r == report(f[1], Tracked(f[2]))
           IN  /\ r \in Report /\ r.tier = f[1]
               /\ r.after = Cardinality(DOMAIN Tracked(f[2]))
               /\ ByCount = FALSE => r.received <= r.expected
<1> DEFINE counts == Tracked(f[2])
           L == LastChunks(counts)
           r == report(f[1], counts)
<1>1. /\ f[1] \in Tiers /\ IsFiniteSet(DOMAIN counts) /\ IsFiniteSet(L)
      /\ L \subseteq DOMAIN counts /\ \A d \in DOMAIN counts : counts[d] \in Nat
      /\ Cardinality(DOMAIN counts) \in Nat
  BY TrackedFacts
<1>2. stored \subseteq Frags
  BY DEF IInv, TypeOK
<1>3. Cardinality(L) \in Nat /\ N * Cardinality(L) \in Nat
  BY <1>1, FS_CardinalityType
<1> HIDE DEF counts
<1>4. TotalReceived(f[1], counts) \in Nat
  <2>1. CASE ByCount
    <3> DEFINE g == [c \in L |-> IF ByCount THEN counts[c] ELSE Cardinality(StoredOf(f[1], c))]
    <3>1. TotalReceived(f[1], counts) = SumFunction(g)
      BY DEF TotalReceived
    <3>2. DOMAIN g = L /\ \A c \in L : g[c] \in Nat
      BY <1>1, <2>1
    <3> HIDE DEF g
    <3> QED
      BY <1>1, <3>1, <3>2, SumOfNaturals
  <2>2. CASE ByCount = FALSE
    <3>1. StoredIn(f[1], counts) \in SUBSET Frags
      BY <1>2 DEF StoredIn
    <3>2. IsFiniteSet(StoredIn(f[1], counts))
      BY <1>1, <3>1, FragsOfChunks DEF StoredIn
    <3> QED
      BY <1>1, <1>2, <2>2, <3>2, TotalIsStored, FS_CardinalityType
  <2> QED
    BY <2>1, <2>2
<1>5. ByCount = FALSE => TotalReceived(f[1], counts) <= Expected(f[1], counts)
  <2> SUFFICES ASSUME ByCount = FALSE
               PROVE  TotalReceived(f[1], counts) <= Expected(f[1], counts)
    OBVIOUS
  <2>1. Cardinality({}) = 0
    BY FS_EmptySet
  <2>2. Cardinality({}) <= Expected(f[1], counts) - TotalReceived(f[1], counts)
    <3>1. {} \in SUBSET Frags /\ {} \cap stored = {}
      OBVIOUS
    <3> QED
      BY <1>1, <1>2, <3>1, ReportIsEnough
  <2> QED
    BY <1>3, <1>4, <2>1, <2>2 DEF Expected
<1>6. /\ r.tier = f[1] /\ r.after = Cardinality(DOMAIN counts) /\ r \in Report
      /\ r.received = TotalReceived(f[1], counts) /\ r.expected = Expected(f[1], counts)
  BY <1>1, <1>3, <1>4 DEF report, Report, Expected
<1> QED
  BY <1>5, <1>6 DEF counts

LEMMA ReceiveInv ==
    ASSUME IInv, NEW f \in udp, receive_fragment(f)
    PROVE  IInv'
<1> DEFINE counts == Tracked(f[2])
           size == Cardinality(DOMAIN counts)
           r == report(f[1], counts)
<1>1. /\ f \in Frags /\ f[1] \in Tiers
      /\ DOMAIN counts \in SUBSET Numbers /\ size \in 0 .. Cardinality(Numbers)
      /\ \A d \in DOMAIN counts : counts[d] \in 1 .. MaxArrivals
  BY TrackedFacts DEF receive_fragment
<1>2. /\ r \in Report /\ r.tier = f[1] /\ r.after = size
      /\ ByCount = FALSE => r.received <= r.expected
  BY ReportFacts DEF receive_fragment
<1>3. /\ sent' = sent /\ udp' \subseteq udp /\ stored' = stored \cup {f}
      /\ fragments_per_chunk_' = counts
  BY DEF receive_fragment, update_fragments_tracking
<1>4. counts \in [DOMAIN counts -> 1 .. MaxArrivals]
  BY <1>1 DEF Tracked
<1> HIDE DEF counts
<1>5. CASE Due(size, f[1])
  <2>1. /\ processed_chunks_count_' = [processed_chunks_count_ EXCEPT ![f[1]] = size]
        /\ reports' = Append(reports, r)
        /\ size > processed_chunks_count_[f[1]]
    BY <1>5 DEF receive_fragment, update_fragments_tracking, Due, counts
  <2> HIDE DEF size, r
  <2>2. /\ reports \in Seq(Report) /\ Len(reports) \in Nat
        /\ processed_chunks_count_ \in [Tiers -> 0 .. Cardinality(Numbers)]
    BY DEF IInv, TypeOK
  <2>3. /\ reports' \in Seq(Report) /\ DOMAIN reports' = 1 .. Len(reports) + 1
        /\ DOMAIN reports = 1 .. Len(reports)
        /\ \A i \in DOMAIN reports : reports'[i] = reports[i]
        /\ reports'[Len(reports) + 1] = r
    BY <1>2, <2>1, <2>2
  <2>4. \A i \in DOMAIN reports' : reports'[i].tier \in Tiers /\ reports'[i].received \in Nat
    <3>1. \A i \in DOMAIN reports' : reports'[i] \in Report
      BY <2>3
    <3> QED
      BY <3>1 DEF Report
  <2>5. TypeOK'
    BY <1>1, <1>3, <1>4, <2>1, <2>2, <2>4 DEF IInv, TypeOK
  <2>6. \A i \in DOMAIN reports :
            /\ reports[i].tier \in Tiers /\ reports[i].after \in Nat
            /\ reports[i].after <= processed_chunks_count_[reports[i].tier]
    <3>1. \A i \in DOMAIN reports : reports[i] \in Report
      BY <2>2
    <3> QED
      BY <3>1 DEF IInv, Latest, Report
  <2>7. Latest'
    <3> SUFFICES ASSUME NEW i \in DOMAIN reports'
                 PROVE  reports'[i].after <= processed_chunks_count_'[reports'[i].tier]
      BY DEF Latest
    <3>1. CASE i = Len(reports) + 1
      BY <1>1, <1>2, <2>1, <2>2, <2>3, <3>1
    <3>2. CASE i \in DOMAIN reports
      <4>1. reports'[i] = reports[i]
        BY <2>3, <3>2
      <4> QED
        BY <1>1, <2>1, <2>2, <2>6, <3>2, <4>1
    <3> QED
      BY <2>2, <2>3, <3>1, <3>2
  <2>8. ReportsAscend'
    <3> SUFFICES ASSUME NEW i \in DOMAIN reports', NEW j \in DOMAIN reports', i < j,
                        reports'[i].tier = reports'[j].tier
                 PROVE  reports'[i].after < reports'[j].after
      BY DEF ReportsAscend
    <3>1. i \in DOMAIN reports /\ reports'[i] = reports[i]
      BY <2>2, <2>3
    <3>2. CASE j = Len(reports) + 1
      BY <1>1, <1>2, <2>1, <2>2, <2>3, <2>6, <3>1, <3>2
    <3>3. CASE j \in DOMAIN reports
      BY <2>3, <3>1, <3>3 DEF IInv, ReportsAscend
    <3> QED
      BY <2>2, <2>3, <3>2, <3>3
  <2>9. Bounded'
    BY <1>2, <2>2, <2>3 DEF IInv, Bounded, NeverNegative
  <2> QED
    BY <2>3, <2>5, <2>7, <2>8, <2>9 DEF IInv
<1>6. CASE ~Due(size, f[1])
  <2>1. UNCHANGED <<processed_chunks_count_, reports>>
    BY <1>6 DEF receive_fragment, update_fragments_tracking, counts
  <2>2. TypeOK'
    BY <1>1, <1>3, <1>4, <2>1 DEF IInv, TypeOK
  <2> QED
    BY <2>1, <2>2 DEF IInv, Latest, ReportsAscend, Bounded, NeverNegative
<1> QED
  BY <1>5, <1>6

(* The invariant, whatever the network loses, copies and reorders.           *)
THEOREM Invariant == Spec => []IInv
<1>1. IInv /\ [Next]_vars => IInv'
  BY NetworkInv, ReceiveInv, StutterInv DEF Next
<1> QED
  BY <1>1, InitInv, PTL DEF Spec

-----------------------------------------------------------------------------
(* Counts, reports, datagrams and stored fragments stay in range, for any sizes.         *)
THEOREM TypeCorrect == Spec => []TypeOK
<1>1. IInv => TypeOK
  BY DEF IInv
<1> QED
  BY <1>1, Invariant, PTL

(* update_fragments_tracking: the reports of a tier are about more and more chunk        *)
(* numbers, for both receivers.                                                          *)
THEOREM ReportsAreNew == Spec => []ReportsAscend
<1>1. IInv => ReportsAscend
  BY DEF IInv
<1> QED
  BY <1>1, Invariant, PTL

(* send_fragments_report of receiver_adaptive.cpp never reports more fragments than it   *)
(* expects: the difference the sender takes of two unsigned numbers is not negative.     *)
THEOREM LossIsNatural == Spec => [](ByCount = FALSE => NeverNegative)
<1>1. IInv => (ByCount = FALSE => NeverNegative)
  BY DEF IInv, Bounded
<1> QED
  BY <1>1, Invariant, PTL

\* What NothingHidden says of a step.
Covers ==
    Reported.expected - Reported.received >=
        Cardinality({f \in Lost : f[1] = Reported.tier
                                  /\ f[2] \in LastChunks(fragments_per_chunk_')})

LEMMA ReportCovers ==
    ASSUME ByCount = FALSE, IInv, NEW f \in udp, receive_fragment(f), IsReport
    PROVE  Covers
<1> DEFINE counts == Tracked(f[2])
           r == report(f[1], counts)
           F == {g \in Lost : g[1] = f[1] /\ g[2] \in LastChunks(counts)}
<1>1. /\ reports \in Seq(Report) /\ Len(reports) \in Nat
      /\ stored \subseteq Frags /\ sent \subseteq Frags
  BY DEF IInv, TypeOK
<1>2. reports' = Append(reports, r)
  BY <1>1 DEF receive_fragment, update_fragments_tracking, IsReport
<1>3. r \in Report
  BY ReportFacts DEF receive_fragment
<1>4. Reported = r /\ fragments_per_chunk_' = counts
  <2> HIDE DEF r
  <2> QED
    BY <1>1, <1>2, <1>3 DEF Reported, receive_fragment, update_fragments_tracking
<1>5. /\ r.tier = f[1] /\ r.expected = Expected(f[1], counts)
      /\ r.received = TotalReceived(f[1], counts)
  BY DEF report
<1>6. F \in SUBSET Frags /\ F \cap stored = {}
  BY <1>1 DEF Lost
<1>7. IsFiniteSet(LastChunks(counts))
  BY TrackedFacts DEF receive_fragment
<1>8. \A g \in F : g[1] = f[1] /\ g[2] \in LastChunks(counts)
  OBVIOUS
<1>9. F = {g \in Lost : g[1] = Reported.tier /\ g[2] \in LastChunks(fragments_per_chunk_')}
  BY <1>4, <1>5
<1> HIDE DEF counts, r, F
<1>10. Cardinality(F) <= Expected(f[1], counts) - TotalReceived(f[1], counts)
  BY <1>1, <1>6, <1>7, <1>8, ReportIsEnough
<1>11. IsFiniteSet(F)
  <2> DEFINE L == LastChunks(counts)
  <2>1. /\ IsFiniteSet(L) /\ F \in SUBSET Frags
        /\ \A g \in F : g[1] = f[1] /\ g[2] \in L
    BY <1>6, <1>7, <1>8
  <2> HIDE DEF L
  <2> QED
    BY <2>1, FragsOfChunks
<1>12. Cardinality(F) \in Nat /\ r.expected \in Nat /\ r.received \in Nat
  BY <1>3, <1>11, FS_CardinalityType DEF Report
<1> QED
  BY <1>4, <1>5, <1>9, <1>10, <1>12 DEF Covers

(* A report of receiver_adaptive.cpp calls lost at least what was lost of the chunks it  *)
(* is about: a fragment that was sent and neither held nor on its way.                   *)
THEOREM LossIsReported ==
    ASSUME ByCount = FALSE
    PROVE  Spec => NothingHidden
<1>1. IInv /\ [Next]_vars => [IsReport => Covers]_vars
  <2> SUFFICES ASSUME IInv, Next, IsReport PROVE Covers
    OBVIOUS
  <2>1. reports' # reports
    BY DEF IsReport, IInv
  <2>2. \E f \in udp : receive_fragment(f)
    BY <2>1 DEF Next, send, retransmit, lose
  <2> QED
    BY <2>2, ReportCovers
<1>2. NothingHidden <=> [][IsReport => Covers]_vars
  BY PTL DEF NothingHidden, Covers
<1> QED
  BY <1>1, <1>2, Invariant, PTL DEF Spec
=============================================================================
