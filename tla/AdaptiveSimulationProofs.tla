----------------------- MODULE AdaptiveSimulationProofs -----------------------
(***************************************************************************)
(* Proofs about AdaptiveSimulation, for any number of tiers, fragments,    *)
(* parities, batches and losses.                                           *)
(***************************************************************************)
EXTENDS AdaptiveSimulation, FiniteSetTheorems, SequenceTheorems, TLAPS

-----------------------------------------------------------------------------
(* What the control messages say                                            *)

IsBound(s, p) == p = 0 \/ (p \in DOMAIN s /\ s[p].type = "control")
NoneIn(s, a, b) == \A r \in a .. b : s[r].type # "control"
Since(b, p) == IF p = 0 THEN b ELSE 0

\* In s every control message has the number of packets since the one before it, of which b
\* are no longer in s; n have followed the last one.
Between(s, b) ==
    \A q \in DOMAIN s : \A p \in 0 .. q - 1 :
        s[q].type = "control" /\ IsBound(s, p) /\ NoneIn(s, p + 1, q - 1) =>
            s[q].fragments_sent = (q - p - 1) + Since(b, p)
Following(s, b, n) ==
    \A p \in 0 .. Len(s) :
        IsBound(s, p) /\ NoneIn(s, p + 1, Len(s)) => n = (Len(s) - p) + Since(b, p)
Accounted(s, b, n) == Between(s, b) /\ Following(s, b, n)

(* Arithmetic and sequences                                                  *)
LEMMA Quotient ==
    ASSUME NEW x \in Nat, NEW n \in Nat \ {0}
    PROVE  x = n * (x \div n) + (x % n) /\ x % n \in 0 .. n - 1 /\ x \div n \in Nat
OBVIOUS

LEMMA QuotientBounds ==
    ASSUME NEW x \in Nat, NEW n \in Nat \ {0}
    PROVE  (x \div n) * n <= x /\ x <= (x \div n) * n + n - 1
<1> DEFINE q == x \div n
           r == x % n
<1>1. x = n * q + r /\ r \in 0 .. n - 1 /\ q \in Nat
  BY Quotient
<1> HIDE DEF q, r
<1> DEFINE p == q * n
<1>2. p \in Int /\ x = p + r
  BY <1>1
<1> HIDE DEF p
<1>3. p <= x /\ x <= p + n - 1
  BY <1>1, <1>2
<1> QED
  BY <1>3 DEF p, q

LEMMA QuotientGrows ==
    ASSUME NEW x \in Nat, NEW y \in Nat, NEW n \in Nat \ {0}, x <= y
    PROVE  x \div n <= y \div n
OBVIOUS

LEMMA ProductIsNat == ASSUME NEW a \in Nat, NEW b \in Nat PROVE a * b \in Nat
OBVIOUS

LEMMA FunctionIsSeq ==
    ASSUME NEW n \in Nat, NEW S, NEW f \in [1 .. n -> S]
    PROVE  f \in Seq(S) /\ Len(f) = n
OBVIOUS

(* A packet behind the others, and the first one leaving.                    *)
LEMMA AppendAt ==
    ASSUME NEW S, NEW s \in Seq(S), NEW x \in S
    PROVE  /\ Len(s) \in Nat /\ DOMAIN s = 1 .. Len(s)
           /\ Append(s, x) \in Seq(S) /\ Len(Append(s, x)) = Len(s) + 1
           /\ DOMAIN Append(s, x) = 1 .. Len(s) + 1
           /\ \A p \in DOMAIN s : Append(s, x)[p] = s[p]
           /\ Append(s, x)[Len(s) + 1] = x
OBVIOUS

LEMMA TailAt ==
    ASSUME NEW S, NEW s \in Seq(S), s # <<>>
    PROVE  /\ Len(s) \in Nat \ {0} /\ DOMAIN s = 1 .. Len(s) /\ Head(s) = s[1] /\ s[1] \in S
           /\ Tail(s) \in Seq(S) /\ Len(Tail(s)) = Len(s) - 1
           /\ DOMAIN Tail(s) = 1 .. Len(s) - 1
           /\ \A p \in 1 .. Len(s) - 1 : Tail(s)[p] = s[p + 1]
<1>1. Len(s) \in Nat \ {0} /\ DOMAIN s = 1 .. Len(s) /\ Head(s) = s[1] /\ s[1] \in S
  OBVIOUS
<1>2. Tail(s) \in Seq(S) /\ Len(Tail(s)) = Len(s) - 1
  OBVIOUS
<1>3. DOMAIN Tail(s) = 1 .. Len(s) - 1
  BY <1>2
<1>4. \A p \in 1 .. Len(s) - 1 : Tail(s)[p] = s[p + 1]
  BY <1>1
<1> QED
  BY <1>1, <1>2, <1>3, <1>4

LEMMA AccountPacket ==
    ASSUME NEW S, NEW s \in Seq(S), NEW x \in S, x.type # "control",
           NEW b \in Nat, NEW n \in Int, Accounted(s, b, n)
    PROVE  Accounted(Append(s, x), b, n + 1)
<1> DEFINE a == Append(s, x)
           l == Len(s)
<1>1. /\ l \in Nat /\ DOMAIN s = 1 .. l /\ DOMAIN a = 1 .. l + 1 /\ Len(a) = l + 1
      /\ \A p \in 1 .. l : a[p] = s[p]
      /\ a[l + 1] = x
  BY AppendAt
<1> HIDE DEF a, l
<1>2. Between(a, b)
  <2> SUFFICES ASSUME NEW q \in DOMAIN a, NEW p \in 0 .. q - 1, a[q].type = "control",
                      IsBound(a, p), NoneIn(a, p + 1, q - 1)
               PROVE  a[q].fragments_sent = (q - p - 1) + Since(b, p)
    BY DEF Between
  <2>1. q \in DOMAIN s /\ a[q] = s[q]
    BY <1>1
  <2>2. IsBound(s, p)
    BY <1>1, <2>1 DEF IsBound
  <2>3. NoneIn(s, p + 1, q - 1)
    BY <1>1, <2>1 DEF NoneIn
  <2> QED
    BY <2>1, <2>2, <2>3 DEF Accounted, Between
<1>3. Following(a, b, n + 1)
  <2> SUFFICES ASSUME NEW p \in 0 .. l + 1, IsBound(a, p), NoneIn(a, p + 1, l + 1)
               PROVE  n + 1 = (l + 1 - p) + Since(b, p)
    BY <1>1 DEF Following
  <2>1. p \in 0 .. l /\ IsBound(s, p)
    BY <1>1 DEF IsBound
  <2>2. NoneIn(s, p + 1, l)
    BY <1>1, <2>1 DEF NoneIn
  <2>3. n = (l - p) + Since(b, p)
    BY <2>1, <2>2 DEF Accounted, Following, l
  <2>4. Since(b, p) \in Int
    BY DEF Since
  <2> QED
    BY <1>1, <2>1, <2>3, <2>4
<1> QED
  BY <1>2, <1>3 DEF Accounted, a

LEMMA AccountControl ==
    ASSUME NEW S, NEW s \in Seq(S), NEW x \in S, x.type = "control",
           NEW b \in Nat, NEW n \in Int, Accounted(s, b, n), x.fragments_sent = n
    PROVE  Accounted(Append(s, x), b, 0)
<1> DEFINE a == Append(s, x)
           l == Len(s)
<1>1. /\ l \in Nat /\ DOMAIN s = 1 .. l /\ DOMAIN a = 1 .. l + 1 /\ Len(a) = l + 1
      /\ \A p \in 1 .. l : a[p] = s[p]
      /\ a[l + 1] = x
  BY AppendAt
<1> HIDE DEF a, l
<1>2. Between(a, b)
  <2> SUFFICES ASSUME NEW q \in DOMAIN a, NEW p \in 0 .. q - 1, a[q].type = "control",
                      IsBound(a, p), NoneIn(a, p + 1, q - 1)
               PROVE  a[q].fragments_sent = (q - p - 1) + Since(b, p)
    BY DEF Between
  <2>1. p \in 0 .. l /\ IsBound(s, p)
    BY <1>1 DEF IsBound
  <2>2. NoneIn(s, p + 1, q - 1)
    BY <1>1, <2>1 DEF NoneIn
  <2>3. CASE q \in 1 .. l
    BY <1>1, <2>1, <2>2, <2>3 DEF Accounted, Between
  <2>4. CASE q = l + 1
    <3>1. NoneIn(s, p + 1, l) /\ q - p - 1 = l - p
      BY <1>1, <2>1, <2>2, <2>4
    <3>2. n = (l - p) + Since(b, p)
      BY <2>1, <3>1 DEF Accounted, Following, l
    <3> QED
      BY <1>1, <2>4, <3>1, <3>2
  <2> QED
    BY <1>1, <2>3, <2>4
<1>3. Following(a, b, 0)
  <2> SUFFICES ASSUME NEW p \in 0 .. l + 1, IsBound(a, p), NoneIn(a, p + 1, l + 1)
               PROVE  0 = (l + 1 - p) + Since(b, p)
    BY <1>1 DEF Following
  <2>1. p = l + 1
    <3> SUFFICES ASSUME p \in 0 .. l PROVE FALSE
      BY <1>1
    <3>1. l + 1 \in p + 1 .. l + 1
      BY <1>1
    <3> QED
      BY <1>1, <3>1 DEF NoneIn
  <2> QED
    BY <1>1, <2>1 DEF Since
<1> QED
  BY <1>2, <1>3 DEF Accounted, a

LEMMA SlideBack ==
    ASSUME NEW l \in Int, NEW p \in Int, NEW n \in Int, NEW u \in Int, NEW v \in Int,
           NEW g \in Int, n = (l - g) + v, u - p = (v - g) + 1
    PROVE  n = (l - 1 - p) + u
  OBVIOUS

LEMMA AccountArrival ==
    ASSUME NEW S, NEW s \in Seq(S), s # <<>>, s[1].type # "control",
           NEW b \in Nat, NEW n \in Int, Accounted(s, b, n)
    PROVE  Accounted(Tail(s), b + 1, n)
<1> DEFINE a == Tail(s)
           l == Len(s)
<1>1. /\ l \in Nat \ {0} /\ DOMAIN s = 1 .. l /\ DOMAIN a = 1 .. l - 1 /\ Len(a) = l - 1
      /\ \A p \in 1 .. l - 1 : a[p] = s[p + 1]
  BY TailAt
<1> HIDE DEF a, l
<1> DEFINE f(p) == IF p = 0 THEN 0 ELSE p + 1
<1>2. ASSUME NEW p \in 0 .. l - 1, IsBound(a, p)
      PROVE  /\ f(p) \in 0 .. l /\ IsBound(s, f(p))
             /\ Since(b + 1, p) - p = (Since(b, f(p)) - f(p)) + 1
  BY <1>1, <1>2 DEF IsBound, Since
<1>3. ASSUME NEW p \in 0 .. l - 1, NEW q \in 0 .. l - 1, NoneIn(a, p + 1, q)
      PROVE  NoneIn(s, f(p) + 1, q + 1)
  <2> SUFFICES ASSUME NEW r \in f(p) + 1 .. q + 1 PROVE s[r].type # "control"
    BY DEF NoneIn
  <2>1. CASE r = 1
    BY <2>1
  <2>2. CASE r # 1
    <3>1. r - 1 \in p + 1 .. q /\ r - 1 \in 1 .. l - 1 /\ (r - 1) + 1 = r
      BY <1>1, <2>2
    <3> QED
      BY <1>1, <1>3, <3>1 DEF NoneIn
  <2> QED
    BY <2>1, <2>2
<1>4. Between(a, b + 1)
  <2> SUFFICES ASSUME NEW q \in 1 .. l - 1, NEW p \in 0 .. q - 1, a[q].type = "control",
                      IsBound(a, p), NoneIn(a, p + 1, q - 1)
               PROVE  a[q].fragments_sent = (q - p - 1) + Since(b + 1, p)
    BY <1>1 DEF Between
  <2>1. /\ q + 1 \in DOMAIN s /\ a[q] = s[q + 1] /\ p \in 0 .. l - 1 /\ q - 1 \in 0 .. l - 1
        /\ (q - 1) + 1 = (q + 1) - 1
    BY <1>1
  <2>2. f(p) \in 0 .. (q + 1) - 1 /\ IsBound(s, f(p)) /\ NoneIn(s, f(p) + 1, (q + 1) - 1)
    BY <1>1, <1>2, <1>3, <2>1
  <2>3. s[q + 1].fragments_sent = ((q + 1) - f(p) - 1) + Since(b, f(p))
    <3> HIDE DEF f
    <3> QED
      BY <2>1, <2>2 DEF Accounted, Between
  <2>4. Since(b + 1, p) - p = (Since(b, f(p)) - f(p)) + 1
    BY <1>2, <2>1
  <2>5. Since(b + 1, p) \in Int /\ Since(b, f(p)) \in Int /\ f(p) \in Int
    BY DEF Since
  <2>6. a[q].fragments_sent = s[q + 1].fragments_sent /\ q \in Int /\ p \in Int
    BY <2>1
  <2> DEFINE u == Since(b + 1, p)
             v == Since(b, f(p))
             g == f(p)
  <2>7. /\ s[q + 1].fragments_sent = ((q + 1) - g - 1) + v /\ u - p = (v - g) + 1
        /\ u \in Int /\ v \in Int /\ g \in Int
    BY <2>3, <2>4, <2>5
  <2> HIDE DEF u, v, g
  <2>8. s[q + 1].fragments_sent = (q - p - 1) + u
    BY <2>6, <2>7
  <2> QED
    BY <2>6, <2>8 DEF u
<1>5. Following(a, b + 1, n)
  <2> SUFFICES ASSUME NEW p \in 0 .. l - 1, IsBound(a, p), NoneIn(a, p + 1, l - 1)
               PROVE  n = (l - 1 - p) + Since(b + 1, p)
    BY <1>1 DEF Following
  <2>1. f(p) \in 0 .. l /\ IsBound(s, f(p)) /\ NoneIn(s, f(p) + 1, l)
    <3>1. l - 1 \in 0 .. l - 1 /\ (l - 1) + 1 = l
      BY <1>1
    <3> HIDE DEF f
    <3> QED
      BY <1>2, <1>3, <3>1
  <2>2. n = (l - f(p)) + Since(b, f(p))
    <3> HIDE DEF f
    <3> QED
      BY <2>1 DEF Accounted, Following, l
  <2>3. Since(b + 1, p) - p = (Since(b, f(p)) - f(p)) + 1
    BY <1>2
  <2>4. Since(b + 1, p) \in Int /\ Since(b, f(p)) \in Int /\ f(p) \in Int
    BY DEF Since
  <2>5. l \in Int /\ p \in Int /\ n \in Int
    BY <1>1
  <2> DEFINE u == Since(b + 1, p)
             v == Since(b, f(p))
             g == f(p)
  <2>6. n = (l - g) + v /\ u - p = (v - g) + 1 /\ u \in Int /\ v \in Int /\ g \in Int
    BY <2>2, <2>3, <2>4
  <2> HIDE DEF u, v, g, l
  <2>7. n = (l - 1 - p) + u
    BY <2>5, <2>6, SlideBack
  <2> QED
    BY <2>7 DEF u
<1> QED
  BY <1>4, <1>5 DEF Accounted, a

LEMMA AccountReport ==
    ASSUME NEW S, NEW s \in Seq(S), s # <<>>, s[1].type = "control",
           NEW b \in Nat, NEW n \in Int, Accounted(s, b, n)
    PROVE  s[1].fragments_sent = b /\ Accounted(Tail(s), 0, n)
<1> DEFINE a == Tail(s)
           l == Len(s)
<1>1. /\ l \in Nat \ {0} /\ DOMAIN s = 1 .. l /\ DOMAIN a = 1 .. l - 1 /\ Len(a) = l - 1
      /\ \A p \in 1 .. l - 1 : a[p] = s[p + 1]
  BY TailAt
<1> HIDE DEF a, l
<1>2. s[1].fragments_sent = b
  <2>1. 1 \in DOMAIN s /\ 0 \in 0 .. 1 - 1 /\ IsBound(s, 0) /\ NoneIn(s, 0 + 1, 1 - 1)
    BY <1>1 DEF IsBound, NoneIn
  <2>2. s[1].fragments_sent = (1 - 0 - 1) + Since(b, 0)
    BY <2>1 DEF Accounted, Between
  <2> QED
    BY <2>2 DEF Since
<1>3. \A p \in 0 .. l - 1 : IsBound(a, p) => IsBound(s, p + 1)
  BY <1>1 DEF IsBound
<1>4. ASSUME NEW p \in 0 .. l - 1, NEW q \in 0 .. l - 1, NoneIn(a, p + 1, q)
      PROVE  NoneIn(s, (p + 1) + 1, q + 1)
  <2> SUFFICES ASSUME NEW r \in (p + 1) + 1 .. q + 1 PROVE s[r].type # "control"
    BY DEF NoneIn
  <2>1. r - 1 \in p + 1 .. q /\ r - 1 \in 1 .. l - 1 /\ (r - 1) + 1 = r
    BY <1>1
  <2> QED
    BY <1>1, <1>4, <2>1 DEF NoneIn
<1>5. Between(a, 0)
  <2> SUFFICES ASSUME NEW q \in 1 .. l - 1, NEW p \in 0 .. q - 1, a[q].type = "control",
                      IsBound(a, p), NoneIn(a, p + 1, q - 1)
               PROVE  a[q].fragments_sent = (q - p - 1) + Since(0, p)
    BY <1>1 DEF Between
  <2>1. /\ q + 1 \in DOMAIN s /\ a[q] = s[q + 1] /\ p \in 0 .. l - 1 /\ q - 1 \in 0 .. l - 1
        /\ p + 1 \in 0 .. (q + 1) - 1 /\ (q - 1) + 1 = (q + 1) - 1
    BY <1>1
  <2>2. IsBound(s, p + 1) /\ NoneIn(s, (p + 1) + 1, (q + 1) - 1)
    BY <1>3, <1>4, <2>1
  <2>3. s[q + 1].fragments_sent = ((q + 1) - (p + 1) - 1) + Since(b, p + 1)
    BY <2>1, <2>2 DEF Accounted, Between
  <2>4. Since(b, p + 1) = 0 /\ Since(0, p) = 0
    BY DEF Since
  <2> QED
    BY <2>1, <2>3, <2>4
<1>6. Following(a, 0, n)
  <2> SUFFICES ASSUME NEW p \in 0 .. l - 1, IsBound(a, p), NoneIn(a, p + 1, l - 1)
               PROVE  n = (l - 1 - p) + Since(0, p)
    BY <1>1 DEF Following
  <2>1. p + 1 \in 0 .. l /\ IsBound(s, p + 1) /\ NoneIn(s, (p + 1) + 1, l)
    <3>1. l - 1 \in 0 .. l - 1 /\ (l - 1) + 1 = l
      BY <1>1
    <3> QED
      BY <1>1, <1>3, <1>4, <3>1
  <2>2. n = (l - (p + 1)) + Since(b, p + 1)
    BY <2>1 DEF Accounted, Following, l
  <2>3. Since(b, p + 1) = 0 /\ Since(0, p) = 0
    BY DEF Since
  <2> QED
    BY <1>1, <2>2, <2>3
<1> QED
  BY <1>2, <1>5, <1>6 DEF Accounted, a

-----------------------------------------------------------------------------
(* The types                                                                *)

USE AdaptiveSimulationAssumption

KeyOf(f) == <<f.tier, f.chunk>>

Types ==
    /\ jobs \in Seq(Job) /\ tier_m \in [Tiers -> Ms] /\ transit \in Seq(Packet)
    /\ fragments_sent \in Nat /\ fragment_count \in Nat /\ dropped \in Nat
    /\ ended \in BOOLEAN /\ changed \in BOOLEAN

Counts ==
    /\ IsFiniteSet(DOMAIN received) /\ DOMAIN received \subseteq Key
    /\ DOMAIN required = DOMAIN received
    /\ \A k \in DOMAIN received : received[k] \in Nat /\ required[k] \in Nat
    /\ IsFiniteSet(got) /\ got \subseteq Fragment
    /\ ended => Missing = {}

-----------------------------------------------------------------------------
(* Who acts next: a sending process, the receiver of its last packet, or nobody. *)

Running == Len(jobs) = 1 /\ \A p \in DOMAIN transit : transit[p].type # "last_fragment"
Leaving ==
    /\ jobs = <<>> /\ transit # <<>> /\ fragments_sent = 0
    /\ \A p \in DOMAIN transit : transit[p].type = "last_fragment" <=> p = Len(transit)
Quiet == jobs = <<>> /\ transit = <<>> /\ fragments_sent = 0

Turn == IF ended THEN Quiet ELSE Running \/ Leaving

\* Only a chunk that is begun has fragments left; all are of it.
Lefts ==
    \A i \in DOMAIN jobs :
        /\ ~jobs[i].begun => jobs[i].left = <<>>
        /\ \A p \in DOMAIN jobs[i].left :
               KeyOf(jobs[i].left[p]) = <<jobs[i].tier, jobs[i].chunk>>

-----------------------------------------------------------------------------
(* What the control messages say                                            *)

\* The packets on the link since the last control message.  send has counted what is left.
Pending ==
    IF ended THEN 0
    ELSE IF jobs = <<>> THEN 1
    ELSE fragments_sent - IF jobs[1].kind = "send" THEN Len(jobs[1].left) ELSE 0

Sent == Accounted(transit, fragment_count + dropped, Pending)

-----------------------------------------------------------------------------
(* What has been generated                                                  *)

\* The process of send has still to begin chunk c of tier t.
Ahead(j, t, c) ==
    \/ t > j.tier
    \/ t = j.tier /\ c > j.chunk
    \/ t = j.tier /\ c = j.chunk /\ ~j.begun

Divided ==
    /\ DOMAIN generated \subseteq Key
    /\ ~changed =>
          /\ \A k \in DOMAIN generated : generated[k] = DataOf(k[1], k[2])
          /\ \A t \in Tiers : \A c \in 0 .. LastChunk(t) :
                 <<t, c>> \in DOMAIN generated
                 \/ \E i \in DOMAIN jobs : jobs[i].kind = "send" /\ Ahead(jobs[i], t, c)
          /\ \A i \in DOMAIN jobs : jobs[i].kind = "send" => jobs[i].last = LastChunk(jobs[i].tier)
    /\ \A i \in DOMAIN jobs : jobs[i].kind = "send" => jobs[i].chunk <= jobs[i].last

-----------------------------------------------------------------------------
(* What a chunk is counted from                                             *)

OnItsWay(f) ==
    \/ \E p \in DOMAIN transit : transit[p] = f
    \/ \E i \in DOMAIN jobs : \E p \in DOMAIN jobs[i].left : jobs[i].left[p] = f

\* No fragment is on its way twice.
Distinct(s) == \A p, q \in DOMAIN s : s[p] \in Fragment /\ p # q => s[p] # s[q]
Once ==
    /\ Distinct(transit)
    /\ \A i \in DOMAIN jobs :
          /\ Distinct(jobs[i].left)
          /\ \A p \in DOMAIN jobs[i].left : \A q \in DOMAIN transit : jobs[i].left[p] # transit[q]

\* The process will begin chunk k.
ToBegin(j, k) ==
    IF j.kind = "send" THEN Ahead(j, k[1], k[2])
    ELSE (k = <<j.tier, j.chunk>> /\ ~j.begun) \/ \E p \in DOMAIN j.todo : j.todo[p] = k

\* A chunk that will begin has no fragments counted or on their way.
Fresh ==
    \A i \in DOMAIN jobs : \A k \in Key :
        ToBegin(jobs[i], k) =>
            Has(received, k, 0) = 0 /\ \A f \in Fragment : OnItsWay(f) => KeyOf(f) # k

\* No chunk is sent again twice at once.
Todo ==
    \A i \in DOMAIN jobs :
        jobs[i].kind = "resend" =>
            /\ \A p, q \in DOMAIN jobs[i].todo : p # q => jobs[i].todo[p] # jobs[i].todo[q]
            /\ \A p \in DOMAIN jobs[i].todo : jobs[i].todo[p] # <<jobs[i].tier, jobs[i].chunk>>

\* The fragments of k that were counted, S, and those on their way are different fragments of
\* one code.
CountedFrom(k, m, S) ==
    /\ S \subseteq FragsOf(k, m) /\ Cardinality(S) = Has(received, k, 0)
    /\ \A f \in Fragment : OnItsWay(f) /\ KeyOf(f) = k => f.m = m /\ f \notin S
OneCode == \A k \in Key : \E m \in Ms : \E S \in SUBSET got : CountedFrom(k, m, S)

\* The inductive invariant: what the packets and counts are, how the tiers are divided, and
\* what the counts of a chunk are of.
Flow == Types /\ Counts /\ Turn /\ Lefts /\ Sent
Codes == Once /\ Fresh /\ Todo /\ OneCode
IInv == Flow /\ Divided /\ Codes

-----------------------------------------------------------------------------
(* Chunks, jobs and packets                                                 *)

LEMMA Parities ==
    ASSUME Types, NEW t \in Tiers
    PROVE  /\ tier_m[t] \in Ms /\ tier_m[t] \in Nat /\ N - tier_m[t] \in Nat \ {0}
           /\ Frags[t] \in Nat \ {0} /\ LastChunk(t) \in Nat
<1>1. tier_m[t] \in Ms /\ tier_m[t] \in 0 .. N - 1 /\ N \in Nat /\ Frags[t] \in Nat \ {0}
  BY DEF Types
<1>2. tier_m[t] \in Nat /\ N - tier_m[t] \in Nat \ {0}
  BY <1>1
<1> DEFINE a == N - tier_m[t]
           b == Frags[t]
<1>3. b \div a \in Nat
  <2>1. a \in Nat \ {0} /\ b \in Nat
    BY <1>1, <1>2
  <2> HIDE DEF a, b
  <2> QED
    BY <2>1, Quotient
<1> QED
  BY <1>1, <1>2, <1>3 DEF LastChunk

LEMMA JobFields ==
    ASSUME NEW j \in Job
    PROVE  /\ j.kind \in {"send", "resend"} /\ j.tier \in Tiers /\ j.chunk \in Nat /\ j.last \in Nat
           /\ j.todo \in Seq(Key) /\ j.begun \in BOOLEAN /\ j.left \in Seq(Fragment)
           /\ j.batch \in Nat /\ Len(j.left) \in Nat /\ DOMAIN j.left = 1 .. Len(j.left)
<1>1. /\ j.kind \in {"send", "resend"} /\ j.tier \in Tiers /\ j.chunk \in Nat /\ j.last \in Nat
      /\ j.todo \in Seq(Key) /\ j.begun \in BOOLEAN /\ j.left \in Seq(Fragment) /\ j.batch \in Nat
  BY DEF Job
<1> QED
  BY <1>1

LEMMA OneJob ==
    ASSUME Types, Turn, NEW i \in DOMAIN jobs
    PROVE  /\ i = 1 /\ DOMAIN jobs = {1} /\ jobs # <<>> /\ Len(jobs) = 1 /\ jobs[1] \in Job
           /\ ~ended /\ Running
<1>1. jobs \in Seq(Job) /\ jobs # <<>>
  BY DEF Types
<1>2. ~ended /\ Running
  BY <1>1 DEF Turn, Quiet, Leaving, Types
<1>3. DOMAIN jobs = 1 .. 1
  BY <1>1, <1>2 DEF Running
<1> QED
  BY <1>1, <1>2, <1>3 DEF Running

LEMMA OneJobLeft ==
    ASSUME NEW j \in Job
    PROVE  /\ <<j>> \in Seq(Job) /\ Len(<<j>>) = 1 /\ DOMAIN <<j>> = {1} /\ <<j>>[1] = j
           /\ <<j>> # <<>>
OBVIOUS

(* The process is replaced, or gone.                                         *)
LEMMA JobReplaced ==
    ASSUME Types, Turn, NEW i \in DOMAIN jobs, NEW x \in Job
    PROVE  [jobs EXCEPT ![i] = x] = <<x>>
<1>1. i = 1 /\ DOMAIN jobs = {1} /\ Len(jobs) = 1 /\ jobs \in Seq(Job)
  BY OneJob DEF Types
<1> DEFINE a == [jobs EXCEPT ![1] = x]
<1>2. a = [p \in {1} |-> a[p]] /\ a[1] = x
  BY <1>1
<1>3. <<x>> = [p \in {1} |-> <<x>>[p]] /\ <<x>>[1] = x
  <2>1. DOMAIN <<x>> = {1} /\ <<x>>[1] = x
    OBVIOUS
  <2>2. <<x>> \in [{1} -> {x}]
    BY <2>1
  <2> QED
    BY <2>1, <2>2
<1> DEFINE b == <<x>>
<1> HIDE DEF a, b
<1>4. \A p \in {1} : a[p] = b[p]
  BY <1>2, <1>3 DEF b
<1>5. a = b
  BY <1>2, <1>3, <1>4 DEF b
<1> QED
  BY <1>1, <1>5 DEF a, b

LEMMA JobGone ==
    ASSUME Types, Turn, NEW i \in DOMAIN jobs
    PROVE  RemoveAt(jobs, i) = <<>>
<1>1. i = 1 /\ Len(jobs) = 1 /\ jobs \in Seq(Job)
  BY OneJob DEF Types
<1>2. SubSeq(jobs, 1, 1 - 1) = <<>> /\ SubSeq(jobs, 1 + 1, 1) = <<>>
  BY <1>1
<1> QED
  BY <1>1, <1>2 DEF RemoveAt

LEMMA PacketTypes ==
    /\ \A f \in Fragment :
          /\ f \in Packet /\ f.type \in {"data", "parity"} /\ IsFragment(f)
          /\ f.tier \in Tiers /\ f.chunk \in Nat /\ f.m \in Ms /\ f.index \in Nat
          /\ KeyOf(f) \in Key
    /\ \A x \in Packet : IsFragment(x) => x \in Fragment
    /\ last_fragment \in Packet /\ last_fragment.type = "last_fragment"
    /\ \A n \in Nat, again \in BOOLEAN :
          /\ control(n, again) \in Packet /\ control(n, again).type = "control"
          /\ control(n, again).fragments_sent = n
<1>1. ASSUME NEW f \in Fragment
      PROVE  /\ f \in Packet /\ f.type \in {"data", "parity"} /\ IsFragment(f)
             /\ f.tier \in Tiers /\ f.chunk \in Nat /\ f.m \in Ms /\ f.index \in Nat
             /\ KeyOf(f) \in Key
  <2>1. f.type \in {"data", "parity"} /\ f.tier \in Tiers /\ f.chunk \in Nat /\ f.m \in Ms
        /\ f.index \in Nat
    BY DEF Fragment, Data, Parity
  <2> QED
    BY <2>1 DEF Packet, IsFragment, KeyOf, Key
<1>2. ASSUME NEW x \in Packet, IsFragment(x) PROVE x \in Fragment
  <2>1. CASE x = last_fragment
    BY <1>2, <2>1 DEF last_fragment, IsFragment
  <2>2. CASE x \in [type : {"control"}, fragments_sent : Nat, later : BOOLEAN]
    BY <1>2, <2>2 DEF IsFragment
  <2> QED
    BY <2>1, <2>2 DEF Packet
<1>3. last_fragment \in Packet /\ last_fragment.type = "last_fragment"
  BY DEF last_fragment, Packet
<1>4. ASSUME NEW n \in Nat, NEW again \in BOOLEAN
      PROVE  /\ control(n, again) \in Packet /\ control(n, again).type = "control"
             /\ control(n, again).fragments_sent = n
  BY DEF control, Packet
<1> QED
  BY <1>1, <1>2, <1>3, <1>4

(* generate_chunk_fragments                                                  *)
LEMMA Generates ==
    ASSUME Types, NEW t \in Tiers, NEW c \in Nat
    PROVE  LET s == generate_chunk_fragments(t, c) IN
           /\ s \in Seq(Fragment)
           /\ \A p \in DOMAIN s : KeyOf(s[p]) = <<t, c>> /\ s[p].m = tier_m[t]
           /\ \A p, q \in DOMAIN s : p # q => s[p] # s[q]
<1> DEFINE start == c * (N - tier_m[t])
           e == Min2(start + (N - tier_m[t]), Frags[t]) - 1
           k == Cardinality(DataOf(t, c))
           m == tier_m[t]
           d == [i \in 1 .. k |-> [type |-> "data", tier |-> t, chunk |-> c, k |-> k,
                                   m |-> tier_m[t], index |-> start + i - 1]]
           r == [p \in 1 .. m |-> [type |-> "parity", tier |-> t, chunk |-> c,
                                   m |-> tier_m[t], index |-> k + p - 1]]
           s == d \o r
<1>1. m \in Nat /\ m \in Ms /\ start \in Nat /\ e \in Int
  <2>1. m \in Nat /\ m \in Ms /\ N - tier_m[t] \in Nat /\ Frags[t] \in Nat
    BY Parities
  <2>2. start \in Nat
    BY <2>1, ProductIsNat
  <2>3. e \in Int
    BY <2>1, <2>2 DEF Min2
  <2> QED
    BY <2>1, <2>2, <2>3
<1>2. k \in Nat
  <2>1. DataOf(t, c) = start .. e
    BY DEF DataOf
  <2> HIDE DEF start, e
  <2>2. IsFiniteSet(DataOf(t, c))
    BY <1>1, <2>1, FS_Interval
  <2> QED
    BY <2>2, FS_CardinalityType
<1>3. generate_chunk_fragments(t, c) = s
  BY DEF generate_chunk_fragments
<1> HIDE DEF start, e, k, m
<1>4. \A i \in 1 .. k : /\ d[i] \in Fragment /\ KeyOf(d[i]) = <<t, c>> /\ d[i].m = tier_m[t]
                        /\ d[i].type = "data" /\ d[i].index = start + i - 1
  BY <1>1, <1>2 DEF Fragment, Data, KeyOf, m
<1>5. \A i \in 1 .. m : /\ r[i] \in Fragment /\ KeyOf(r[i]) = <<t, c>> /\ r[i].m = tier_m[t]
                        /\ r[i].type = "parity" /\ r[i].index = k + i - 1
  BY <1>1, <1>2 DEF Fragment, Parity, KeyOf, m
<1>6. d \in Seq(Fragment) /\ Len(d) = k /\ r \in Seq(Fragment) /\ Len(r) = m
  <2>1. d \in [1 .. k -> Fragment] /\ r \in [1 .. m -> Fragment]
    BY <1>4, <1>5
  <2> HIDE DEF d, r
  <2> QED
    BY <1>1, <1>2, <2>1, FunctionIsSeq
<1> HIDE DEF d, r
<1>7. /\ s \in Seq(Fragment) /\ DOMAIN s = 1 .. k + m
      /\ \A p \in 1 .. k : s[p] = d[p]
      /\ \A p \in k + 1 .. k + m : p - k \in 1 .. m /\ s[p] = r[p - k]
  <2>1. s \in Seq(Fragment) /\ Len(s) = k + m
    BY <1>6
  <2>2. \A p \in 1 .. Len(d) + Len(r) : s[p] = IF p <= Len(d) THEN d[p] ELSE r[p - Len(d)]
    BY <1>6, ConcatProperties
  <2> QED
    BY <1>1, <1>2, <1>6, <2>1, <2>2
<1> HIDE DEF s
<1>8. \A p \in DOMAIN s : KeyOf(s[p]) = <<t, c>> /\ s[p].m = tier_m[t]
  <2> SUFFICES ASSUME NEW p \in DOMAIN s
               PROVE  KeyOf(s[p]) = <<t, c>> /\ s[p].m = tier_m[t]
    OBVIOUS
  <2>1. CASE p \in 1 .. k
    BY <1>4, <1>7, <2>1
  <2>2. CASE p \in k + 1 .. k + m
    BY <1>5, <1>7, <2>2
  <2>3. p \in 1 .. k \/ p \in k + 1 .. k + m
    BY <1>1, <1>2, <1>7
  <2> QED
    BY <2>1, <2>2, <2>3
<1>9. \A p \in DOMAIN s : IF p <= k THEN s[p].type = "data" /\ s[p].index = start + p - 1
                                    ELSE s[p].type = "parity" /\ s[p].index = p - 1
  <2> SUFFICES ASSUME NEW p \in DOMAIN s
               PROVE  IF p <= k THEN s[p].type = "data" /\ s[p].index = start + p - 1
                                ELSE s[p].type = "parity" /\ s[p].index = p - 1
    OBVIOUS
  <2>1. CASE p <= k
    BY <1>2, <1>4, <1>7, <2>1
  <2>2. CASE ~(p <= k)
    <3>1. p \in k + 1 .. k + m
      BY <1>1, <1>2, <1>7, <2>2
    <3>2. p - k \in 1 .. m /\ s[p] = r[p - k] /\ k + (p - k) - 1 = p - 1
      BY <1>1, <1>2, <1>7, <3>1
    <3> QED
      BY <1>5, <2>2, <3>2
  <2> QED
    BY <2>1, <2>2
<1>10. \A p, q \in DOMAIN s : p # q => s[p] # s[q]
  <2> SUFFICES ASSUME NEW p \in DOMAIN s, NEW q \in DOMAIN s, s[p] = s[q] PROVE p = q
    OBVIOUS
  <2>1. p \in Int /\ q \in Int /\ s[p].index = s[q].index /\ s[p].type = s[q].type
    BY <1>1, <1>2, <1>7
  <2>2. CASE p <= k /\ q <= k
    <3>1. start + p - 1 = start + q - 1
      BY <1>9, <2>1, <2>2
    <3> QED
      BY <1>1, <2>1, <3>1
  <2>3. CASE ~(p <= k) /\ ~(q <= k)
    BY <1>9, <2>1, <2>3
  <2>4. CASE (p <= k) # (q <= k)
    BY <1>9, <2>1, <2>4
  <2> QED
    BY <2>2, <2>3, <2>4
<1> QED
  BY <1>3, <1>7, <1>8, <1>10

(* What is behind the packets after the end of a chunk, and after the last.  *)
LEMMA ReportBehind ==
    ASSUME NEW s \in Seq(Packet), NEW b \in Nat, NEW n \in Nat, Accounted(s, b, n),
           NEW again \in BOOLEAN
    PROVE  LET a == s \o <<control(n, again)>> IN
           /\ a \in Seq(Packet) /\ Accounted(a, b, 0)
           /\ \A p \in DOMAIN s : p \in DOMAIN a /\ a[p] = s[p]
           /\ \A p \in DOMAIN a : a[p].type = "control" \/ (p \in DOMAIN s /\ a[p] = s[p])
<1> DEFINE x == control(n, again)
           a == Append(s, x)
<1>1. x \in Packet /\ x.type = "control" /\ x.fragments_sent = n
  BY PacketTypes
<1> HIDE DEF x
<1>2. s \o <<x>> = a
  BY <1>1
<1>3. Accounted(a, b, 0)
  BY <1>1, AccountControl
<1>4. /\ a \in Seq(Packet) /\ DOMAIN s = 1 .. Len(s) /\ Len(s) \in Nat
      /\ DOMAIN a = 1 .. Len(s) + 1
      /\ \A p \in DOMAIN s : a[p] = s[p]
      /\ a[Len(s) + 1] = x
  BY <1>1, AppendAt
<1> HIDE DEF a
<1>5. ASSUME NEW p \in DOMAIN a
      PROVE  a[p].type = "control" \/ (p \in DOMAIN s /\ a[p] = s[p])
  <2>1. p \in DOMAIN s \/ p = Len(s) + 1
    BY <1>4
  <2> QED
    BY <1>1, <1>4, <2>1
<1>6. \A p \in DOMAIN s : p \in DOMAIN a /\ a[p] = s[p]
  BY <1>4
<1> DEFINE c == s \o <<control(n, again)>>
<1>7. c = a /\ a \in Seq(Packet)
  BY <1>2, <1>4 DEF x
<1> HIDE DEF c
<1> QED
  BY <1>3, <1>5, <1>6, <1>7 DEF c

LEMMA Reported ==
    ASSUME NEW s \in Seq(Packet), NEW b \in Nat, NEW n \in Nat, Accounted(s, b, n),
           NEW reports \in BOOLEAN, NEW again \in BOOLEAN
    PROVE  LET a == s \o (IF reports THEN <<control(n, again)>> ELSE <<>>) IN
           /\ a \in Seq(Packet) /\ Accounted(a, b, IF reports THEN 0 ELSE n)
           /\ \A p \in DOMAIN s : p \in DOMAIN a /\ a[p] = s[p]
           /\ \A p \in DOMAIN a : a[p].type = "control" \/ (p \in DOMAIN s /\ a[p] = s[p])
<1> DEFINE a == s \o (IF reports THEN <<control(n, again)>> ELSE <<>>)
           c == s \o <<control(n, again)>>
<1>1. CASE reports
  <2>1. a = c
    BY <1>1
  <2>2. /\ c \in Seq(Packet) /\ Accounted(c, b, 0)
        /\ \A p \in DOMAIN s : p \in DOMAIN c /\ c[p] = s[p]
        /\ \A p \in DOMAIN c : c[p].type = "control" \/ (p \in DOMAIN s /\ c[p] = s[p])
    BY ReportBehind
  <2> HIDE DEF a, c
  <2> QED
    BY <1>1, <2>1, <2>2 DEF a
<1>2. CASE ~reports
  <2>1. a = s
    BY <1>2
  <2> HIDE DEF a
  <2> QED
    BY <1>2, <2>1 DEF a
<1> QED
  BY <1>1, <1>2

LEMMA LastBehind ==
    ASSUME NEW s \in Seq(Packet), NEW b \in Nat, Accounted(s, b, 0),
           \A p \in DOMAIN s : s[p].type # "last_fragment"
    PROVE  LET a == s \o <<last_fragment>> IN
           /\ a \in Seq(Packet) /\ a # <<>> /\ Accounted(a, b, 1)
           /\ \A p \in DOMAIN a : a[p].type = "last_fragment" <=> p = Len(a)
           /\ \A p \in DOMAIN a :
                  a[p].type = "last_fragment" \/ (p \in DOMAIN s /\ a[p] = s[p])
<1> DEFINE x == last_fragment
           a == Append(s, x)
<1>1. x \in Packet /\ x.type = "last_fragment"
  BY PacketTypes
<1> HIDE DEF x
<1>2. s \o <<x>> = a
  BY <1>1
<1>3. Accounted(a, b, 0 + 1)
  BY <1>1, AccountPacket
<1>4. /\ a \in Seq(Packet) /\ DOMAIN s = 1 .. Len(s) /\ Len(s) \in Nat /\ Len(a) = Len(s) + 1
      /\ DOMAIN a = 1 .. Len(s) + 1
      /\ \A p \in DOMAIN s : a[p] = s[p]
      /\ a[Len(s) + 1] = x
  BY <1>1, AppendAt
<1> HIDE DEF a
<1>5. a # <<>>
  BY <1>4
<1>6. ASSUME NEW p \in DOMAIN a
      PROVE  /\ a[p].type = "last_fragment" <=> p = Len(a)
             /\ a[p].type = "last_fragment" \/ (p \in DOMAIN s /\ a[p] = s[p])
  <2>1. CASE p \in DOMAIN s
    BY <1>4, <2>1
  <2>2. CASE p = Len(s) + 1
    BY <1>1, <1>4, <2>2
  <2> QED
    BY <1>4, <1>6, <2>1, <2>2
<1> DEFINE c == s \o <<last_fragment>>
<1>7. c = a /\ Accounted(a, b, 1)
  BY <1>2, <1>3 DEF x
<1> HIDE DEF c
<1> QED
  BY <1>4, <1>5, <1>6, <1>7 DEF c

(* check_all_fragments_received                                              *)
LEMMA Ranked ==
    ASSUME NEW S \in SUBSET Key, IsFiniteSet(S),
           NEW rank, rank = [k \in S |-> Cardinality({a \in S : Before(a, k)})]
    PROVE  rank \in Surjection(S, 0 .. Cardinality(S) - 1)
<1> DEFINE n == Cardinality(S)
           B(k) == {a \in S : Before(a, k)}
<1>1. n \in Nat
  BY FS_CardinalityType
<1>2. \A k, l \in Key : k # l => Before(k, l) \/ Before(l, k)
  <2>1. \A k \in Key : k = <<k[1], k[2]>> /\ k[1] \in Int /\ k[2] \in Int
    BY DEF Key, Tiers
  <2>2. \A k, l \in Key : k # l => k[1] # l[1] \/ k[2] # l[2]
    BY <2>1
  <2> QED
    BY <2>1, <2>2 DEF Before
<1>3. \A k \in Key : ~Before(k, k)
  BY DEF Key, Tiers, Before
<1>4. \A j, k, l \in Key : Before(j, k) /\ Before(k, l) => Before(j, l)
  BY DEF Key, Tiers, Before
<1>5. ASSUME NEW k \in S
      PROVE  /\ IsFiniteSet(B(k)) /\ Cardinality(B(k)) \in 0 .. n - 1
             /\ Cardinality(B(k)) \in Nat
             /\ IsFiniteSet(B(k) \cup {k}) /\ Cardinality(B(k) \cup {k}) = Cardinality(B(k)) + 1
  <2> DEFINE b == B(k)
  <2>1. b \subseteq S /\ k \notin b /\ b \cup {k} \subseteq S
    BY <1>3
  <2> HIDE DEF b
  <2>2. IsFiniteSet(b) /\ IsFiniteSet(b \cup {k}) /\ Cardinality(b \cup {k}) <= n
    BY <2>1, FS_Subset
  <2>3. Cardinality(b \cup {k}) = Cardinality(b) + 1 /\ Cardinality(b) \in Nat
    BY <2>1, <2>2, FS_AddElement, FS_CardinalityType
  <2>4. Cardinality(b) \in 0 .. n - 1
    BY <1>1, <2>2, <2>3
  <2> QED
    BY <2>2, <2>3, <2>4 DEF b
<1>6. \A k \in S : /\ IsFiniteSet(B(k)) /\ Cardinality(B(k)) \in Nat
                      /\ Cardinality(B(k) \cup {k}) = Cardinality(B(k)) + 1
  <2> HIDE DEF B, n
  <2> QED
    BY <1>5
<1>7. ASSUME NEW k \in S, NEW l \in S, Before(k, l)
      PROVE  Cardinality(B(k)) < Cardinality(B(l))
  <2> DEFINE b == B(k)
             c == B(l)
  <2>1. b \cup {k} \subseteq c
    BY <1>4, <1>7
  <2>2. /\ IsFiniteSet(c) /\ Cardinality(b \cup {k}) = Cardinality(b) + 1
        /\ Cardinality(b) \in Nat /\ Cardinality(c) \in Nat
    <3> HIDE DEF B
    <3> QED
      BY <1>6
  <2> HIDE DEF b, c
  <2>3. Cardinality(b \cup {k}) <= Cardinality(c)
    BY <2>1, <2>2, FS_Subset
  <2>4. Cardinality(b) < Cardinality(c)
    BY <2>2, <2>3
  <2> QED
    BY <2>4 DEF b, c
<1>8. \A k \in S : rank[k] = Cardinality(B(k))
  OBVIOUS
<1>9. DOMAIN rank = S /\ rank = [k \in S |-> rank[k]]
  OBVIOUS
<1> HIDE DEF B, n
<1>10. rank \in [S -> 0 .. n - 1]
  BY <1>5, <1>8, <1>9
<1>11. ASSUME NEW k \in S, NEW l \in S, rank[k] = rank[l] PROVE k = l
  <2> SUFFICES ASSUME k # l PROVE FALSE
    OBVIOUS
  <2>1. Before(k, l) \/ Before(l, k)
    BY <1>2
  <2>2. Cardinality(B(k)) \in Nat /\ Cardinality(B(l)) \in Nat
    BY <1>6
  <2> QED
    BY <1>7, <1>8, <1>11, <2>1, <2>2
<1>12. rank \in Injection(S, 0 .. n - 1)
  BY <1>10, <1>11 DEF Injection, IsInjective
<1>13. IsFiniteSet(0 .. n - 1) /\ Cardinality(0 .. n - 1) = n
  BY <1>1, FS_Interval
<1> QED
  BY <1>12, <1>13, FS_Injection DEF n

LEMMA Asked ==
    ASSUME Counts, Missing # {}
    PROVE  /\ MissingInOrder \in Seq(Key) /\ MissingInOrder # <<>>
           /\ \A p \in DOMAIN MissingInOrder : MissingInOrder[p] \in Missing
           /\ \A p, q \in DOMAIN MissingInOrder :
                  p # q => MissingInOrder[p] # MissingInOrder[q]
<1> DEFINE n == Cardinality(Missing)
           rank == [k \in Missing |-> Cardinality({a \in Missing : Before(a, k)})]
           s == [i \in 1 .. n |->
                    CHOOSE k \in Missing : Cardinality({a \in Missing : Before(a, k)}) = i - 1]
<1>1. Missing \in SUBSET Key /\ IsFiniteSet(Missing)
  <2>1. Missing \subseteq DOMAIN received
    BY DEF Missing
  <2> QED
    BY <2>1, FS_Subset DEF Counts
<1>2. n \in Nat \ {0}
  BY <1>1, FS_CardinalityType, FS_EmptySet
<1>3. rank \in Surjection(Missing, 0 .. n - 1)
  BY <1>1, Ranked
<1>4. \A k \in Missing : rank[k] = Cardinality({a \in Missing : Before(a, k)})
  OBVIOUS
<1>5. MissingInOrder = s
  BY DEF MissingInOrder
<1>6. ASSUME NEW i \in 1 .. n PROVE s[i] \in Missing /\ rank[s[i]] = i - 1
  <2>1. i - 1 \in 0 .. n - 1
    BY <1>2
  <2>2. \E k \in Missing : rank[k] = i - 1
    <3> HIDE DEF rank, n
    <3> QED
      BY <1>3, <2>1 DEF Surjection
  <2>3. \E k \in Missing : Cardinality({a \in Missing : Before(a, k)}) = i - 1
    BY <1>4, <2>2
  <2>4. /\ s[i] \in Missing
        /\ Cardinality({a \in Missing : Before(a, s[i])}) = i - 1
    BY <2>3
  <2> QED
    BY <1>4, <2>4
<1> HIDE DEF rank, n
<1>7. DOMAIN s = 1 .. n /\ s \in [1 .. n -> Key]
  BY <1>1, <1>6
<1> HIDE DEF s
<1>8. s \in Seq(Key) /\ Len(s) = n
  BY <1>2, <1>7, FunctionIsSeq
<1>9. s # <<>>
  BY <1>2, <1>8
<1>10. \A p, q \in DOMAIN s : p # q => s[p] # s[q]
  <2> SUFFICES ASSUME NEW p \in 1 .. n, NEW q \in 1 .. n, s[p] = s[q] PROVE p = q
    BY <1>7
  <2>1. p - 1 = q - 1
    BY <1>6
  <2> QED
    BY <1>2, <2>1
<1> QED
  BY <1>5, <1>6, <1>7, <1>8, <1>9, <1>10

LEMMA NewJob ==
    ASSUME Types, NEW t \in Tiers
    PROVE  /\ Sending(t) \in Job /\ Sending(t).kind = "send" /\ Sending(t).tier = t
           /\ Sending(t).chunk = 0 /\ Sending(t).last = LastChunk(t)
           /\ Sending(t).begun = FALSE /\ Sending(t).left = <<>>
<1>1. LastChunk(t) \in Nat
  BY Parities
<1>2. <<>> \in Seq(Key) /\ <<>> \in Seq(Fragment)
  OBVIOUS
<1> HIDE DEF LastChunk
<1> QED
  BY <1>1, <1>2 DEF Sending, Job

LEMMA NewResend ==
    ASSUME NEW todo \in Seq(Key), todo # <<>>
    PROVE  LET j == Resending(todo) IN
           /\ j \in Job /\ j.kind = "resend" /\ <<j.tier, j.chunk>> = todo[1]
           /\ j.todo = Tail(todo) /\ j.begun = FALSE /\ j.left = <<>>
<1>1. todo[1] \in Key /\ Tail(todo) \in Seq(Key) /\ <<>> \in Seq(Fragment)
  OBVIOUS
<1>2. todo[1][1] \in Tiers /\ todo[1][2] \in Nat /\ todo[1] = <<todo[1][1], todo[1][2]>>
  BY <1>1 DEF Key
<1> QED
  BY <1>1, <1>2 DEF Resending, Job

-----------------------------------------------------------------------------
(* The sequences of packets and the counts: every action keeps them          *)

LEMMA FlowInit == Init => Flow
<1> SUFFICES ASSUME Init PROVE Flow
  OBVIOUS
<1>1. /\ fragments_sent = 0 /\ transit = <<>> /\ fragment_count = 0 /\ dropped = 0
      /\ ended = FALSE /\ changed = FALSE /\ jobs = <<Sending(0)>> /\ tier_m \in [Tiers -> Ms]
      /\ received = <<>> /\ required = <<>> /\ got = {}
  BY DEF Init
<1>2. 0 \in Tiers /\ DOMAIN <<>> = {} /\ <<>> \in Seq(Packet)
  BY DEF Tiers
<1>3. Sending(0) \in Job /\ Sending(0).begun = FALSE /\ Sending(0).left = <<>>
  <2>1. LastChunk(0) \in Nat
    <3> DEFINE a == N - tier_m[0]
               b == Frags[0]
    <3>1. tier_m[0] \in 0 .. N - 1 /\ N \in Nat /\ Frags[0] \in Nat
      BY <1>1, <1>2
    <3>2. a \in Nat \ {0} /\ b \in Nat
      BY <3>1
    <3>3. b \div a \in Nat
      <4> HIDE DEF a, b
      <4> QED
        BY <3>2, Quotient
    <3> QED
      BY <3>3 DEF LastChunk
  <2>2. <<>> \in Seq(Key) /\ <<>> \in Seq(Fragment)
    OBVIOUS
  <2> HIDE DEF LastChunk
  <2> QED
    BY <1>2, <2>1, <2>2 DEF Sending, Job
<1>4. jobs \in Seq(Job) /\ Len(jobs) = 1 /\ DOMAIN jobs = {1} /\ jobs[1] = Sending(0) /\ jobs # <<>>
  BY <1>1, <1>3, OneJobLeft
<1>5. Types
  BY <1>1, <1>2, <1>4 DEF Types
<1>6. Counts
  <2>1. IsFiniteSet({})
    BY FS_EmptySet
  <2> QED
    BY <1>1, <1>2, <2>1 DEF Counts
<1>7. Turn
  BY <1>1, <1>2, <1>4 DEF Turn, Running
<1>8. Lefts
  BY <1>2, <1>3, <1>4 DEF Lefts
<1>9. Sent
  <2>1. Pending = 0
    <3>1. jobs[1].left = <<>> /\ Len(<<>>) = 0
      BY <1>3, <1>4
    <3>2. Len(jobs[1].left) = 0
      BY <3>1
    <3>3. Pending = 0 - IF jobs[1].kind = "send" THEN Len(jobs[1].left) ELSE 0
      BY <1>1, <1>4 DEF Pending
    <3> QED
      BY <3>2, <3>3
  <2>2. Accounted(<<>>, 0, 0)
    <3>1. Between(<<>>, 0)
      BY <1>2 DEF Between
    <3>2. Following(<<>>, 0, 0)
      BY DEF Following, Since
    <3> QED
      BY <3>1, <3>2 DEF Accounted
  <2> QED
    BY <1>1, <2>1, <2>2 DEF Sent
<1> QED
  BY <1>5, <1>6, <1>7, <1>8, <1>9 DEF Flow

LEMMA CountsKept ==
    ASSUME Counts, UNCHANGED <<received, required, got, ended>>
    PROVE  Counts'
BY DEF Counts, Missing

LEMMA FlowBegin ==
    ASSUME Flow, NEW i \in DOMAIN jobs, begin_chunk(i)
    PROVE  Flow'
<1> DEFINE j == jobs[1]
           s == generate_chunk_fragments(j.tier, j.chunk)
           x == [j EXCEPT !.begun = TRUE, !.left = s]
<1>1. /\ Types /\ Counts /\ Turn /\ Lefts /\ Sent
  BY DEF Flow
<1>2. /\ i = 1 /\ DOMAIN jobs = {1} /\ jobs # <<>> /\ j \in Job /\ ~ended /\ Running
  BY <1>1, OneJob
<1>3. /\ ~j.begun
      /\ jobs' = [jobs EXCEPT ![1] = x]
      /\ fragments_sent' = fragments_sent + Counted(j.kind, Len(s))
      /\ tier_m' = tier_m /\ transit' = transit /\ fragment_count' = fragment_count
      /\ dropped' = dropped /\ ended' = ended /\ changed' = changed
      /\ UNCHANGED <<received, required, got, ended>>
  BY <1>2 DEF begin_chunk, receiver
<1>4. /\ j.kind \in {"send", "resend"} /\ j.tier \in Tiers /\ j.chunk \in Nat /\ j.left = <<>>
  BY <1>1, <1>2, <1>3, JobFields DEF Lefts
<1>5. /\ s \in Seq(Fragment)
      /\ \A p \in DOMAIN s : KeyOf(s[p]) = <<j.tier, j.chunk>>
  <2> DEFINE t == j.tier
             c == j.chunk
  <2>1. t \in Tiers /\ c \in Nat
    BY <1>4
  <2> HIDE DEF t, c
  <2>2. LET r == generate_chunk_fragments(t, c) IN
        r \in Seq(Fragment) /\ \A p \in DOMAIN r : KeyOf(r[p]) = <<t, c>>
    BY <1>1, <2>1, Generates
  <2> QED
    BY <2>2 DEF t, c
<1>6. Len(s) \in Nat
  BY <1>5
<1> HIDE DEF s
<1>7. /\ x \in Job /\ x.begun = TRUE /\ x.left = s /\ x.kind = j.kind /\ x.tier = j.tier
      /\ x.chunk = j.chunk
  BY <1>2, <1>5 DEF Job
<1> HIDE DEF x, j
<1>8. jobs' = <<x>>
  <2>1. 1 \in DOMAIN jobs
    BY <1>2
  <2> QED
    BY <1>1, <1>3, <1>7, <2>1, JobReplaced
<1>9. /\ jobs' \in Seq(Job) /\ Len(jobs') = 1 /\ DOMAIN jobs' = {1} /\ jobs'[1] = x
      /\ jobs' # <<>>
  BY <1>7, <1>8, OneJobLeft
<1>10. Counted(j.kind, Len(s)) \in Nat
  BY <1>6 DEF Counted
<1>11. Types'
  <2>1. fragments_sent' \in Nat
    BY <1>1, <1>3, <1>10 DEF Types
  <2> QED
    BY <1>1, <1>3, <1>9, <2>1 DEF Types
<1>12. Turn'
  BY <1>2, <1>3, <1>9 DEF Turn, Running
<1>13. Lefts'
  BY <1>5, <1>7, <1>9 DEF Lefts
<1>14. Pending' = Pending
  <2>1. Pending = fragments_sent
    BY <1>2, <1>4 DEF Pending, j, Types, Flow
  <2>2. Pending' = fragments_sent' - IF j.kind = "send" THEN Len(s) ELSE 0
    BY <1>2, <1>3, <1>7, <1>9 DEF Pending
  <2>3. fragments_sent \in Nat
    BY <1>1 DEF Types
  <2> QED
    BY <1>3, <1>4, <1>6, <2>1, <2>2, <2>3 DEF Counted
<1>15. Sent'
  BY <1>1, <1>3, <1>14 DEF Sent
<1>16. Counts'
  BY <1>1, <1>3, CountsKept
<1> QED
  BY <1>11, <1>12, <1>13, <1>15, <1>16 DEF Flow

LEMMA FlowPut ==
    ASSUME Flow, NEW i \in DOMAIN jobs, put_fragment(i)
    PROVE  Flow'
<1> DEFINE j == jobs[1]
           l == j.left
           x == [j EXCEPT !.left = Tail(l)]
           a == Append(transit, Head(l))
<1>1. /\ Types /\ Counts /\ Turn /\ Lefts /\ Sent
  BY DEF Flow
<1>2. /\ i = 1 /\ DOMAIN jobs = {1} /\ jobs # <<>> /\ j \in Job /\ ~ended /\ Running
  BY <1>1, OneJob
<1>3. /\ j.begun /\ l # <<>>
      /\ jobs' = [jobs EXCEPT ![1] = x] /\ transit' = a
      /\ fragments_sent' = IF j.kind = "resend" THEN fragments_sent + 1 ELSE fragments_sent
      /\ tier_m' = tier_m /\ fragment_count' = fragment_count
      /\ dropped' = dropped /\ ended' = ended /\ changed' = changed
      /\ UNCHANGED <<received, required, got, ended>>
  <2>1. /\ jobs[i].begun /\ jobs[i].left # <<>>
        /\ transit' = Append(transit, Head(jobs[i].left))
        /\ fragments_sent' =
               IF jobs[i].kind = "resend" THEN fragments_sent + 1 ELSE fragments_sent
    BY DEF put_fragment
  <2>2. jobs' = [jobs EXCEPT ![i] = [jobs[i] EXCEPT !.left = Tail(jobs[i].left)]]
    BY DEF put_fragment
  <2>3. UNCHANGED <<tier_m, fragment_count, dropped, ended, changed, received, required, got>>
    BY DEF put_fragment, receiver, history
  <2> QED
    BY <1>2, <2>1, <2>2, <2>3
<1>4. /\ j.kind \in {"send", "resend"} /\ l \in Seq(Fragment) /\ transit \in Seq(Packet)
      /\ \A p \in DOMAIN l : KeyOf(l[p]) = <<j.tier, j.chunk>>
  BY <1>1, <1>2, JobFields DEF Lefts, Types
<1>5. /\ Len(l) \in Nat \ {0} /\ Head(l) = l[1] /\ l[1] \in Fragment
      /\ Tail(l) \in Seq(Fragment) /\ Len(Tail(l)) = Len(l) - 1
      /\ DOMAIN l = 1 .. Len(l) /\ DOMAIN Tail(l) = 1 .. Len(l) - 1
      /\ \A p \in 1 .. Len(l) - 1 : Tail(l)[p] = l[p + 1]
  <2>1. l \in Seq(Fragment) /\ l # <<>>
    BY <1>3, <1>4
  <2> HIDE DEF l, j, x, a
  <2> QED
    BY <2>1, TailAt
<1>6. Head(l) \in Packet /\ Head(l).type \notin {"control", "last_fragment"}
  <2>1. \A f \in Fragment : f \in Packet /\ f.type \in {"data", "parity"}
    BY PacketTypes
  <2>2. Head(l) \in Fragment
    BY <1>5
  <2> HIDE DEF l, j, x, a
  <2> QED
    BY <2>1, <2>2
<1>7. /\ x \in Job /\ x.begun = j.begun /\ x.left = Tail(l) /\ x.kind = j.kind
      /\ x.tier = j.tier /\ x.chunk = j.chunk
  BY <1>2, <1>5 DEF Job
<1> HIDE DEF x, j, l
<1>8. jobs' = <<x>>
  <2>1. 1 \in DOMAIN jobs
    BY <1>2
  <2> QED
    BY <1>1, <1>3, <1>7, <2>1, JobReplaced
<1>9. /\ jobs' \in Seq(Job) /\ Len(jobs') = 1 /\ DOMAIN jobs' = {1} /\ jobs'[1] = x
      /\ jobs' # <<>>
  BY <1>7, <1>8, OneJobLeft
<1>10. /\ Len(transit) \in Nat /\ DOMAIN transit = 1 .. Len(transit)
       /\ a \in Seq(Packet) /\ DOMAIN a = 1 .. Len(transit) + 1
       /\ \A p \in DOMAIN transit : a[p] = transit[p]
       /\ a[Len(transit) + 1] = Head(l)
  BY <1>4, <1>6, AppendAt
<1>11. Types'
  <2>1. fragments_sent' \in Nat
    BY <1>1, <1>3 DEF Types
  <2> QED
    BY <1>1, <1>3, <1>9, <1>10, <2>1 DEF Types
<1> HIDE DEF a
<1>12. Turn'
  <2>1. \A p \in DOMAIN a : a[p].type # "last_fragment"
    <3> SUFFICES ASSUME NEW p \in DOMAIN a PROVE a[p].type # "last_fragment"
      OBVIOUS
    <3>1. CASE p \in DOMAIN transit
      BY <1>2, <1>10, <3>1 DEF Running
    <3>2. CASE p = Len(transit) + 1
      BY <1>6, <1>10, <3>2
    <3> QED
      BY <1>10, <3>1, <3>2
  <2> QED
    BY <1>2, <1>3, <1>9, <2>1 DEF Turn, Running
<1>13. Lefts'
  <2>1. ASSUME NEW p \in DOMAIN Tail(l) PROVE KeyOf(Tail(l)[p]) = <<j.tier, j.chunk>>
    <3>1. Tail(l)[p] = l[p + 1] /\ p + 1 \in DOMAIN l
      BY <1>5
    <3> QED
      BY <1>4, <3>1
  <2> QED
    BY <1>3, <1>7, <1>9, <2>1 DEF Lefts
<1>14. Pending' = Pending + 1 /\ Pending \in Int
  <2>1. Pending = fragments_sent - IF j.kind = "send" THEN Len(l) ELSE 0
    BY <1>2 DEF Pending, j, l
  <2>2. Pending' = fragments_sent' - IF j.kind = "send" THEN Len(l) - 1 ELSE 0
    <3>1. ~ended' /\ jobs' # <<>> /\ jobs'[1] = x
      BY <1>2, <1>3, <1>9
    <3>2. x.kind = j.kind /\ Len(x.left) = Len(l) - 1
      BY <1>5, <1>7
    <3> QED
      BY <3>1, <3>2 DEF Pending
  <2>3. fragments_sent \in Nat
    BY <1>1 DEF Types
  <2> DEFINE n == Len(l)
  <2>4. n \in Nat
    BY <1>5
  <2> HIDE DEF n
  <2>5. CASE j.kind = "send"
    <3>1. Pending = fragments_sent - n /\ Pending' = fragments_sent - (n - 1)
      BY <1>3, <2>1, <2>2, <2>5 DEF n
    <3> QED
      BY <2>3, <2>4, <3>1
  <2>6. CASE j.kind = "resend"
    <3>1. Pending = fragments_sent - 0 /\ Pending' = (fragments_sent + 1) - 0
      BY <1>3, <2>1, <2>2, <2>6
    <3> QED
      BY <2>3, <3>1
  <2> QED
    BY <1>4, <2>5, <2>6
<1>15. Sent'
  <2>1. fragment_count + dropped \in Nat
    BY <1>1 DEF Types
  <2>2. Accounted(a, fragment_count + dropped, Pending + 1)
    BY <1>1, <1>4, <1>6, <1>14, <2>1, AccountPacket DEF Sent, a
  <2> QED
    BY <1>3, <1>14, <2>2 DEF Sent
<1>16. Counts'
  BY <1>1, <1>3, CountsKept
<1> QED
  BY <1>11, <1>12, <1>13, <1>15, <1>16 DEF Flow

(* The end of a chunk: another one follows, or last_fragment.                *)
LEMMA FlowContinues ==
    ASSUME Flow, NEW i \in DOMAIN jobs, jobs[i].left = <<>>,
           NEW reports \in BOOLEAN, NEW again \in BOOLEAN,
           NEW x \in Job, x.left = <<>>, jobs' = [jobs EXCEPT ![i] = x],
           transit' =
               transit \o (IF reports THEN <<control(fragments_sent, again)>> ELSE <<>>),
           fragments_sent' = IF reports THEN 0 ELSE fragments_sent,
           UNCHANGED <<tier_m, fragment_count, dropped, ended, changed, received, required, got>>
    PROVE  Flow'
<1> DEFINE a == transit \o (IF reports THEN <<control(fragments_sent, again)>> ELSE <<>>)
<1>1. /\ Types /\ Counts /\ Turn /\ Lefts /\ Sent
  BY DEF Flow
<1>2. /\ i = 1 /\ DOMAIN jobs = {1} /\ jobs # <<>> /\ jobs[1] \in Job /\ ~ended /\ Running
  BY <1>1, OneJob
<1>3. jobs' = <<x>>
  BY <1>1, JobReplaced
<1>4. /\ jobs' \in Seq(Job) /\ Len(jobs') = 1 /\ DOMAIN jobs' = {1} /\ jobs'[1] = x
      /\ jobs' # <<>>
  BY <1>3, OneJobLeft
<1>5. fragments_sent \in Nat /\ transit \in Seq(Packet) /\ fragment_count + dropped \in Nat
  BY <1>1 DEF Types
<1>6. Len(<<>>) = 0
  OBVIOUS
<1>7. Pending = fragments_sent
  <2>1. Len(jobs[1].left) = 0
    BY <1>2, <1>6
  <2>2. Pending = fragments_sent - IF jobs[1].kind = "send" THEN Len(jobs[1].left) ELSE 0
    BY <1>2 DEF Pending
  <2> QED
    BY <1>5, <2>1, <2>2
<1>8. /\ a \in Seq(Packet)
      /\ Accounted(a, fragment_count + dropped, IF reports THEN 0 ELSE fragments_sent)
      /\ \A p \in DOMAIN a : a[p].type = "control" \/ (p \in DOMAIN transit /\ a[p] = transit[p])
  <2> DEFINE b == fragment_count + dropped
  <2>1. b \in Nat /\ Accounted(transit, b, fragments_sent)
    BY <1>1, <1>5, <1>7 DEF Sent
  <2> HIDE DEF b
  <2> QED
    BY <1>5, <2>1, Reported DEF b
<1> HIDE DEF a
<1>9. transit' = a
  BY DEF a
<1>10. Types'
  BY <1>1, <1>4, <1>5, <1>8, <1>9 DEF Types
<1>11. Turn'
  <2>1. \A p \in DOMAIN a : a[p].type # "last_fragment"
    BY <1>2, <1>8 DEF Running
  <2> QED
    BY <1>2, <1>4, <1>9, <2>1 DEF Turn, Running
<1>12. Lefts'
  <2>1. DOMAIN <<>> = {}
    OBVIOUS
  <2> QED
    BY <1>4, <2>1 DEF Lefts
<1>13. Sent'
  <2>1. fragments_sent' \in Nat
    BY <1>5
  <2>2. Len(jobs'[1].left) = 0
    BY <1>4, <1>6
  <2>3. Pending' = fragments_sent' - IF jobs'[1].kind = "send" THEN Len(jobs'[1].left) ELSE 0
    BY <1>2, <1>4 DEF Pending
  <2>4. Pending' = fragments_sent'
    BY <2>1, <2>2, <2>3
  <2> QED
    BY <1>8, <1>9, <2>4 DEF Sent
<1>14. Counts'
  BY <1>1, CountsKept
<1> QED
  BY <1>10, <1>11, <1>12, <1>13, <1>14 DEF Flow

LEMMA FlowLeaves ==
    ASSUME Flow, NEW i \in DOMAIN jobs, jobs[i].left = <<>>, NEW again \in BOOLEAN,
           jobs' = RemoveAt(jobs, i),
           transit' = (transit \o <<control(fragments_sent, again)>>) \o <<last_fragment>>,
           fragments_sent' = 0,
           UNCHANGED <<tier_m, fragment_count, dropped, ended, changed, received, required, got>>
    PROVE  Flow'
<1> DEFINE a == transit \o <<control(fragments_sent, again)>>
           c == a \o <<last_fragment>>
<1>1. /\ Types /\ Counts /\ Turn /\ Lefts /\ Sent
  BY DEF Flow
<1>2. /\ i = 1 /\ DOMAIN jobs = {1} /\ jobs # <<>> /\ jobs[1] \in Job /\ ~ended /\ Running
  BY <1>1, OneJob
<1>3. jobs' = <<>>
  BY <1>1, JobGone
<1>4. fragments_sent \in Nat /\ transit \in Seq(Packet) /\ fragment_count + dropped \in Nat
  BY <1>1 DEF Types
<1>5. Pending = fragments_sent
  <2>1. Len(jobs[1].left) = 0
    BY <1>2
  <2>2. Pending = fragments_sent - IF jobs[1].kind = "send" THEN Len(jobs[1].left) ELSE 0
    BY <1>2 DEF Pending
  <2> QED
    BY <1>4, <2>1, <2>2
<1>6. /\ a \in Seq(Packet) /\ Accounted(a, fragment_count + dropped, 0)
      /\ \A p \in DOMAIN a : a[p].type = "control" \/ (p \in DOMAIN transit /\ a[p] = transit[p])
  <2> DEFINE b == fragment_count + dropped
  <2>1. b \in Nat /\ Accounted(transit, b, fragments_sent)
    BY <1>1, <1>4, <1>5 DEF Sent
  <2> HIDE DEF b
  <2> QED
    BY <1>4, <2>1, ReportBehind DEF b
<1> HIDE DEF a
<1>7. \A p \in DOMAIN a : a[p].type # "last_fragment"
  BY <1>2, <1>6 DEF Running
<1>8. /\ c \in Seq(Packet) /\ c # <<>> /\ Accounted(c, fragment_count + dropped, 1)
      /\ \A p \in DOMAIN c : c[p].type = "last_fragment" <=> p = Len(c)
  BY <1>4, <1>6, <1>7, LastBehind
<1> HIDE DEF c
<1>9. transit' = c
  BY DEF c, a
<1>10. Types'
  <2>1. <<>> \in Seq(Job)
    OBVIOUS
  <2> QED
    BY <1>1, <1>3, <1>8, <1>9, <2>1 DEF Types
<1>11. Turn'
  BY <1>2, <1>3, <1>8, <1>9 DEF Turn, Leaving
<1>12. Lefts'
  <2>1. DOMAIN <<>> = {}
    OBVIOUS
  <2> QED
    BY <1>3, <2>1 DEF Lefts
<1>13. Sent'
  <2>1. Pending' = 1
    BY <1>2, <1>3 DEF Pending
  <2> QED
    BY <1>8, <1>9, <2>1 DEF Sent
<1>14. Counts'
  BY <1>1, CountsKept
<1> QED
  BY <1>10, <1>11, <1>12, <1>13, <1>14 DEF Flow

LEMMA FlowEndSent ==
    ASSUME Flow, NEW i \in DOMAIN jobs, end_sent_chunk(i)
    PROVE  Flow'
<1> DEFINE j == jobs[i]
           reports == j.batch + 1 = BatchSize \/ j.chunk = j.last
           tail == IF reports THEN <<control(fragments_sent, FALSE)>> ELSE <<>>
           x == [j EXCEPT !.chunk = @ + 1, !.begun = FALSE,
                          !.batch = IF reports THEN 0 ELSE @ + 1]
<1>1. Types /\ Turn /\ j \in Job
  BY OneJob DEF Flow
<1>2. /\ j.left = <<>>
      /\ fragments_sent' = IF reports THEN 0 ELSE fragments_sent
      /\ UNCHANGED <<tier_m, fragment_count, dropped, ended, changed, received, required, got>>
  BY DEF end_sent_chunk, receiver, history
<1>3. \/ jobs' = [jobs EXCEPT ![i] = x] /\ transit' = transit \o tail
      \/ /\ j.tier < NumTiers - 1
         /\ jobs' = [jobs EXCEPT ![i] = Sending(j.tier + 1)] /\ transit' = transit \o tail
      \/ /\ j.chunk = j.last
         /\ jobs' = RemoveAt(jobs, i) /\ transit' = (transit \o tail) \o <<last_fragment>>
  BY DEF end_sent_chunk
<1>4. j.tier \in Tiers /\ j.chunk \in Nat /\ j.batch \in Nat
  BY <1>1, JobFields
<1>5. x \in Job /\ x.left = <<>>
  <2>1. j.chunk + 1 \in Nat /\ (IF reports THEN 0 ELSE j.batch + 1) \in Nat
    BY <1>4
  <2> HIDE DEF reports, j
  <2> QED
    BY <1>1, <1>2, <2>1 DEF Job
<1>6. reports \in BOOLEAN
  OBVIOUS
<1> HIDE DEF x
<1>7. CASE jobs' = [jobs EXCEPT ![i] = x] /\ transit' = transit \o tail
  <2> HIDE DEF reports
  <2> QED
    BY <1>2, <1>5, <1>6, <1>7, FlowContinues
<1>8. CASE /\ j.tier < NumTiers - 1
           /\ jobs' = [jobs EXCEPT ![i] = Sending(j.tier + 1)] /\ transit' = transit \o tail
  <2>1. j.tier + 1 \in Tiers
    <3>1. NumTiers \in Nat
      BY AdaptiveSimulationAssumption
    <3>2. \A t \in 0 .. NumTiers - 1 : t < NumTiers - 1 => t + 1 \in 0 .. NumTiers - 1
      BY <3>1
    <3> HIDE DEF j, reports
    <3> QED
      BY <1>4, <1>8, <3>2 DEF Tiers
  <2> DEFINE y == Sending(j.tier + 1)
  <2>2. y \in Job /\ y.left = <<>>
    BY <1>1, <2>1, NewJob
  <2> HIDE DEF reports, y
  <2>3. jobs' = [jobs EXCEPT ![i] = y]
    BY <1>8 DEF y
  <2> QED
    BY <1>2, <1>6, <1>8, <2>2, <2>3, FlowContinues
<1>9. CASE /\ j.chunk = j.last
           /\ jobs' = RemoveAt(jobs, i) /\ transit' = (transit \o tail) \o <<last_fragment>>
  <2>1. /\ fragments_sent' = 0
        /\ transit' = (transit \o <<control(fragments_sent, FALSE)>>) \o <<last_fragment>>
    BY <1>2, <1>9
  <2> QED
    BY <1>2, <1>9, <2>1, FlowLeaves
<1> QED
  BY <1>3, <1>7, <1>8, <1>9

LEMMA FlowEndResent ==
    ASSUME Flow, NEW i \in DOMAIN jobs, end_resent_chunk(i)
    PROVE  Flow'
<1> DEFINE j == jobs[i]
           reports == BatchSize = 1 \/ j.todo = <<>> \/ Head(j.todo)[1] # j.tier
           tail == IF reports THEN <<control(fragments_sent, TRUE)>> ELSE <<>>
<1>1. Types /\ Turn /\ j \in Job
  BY OneJob DEF Flow
<1>2. /\ j.left = <<>>
      /\ fragments_sent' = IF reports THEN 0 ELSE fragments_sent
      /\ UNCHANGED <<tier_m, fragment_count, dropped, ended, changed, received, required, got>>
  BY DEF end_resent_chunk, receiver, history
<1>3. IF j.todo # <<>>
      THEN jobs' = [jobs EXCEPT ![i] = Resending(j.todo)] /\ transit' = transit \o tail
      ELSE jobs' = RemoveAt(jobs, i) /\ transit' = (transit \o tail) \o <<last_fragment>>
  BY DEF end_resent_chunk
<1>4. j.todo \in Seq(Key) /\ reports \in BOOLEAN
  BY <1>1, JobFields
<1>5. CASE j.todo # <<>>
  <2> DEFINE y == Resending(j.todo)
  <2>1. y \in Job /\ y.left = <<>>
    BY <1>4, <1>5, NewResend
  <2> HIDE DEF reports, y
  <2>2. jobs' = [jobs EXCEPT ![i] = y] /\ transit' = transit \o tail
    BY <1>3, <1>5 DEF y
  <2> QED
    BY <1>2, <1>4, <2>1, <2>2, FlowContinues
<1>6. CASE j.todo = <<>>
  <2>1. /\ fragments_sent' = 0 /\ jobs' = RemoveAt(jobs, i)
        /\ transit' = (transit \o <<control(fragments_sent, TRUE)>>) \o <<last_fragment>>
    BY <1>2, <1>3, <1>6
  <2> QED
    BY <1>2, <2>1, FlowLeaves
<1> QED
  BY <1>5, <1>6

(* A packet other than the last leaves the link.                             *)
LEMMA Leaves ==
    ASSUME Flow, transit # <<>>, Head(transit).type # "last_fragment",
           transit' = Tail(transit), UNCHANGED <<jobs, fragments_sent, ended>>
    PROVE  Turn' /\ Lefts' /\ ~ended /\ Pending' = Pending /\ Pending \in Int
<1> DEFINE l == Len(transit)
<1>1. Types /\ Turn /\ Lefts
  BY DEF Flow
<1>2. /\ l \in Nat \ {0} /\ DOMAIN transit = 1 .. l /\ Head(transit) = transit[1]
      /\ Tail(transit) \in Seq(Packet) /\ Len(Tail(transit)) = l - 1
      /\ DOMAIN Tail(transit) = 1 .. l - 1
      /\ \A p \in 1 .. l - 1 : Tail(transit)[p] = transit[p + 1]
  BY <1>1, TailAt DEF Types
<1> HIDE DEF l
<1>3. ~ended
  BY <1>1 DEF Turn, Quiet, Types
<1>4. ASSUME Running PROVE Turn'
  <2>1. \A p \in DOMAIN Tail(transit) : Tail(transit)[p].type # "last_fragment"
    <3> SUFFICES ASSUME NEW p \in 1 .. l - 1 PROVE Tail(transit)[p].type # "last_fragment"
      BY <1>2
    <3>1. p + 1 \in DOMAIN transit /\ Tail(transit)[p] = transit[p + 1]
      BY <1>2
    <3> QED
      BY <1>4, <3>1 DEF Running
  <2> QED
    BY <1>3, <1>4, <2>1 DEF Turn, Running
<1>5. ASSUME Leaving PROVE Turn'
  <2>1. \A p \in 1 .. l : transit[p].type = "last_fragment" <=> p = l
    BY <1>2, <1>5 DEF Leaving, l
  <2>2. l # 1
    BY <1>2, <2>1
  <2>3. \A p \in 1 .. l - 1 : Tail(transit)[p].type = "last_fragment" <=> p = l - 1
    <3> SUFFICES ASSUME NEW p \in 1 .. l - 1
                 PROVE  Tail(transit)[p].type = "last_fragment" <=> p = l - 1
      OBVIOUS
    <3>1. /\ p + 1 \in 1 .. l /\ Tail(transit)[p] = transit[p + 1]
          /\ p + 1 = l <=> p = l - 1
      BY <1>2
    <3> QED
      BY <2>1, <3>1
  <2>4. Tail(transit) # <<>>
    BY <1>2, <2>2
  <2>5. Leaving'
    BY <1>2, <1>5, <2>3, <2>4 DEF Leaving
  <2> QED
    BY <1>3, <2>5 DEF Turn
<1>6. Turn'
  BY <1>1, <1>3, <1>4, <1>5 DEF Turn
<1>7. Lefts'
  BY <1>1 DEF Lefts
<1>8. Pending' = Pending
  BY DEF Pending
<1>9. Pending \in Int
  <2>1. jobs = <<>> => Pending = 1
    BY <1>3 DEF Pending
  <2>2. jobs # <<>> => 1 \in DOMAIN jobs
    BY <1>1 DEF Types
  <2>3. ASSUME jobs # <<>> PROVE Pending \in Int
    <3> DEFINE n == Len(jobs[1].left)
    <3>1. Pending = fragments_sent - IF jobs[1].kind = "send" THEN n ELSE 0
      BY <1>3, <2>3 DEF Pending
    <3>2. n \in Nat /\ fragments_sent \in Nat
      BY <1>1, <2>2, <2>3, OneJob, JobFields DEF Types
    <3> HIDE DEF n
    <3> QED
      BY <3>1, <3>2
  <2> QED
    BY <2>1, <2>3
<1> QED
  BY <1>3, <1>6, <1>7, <1>8, <1>9

LEMMA FlowDrop == ASSUME Flow, drop PROVE Flow'
<1>1. /\ transit # <<>> /\ IsFragment(Head(transit)) /\ transit' = Tail(transit)
      /\ dropped' = dropped + 1
      /\ UNCHANGED <<jobs, tier_m, fragments_sent, fragment_count, ended, changed>>
      /\ UNCHANGED <<received, required, got>>
  BY DEF drop, sender
<1>2. Types /\ Counts /\ Turn /\ Sent
  BY DEF Flow
<1>3. Head(transit).type \notin {"last_fragment", "control"}
  BY <1>1 DEF IsFragment
<1>4. Turn' /\ Lefts' /\ ~ended /\ Pending' = Pending /\ Pending \in Int
  BY <1>1, <1>3, Leaves
<1>5. /\ transit \in Seq(Packet) /\ Tail(transit) \in Seq(Packet) /\ Head(transit) = transit[1]
      /\ dropped \in Nat /\ fragment_count \in Nat
  BY <1>1, <1>2, TailAt DEF Types
<1>6. Types'
  BY <1>1, <1>2, <1>5 DEF Types
<1>7. Counts'
  BY <1>1, <1>2, CountsKept
<1>8. Sent'
  <2> DEFINE b == fragment_count + dropped
  <2>1. b \in Nat /\ Accounted(transit, b, Pending)
    BY <1>2, <1>5 DEF Sent
  <2>2. fragment_count' + dropped' = b + 1
    BY <1>1, <1>5
  <2> HIDE DEF b
  <2>3. Accounted(Tail(transit), b + 1, Pending)
    BY <1>1, <1>3, <1>4, <1>5, <2>1, AccountArrival
  <2> QED
    BY <1>1, <1>4, <2>2, <2>3 DEF Sent
<1> QED
  BY <1>4, <1>6, <1>7, <1>8 DEF Flow

LEMMA FlowReceiveFragment == ASSUME Flow, receive_fragment PROVE Flow'
<1> DEFINE pkt == Head(transit)
           key == <<pkt.tier, pkt.chunk>>
<1>1. /\ transit # <<>> /\ IsFragment(pkt) /\ transit' = Tail(transit)
      /\ fragment_count' = fragment_count + 1
      /\ UNCHANGED <<jobs, tier_m, fragments_sent, dropped, ended, changed>>
  BY DEF receive_fragment, sender
<1>2. /\ received' = Put(received, key, Has(received, key, 0) + 1)
      /\ required' = IF pkt.type = "data" THEN Put(required, key, pkt.k)
                     ELSE PutNew(required, key, 0)
      /\ got' = got \cup {pkt}
  BY DEF receive_fragment, update_data_frags_count
<1>3. Types /\ Counts /\ Turn /\ Sent
  BY DEF Flow
<1>4. pkt.type \notin {"last_fragment", "control"}
  BY <1>1 DEF IsFragment
<1>5. Turn' /\ Lefts' /\ ~ended /\ Pending' = Pending /\ Pending \in Int
  BY <1>1, <1>4, Leaves
<1>6. /\ transit \in Seq(Packet) /\ Tail(transit) \in Seq(Packet) /\ pkt = transit[1]
      /\ dropped \in Nat /\ fragment_count \in Nat /\ pkt \in Packet
  BY <1>1, <1>3, TailAt DEF Types
<1>7. pkt \in Fragment /\ key \in Key /\ (pkt.type = "data" => pkt.k \in Nat)
  <2>1. pkt \in Fragment
    BY <1>1, <1>6, PacketTypes
  <2>2. key \in Key
    BY <2>1, PacketTypes DEF KeyOf
  <2>3. pkt.type = "data" => pkt.k \in Nat
    BY <2>1 DEF Fragment, Data, Parity
  <2> QED
    BY <2>1, <2>2, <2>3
<1> HIDE DEF pkt, key
<1>8. Types'
  BY <1>1, <1>3, <1>6 DEF Types
<1>9. Counts'
  <2>1. /\ IsFiniteSet(DOMAIN received) /\ DOMAIN received \subseteq Key
        /\ DOMAIN required = DOMAIN received
        /\ \A k \in DOMAIN received : received[k] \in Nat /\ required[k] \in Nat
        /\ IsFiniteSet(got) /\ got \subseteq Fragment
    BY <1>3 DEF Counts
  <2>2. DOMAIN received' = DOMAIN received \cup {key}
    BY <1>2 DEF Put
  <2>3. DOMAIN required' = DOMAIN received \cup {key}
    BY <1>2, <2>1 DEF Put, PutNew
  <2>4. IsFiniteSet(DOMAIN received \cup {key}) /\ IsFiniteSet(got \cup {pkt})
    BY <2>1, FS_AddElement
  <2>5. Has(received, key, 0) + 1 \in Nat
    BY <2>1 DEF Has
  <2>6. ASSUME NEW k \in DOMAIN received \cup {key} PROVE received'[k] \in Nat
    BY <1>2, <2>1, <2>5, <2>6 DEF Put
  <2>7. ASSUME NEW k \in DOMAIN received \cup {key} PROVE required'[k] \in Nat
    <3>1. CASE pkt.type = "data"
      BY <1>2, <1>7, <2>1, <2>7, <3>1 DEF Put
    <3>2. CASE pkt.type # "data" /\ key \in DOMAIN required
      BY <1>2, <2>1, <2>7, <3>2 DEF PutNew
    <3>3. CASE pkt.type # "data" /\ key \notin DOMAIN required
      BY <1>2, <2>1, <2>7, <3>3 DEF PutNew, Put
    <3> QED
      BY <3>1, <3>2, <3>3
  <2> QED
    BY <1>1, <1>2, <1>5, <1>7, <2>1, <2>2, <2>3, <2>4, <2>6, <2>7 DEF Counts
<1>10. Sent'
  <2> DEFINE b == fragment_count + dropped
  <2>1. b \in Nat /\ Accounted(transit, b, Pending)
    BY <1>3, <1>6 DEF Sent
  <2>2. fragment_count' + dropped' = b + 1
    BY <1>1, <1>6
  <2> HIDE DEF b
  <2>3. Accounted(Tail(transit), b + 1, Pending)
    BY <1>1, <1>4, <1>5, <1>6, <2>1, AccountArrival
  <2> QED
    BY <1>1, <1>5, <2>2, <2>3 DEF Sent
<1> QED
  BY <1>5, <1>8, <1>9, <1>10 DEF Flow

LEMMA FlowReceiveControl == ASSUME Flow, receive_control PROVE Flow'
<1>1. /\ transit # <<>> /\ Head(transit).type = "control" /\ transit' = Tail(transit)
      /\ fragment_count' = 0 /\ dropped' = 0 /\ changed' = (changed \/ tier_m' # tier_m)
      /\ UNCHANGED <<jobs, fragments_sent, ended>>
      /\ UNCHANGED <<received, required, got>>
  BY DEF receive_control
<1>2. Types /\ Counts /\ Turn /\ Sent
  BY DEF Flow
<1>3. tier_m' \in [Tiers -> Ms]
  <2>1. tier_m' = tier_m \/ \E m \in Ms : tier_m' = [t \in Tiers |-> m]
    BY DEF receive_control, calculate_packet_loss
  <2> QED
    BY <1>2, <2>1 DEF Types
<1>4. Turn' /\ Lefts' /\ ~ended /\ Pending' = Pending /\ Pending \in Int
  BY <1>1, Leaves
<1>5. /\ transit \in Seq(Packet) /\ Tail(transit) \in Seq(Packet) /\ Head(transit) = transit[1]
      /\ dropped \in Nat /\ fragment_count \in Nat
  BY <1>1, <1>2, TailAt DEF Types
<1>6. changed' \in BOOLEAN
  BY <1>1, <1>2 DEF Types
<1>7. Types'
  BY <1>1, <1>2, <1>3, <1>5, <1>6 DEF Types
<1>8. Counts'
  BY <1>1, <1>2, CountsKept
<1>9. Sent'
  <2> DEFINE b == fragment_count + dropped
  <2>1. b \in Nat /\ Accounted(transit, b, Pending)
    BY <1>2, <1>5 DEF Sent
  <2> HIDE DEF b
  <2>2. Accounted(Tail(transit), 0, Pending)
    BY <1>1, <1>4, <1>5, <2>1, AccountReport
  <2> QED
    BY <1>1, <1>4, <2>2 DEF Sent
<1> QED
  BY <1>4, <1>7, <1>8, <1>9 DEF Flow

(* last_fragment arrives: it is the only packet left.                        *)
LEMMA LastArrives ==
    ASSUME Flow, transit # <<>>, Head(transit) = last_fragment
    PROVE  /\ jobs = <<>> /\ fragments_sent = 0 /\ ~ended /\ Tail(transit) = <<>>
           /\ fragment_count = 0 /\ dropped = 0
<1> DEFINE l == Len(transit)
<1>1. Types /\ Turn /\ Sent
  BY DEF Flow
<1>2. /\ l \in Nat \ {0} /\ DOMAIN transit = 1 .. l /\ Head(transit) = transit[1]
      /\ Tail(transit) \in Seq(Packet) /\ Len(Tail(transit)) = l - 1
  BY <1>1, TailAt DEF Types
<1>3. 1 \in DOMAIN transit /\ transit[1].type = "last_fragment"
  BY <1>2, PacketTypes
<1>4. ~ended /\ Leaving
  BY <1>1, <1>3 DEF Turn, Quiet, Running, Types
<1>5. l = 1
  BY <1>3, <1>4 DEF Leaving
<1>6. Tail(transit) = <<>>
  <2> DEFINE a == Tail(transit)
  <2>1. a \in Seq(Packet) /\ Len(a) = 0
    BY <1>2, <1>5
  <2> HIDE DEF a
  <2> QED
    BY <2>1, EmptySeq DEF a
<1>7. fragment_count + dropped = 0
  <2> DEFINE b == fragment_count + dropped
  <2>1. Following(transit, b, Pending) /\ b \in Nat
    BY <1>1 DEF Sent, Accounted, Types
  <2>2. Pending = 1
    BY <1>4 DEF Pending, Leaving
  <2> HIDE DEF b
  <2>3. 0 \in 0 .. l /\ IsBound(transit, 0) /\ NoneIn(transit, 0 + 1, l)
    <3>1. \A r \in 0 + 1 .. l : r = 1
      BY <1>5
    <3> QED
      BY <1>2, <1>3, <3>1 DEF IsBound, NoneIn
  <2>4. Pending = (l - 0) + Since(b, 0)
    BY <2>1, <2>3 DEF Following
  <2>5. b = 0
    BY <1>5, <2>1, <2>2, <2>4 DEF Since
  <2> QED
    BY <2>5 DEF b
<1>8. fragment_count = 0 /\ dropped = 0
  BY <1>1, <1>7 DEF Types
<1> QED
  BY <1>4, <1>6, <1>8 DEF Leaving

LEMMA FlowReceiveLast == ASSUME Flow, receive_last PROVE Flow'
<1>1. /\ transit # <<>> /\ Head(transit) = last_fragment /\ transit' = Tail(transit)
      /\ fragment_count' = 0
      /\ UNCHANGED <<tier_m, required, dropped, got, changed>>
  BY DEF receive_last, history
<1>2. /\ jobs = <<>> /\ fragments_sent = 0 /\ ~ended /\ Tail(transit) = <<>>
      /\ fragment_count = 0 /\ dropped = 0
  BY <1>1, LastArrives
<1>3. Types /\ Counts
  BY DEF Flow
<1>4. <<>> \in Seq(Packet) /\ <<>> \in Seq(Job) /\ DOMAIN <<>> = {}
  OBVIOUS
<1>5. Accounted(<<>>, 0, 0)
  <2>1. Between(<<>>, 0)
    BY <1>4 DEF Between
  <2>2. Following(<<>>, 0, 0)
    BY DEF Following, Since
  <2> QED
    BY <2>1, <2>2 DEF Accounted
<1>6. fragment_count' + dropped' = 0
  BY <1>1, <1>2
<1>7. CASE Missing = {}
  <2>1. ended' = TRUE /\ UNCHANGED <<jobs, fragments_sent, received>>
    BY <1>7 DEF receive_last
  <2>2. Types'
    BY <1>1, <1>2, <1>3, <1>4, <2>1 DEF Types
  <2>3. Turn'
    BY <1>1, <1>2, <2>1 DEF Turn, Quiet
  <2>4. Lefts'
    BY <1>2, <1>4, <2>1 DEF Lefts
  <2>5. Sent'
    <3>1. Pending' = 0 /\ transit' = <<>>
      BY <1>1, <1>2, <2>1 DEF Pending
    <3> QED
      BY <1>5, <1>6, <3>1 DEF Sent
  <2>6. Counts'
    BY <1>1, <1>3, <1>7, <2>1 DEF Counts, Missing
  <2> QED
    BY <2>2, <2>3, <2>4, <2>5, <2>6 DEF Flow
<1>8. CASE Missing # {}
  <2> DEFINE s == MissingInOrder
             x == Resending(s)
  <2>1. /\ received' = Emptied /\ jobs' = Append(<<>>, x) /\ fragments_sent' = 0
        /\ ended' = ended
    BY <1>2, <1>8 DEF receive_last
  <2>2. s \in Seq(Key) /\ s # <<>>
    BY <1>3, <1>8, Asked
  <2> HIDE DEF s
  <2>3. x \in Job /\ x.begun = FALSE /\ x.left = <<>>
    BY <2>2, NewResend
  <2> HIDE DEF x
  <2>4. Append(<<>>, x) = <<x>>
    OBVIOUS
  <2>5. /\ jobs' \in Seq(Job) /\ Len(jobs') = 1 /\ DOMAIN jobs' = {1} /\ jobs'[1] = x
        /\ jobs' # <<>>
    BY <2>1, <2>3, <2>4, OneJobLeft
  <2>6. Types'
    BY <1>1, <1>2, <1>3, <1>4, <2>1, <2>5 DEF Types
  <2>7. Turn'
    BY <1>1, <1>2, <1>4, <2>1, <2>5 DEF Turn, Running
  <2>8. Lefts'
    BY <1>4, <2>3, <2>5 DEF Lefts
  <2>9. Sent'
    <3>1. Len(jobs'[1].left) = 0
      BY <2>3, <2>5
    <3>2. Pending' = 0 - IF jobs'[1].kind = "send" THEN Len(jobs'[1].left) ELSE 0
      BY <1>2, <2>1, <2>5 DEF Pending
    <3>3. Pending' = 0
      BY <3>1, <3>2
    <3>4. transit' = <<>>
      BY <1>1, <1>2
    <3> QED
      BY <1>5, <1>6, <3>3, <3>4 DEF Sent
  <2>10. Counts'
    <3>1. DOMAIN Emptied = DOMAIN received
      BY DEF Emptied
    <3>2. \A k \in DOMAIN received : Emptied[k] \in Nat
      BY <1>3 DEF Emptied, Counts
    <3> QED
      BY <1>1, <1>2, <1>3, <2>1, <3>1, <3>2 DEF Counts
  <2> QED
    BY <2>6, <2>7, <2>8, <2>9, <2>10 DEF Flow
<1> QED
  BY <1>7, <1>8

LEMMA FlowKept == ASSUME Flow, [Next]_vars PROVE Flow'
<1>1. ASSUME NEW i \in DOMAIN jobs, Send(i) PROVE Flow'
  BY <1>1, FlowBegin, FlowPut, FlowEndSent, FlowEndResent DEF Send
<1>2. ASSUME loss_gen PROVE Flow'
  BY <1>2 DEF loss_gen, sender, receiver, history, Flow, Types, Counts, Missing, Turn, Running,
              Leaving, Quiet, Lefts, Sent, Pending
<1>3. ASSUME Deliver PROVE Flow'
  BY <1>3, FlowDrop, FlowReceiveFragment, FlowReceiveControl, FlowReceiveLast DEF Deliver
<1>4. ASSUME UNCHANGED vars PROVE Flow'
  BY <1>4 DEF vars, sender, receiver, history, Flow, Types, Counts, Missing, Turn, Running,
              Leaving, Quiet, Lefts, Sent, Pending
<1> QED
  BY <1>1, <1>2, <1>3, <1>4 DEF Next

-----------------------------------------------------------------------------
(* The division of a tier into chunks                                       *)

LEMMA DividedInit == Init => Divided
<1> SUFFICES ASSUME Init PROVE Divided
  OBVIOUS
<1> DEFINE j == Sending(0)
<1>1. jobs = <<j>> /\ generated = <<>> /\ Flow
  BY FlowInit DEF Init
<1>2. DOMAIN jobs = {1} /\ jobs[1] = j /\ 0 \in Tiers /\ DOMAIN generated = {}
  BY <1>1 DEF Tiers
<1>3. /\ j.kind = "send" /\ j.tier = 0 /\ j.chunk = 0 /\ j.last = LastChunk(0)
      /\ j.begun = FALSE
  BY <1>1, <1>2, NewJob DEF Flow
<1> HIDE DEF j
<1>4. LastChunk(0) \in Nat
  BY <1>1, <1>2, Parities DEF Flow
<1>5. ASSUME NEW t \in Tiers, NEW c \in 0 .. LastChunk(t) PROVE Ahead(j, t, c)
  BY <1>3, <1>5 DEF Ahead, Tiers
<1> HIDE DEF LastChunk
<1> QED
  BY <1>2, <1>3, <1>4, <1>5 DEF Divided

(* An action that generates nothing and replaces no process: only a change of the parity
   could disturb the division.                                               *)
LEMMA DividedKept ==
    ASSUME Divided, UNCHANGED <<jobs, generated>>,
           ~changed' => ~changed /\ UNCHANGED tier_m
    PROVE  Divided'
BY DEF Divided, DataOf, LastChunk, Ahead

(* A process of the same kind on the same chunk, or one of send that is further on.  *)
LEMMA DividedMoves ==
    ASSUME Divided, UNCHANGED <<tier_m, changed>>,
           DOMAIN generated' \subseteq Key, DOMAIN generated \subseteq DOMAIN generated',
           ~changed => \A k \in DOMAIN generated' : generated'[k] = DataOf(k[1], k[2]),
           \A i \in DOMAIN jobs' :
               jobs'[i].kind = "send" =>
                   /\ jobs'[i].chunk <= jobs'[i].last
                   /\ ~changed => jobs'[i].last = LastChunk(jobs'[i].tier),
           ~changed => \A i \in DOMAIN jobs, t \in Tiers : \A c \in 0 .. LastChunk(t) :
               jobs[i].kind = "send" /\ Ahead(jobs[i], t, c) =>
                   \/ <<t, c>> \in DOMAIN generated'
                   \/ \E p \in DOMAIN jobs' : jobs'[p].kind = "send" /\ Ahead(jobs'[p], t, c)
    PROVE  Divided'
<1>1. \A t \in Tiers : LastChunk(t)' = LastChunk(t) /\ \A c : DataOf(t, c)' = DataOf(t, c)
  BY DEF LastChunk, DataOf
<1>2. ASSUME NEW k \in Key PROVE k[1] \in Tiers
  BY DEF Key
<1>3. ASSUME ~changed, NEW k \in DOMAIN generated'
      PROVE  generated'[k] = DataOf(k[1], k[2])'
  BY <1>1, <1>2, <1>3
<1>4. ASSUME ~changed, NEW t \in Tiers, NEW c \in 0 .. LastChunk(t)
      PROVE  \/ <<t, c>> \in DOMAIN generated'
             \/ \E p \in DOMAIN jobs' : jobs'[p].kind = "send" /\ Ahead(jobs'[p], t, c)
  <2>1. \/ <<t, c>> \in DOMAIN generated
        \/ \E i \in DOMAIN jobs : jobs[i].kind = "send" /\ Ahead(jobs[i], t, c)
    BY <1>4 DEF Divided
  <2> QED
    BY <1>4, <2>1
<1>5. (\A i \in DOMAIN jobs : jobs[i].kind = "send" => jobs[i].last = LastChunk(jobs[i].tier))'
      <=> \A i \in DOMAIN jobs' :
              jobs'[i].kind = "send" => jobs'[i].last = LastChunk(jobs'[i].tier)
  BY DEF LastChunk
<1> DEFINE D == \A k \in DOMAIN generated : generated[k] = DataOf(k[1], k[2])
           A == \A t \in Tiers : \A c \in 0 .. LastChunk(t) :
                    <<t, c>> \in DOMAIN generated
                    \/ \E i \in DOMAIN jobs : jobs[i].kind = "send" /\ Ahead(jobs[i], t, c)
           L == \A i \in DOMAIN jobs :
                    jobs[i].kind = "send" => jobs[i].last = LastChunk(jobs[i].tier)
           C == \A i \in DOMAIN jobs : jobs[i].kind = "send" => jobs[i].chunk <= jobs[i].last
<1>6. ~changed => D'
  BY <1>3
<1>7. ~changed => A'
  <2> SUFFICES ASSUME ~changed, NEW t \in Tiers, NEW c \in (0 .. LastChunk(t))'
               PROVE  (<<t, c>> \in DOMAIN generated
                       \/ \E i \in DOMAIN jobs : jobs[i].kind = "send" /\ Ahead(jobs[i], t, c))'
    OBVIOUS
  <2>1. c \in 0 .. LastChunk(t)
    BY <1>1
  <2> QED
    BY <1>4, <2>1 DEF Ahead
<1>8. ~changed => L'
  BY <1>5
<1>9. C' /\ (DOMAIN generated \subseteq Key)'
  OBVIOUS
<1>10. Divided' <=> (DOMAIN generated \subseteq Key)' /\ (~changed' => D' /\ A' /\ L') /\ C'
  BY DEF Divided
<1> HIDE DEF D, A, L, C
<1> QED
  BY <1>6, <1>7, <1>8, <1>9, <1>10

LEMMA DividedBegin ==
    ASSUME Flow, Divided, NEW i \in DOMAIN jobs, begin_chunk(i)
    PROVE  Divided'
<1> DEFINE j == jobs[1]
           s == generate_chunk_fragments(j.tier, j.chunk)
           x == [j EXCEPT !.begun = TRUE, !.left = s]
           key == <<j.tier, j.chunk>>
           d == DataOf(j.tier, j.chunk)
<1>1. /\ i = 1 /\ DOMAIN jobs = {1} /\ j \in Job /\ Types /\ Turn
  BY OneJob DEF Flow
<1>2. /\ jobs' = [jobs EXCEPT ![1] = x]
      /\ generated' = PutNew(generated, key, d)
      /\ tier_m' = tier_m /\ changed' = changed
  BY <1>1 DEF begin_chunk
<1>3. j.tier \in Tiers /\ j.chunk \in Nat /\ key \in Key /\ key[1] = j.tier /\ key[2] = j.chunk
  BY <1>1, JobFields DEF Key
<1> HIDE DEF s
<1>4. /\ DOMAIN jobs' = {1} /\ jobs'[1] = x /\ x.kind = j.kind /\ x.tier = j.tier
      /\ x.chunk = j.chunk /\ x.last = j.last
  BY <1>1, <1>2 DEF Job
<1> HIDE DEF x, j, key, d
<1>5. DOMAIN generated' = DOMAIN generated \cup {key}
  BY <1>2 DEF PutNew, Put
<1>6. \A k \in DOMAIN generated' :
          generated'[k] = IF k \in DOMAIN generated THEN generated[k] ELSE d
  BY <1>2 DEF PutNew, Put
<1>7. ~changed => \A k \in DOMAIN generated' : generated'[k] = DataOf(k[1], k[2])
  BY <1>3, <1>5, <1>6 DEF Divided, d
<1>8. ASSUME NEW t \in Tiers, NEW c \in 0 .. LastChunk(t), j.kind = "send", Ahead(j, t, c)
      PROVE  <<t, c>> = key \/ Ahead(x, t, c)
  BY <1>4, <1>8 DEF Ahead, key
<1>9. /\ j.kind = "send" => j.chunk <= j.last
      /\ ~changed /\ j.kind = "send" => j.last = LastChunk(j.tier)
  BY <1>1 DEF Divided, j
<1>10. DOMAIN generated' \subseteq Key
  BY <1>3, <1>5 DEF Divided
<1>11. \A p \in DOMAIN jobs' :
           jobs'[p].kind = "send" =>
               /\ jobs'[p].chunk <= jobs'[p].last
               /\ ~changed => jobs'[p].last = LastChunk(jobs'[p].tier)
  BY <1>4, <1>9
<1>12. \A p \in DOMAIN jobs, t \in Tiers : \A c \in 0 .. LastChunk(t) :
           jobs[p].kind = "send" /\ Ahead(jobs[p], t, c) =>
               \/ <<t, c>> \in DOMAIN generated'
               \/ \E q \in DOMAIN jobs' : jobs'[q].kind = "send" /\ Ahead(jobs'[q], t, c)
  <2> HIDE DEF LastChunk
  <2> QED
    BY <1>1, <1>4, <1>5, <1>8 DEF j
<1> QED
  BY <1>2, <1>5, <1>7, <1>10, <1>11, <1>12, DividedMoves

LEMMA DividedPut ==
    ASSUME Flow, Divided, NEW i \in DOMAIN jobs, put_fragment(i)
    PROVE  Divided'
<1> DEFINE j == jobs[1]
           x == [j EXCEPT !.left = Tail(j.left)]
<1>1. /\ i = 1 /\ DOMAIN jobs = {1} /\ j \in Job
  BY OneJob DEF Flow
<1>2. /\ jobs' = [jobs EXCEPT ![1] = x]
      /\ generated' = generated /\ tier_m' = tier_m /\ changed' = changed
  BY <1>1 DEF put_fragment, history
<1>3. /\ DOMAIN jobs' = {1} /\ jobs'[1] = x /\ x.kind = j.kind /\ x.tier = j.tier
      /\ x.chunk = j.chunk /\ x.last = j.last /\ x.begun = j.begun
  BY <1>1, <1>2 DEF Job
<1> HIDE DEF x, j
<1>4. \A t, c : Ahead(x, t, c) = Ahead(j, t, c)
  BY <1>3 DEF Ahead
<1> QED
  BY <1>1, <1>2, <1>3, <1>4, DividedMoves DEF Divided, j

LEMMA DividedEndSent ==
    ASSUME Flow, Divided, NEW i \in DOMAIN jobs, end_sent_chunk(i)
    PROVE  Divided'
<1> DEFINE j == jobs[1]
           reports == j.batch + 1 = BatchSize \/ j.chunk = j.last
           x == [j EXCEPT !.chunk = @ + 1, !.begun = FALSE,
                          !.batch = IF reports THEN 0 ELSE @ + 1]
<1>1. /\ i = 1 /\ DOMAIN jobs = {1} /\ j \in Job /\ Types /\ Turn
  BY OneJob DEF Flow
<1>2. j.kind = "send" /\ j.begun /\ generated' = generated /\ tier_m' = tier_m
      /\ changed' = changed
  BY <1>1 DEF end_sent_chunk, history
<1>3. /\ j.chunk <= j.last
      /\ ~changed => j.last = LastChunk(j.tier)
      /\ DOMAIN generated \subseteq Key
      /\ ~changed => \A k \in DOMAIN generated : generated[k] = DataOf(k[1], k[2])
  BY <1>1, <1>2 DEF Divided
<1>4. j.tier \in Tiers /\ j.chunk \in Nat /\ j.last \in Nat
  BY <1>1, JobFields
<1>5. \/ j.chunk < j.last /\ jobs' = [jobs EXCEPT ![1] = x]
      \/ /\ j.chunk = j.last /\ j.tier < NumTiers - 1
         /\ jobs' = [jobs EXCEPT ![1] = Sending(j.tier + 1)]
      \/ j.chunk = j.last /\ j.tier = NumTiers - 1 /\ jobs' = RemoveAt(jobs, 1)
  BY <1>1 DEF end_sent_chunk
<1>6. ASSUME NEW t \in Tiers, NEW c \in 0 .. LastChunk(t), Ahead(j, t, c)
      PROVE  t > j.tier \/ (t = j.tier /\ c > j.chunk)
  BY <1>2, <1>6 DEF Ahead
<1>7. CASE j.chunk < j.last /\ jobs' = [jobs EXCEPT ![1] = x]
  <2> HIDE DEF reports
  <2>1. /\ DOMAIN jobs' = {1} /\ jobs'[1] = x /\ x.kind = j.kind /\ x.tier = j.tier
        /\ x.chunk = j.chunk + 1 /\ x.last = j.last /\ x.begun = FALSE
    BY <1>1, <1>7 DEF Job
  <2> HIDE DEF x, j
  <2>2. \A t \in Tiers : \A c \in 0 .. LastChunk(t) : Ahead(j, t, c) => Ahead(x, t, c)
    <3> SUFFICES ASSUME NEW t \in Tiers, NEW c \in 0 .. LastChunk(t), Ahead(j, t, c)
                 PROVE  Ahead(x, t, c)
      OBVIOUS
    <3>1. t > j.tier \/ (t = j.tier /\ c > j.chunk)
      BY <1>6
    <3>2. c \in Nat
      OBVIOUS
    <3> QED
      BY <1>4, <2>1, <3>1, <3>2 DEF Ahead
  <2>3. x.chunk <= x.last
    BY <1>4, <1>7, <2>1
  <2> HIDE DEF LastChunk, DataOf
  <2> QED
    BY <1>1, <1>2, <1>3, <2>1, <2>2, <2>3, DividedMoves DEF j
<1>8. CASE /\ j.chunk = j.last /\ j.tier < NumTiers - 1
           /\ jobs' = [jobs EXCEPT ![1] = Sending(j.tier + 1)]
  <2> DEFINE y == Sending(j.tier + 1)
             u == j.tier + 1
  <2>1. u \in Tiers
    BY <1>4, <1>8 DEF Tiers
  <2>2. /\ DOMAIN jobs' = {1} /\ jobs'[1] = y /\ y.kind = "send" /\ y.tier = u
        /\ y.chunk = 0 /\ y.last = LastChunk(u) /\ y.begun = FALSE
    BY <1>1, <1>8, <2>1, NewJob
  <2>3. 0 <= LastChunk(u)
    BY <1>1, <2>1, Parities
  <2> HIDE DEF y, u, j
  <2>4. ~changed => \A t \in Tiers : \A c \in 0 .. LastChunk(t) : Ahead(j, t, c) => Ahead(y, t, c)
    <3> SUFFICES ASSUME ~changed, NEW t \in Tiers, NEW c \in 0 .. LastChunk(t), Ahead(j, t, c)
                 PROVE  Ahead(y, t, c)
      OBVIOUS
    <3>1. t > j.tier \/ (t = j.tier /\ c > j.chunk)
      BY <1>6
    <3>2. t > j.tier
      <4> SUFFICES ASSUME t = j.tier, c > j.chunk PROVE FALSE
        BY <3>1
      <4>1. LastChunk(t) = j.chunk
        BY <1>3, <1>8
      <4> HIDE DEF LastChunk
      <4> QED
        BY <1>4, <4>1
    <3>3. t \in Nat /\ j.tier \in Nat /\ c \in Nat
      BY <1>4 DEF Tiers
    <3>4. t > u \/ t = u
      BY <3>2, <3>3 DEF u
    <3>5. c > 0 \/ c = 0
      BY <3>3
    <3> QED
      BY <2>2, <3>4, <3>5 DEF Ahead
  <2> HIDE DEF LastChunk, DataOf
  <2>5. jobs'[1].last = LastChunk(jobs'[1].tier) /\ jobs'[1].chunk <= jobs'[1].last
    BY <2>2, <2>3
  <2> QED
    BY <1>1, <1>2, <1>3, <2>2, <2>4, <2>5, DividedMoves DEF j
<1>9. CASE j.chunk = j.last /\ j.tier = NumTiers - 1 /\ jobs' = RemoveAt(jobs, 1)
  <2>1. jobs' = <<>>
    BY <1>1, <1>9, JobGone
  <2>2. DOMAIN jobs' = {}
    BY <2>1
  <2> HIDE DEF j
  <2>3. ASSUME ~changed, NEW t \in Tiers, NEW c \in 0 .. LastChunk(t), Ahead(j, t, c)
        PROVE  FALSE
    <3>1. t > j.tier \/ (t = j.tier /\ c > j.chunk)
      BY <1>6, <2>3
    <3>2. ~(t > j.tier)
      BY <1>9 DEF Tiers
    <3>3. t = j.tier => LastChunk(t) = j.chunk
      BY <1>3, <1>9, <2>3
    <3> HIDE DEF LastChunk
    <3> QED
      BY <1>4, <3>1, <3>2, <3>3
  <2> HIDE DEF LastChunk, DataOf
  <2> QED
    BY <1>1, <1>2, <1>3, <2>2, <2>3, DividedMoves DEF j
<1> QED
  BY <1>5, <1>7, <1>8, <1>9

(* A process of retransmit_chunks comes after that of send.                  *)
LEMMA DividedResends ==
    ASSUME Divided, UNCHANGED <<tier_m, changed, generated>>,
           \A i \in DOMAIN jobs : jobs[i].kind # "send",
           \A i \in DOMAIN jobs' : jobs'[i].kind # "send"
    PROVE  Divided'
BY DividedMoves DEF Divided

LEMMA DividedEndResent ==
    ASSUME Flow, Divided, NEW i \in DOMAIN jobs, end_resent_chunk(i)
    PROVE  Divided'
<1>1. /\ i = 1 /\ DOMAIN jobs = {1} /\ jobs[1] \in Job /\ Types /\ Turn
  BY OneJob DEF Flow
<1>2. /\ jobs[1].kind = "resend" /\ UNCHANGED <<tier_m, changed, generated>>
      /\ IF jobs[1].todo # <<>> THEN jobs' = [jobs EXCEPT ![1] = Resending(jobs[1].todo)]
                                ELSE jobs' = RemoveAt(jobs, 1)
  BY <1>1 DEF end_resent_chunk, history
<1>3. jobs[1].todo \in Seq(Key)
  BY <1>1, JobFields
<1>4. \A p \in DOMAIN jobs' : jobs'[p].kind # "send"
  <2>1. CASE jobs[1].todo # <<>>
    <3>1. Resending(jobs[1].todo).kind = "resend"
      BY <1>3, <2>1, NewResend
    <3> QED
      BY <1>1, <1>2, <2>1, <3>1
  <2>2. CASE jobs[1].todo = <<>>
    <3>1. jobs' = <<>>
      BY <1>1, <1>2, <2>2, JobGone
    <3> QED
      BY <3>1
  <2> QED
    BY <2>1, <2>2
<1> QED
  BY <1>1, <1>2, <1>4, DividedResends

LEMMA DividedReceiveLast == ASSUME Flow, Divided, receive_last PROVE Divided'
<1>1. jobs = <<>> /\ UNCHANGED <<tier_m, changed, generated>>
  BY LastArrives DEF receive_last, history
<1>2. jobs' = <<>> \/ (Missing # {} /\ jobs' = Append(<<>>, Resending(MissingInOrder)))
  BY <1>1 DEF receive_last
<1>3. \A p \in DOMAIN jobs' : jobs'[p].kind # "send"
  <2>1. CASE jobs' = <<>>
    BY <2>1
  <2>2. CASE Missing # {} /\ jobs' = Append(<<>>, Resending(MissingInOrder))
    <3>1. Resending(MissingInOrder).kind = "resend"
      BY <2>2, Asked, NewResend DEF Flow
    <3> DEFINE x == Resending(MissingInOrder)
    <3> HIDE DEF x
    <3>2. jobs' = <<x>> /\ x.kind = "resend"
      BY <2>2, <3>1 DEF x
    <3> QED
      BY <3>2
  <2> QED
    BY <1>2, <2>1, <2>2
<1> QED
  BY <1>1, <1>3, DividedResends

LEMMA DividedAlways == ASSUME Flow, Divided, [Next]_vars PROVE Divided'
<1>1. ASSUME NEW i \in DOMAIN jobs, Send(i) PROVE Divided'
  BY <1>1, DividedBegin, DividedPut, DividedEndSent, DividedEndResent DEF Send
<1>2. ASSUME loss_gen PROVE Divided'
  BY <1>2, DividedKept DEF loss_gen, sender, history
<1>3. ASSUME drop \/ receive_fragment PROVE Divided'
  BY <1>3, DividedKept DEF drop, receive_fragment, sender
<1>4. ASSUME receive_control PROVE Divided'
  <2>1. UNCHANGED <<jobs, generated>> /\ changed' = (changed \/ tier_m' # tier_m)
    BY <1>4 DEF receive_control
  <2> QED
    BY <2>1, DividedKept
<1>5. ASSUME receive_last PROVE Divided'
  BY <1>5, DividedReceiveLast
<1>6. ASSUME UNCHANGED vars PROVE Divided'
  BY <1>6, DividedKept DEF vars, sender, history
<1> QED
  BY <1>1, <1>2, <1>3, <1>4, <1>5, <1>6 DEF Next, Deliver

-----------------------------------------------------------------------------
(* Every count of a chunk is of different fragments of one code             *)

OneCodeOf(k) == \E m \in Ms : \E S \in SUBSET got : CountedFrom(k, m, S)

LEMMA OneCodeKept ==
    ASSUME NEW k \in Key, OneCodeOf(k), got \subseteq got',
           Has(received', k, 0) = Has(received, k, 0),
           \A f \in Fragment : OnItsWay(f)' /\ KeyOf(f) = k => OnItsWay(f)
    PROVE  OneCodeOf(k)'
<1>1. PICK m \in Ms, S \in SUBSET got : CountedFrom(k, m, S)
  BY DEF OneCodeOf
<1>2. S \in SUBSET got' /\ S \subseteq FragsOf(k, m)'
  BY <1>1 DEF CountedFrom, FragsOf
<1>3. Cardinality(S) = Has(received', k, 0)
  BY <1>1 DEF CountedFrom
<1>4. \A f \in Fragment : OnItsWay(f)' /\ KeyOf(f) = k => f.m = m /\ f \notin S
  BY <1>1 DEF CountedFrom
<1>5. CountedFrom(k, m, S)'
  BY <1>2, <1>3, <1>4 DEF CountedFrom
<1> QED
  BY <1>2, <1>5 DEF OneCodeOf

LEMMA OneCodeEmpty ==
    ASSUME NEW k \in Key, Has(received', k, 0) = 0, NEW m \in Ms,
           \A f \in Fragment : OnItsWay(f)' /\ KeyOf(f) = k => f.m = m
    PROVE  OneCodeOf(k)'
<1>1. Cardinality({}) = 0
  BY FS_EmptySet
<1>2. CountedFrom(k, m, {})'
  BY <1>1 DEF CountedFrom
<1> QED
  BY <1>2 DEF OneCodeOf

(* A step after which no more is on its way and no more chunks are to begin. *)
LEMMA FewerOnTheirWay ==
    ASSUME Fresh, OneCode, UNCHANGED <<received, got>>,
           \A f \in Fragment : OnItsWay(f)' => OnItsWay(f),
           \A i \in DOMAIN jobs', k \in Key :
               ToBegin(jobs[i], k)' => \E p \in DOMAIN jobs : ToBegin(jobs[p], k)
    PROVE  Fresh' /\ OneCode'
<1>1. Fresh'
  <2> SUFFICES ASSUME NEW i \in DOMAIN jobs', NEW k \in Key, ToBegin(jobs[i], k)'
               PROVE  /\ Has(received', k, 0) = 0
                      /\ \A f \in Fragment : OnItsWay(f)' => KeyOf(f) # k
    BY DEF Fresh
  <2>1. PICK p \in DOMAIN jobs : ToBegin(jobs[p], k)
    OBVIOUS
  <2>2. Has(received, k, 0) = 0 /\ \A f \in Fragment : OnItsWay(f) => KeyOf(f) # k
    BY <2>1 DEF Fresh
  <2> QED
    BY <2>2
<1>2. ASSUME NEW k \in Key PROVE OneCodeOf(k)'
  <2>1. OneCodeOf(k)
    BY DEF OneCode, OneCodeOf
  <2> QED
    BY <2>1, OneCodeKept
<1>3. OneCode'
  BY <1>2 DEF OneCode, OneCodeOf
<1> QED
  BY <1>1, <1>3

LEMMA CodesInit == Init => Codes
<1> SUFFICES ASSUME Init PROVE Codes
  OBVIOUS
<1> DEFINE j == Sending(0)
<1>1. jobs = <<j>> /\ transit = <<>> /\ received = <<>> /\ Flow
  BY FlowInit DEF Init
<1>2. /\ DOMAIN jobs = {1} /\ jobs[1] = j /\ 0 \in Tiers /\ DOMAIN transit = {}
      /\ DOMAIN received = {} /\ DOMAIN <<>> = {}
  BY <1>1 DEF Tiers
<1>3. j.kind = "send" /\ j.left = <<>>
  BY <1>1, <1>2, NewJob DEF Flow
<1> HIDE DEF j
<1>4. \A f : ~OnItsWay(f)
  BY <1>2, <1>3 DEF OnItsWay
<1>5. \A k : Has(received, k, 0) = 0
  BY <1>2 DEF Has
<1>6. Once
  BY <1>2, <1>3 DEF Once, Distinct
<1>7. Todo
  BY <1>2, <1>3 DEF Todo
<1>8. Fresh
  BY <1>4, <1>5 DEF Fresh
<1>9. OneCode
  <2>1. PICK m : m \in Ms
    OBVIOUS
  <2>2. Cardinality({}) = 0
    BY FS_EmptySet
  <2>3. \A k \in Key : CountedFrom(k, m, {})
    BY <1>4, <1>5, <2>2 DEF CountedFrom
  <2> QED
    BY <2>1, <2>3 DEF OneCode
<1> QED
  BY <1>6, <1>7, <1>8, <1>9 DEF Codes

(* The first packet leaves the link, uncounted.                              *)
LEMMA CodesLost ==
    ASSUME Flow, Codes, transit # <<>>, transit' = Tail(transit),
           UNCHANGED <<jobs, received, got>>
    PROVE  Codes'
<1> DEFINE l == Len(transit)
<1>1. /\ l \in Nat \ {0} /\ DOMAIN transit = 1 .. l /\ DOMAIN transit' = 1 .. l - 1
      /\ \A p \in 1 .. l - 1 : p + 1 \in 1 .. l /\ transit'[p] = transit[p + 1]
  BY TailAt DEF Flow, Types
<1> HIDE DEF l
<1>2. \A f : OnItsWay(f)' => OnItsWay(f)
  BY <1>1 DEF OnItsWay
<1>3. Once'
  <2>1. Distinct(transit')
    <3> SUFFICES ASSUME NEW p \in 1 .. l - 1, NEW q \in 1 .. l - 1, transit'[p] \in Fragment,
                        p # q
                 PROVE  transit'[p] # transit'[q]
      BY <1>1 DEF Distinct
    <3>1. p + 1 # q + 1
      OBVIOUS
    <3> QED
      BY <1>1, <3>1 DEF Codes, Once, Distinct
  <2>2. ASSUME NEW i \in DOMAIN jobs, NEW p \in DOMAIN jobs[i].left, NEW q \in DOMAIN transit'
        PROVE  jobs[i].left[p] # transit'[q]
    <3>1. q + 1 \in DOMAIN transit /\ transit'[q] = transit[q + 1]
      BY <1>1
    <3> QED
      BY <3>1 DEF Codes, Once
  <2>3. \A i \in DOMAIN jobs : Distinct(jobs[i].left)
    BY DEF Codes, Once
  <2> QED
    BY <2>1, <2>2, <2>3 DEF Once
<1>4. Fresh' /\ OneCode'
  <2>1. \A i, k : ToBegin(jobs[i], k)' <=> ToBegin(jobs[i], k)
    BY DEF ToBegin, Ahead
  <2> QED
    BY <1>2, <2>1, FewerOnTheirWay DEF Codes
<1>5. Todo'
  BY DEF Codes, Todo
<1> QED
  BY <1>3, <1>4, <1>5 DEF Codes

LEMMA CodesReceiveFragment == ASSUME Flow, Codes, receive_fragment PROVE Codes'
<1> DEFINE pkt == Head(transit)
           key == <<pkt.tier, pkt.chunk>>
           l == Len(transit)
<1>1. /\ transit # <<>> /\ IsFragment(pkt) /\ transit' = Tail(transit)
      /\ received' = Put(received, key, Has(received, key, 0) + 1)
      /\ got' = got \cup {pkt}
      /\ jobs' = jobs
  BY DEF receive_fragment, sender
<1>2. /\ l \in Nat \ {0} /\ DOMAIN transit = 1 .. l /\ DOMAIN transit' = 1 .. l - 1
      /\ \A p \in 1 .. l - 1 : p + 1 \in 1 .. l /\ transit'[p] = transit[p + 1]
      /\ pkt = transit[1] /\ pkt \in Packet
  BY <1>1, TailAt DEF Flow, Types
<1>3. pkt \in Fragment /\ key \in Key /\ key = KeyOf(pkt)
  BY <1>1, <1>2, PacketTypes DEF KeyOf
<1> HIDE DEF pkt, key, l
<1>4. OnItsWay(pkt)
  BY <1>2 DEF OnItsWay
<1>5. ASSUME NEW f, OnItsWay(f)' PROVE OnItsWay(f) /\ f # pkt
  <2>1. CASE \E p \in DOMAIN transit' : transit'[p] = f
    <3>1. PICK p \in 1 .. l - 1 : transit'[p] = f
      BY <1>2, <2>1
    <3>2. p + 1 \in DOMAIN transit /\ transit[p + 1] = f /\ 1 \in DOMAIN transit /\ p + 1 # 1
      BY <1>2, <3>1
    <3>3. transit[p + 1] # transit[1]
      BY <1>2, <1>3, <3>2 DEF Codes, Once, Distinct
    <3> QED
      BY <1>2, <3>2, <3>3 DEF OnItsWay
  <2>2. CASE \E i \in DOMAIN jobs : \E p \in DOMAIN jobs[i].left : jobs[i].left[p] = f
    <3>1. 1 \in DOMAIN transit
      BY <1>2
    <3>2. f # transit[1]
      BY <2>2, <3>1 DEF Codes, Once
    <3> QED
      BY <1>2, <2>2, <3>2 DEF OnItsWay
  <2> QED
    BY <1>1, <1>5, <2>1, <2>2 DEF OnItsWay
<1>6. Once'
  <2>1. Distinct(transit')
    <3> SUFFICES ASSUME NEW p \in 1 .. l - 1, NEW q \in 1 .. l - 1, transit'[p] \in Fragment,
                        p # q
                 PROVE  transit'[p] # transit'[q]
      BY <1>2 DEF Distinct
    <3>1. p + 1 # q + 1
      OBVIOUS
    <3> QED
      BY <1>2, <3>1 DEF Codes, Once, Distinct
  <2>2. ASSUME NEW i \in DOMAIN jobs, NEW p \in DOMAIN jobs[i].left, NEW q \in DOMAIN transit'
        PROVE  jobs[i].left[p] # transit'[q]
    <3>1. q + 1 \in DOMAIN transit /\ transit'[q] = transit[q + 1]
      BY <1>2
    <3> QED
      BY <3>1 DEF Codes, Once
  <2>3. \A i \in DOMAIN jobs : Distinct(jobs[i].left)
    BY DEF Codes, Once
  <2> QED
    BY <1>1, <2>1, <2>2, <2>3 DEF Once
<1>7. \A k : k # key => Has(received', k, 0) = Has(received, k, 0)
  BY <1>1 DEF Put, Has
<1>8. Fresh'
  <2> SUFFICES ASSUME NEW i \in DOMAIN jobs, NEW k \in Key, ToBegin(jobs[i], k)
               PROVE  /\ Has(received', k, 0) = 0
                      /\ \A f \in Fragment : OnItsWay(f)' => KeyOf(f) # k
    <3>1. \A i, k : ToBegin(jobs[i], k)' <=> ToBegin(jobs[i], k)
      BY <1>1 DEF ToBegin, Ahead
    <3> QED
      BY <1>1, <3>1 DEF Fresh
  <2>1. Has(received, k, 0) = 0 /\ \A f \in Fragment : OnItsWay(f) => KeyOf(f) # k
    BY DEF Codes, Fresh
  <2>2. k # key
    BY <1>3, <1>4, <2>1
  <2> QED
    BY <1>5, <1>7, <2>1, <2>2
<1>9. ASSUME NEW k \in Key PROVE OneCodeOf(k)'
  <2>1. OneCodeOf(k)
    BY DEF Codes, OneCode, OneCodeOf
  <2>2. CASE k # key
    BY <1>1, <1>5, <1>7, <2>1, <2>2, OneCodeKept
  <2>3. CASE k = key
    <3>1. PICK m \in Ms, S \in SUBSET got : CountedFrom(k, m, S)
      BY <2>1 DEF OneCodeOf
    <3>0. PICK T : T = S \cup {pkt}
      OBVIOUS
    <3>2. pkt.m = m /\ pkt \notin S
      BY <1>3, <1>4, <2>3, <3>1 DEF CountedFrom
    <3>3. T \in SUBSET got' /\ T \subseteq FragsOf(k, m)'
      BY <1>1, <1>3, <2>3, <3>0, <3>1, <3>2 DEF CountedFrom, FragsOf, KeyOf
    <3>4. Cardinality(T) = Has(received', k, 0)
      <4>1. IsFiniteSet(S)
        BY <3>1, FS_Subset DEF Flow, Counts
      <4>2. Cardinality(T) = Cardinality(S) + 1
        BY <3>0, <3>2, <4>1, FS_AddElement
      <4>3. Has(received', key, 0) = Has(received, key, 0) + 1
        BY <1>1 DEF Put, Has
      <4> QED
        BY <2>3, <3>1, <4>2, <4>3 DEF CountedFrom
    <3>5. \A f \in Fragment : OnItsWay(f)' /\ KeyOf(f) = k => f.m = m /\ f \notin T
      BY <1>5, <3>0, <3>1 DEF CountedFrom
    <3>6. CountedFrom(k, m, T)'
      BY <3>3, <3>4, <3>5 DEF CountedFrom
    <3> QED
      BY <3>3, <3>6 DEF OneCodeOf
  <2> QED
    BY <2>2, <2>3
<1>10. OneCode'
  BY <1>9 DEF OneCode, OneCodeOf
<1>11. Todo'
  BY <1>1 DEF Codes, Todo
<1> QED
  BY <1>6, <1>8, <1>10, <1>11 DEF Codes

LEMMA CodesBegin ==
    ASSUME Flow, Codes, NEW i \in DOMAIN jobs, begin_chunk(i)
    PROVE  Codes'
<1> DEFINE j == jobs[1]
           s == generate_chunk_fragments(j.tier, j.chunk)
           x == [j EXCEPT !.begun = TRUE, !.left = s]
           key == <<j.tier, j.chunk>>
           m == tier_m[j.tier]
<1>1. /\ i = 1 /\ DOMAIN jobs = {1} /\ j \in Job /\ Types /\ Turn /\ Lefts
  BY OneJob DEF Flow
<1>2. /\ ~j.begun /\ jobs' = [jobs EXCEPT ![1] = x]
      /\ UNCHANGED <<transit, received, got>>
  BY <1>1 DEF begin_chunk, receiver
<1>3. /\ j.kind \in {"send", "resend"} /\ j.tier \in Tiers /\ j.chunk \in Nat
      /\ key \in Key /\ key[1] = j.tier /\ key[2] = j.chunk
      /\ j.left = <<>> /\ m \in Ms /\ DOMAIN j.left = {}
  BY <1>1, <1>2, JobFields, Parities DEF Key, Lefts
<1>4. /\ s \in Seq(Fragment)
      /\ \A p \in DOMAIN s : KeyOf(s[p]) = key /\ s[p].m = m
      /\ \A p, q \in DOMAIN s : p # q => s[p] # s[q]
  <2> DEFINE t == j.tier
             c == j.chunk
  <2>1. t \in Tiers /\ c \in Nat
    BY <1>3
  <2> HIDE DEF t, c
  <2>2. LET r == generate_chunk_fragments(t, c) IN
        /\ r \in Seq(Fragment)
        /\ \A p \in DOMAIN r : KeyOf(r[p]) = <<t, c>> /\ r[p].m = tier_m[t]
        /\ \A p, q \in DOMAIN r : p # q => r[p] # r[q]
    BY <1>1, <2>1, Generates
  <2> QED
    BY <2>2 DEF t, c
<1> HIDE DEF s
<1>5. \A p \in DOMAIN s : s[p] \in Fragment
  BY <1>4
<1>6. /\ DOMAIN jobs' = {1} /\ jobs'[1] = x /\ x.kind = j.kind /\ x.tier = j.tier
      /\ x.chunk = j.chunk /\ x.todo = j.todo /\ x.begun = TRUE /\ x.left = s
  BY <1>1, <1>2 DEF Job
<1> HIDE DEF x, key, m
<1>7. ToBegin(j, key)
  BY <1>2, <1>3 DEF ToBegin, Ahead, key
<1>8. Has(received, key, 0) = 0 /\ \A f \in Fragment : OnItsWay(f) => KeyOf(f) # key
  BY <1>1, <1>3, <1>7 DEF Codes, Fresh
<1>9. \A f : OnItsWay(f)' => OnItsWay(f) \/ \E p \in DOMAIN s : s[p] = f
  BY <1>2, <1>6 DEF OnItsWay
<1>10. Once'
  <2>1. Distinct(transit) /\ Distinct(s)
    BY <1>4 DEF Codes, Once, Distinct
  <2>2. ASSUME NEW p \in DOMAIN s, NEW q \in DOMAIN transit PROVE s[p] # transit[q]
    <3> SUFFICES ASSUME s[p] = transit[q] PROVE FALSE
      OBVIOUS
    <3>1. OnItsWay(s[p])
      BY DEF OnItsWay
    <3> QED
      BY <1>4, <1>5, <1>8, <3>1
  <2> QED
    BY <1>2, <1>6, <2>1, <2>2 DEF Once
<1>11. ASSUME NEW k \in Key, ToBegin(x, k) PROVE ToBegin(j, k) /\ k # key
  <2>1. CASE j.kind = "send"
    <3>1. k[1] > j.tier \/ (k[1] = j.tier /\ k[2] > j.chunk)
      BY <1>6, <1>11, <2>1 DEF ToBegin, Ahead
    <3>2. ToBegin(j, k)
      BY <2>1, <3>1 DEF ToBegin, Ahead
    <3>3. j.tier \in Int /\ j.chunk \in Int
      BY <1>3 DEF Tiers
    <3>4. k # key
      <4> SUFFICES ASSUME k = key PROVE FALSE
        OBVIOUS
      <4>1. k[1] = j.tier /\ k[2] = j.chunk
        BY <1>3
      <4> HIDE DEF j
      <4> QED
        BY <3>1, <3>3, <4>1
    <3> QED
      BY <3>2, <3>4
  <2>2. CASE j.kind = "resend"
    <3>1. \E p \in DOMAIN j.todo : j.todo[p] = k
      BY <1>6, <1>11, <2>2 DEF ToBegin
    <3>2. k # key
      BY <1>1, <2>2, <3>1 DEF Codes, Todo, key
    <3> QED
      BY <2>2, <3>1, <3>2 DEF ToBegin
  <2> QED
    BY <1>3, <2>1, <2>2
<1>12. Fresh'
  <2> SUFFICES ASSUME NEW k \in Key, ToBegin(x, k)
               PROVE  /\ Has(received, k, 0) = 0
                      /\ \A f \in Fragment : OnItsWay(f)' => KeyOf(f) # k
    <3>1. \A k : ToBegin(jobs[1], k)' <=> ToBegin(x, k)
      BY <1>6 DEF ToBegin, Ahead
    <3> QED
      BY <1>2, <1>6, <3>1 DEF Fresh
  <2>1. ToBegin(j, k) /\ k # key
    BY <1>11
  <2>2. Has(received, k, 0) = 0 /\ \A f \in Fragment : OnItsWay(f) => KeyOf(f) # k
    BY <1>1, <2>1 DEF Codes, Fresh
  <2> QED
    BY <1>4, <1>9, <2>1, <2>2
<1>13. ASSUME NEW k \in Key PROVE OneCodeOf(k)'
  <2>1. OneCodeOf(k)
    BY DEF Codes, OneCode, OneCodeOf
  <2>2. CASE k # key
    <3>1. \A f \in Fragment : OnItsWay(f)' /\ KeyOf(f) = k => OnItsWay(f)
      BY <1>4, <1>9, <2>2
    <3> QED
      BY <1>2, <2>1, <3>1, OneCodeKept
  <2>3. CASE k = key
    <3>1. \A f \in Fragment : OnItsWay(f)' /\ KeyOf(f) = k => f.m = m
      BY <1>4, <1>8, <1>9, <2>3
    <3> QED
      BY <1>2, <1>3, <1>8, <2>3, <3>1, OneCodeEmpty
  <2> QED
    BY <2>2, <2>3
<1>14. OneCode'
  BY <1>13 DEF OneCode, OneCodeOf
<1>15. Todo'
  BY <1>1, <1>6 DEF Codes, Todo
<1> QED
  BY <1>10, <1>12, <1>14, <1>15 DEF Codes

LEMMA CodesPut ==
    ASSUME Flow, Codes, NEW i \in DOMAIN jobs, put_fragment(i)
    PROVE  Codes'
<1> DEFINE j == jobs[1]
           l == j.left
           x == [j EXCEPT !.left = Tail(l)]
           n == Len(transit)
<1>1. /\ i = 1 /\ DOMAIN jobs = {1} /\ j \in Job /\ Types
  BY OneJob DEF Flow
<1>2. /\ l # <<>> /\ jobs' = [jobs EXCEPT ![1] = x] /\ transit' = Append(transit, Head(l))
      /\ UNCHANGED <<received, got>>
  BY <1>1 DEF put_fragment, receiver, history
<1>3. l \in Seq(Fragment) /\ transit \in Seq(Packet)
  BY <1>1, JobFields DEF Types
<1>4. /\ Len(l) \in Nat \ {0} /\ Head(l) = l[1] /\ l[1] \in Fragment
      /\ DOMAIN l = 1 .. Len(l) /\ DOMAIN Tail(l) = 1 .. Len(l) - 1
      /\ \A p \in 1 .. Len(l) - 1 : p + 1 \in 1 .. Len(l) /\ Tail(l)[p] = l[p + 1]
  <2> HIDE DEF l
  <2> QED
    BY <1>2, <1>3, TailAt
<1>5. Head(l) \in Packet
  BY <1>4, PacketTypes
<1>6. /\ n \in Nat /\ DOMAIN transit = 1 .. n /\ DOMAIN transit' = 1 .. n + 1
      /\ \A p \in 1 .. n : transit'[p] = transit[p]
      /\ transit'[n + 1] = l[1]
  BY <1>2, <1>3, <1>4, <1>5, AppendAt
<1>7. /\ DOMAIN jobs' = {1} /\ jobs'[1] = x /\ x.kind = j.kind /\ x.tier = j.tier
      /\ x.chunk = j.chunk /\ x.todo = j.todo /\ x.begun = j.begun /\ x.left = Tail(l)
  BY <1>1, <1>2 DEF Job
<1>8. /\ \A p, q \in DOMAIN l : p # q => l[p] # l[q]
      /\ \A p \in DOMAIN l : \A q \in DOMAIN transit : l[p] # transit[q]
  <2>1. /\ \A p \in DOMAIN l : l[p] \in Fragment
    BY <1>3
  <2>2. Distinct(l) /\ \A p \in DOMAIN l : \A q \in DOMAIN transit : l[p] # transit[q]
    BY <1>1 DEF Codes, Once
  <2> QED
    BY <2>1, <2>2 DEF Distinct
<1> DEFINE r == Tail(l)
<1>9. r = x.left /\ DOMAIN r = 1 .. Len(l) - 1 /\ \A p \in DOMAIN r : r[p] = l[p + 1]
  BY <1>4, <1>7
<1> HIDE DEF x, n, r
<1>10. ASSUME NEW f, OnItsWay(f)' PROVE OnItsWay(f)
  <2>1. \/ \E p \in DOMAIN transit' : transit'[p] = f
        \/ \E p \in DOMAIN r : r[p] = f
    BY <1>7, <1>9, <1>10 DEF OnItsWay
  <2>2. CASE \E p \in DOMAIN transit' : transit'[p] = f
    <3>1. PICK p \in 1 .. n + 1 : transit'[p] = f
      BY <1>6, <2>2
    <3>2. CASE p = n + 1
      <4>1. 1 \in DOMAIN l /\ l[1] = f
        BY <1>4, <1>6, <3>1, <3>2
      <4> QED
        BY <1>1, <4>1 DEF OnItsWay
    <3>3. CASE p \in 1 .. n
      BY <1>6, <3>1, <3>3 DEF OnItsWay
    <3> QED
      BY <1>6, <3>2, <3>3
  <2>3. CASE \E p \in DOMAIN r : r[p] = f
    <3>1. \E p \in DOMAIN l : l[p] = f
      BY <1>4, <1>9, <2>3
    <3> QED
      BY <1>1, <3>1 DEF OnItsWay
  <2> QED
    BY <2>1, <2>2, <2>3
<1>11. Once'
  <2>1. Distinct(transit')
    <3> SUFFICES ASSUME NEW p \in 1 .. n + 1, NEW q \in 1 .. n + 1, transit'[p] \in Fragment,
                        p < q
                 PROVE  transit'[p] # transit'[q]
      <4>1. \A p, q \in 1 .. n + 1 : p # q => p < q \/ q < p
        BY <1>6
      <4> QED
        BY <1>6, <4>1 DEF Distinct
    <3>1. p \in 1 .. n
      BY <1>6
    <3>2. CASE q \in 1 .. n
      BY <1>6, <3>1, <3>2 DEF Codes, Once, Distinct
    <3>3. CASE q = n + 1
      <4>1. 1 \in DOMAIN l /\ p \in DOMAIN transit
        BY <1>4, <1>6, <3>1
      <4>2. l[1] # transit[p]
        BY <1>8, <4>1
      <4> QED
        BY <1>6, <3>1, <3>3, <4>2
    <3> QED
      BY <1>6, <3>2, <3>3
  <2>2. Distinct(r)
    <3> SUFFICES ASSUME NEW p \in DOMAIN r, NEW q \in DOMAIN r, p # q PROVE r[p] # r[q]
      BY DEF Distinct
    <3>1. p + 1 \in DOMAIN l /\ q + 1 \in DOMAIN l /\ p + 1 # q + 1
      BY <1>4, <1>9
    <3> QED
      BY <1>8, <1>9, <3>1
  <2>3. ASSUME NEW p \in DOMAIN r, NEW q \in DOMAIN transit' PROVE r[p] # transit'[q]
    <3>1. p + 1 \in DOMAIN l /\ 1 \in DOMAIN l /\ p + 1 # 1 /\ r[p] = l[p + 1]
      BY <1>4, <1>9
    <3>2. CASE q \in 1 .. n
      BY <1>6, <1>8, <3>1, <3>2
    <3>3. CASE q = n + 1
      BY <1>6, <1>8, <3>1, <3>3
    <3> QED
      BY <1>6, <3>2, <3>3
  <2>4. DOMAIN jobs' = {1} /\ jobs'[1].left = r
    BY <1>7, <1>9
  <2>5. /\ Distinct(jobs[1].left)'
        /\ \A p \in DOMAIN jobs'[1].left : \A q \in DOMAIN transit' :
              jobs'[1].left[p] # transit'[q]
    BY <2>2, <2>3, <2>4 DEF Distinct
  <2> QED
    BY <2>1, <2>4, <2>5 DEF Once
<1>12. Fresh' /\ OneCode'
  <2>1. \A k : ToBegin(jobs[1], k)' <=> ToBegin(j, k)
    BY <1>7 DEF ToBegin, Ahead
  <2> QED
    BY <1>1, <1>2, <1>7, <1>10, <2>1, FewerOnTheirWay DEF Codes
<1>13. Todo'
  BY <1>1, <1>7 DEF Codes, Todo
<1> QED
  BY <1>11, <1>12, <1>13 DEF Codes

(* The end of a chunk: no fragment is put on the link.                       *)
LEMMA CodesEnd ==
    ASSUME Flow, Codes, NEW i \in DOMAIN jobs, UNCHANGED <<received, got>>,
           \A p \in DOMAIN transit' :
               transit'[p] \notin Fragment \/ (p \in DOMAIN transit /\ transit'[p] = transit[p]),
           \A p \in DOMAIN jobs' : jobs'[p].left = <<>>,
           \A p \in DOMAIN jobs', k \in Key : ToBegin(jobs[p], k)' => ToBegin(jobs[1], k),
           Todo'
    PROVE  Codes'
<1>1. i = 1 /\ DOMAIN jobs = {1} /\ DOMAIN <<>> = {}
  BY OneJob DEF Flow
<1>2. \A f \in Fragment : OnItsWay(f)' => OnItsWay(f)
  BY <1>1 DEF OnItsWay
<1>3. Distinct(transit')
  <2> SUFFICES ASSUME NEW p \in DOMAIN transit', NEW q \in DOMAIN transit',
                      transit'[p] \in Fragment, p # q
               PROVE  transit'[p] # transit'[q]
    BY DEF Distinct
  <2>1. p \in DOMAIN transit /\ transit'[p] = transit[p]
    OBVIOUS
  <2>2. CASE transit'[q] \notin Fragment
    BY <2>2
  <2>3. CASE q \in DOMAIN transit /\ transit'[q] = transit[q]
    BY <2>1, <2>3 DEF Codes, Once, Distinct
  <2> QED
    BY <2>2, <2>3
<1>4. Distinct(<<>>)
  BY <1>1 DEF Distinct
<1>5. Once'
  BY <1>1, <1>3, <1>4 DEF Once
<1>6. Fresh' /\ OneCode'
  BY <1>1, <1>2, FewerOnTheirWay DEF Codes
<1> QED
  BY <1>5, <1>6 DEF Codes

\* Every fragment of a is where it is in s.
NoneNew(a, s) ==
    \A p \in DOMAIN a : a[p] \notin Fragment \/ (p \in DOMAIN s /\ a[p] = s[p])

(* Control messages and last_fragment behind the packets.                    *)
LEMMA NoFragments ==
    ASSUME NEW s \in Seq(Packet), NEW x \in Packet, x \notin Fragment,
           NEW c, c = s \/ c = s \o <<>> \/ c = s \o <<x>>,
           NEW a, a = c \/ a = c \o <<last_fragment>>
    PROVE  NoneNew(a, s)
<1> DEFINE y == last_fragment
<1>1. x \in Packet /\ x \notin Fragment /\ y \in Packet /\ y \notin Fragment
  BY PacketTypes
<1> HIDE DEF y
<1>2. ASSUME NEW b \in Seq(Packet), NEW z \in {x, y}
      PROVE  /\ b \o <<z>> \in Seq(Packet)
             /\ \A p \in DOMAIN (b \o <<z>>) :
                    (b \o <<z>>)[p] \notin Fragment \/ (p \in DOMAIN b /\ (b \o <<z>>)[p] = b[p])
  <2>1. b \o <<z>> = Append(b, z) /\ z \in Packet
    BY <1>1, <1>2
  <2>2. /\ Append(b, z) \in Seq(Packet) /\ DOMAIN b = 1 .. Len(b) /\ Len(b) \in Nat
        /\ DOMAIN Append(b, z) = 1 .. Len(b) + 1
        /\ \A p \in DOMAIN b : Append(b, z)[p] = b[p]
        /\ Append(b, z)[Len(b) + 1] = z
    BY <2>1, AppendAt
  <2> DEFINE d == Append(b, z)
  <2> HIDE DEF d
  <2>3. \A p \in DOMAIN d : d[p] \notin Fragment \/ (p \in DOMAIN b /\ d[p] = b[p])
    <3> SUFFICES ASSUME NEW p \in DOMAIN d
                 PROVE  d[p] \notin Fragment \/ (p \in DOMAIN b /\ d[p] = b[p])
      OBVIOUS
    <3>1. p \in DOMAIN b \/ p = Len(b) + 1
      BY <2>2 DEF d
    <3> QED
      BY <1>1, <2>2, <3>1 DEF d
  <2> QED
    BY <2>1, <2>2, <2>3 DEF d
<1>3. /\ c \in Seq(Packet)
      /\ \A p \in DOMAIN c : c[p] \notin Fragment \/ (p \in DOMAIN s /\ c[p] = s[p])
  <2>1. CASE c = s \o <<x>>
    BY <1>2, <2>1
  <2>2. CASE c = s \/ c = s \o <<>>
    <3>1. c = s
      BY <2>2
    <3> QED
      BY <3>1
  <2> QED
    BY <2>1, <2>2
<1>4. CASE a = c
  BY <1>3, <1>4 DEF NoneNew
<1>5. CASE a = c \o <<y>>
  <2>1. \A p \in DOMAIN a : a[p] \notin Fragment \/ (p \in DOMAIN c /\ a[p] = c[p])
    BY <1>2, <1>3, <1>5
  <2> QED
    BY <1>3, <2>1 DEF NoneNew
<1> QED
  BY <1>4, <1>5 DEF y

LEMMA CodesEndSent ==
    ASSUME Flow, Codes, NEW i \in DOMAIN jobs, end_sent_chunk(i)
    PROVE  Codes'
<1> DEFINE j == jobs[1]
           reports == j.batch + 1 = BatchSize \/ j.chunk = j.last
           x == [j EXCEPT !.chunk = @ + 1, !.begun = FALSE,
                          !.batch = IF reports THEN 0 ELSE @ + 1]
<1>1. /\ i = 1 /\ DOMAIN jobs = {1} /\ j \in Job /\ Types /\ Turn
  BY OneJob DEF Flow
<1>2. /\ j.kind = "send" /\ j.begun /\ j.left = <<>> /\ UNCHANGED <<received, got>>
  BY <1>1 DEF end_sent_chunk, receiver, history
<1>3. \E c \in {transit \o <<>>, transit \o <<control(fragments_sent, FALSE)>>} :
          transit' = c \/ transit' = c \o <<last_fragment>>
  BY <1>1 DEF end_sent_chunk
<1>4. \/ jobs' = [jobs EXCEPT ![1] = x]
      \/ j.tier < NumTiers - 1 /\ jobs' = [jobs EXCEPT ![1] = Sending(j.tier + 1)]
      \/ jobs' = RemoveAt(jobs, 1)
  BY <1>1 DEF end_sent_chunk
<1>5. \A p \in DOMAIN transit' :
          transit'[p] \notin Fragment \/ (p \in DOMAIN transit /\ transit'[p] = transit[p])
  <2>1. transit \in Seq(Packet) /\ fragments_sent \in Nat
    BY <1>1 DEF Types
  <2> DEFINE y == control(fragments_sent, FALSE)
  <2>2. PICK c : /\ c = transit \o <<>> \/ c = transit \o <<y>>
                 /\ transit' = c \/ transit' = c \o <<last_fragment>>
    BY <1>3
  <2>3. y \in Packet /\ y \notin Fragment
    BY <2>1, PacketTypes
  <2> HIDE DEF y, j, reports, x
  <2>4. NoneNew(transit', transit)
    BY <2>1, <2>2, <2>3, NoFragments
  <2> QED
    BY <2>4 DEF NoneNew
<1>6. j.tier \in Tiers /\ j.chunk \in Nat
  BY <1>1, JobFields
<1>7. \/ DOMAIN jobs' = {}
      \/ /\ DOMAIN jobs' = {1} /\ jobs'[1].kind = "send" /\ jobs'[1].left = <<>>
         /\ \A t \in Tiers, c \in Nat : Ahead(jobs'[1], t, c) => Ahead(j, t, c)
  <2>1. CASE jobs' = [jobs EXCEPT ![1] = x]
    <3> HIDE DEF reports
    <3>1. /\ DOMAIN jobs' = {1} /\ jobs'[1] = x /\ x.kind = j.kind /\ x.tier = j.tier
          /\ x.chunk = j.chunk + 1 /\ x.left = j.left
      BY <1>1, <2>1 DEF Job
    <3> HIDE DEF x, j
    <3>2. \A t \in Tiers, c \in Nat : Ahead(x, t, c) => Ahead(j, t, c)
      BY <1>6, <3>1 DEF Ahead
    <3> QED
      BY <1>2, <3>1, <3>2
  <2>2. CASE j.tier < NumTiers - 1 /\ jobs' = [jobs EXCEPT ![1] = Sending(j.tier + 1)]
    <3> DEFINE y == Sending(j.tier + 1)
    <3>1. j.tier + 1 \in Tiers
      BY <1>6, <2>2 DEF Tiers
    <3>2. /\ DOMAIN jobs' = {1} /\ jobs'[1] = y /\ y.kind = "send" /\ y.tier = j.tier + 1
          /\ y.left = <<>>
      BY <1>1, <2>2, <3>1, NewJob
    <3> HIDE DEF y, j
    <3>3. \A t \in Tiers, c \in Nat : Ahead(y, t, c) => Ahead(j, t, c)
      BY <1>6, <3>2 DEF Ahead, Tiers
    <3> QED
      BY <3>2, <3>3
  <2>3. CASE jobs' = RemoveAt(jobs, 1)
    <3>1. jobs' = <<>>
      BY <1>1, <2>3, JobGone
    <3> QED
      BY <3>1
  <2> QED
    BY <1>4, <2>1, <2>2, <2>3
<1>8. \A p \in DOMAIN jobs' : jobs'[p].left = <<>>
  BY <1>7
<1>9. \A p \in DOMAIN jobs', k \in Key : ToBegin(jobs[p], k)' => ToBegin(jobs[1], k)
  <2> SUFFICES ASSUME NEW p \in DOMAIN jobs', NEW k \in Key, ToBegin(jobs[p], k)'
               PROVE  ToBegin(jobs[1], k)
    OBVIOUS
  <2>1. p = 1 /\ jobs'[1].kind = "send" /\ k[1] \in Tiers /\ k[2] \in Nat
    BY <1>7 DEF Key
  <2>2. Ahead(jobs'[1], k[1], k[2])
    BY <2>1 DEF ToBegin, Ahead
  <2> QED
    BY <1>2, <1>7, <2>1, <2>2 DEF ToBegin
<1>10. Todo'
  BY <1>7 DEF Todo
<1> QED
  BY <1>1, <1>2, <1>5, <1>8, <1>9, <1>10, CodesEnd

LEMMA CodesEndResent ==
    ASSUME Flow, Codes, NEW i \in DOMAIN jobs, end_resent_chunk(i)
    PROVE  Codes'
<1> DEFINE j == jobs[1]
           reports == BatchSize = 1 \/ j.todo = <<>> \/ Head(j.todo)[1] # j.tier
           x == Resending(j.todo)
<1>1. /\ i = 1 /\ DOMAIN jobs = {1} /\ j \in Job /\ Types /\ Turn
  BY OneJob DEF Flow
<1>2. /\ j.kind = "resend" /\ j.left = <<>> /\ UNCHANGED <<received, got>>
  BY <1>1 DEF end_resent_chunk, receiver, history
<1>3. \E c \in {transit \o <<>>, transit \o <<control(fragments_sent, TRUE)>>} :
          transit' = c \/ transit' = c \o <<last_fragment>>
  BY <1>1 DEF end_resent_chunk
<1>4. IF j.todo # <<>> THEN jobs' = [jobs EXCEPT ![1] = x] ELSE jobs' = RemoveAt(jobs, 1)
  BY <1>1 DEF end_resent_chunk
<1>5. \A p \in DOMAIN transit' :
          transit'[p] \notin Fragment \/ (p \in DOMAIN transit /\ transit'[p] = transit[p])
  <2>1. transit \in Seq(Packet) /\ fragments_sent \in Nat
    BY <1>1 DEF Types
  <2> DEFINE y == control(fragments_sent, TRUE)
  <2>2. PICK c : /\ c = transit \o <<>> \/ c = transit \o <<y>>
                 /\ transit' = c \/ transit' = c \o <<last_fragment>>
    BY <1>3
  <2>3. y \in Packet /\ y \notin Fragment
    BY <2>1, PacketTypes
  <2> HIDE DEF y, j, reports, x
  <2>4. NoneNew(transit', transit)
    BY <2>1, <2>2, <2>3, NoFragments
  <2> QED
    BY <2>4 DEF NoneNew
<1>6. CASE j.todo = <<>>
  <2>1. DOMAIN jobs' = {}
    <3>1. jobs' = <<>>
      BY <1>1, <1>4, <1>6, JobGone
    <3> QED
      BY <3>1
  <2>2. Todo'
    BY <2>1 DEF Todo
  <2> QED
    BY <1>1, <1>2, <1>5, <2>1, <2>2, CodesEnd
<1>7. CASE j.todo # <<>>
  <2> DEFINE todo == j.todo
  <2>1. todo \in Seq(Key) /\ todo # <<>>
    BY <1>1, <1>7, JobFields
  <2>2. /\ \A p, q \in DOMAIN todo : p # q => todo[p] # todo[q]
    BY <1>1, <1>2 DEF Codes, Todo
  <2>3. \A k \in Key : (\E p \in DOMAIN todo : todo[p] = k) => ToBegin(j, k)
    BY <1>2 DEF ToBegin
  <2>4. jobs' = [jobs EXCEPT ![1] = x] /\ x = Resending(todo)
    BY <1>4, <1>7
  <2> HIDE DEF todo, x
  <2>5. DOMAIN jobs' = {1} /\ jobs'[1] = x
    BY <1>1, <2>4
  <2>6. /\ x.kind = "resend" /\ <<x.tier, x.chunk>> = todo[1] /\ x.todo = Tail(todo)
        /\ x.left = <<>>
    BY <2>1, <2>4, NewResend
  <2>7. /\ 1 \in DOMAIN todo /\ DOMAIN Tail(todo) = 1 .. Len(todo) - 1
        /\ \A p \in DOMAIN Tail(todo) :
               p + 1 \in DOMAIN todo /\ p + 1 # 1 /\ Tail(todo)[p] = todo[p + 1]
    BY <2>1, TailAt
  <2> DEFINE r == Tail(todo)
  <2>8. /\ 1 \in DOMAIN todo /\ DOMAIN r \subseteq Int
        /\ \A p \in DOMAIN r : p + 1 \in DOMAIN todo /\ p + 1 # 1 /\ r[p] = todo[p + 1]
    BY <2>7
  <2>13. x.todo = r /\ x.kind = "resend" /\ <<x.tier, x.chunk>> = todo[1]
    BY <2>6
  <2> HIDE DEF r, j
  <2>9. \A k \in Key : ToBegin(jobs[1], k)' => ToBegin(j, k)
    <3> SUFFICES ASSUME NEW k \in Key, ToBegin(jobs[1], k)' PROVE ToBegin(j, k)
      OBVIOUS
    <3>1. k = todo[1] \/ \E p \in DOMAIN r : r[p] = k
      BY <2>5, <2>8, <2>13 DEF ToBegin
    <3>2. \E p \in DOMAIN todo : todo[p] = k
      BY <2>8, <3>1
    <3> QED
      BY <2>3, <3>2
  <2>10. \A p, q \in DOMAIN r : p # q => r[p] # r[q]
    <3> SUFFICES ASSUME NEW p \in DOMAIN r, NEW q \in DOMAIN r, p # q PROVE r[p] # r[q]
      OBVIOUS
    <3>1. p + 1 # q + 1
      BY <2>8
    <3> QED
      BY <2>2, <2>8, <3>1
  <2>11. \A p \in DOMAIN r : r[p] # todo[1]
    BY <2>2, <2>8
  <2>12. Todo'
    BY <2>5, <2>10, <2>11, <2>13 DEF Todo
  <2> QED
    BY <1>1, <1>2, <1>5, <2>5, <2>6, <2>9, <2>12, CodesEnd DEF j
<1> QED
  BY <1>6, <1>7

LEMMA CodesReceiveLast == ASSUME Flow, Codes, receive_last PROVE Codes'
<1>1. /\ jobs = <<>> /\ transit' = <<>> /\ got' = got /\ DOMAIN <<>> = {}
  <2>1. transit # <<>> /\ Head(transit) = last_fragment /\ transit' = Tail(transit) /\ got' = got
    BY DEF receive_last, history
  <2> QED
    BY <2>1, LastArrives
<1>2. \/ jobs' = <<>> /\ received' = received
      \/ /\ Missing # {} /\ jobs' = <<Resending(MissingInOrder)>>
         /\ received' = Emptied
  <2> DEFINE x == Resending(MissingInOrder)
  <2> HIDE DEF x
  <2>1. \/ jobs' = <<>> /\ received' = received
        \/ Missing # {} /\ jobs' = Append(<<>>, x) /\ received' = Emptied
    BY <1>1 DEF receive_last, x
  <2>2. Append(<<>>, x) = <<x>>
    OBVIOUS
  <2> QED
    BY <2>1, <2>2 DEF x
<1>3. CASE jobs' = <<>> /\ received' = received
  <2>1. \A f : ~OnItsWay(f)'
    BY <1>1, <1>3 DEF OnItsWay
  <2>2. Once' /\ Todo'
    BY <1>1, <1>3 DEF Once, Todo, Distinct
  <2>3. Fresh' /\ OneCode'
    BY <1>1, <1>3, <2>1, FewerOnTheirWay DEF Codes
  <2> QED
    BY <2>2, <2>3 DEF Codes
<1>4. CASE /\ Missing # {} /\ jobs' = <<Resending(MissingInOrder)>>
           /\ received' = Emptied
  <2> DEFINE s == MissingInOrder
             x == Resending(s)
             r == Tail(s)
  <2>1. /\ s \in Seq(Key) /\ s # <<>>
        /\ \A p \in DOMAIN s : s[p] \in Missing
        /\ \A p, q \in DOMAIN s : p # q => s[p] # s[q]
    BY <1>4, Asked DEF Flow
  <2>2. jobs' = <<x>>
    BY <1>4
  <2> HIDE DEF s, x
  <2>3. /\ x.kind = "resend" /\ <<x.tier, x.chunk>> = s[1] /\ x.todo = r /\ x.left = <<>>
    BY <2>1, NewResend DEF x
  <2>4. DOMAIN jobs' = {1} /\ jobs'[1] = x
    BY <2>2
  <2>5. /\ 1 \in DOMAIN s /\ DOMAIN r \subseteq Int
        /\ \A p \in DOMAIN r : p + 1 \in DOMAIN s /\ p + 1 # 1 /\ r[p] = s[p + 1]
    BY <2>1, TailAt
  <2> HIDE DEF r
  <2>6. \A f : ~OnItsWay(f)'
    BY <1>1, <2>3, <2>4 DEF OnItsWay
  <2>7. Once'
    BY <1>1, <2>3, <2>4 DEF Once, Distinct
  <2>8. Todo'
    <3>1. \A p, q \in DOMAIN r : p # q => r[p] # r[q]
      <4> SUFFICES ASSUME NEW p \in DOMAIN r, NEW q \in DOMAIN r, p # q PROVE r[p] # r[q]
        OBVIOUS
      <4>1. p + 1 # q + 1
        BY <2>5
      <4> QED
        BY <2>1, <2>5, <4>1
    <3>2. \A p \in DOMAIN r : r[p] # s[1]
      BY <2>1, <2>5
    <3> QED
      BY <2>3, <2>4, <3>1, <3>2 DEF Todo
  <2>9. Fresh'
    <3> SUFFICES ASSUME NEW k \in Key, ToBegin(jobs[1], k)' PROVE Has(received', k, 0) = 0
      BY <2>4, <2>6 DEF Fresh
    <3>1. k = s[1] \/ \E p \in DOMAIN r : r[p] = k
      BY <2>3, <2>4 DEF ToBegin
    <3>2. k \in Missing
      BY <2>1, <2>5, <3>1
    <3> QED
      BY <1>4, <3>2 DEF Emptied, Has
  <2>10. ASSUME NEW k \in Key PROVE OneCodeOf(k)'
    <3>1. OneCodeOf(k)
      BY DEF Codes, OneCode, OneCodeOf
    <3>2. CASE k \in Missing
      <4>1. Has(received', k, 0) = 0
        BY <1>4, <3>2 DEF Emptied, Has
      <4>2. PICK m : m \in Ms
        OBVIOUS
      <4> QED
        BY <2>6, <4>1, <4>2, OneCodeEmpty
    <3>3. CASE k \notin Missing
      <4>1. Has(received', k, 0) = Has(received, k, 0)
        BY <1>4, <3>3 DEF Emptied, Has
      <4> QED
        BY <1>1, <2>6, <3>1, <4>1, OneCodeKept
    <3> QED
      BY <3>2, <3>3
  <2>11. OneCode'
    BY <2>10 DEF OneCode, OneCodeOf
  <2> QED
    BY <2>7, <2>8, <2>9, <2>11 DEF Codes
<1> QED
  BY <1>2, <1>3, <1>4

LEMMA CodesKept == ASSUME Flow, Codes, [Next]_vars PROVE Codes'
<1>1. ASSUME NEW i \in DOMAIN jobs, Send(i) PROVE Codes'
  BY <1>1, CodesBegin, CodesPut, CodesEndSent, CodesEndResent DEF Send
<1>2. ASSUME UNCHANGED <<jobs, transit, received, got>> PROVE Codes'
  BY <1>2 DEF Codes, Once, Fresh, Todo, OneCode, CountedFrom, FragsOf, OnItsWay, ToBegin, Ahead
<1>3. ASSUME loss_gen PROVE Codes'
  BY <1>2, <1>3 DEF loss_gen, sender, receiver, history
<1>4. ASSUME drop \/ receive_control PROVE Codes'
  BY <1>4, CodesLost DEF drop, receive_control, sender
<1>5. ASSUME receive_fragment \/ receive_last PROVE Codes'
  BY <1>5, CodesReceiveFragment, CodesReceiveLast
<1>6. ASSUME UNCHANGED vars PROVE Codes'
  BY <1>2, <1>6 DEF vars, sender, receiver, history
<1> QED
  BY <1>1, <1>3, <1>4, <1>5, <1>6 DEF Next, Deliver

-----------------------------------------------------------------------------
(* What holds of every behaviour                                            *)

LEMMA IInvKept == IInv /\ [Next]_vars => IInv'
BY FlowKept, DividedAlways, CodesKept DEF IInv

\* The inductive invariant of the simulation.
THEOREM Invariant == Spec => []IInv
<1>1. Init => IInv
  BY FlowInit, DividedInit, CodesInit DEF IInv
<1> QED
  BY <1>1, IInvKept, PTL DEF Spec

\* TypeOK: the types, of the history variables too.
THEOREM TypeCorrect == Spec => []TypeOK
<1> DEFINE Rest == /\ loss \in 0 .. losses /\ losses \in 0 .. MaxLosses
                   /\ first \in {"none", "now", "earlier"} /\ crashed \in BOOLEAN
<1>1. Init => Rest
  <2> SUFFICES ASSUME Init PROVE Rest
    OBVIOUS
  <2>1. loss = 0 /\ losses = 0 /\ first = "none" /\ crashed = FALSE
    BY DEF Init
  <2>2. losses \in 0 .. MaxLosses /\ loss \in 0 .. losses
    BY <2>1
  <2> QED
    BY <2>1, <2>2
<1>2. Rest /\ [Next]_vars => Rest'
  <2> SUFFICES ASSUME Rest, [Next]_vars PROVE Rest'
    OBVIOUS
  <2>1. ASSUME NEW i \in DOMAIN jobs, Send(i) PROVE UNCHANGED <<loss, losses, first, crashed>>
    BY <2>1 DEF Send, begin_chunk, put_fragment, end_sent_chunk, end_resent_chunk, receiver
  <2>2. ASSUME loss_gen PROVE Rest'
    BY <2>2 DEF loss_gen, receiver
  <2>3. ASSUME drop PROVE Rest'
    BY <2>3 DEF drop
  <2>4. ASSUME receive_fragment PROVE Rest'
    BY <2>4 DEF receive_fragment
  <2>5. ASSUME receive_control PROVE Rest'
    BY <2>5 DEF receive_control, calculate_packet_loss
  <2>6. ASSUME receive_last PROVE Rest'
    BY <2>6 DEF receive_last
  <2>7. ASSUME UNCHANGED vars PROVE Rest'
    BY <2>7 DEF vars, receiver
  <2> QED
    BY <2>1, <2>2, <2>3, <2>4, <2>5, <2>6, <2>7 DEF Next, Deliver
<1>3. IInv /\ Rest => TypeOK
  BY DEF IInv, Flow, Types, Counts, Divided, TypeOK
<1> HIDE DEF Rest
<1> QED
  BY <1>1, <1>2, <1>3, Invariant, PTL DEF Spec

\* StopsQuiet: when the receiver sets end_time no process sends and the link is empty.
THEOREM Stops == Spec => []StopsQuiet
<1>1. Flow => StopsQuiet
  BY DEF Flow, Turn, Quiet, StopsQuiet
<1> QED
  BY <1>1, Invariant, PTL DEF IInv

\* LossCountExact: the difference calculate_packet_loss is called with is the number of
\* fragments the link dropped since the last control message.
THEOREM CountsLosses == Spec => []LossCountExact
<1>1. Flow => LossCountExact
  <2> SUFFICES ASSUME Flow, transit # <<>>, Head(transit).type = "control"
               PROVE  Head(transit).fragments_sent - fragment_count = dropped
    BY DEF LossCountExact
  <2> DEFINE b == fragment_count + dropped
  <2>1. /\ transit \in Seq(Packet) /\ b \in Nat /\ fragment_count \in Nat /\ dropped \in Nat
        /\ Accounted(transit, b, Pending)
    BY DEF Flow, Types, Sent
  <2>2. Head(transit) = transit[1]
    BY <2>1, TailAt
  <2>3. Between(transit, b)
    BY <2>1 DEF Accounted
  <2>4. DOMAIN transit = 1 .. Len(transit) /\ Len(transit) \in Nat \ {0}
    BY <2>1, TailAt
  <2>5. 1 \in DOMAIN transit /\ 0 \in 0 .. 1 - 1 /\ IsBound(transit, 0)
        /\ NoneIn(transit, 0 + 1, 1 - 1)
    BY <2>4 DEF IsBound, NoneIn
  <2> HIDE DEF b
  <2>6. transit[1].fragments_sent = (1 - 0 - 1) + Since(b, 0)
    BY <2>2, <2>3, <2>5 DEF Between
  <2>7. Head(transit).fragments_sent = b
    BY <2>1, <2>2, <2>6 DEF Since
  <2> QED
    BY <2>1, <2>7 DEF b
<1> QED
  BY <1>1, Invariant, PTL DEF IInv

\* CoversTiers: while no report has changed the parity, the number of chunks of a tier and the
\* bounds of each, computed apart, leave no data index of the tier out.
THEOREM DividesTiers == Spec => []CoversTiers
<1>1. Flow /\ Divided => CoversTiers
  <2> SUFFICES ASSUME Flow, Divided, ~changed, \A i \in DOMAIN jobs : jobs[i].kind = "resend",
                      NEW t \in Tiers
               PROVE  DataGenerated(t) = 0 .. Frags[t] - 1
    BY DEF CoversTiers
  <2> DEFINE a == N - tier_m[t]
             b == Frags[t]
  <2>1. a \in Nat \ {0} /\ b \in Nat \ {0}
    BY Parities DEF Flow
  <2>2. /\ DOMAIN generated \subseteq Key
        /\ \A k \in DOMAIN generated : generated[k] = DataOf(k[1], k[2])
        /\ \A c \in 0 .. LastChunk(t) : <<t, c>> \in DOMAIN generated
    BY DEF Divided
  <2>3. LastChunk(t) = b \div a
    BY DEF LastChunk
  <2>4. \A c : DataOf(t, c) = c * a .. (IF c * a + a < b THEN c * a + a ELSE b) - 1
    BY DEF DataOf, Min2
  <2> HIDE DEF a, b
  <2>5. ASSUME NEW x \in DataGenerated(t) PROVE x \in 0 .. b - 1
    <3>1. PICK k \in DOMAIN generated : k[1] = t /\ x \in generated[k]
      BY <2>5 DEF DataGenerated
    <3> DEFINE c == k[2]
    <3>2. c \in Nat /\ x \in DataOf(t, c)
      BY <2>2, <3>1 DEF Key
    <3> HIDE DEF c
    <3>3. c * a \in Nat
      BY <2>1, <3>2, ProductIsNat
    <3> DEFINE p == c * a
    <3>4. p \in Nat /\ x \in p .. (IF p + a < b THEN p + a ELSE b) - 1
      BY <2>4, <3>2, <3>3
    <3> HIDE DEF p
    <3> QED
      BY <2>1, <3>4
  <2>6. ASSUME NEW x \in 0 .. b - 1 PROVE x \in DataGenerated(t)
    <3> DEFINE c == x \div a
    <3>1. x \in Nat /\ x <= b
      BY <2>1
    <3>2. c \in Nat /\ c <= b \div a /\ b \div a \in Nat
      BY <2>1, <3>1, Quotient, QuotientGrows
    <3>3. c * a <= x /\ x <= c * a + a - 1
      BY <2>1, <3>1, QuotientBounds
    <3> HIDE DEF c
    <3>4. c \in 0 .. LastChunk(t)
      BY <2>3, <3>2
    <3>5. <<t, c>> \in DOMAIN generated /\ generated[<<t, c>>] = DataOf(t, c)
      BY <2>2, <3>4
    <3> DEFINE p == c * a
    <3>6. p \in Nat /\ p <= x /\ x <= p + a - 1
      BY <2>1, <3>2, <3>3, ProductIsNat
    <3>7. DataOf(t, c) = p .. (IF p + a < b THEN p + a ELSE b) - 1
      BY <2>4
    <3> HIDE DEF p
    <3>8. x \in DataOf(t, c)
      BY <2>1, <3>1, <3>6, <3>7
    <3> HIDE DEF DataOf
    <3>9. <<t, c>> \in {k \in DOMAIN generated : k[1] = t}
      BY <3>5
    <3> QED
      BY <3>5, <3>8, <3>9 DEF DataGenerated
  <2> QED
    BY <2>5, <2>6 DEF b
<1> QED
  BY <1>1, Invariant, PTL DEF IInv

\* DecodableUnderOneCode: when the transfer ends, every chunk the receiver knows the requirement
\* of has that many different fragments of one code: a chunk is counted anew before it is sent
\* again, and nothing of it is on the link then.
THEOREM DecodesUnderOneCode == Spec => []DecodableUnderOneCode
<1>1. Flow /\ Codes => DecodableUnderOneCode
  <2> SUFFICES ASSUME Flow, Codes, ended, NEW k \in DOMAIN received
               PROVE  \E m \in Ms : Cardinality(FragsOf(k, m)) >= required[k]
    BY DEF DecodableUnderOneCode
  <2>1. /\ Missing = {} /\ k \in Key /\ received[k] \in Nat /\ required[k] \in Nat
        /\ IsFiniteSet(got)
    BY DEF Flow, Counts
  <2>2. received[k] >= required[k]
    BY <2>1 DEF Missing
  <2>3. PICK m \in Ms, S \in SUBSET got : CountedFrom(k, m, S)
    BY <2>1 DEF Codes, OneCode
  <2>4. S \subseteq FragsOf(k, m) /\ Cardinality(S) = received[k]
    BY <2>3 DEF CountedFrom, Has
  <2> DEFINE F == FragsOf(k, m)
  <2>5. F \subseteq got
    BY DEF FragsOf
  <2> HIDE DEF F
  <2>6. IsFiniteSet(F)
    BY <2>1, <2>5, FS_Subset
  <2>7. Cardinality(S) <= Cardinality(F) /\ Cardinality(F) \in Nat
    BY <2>4, <2>6, FS_Subset, FS_CardinalityType DEF F
  <2> QED
    BY <2>1, <2>2, <2>4, <2>7 DEF F
<1> QED
  BY <1>1, Invariant, PTL DEF IInv
=============================================================================
