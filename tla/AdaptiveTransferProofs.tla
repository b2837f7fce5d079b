----------------------- MODULE AdaptiveTransferProofs -----------------------
(***************************************************************************)
(* Proofs about AdaptiveTransfer, for every number of fragments, tiers and *)
(* chunks, every parity count and with or without the faults.              *)
(***************************************************************************)
EXTENDS AdaptiveTransfer, FiniteSetTheorems, SequenceTheorems, WellFoundedInduction, TLAPS

USE CodingAssumption

(* What the code labels, requests and generates stays in its range.          *)
LEMMA FragFacts ==
    ASSUME NEW x \in Frags
    PROVE  /\ x[1] \in Tiers /\ x[1] \in Nat /\ x[2] \in Nat /\ x[3] \in 0 .. N - 1
           /\ ChunkOf(x) \in Chunks
           /\ x = <<x[1], x[2], x[3]>>
<1>1. PICK c \in Chunks, i \in 0 .. N - 1 : x = <<c[1], c[2], i>>
  BY DEF Frags
<1>2. c = <<c[1], c[2]>> /\ c[1] \in Tiers /\ c[2] \in Nat
  BY DEF Chunks
<1>3. Tiers \subseteq Nat
  BY DEF Tiers
<1> QED
  BY <1>1, <1>2, <1>3 DEF ChunkOf

LEMMA CurrentMType ==
    ASSUME TypeOK, NEW t \in Nat
    PROVE  CurrentM(t) \in 0 .. MaxM
BY DEF TypeOK, CurrentM

LEMMA UpdateEcType ==
    ASSUME NEW s \in Seq(0 .. MaxM), NEW t \in Nat, NEW m \in 0 .. MaxM
    PROVE  UpdateEc(s, t, m) \in Seq(0 .. MaxM)
<1> DEFINE n == IF Len(s) > t THEN Len(s) ELSE t + 1
<1>1. n \in Nat
  OBVIOUS
<1>2. \A i \in 1 .. n :
        (IF i = t + 1 THEN m ELSE IF i <= Len(s) THEN s[i] ELSE 0) \in 0 .. MaxM
  OBVIOUS
<1>3. UpdateEc(s, t, m) \in [1 .. n -> 0 .. MaxM]
  BY <1>2 DEF UpdateEc
<1> HIDE DEF n
<1> QED
  BY <1>1, <1>3, SeqDef

LEMMA GeneratedType ==
    ASSUME NEW x \in Frags
    PROVE  Generated(x) \in Packets
BY FragFacts DEF Generated, Packets, Labels

LEMMA RequestType ==
    ASSUME TypeOK
    PROVE  findMissingChunks \in Requests
<1>1. expected \subseteq Chunks
  BY DEF TypeOK
<1>2. \A c \in Chunks : c[1] \in Tiers
  BY DEF Chunks
<1> QED
  BY <1>1, <1>2 DEF findMissingChunks, Requests

LEMMA PrefixFacts ==
    ASSUME NEW S, NEW s \in Seq(S), NEW r \in Prefixes(s)
    PROVE  /\ r \in Seq(S) /\ Len(r) <= Len(s)
           /\ \A i \in 1 .. Len(r) : r[i] = s[i]
<1>1. PICK n \in 0 .. Len(s) : r = SubSeq(s, 1, n)
  BY DEF Prefixes
<1>2. r \in Seq(S) /\ Len(r) = n
  BY <1>1, SubSeqProperties
<1>3. \A i \in 1 .. n : r[i] = s[i]
  BY <1>1, SubSeqProperties
<1> QED
  BY <1>2, <1>3

(* What the two kinds of TCP write change.                                   *)
LEMMA WriteOutcome ==
    ASSUME NEW b, NEW sent \in Writes(b)
    PROVE  sent \in BOOLEAN /\ (sent => b)
BY DEF Writes

LEMMA EotOutcome ==
    ASSUME TypeOK, send_eot
    PROVE  /\ sConn' \in BOOLEAN
           /\ \/ toReceiver' = toReceiver
              \/ toReceiver' = Append(toReceiver, "eot") /\ link = "up"
           /\ toReceiver' \in Seq(SenderMessages)
<1>1. /\ sConn' \in BOOLEAN
      /\ \/ toReceiver' = toReceiver
         \/ toReceiver' = Append(toReceiver, "eot") /\ link = "up"
  BY WriteOutcome DEF send_eot
<1>2. toReceiver \in Seq(SenderMessages) /\ "eot" \in SenderMessages
  BY DEF TypeOK, SenderMessages
<1>3. Append(toReceiver, "eot") \in Seq(SenderMessages)
  BY <1>2
<1> QED
  BY <1>1, <1>2, <1>3

LEMMA RequestOutcome ==
    ASSUME TypeOK, NEW msg \in ReceiverMessages, NEW done \in BOOLEAN,
           send_retransmission_request(msg, done)
    PROVE  /\ rConn' \in BOOLEAN /\ complete' \in BOOLEAN
           /\ \/ toSender' = toSender
              \/ toSender' = Append(toSender, msg) /\ rConn /\ link = "up"
           /\ toSender' \in Seq(ReceiverMessages)
<1>1. /\ rConn' \in BOOLEAN /\ complete' \in BOOLEAN
      /\ \/ toSender' = toSender
         \/ toSender' = Append(toSender, msg) /\ rConn /\ link = "up"
  BY WriteOutcome DEF send_retransmission_request
<1>2. toSender \in Seq(ReceiverMessages)
  BY DEF TypeOK
<1>3. Append(toSender, msg) \in Seq(ReceiverMessages)
  BY <1>2
<1> QED
  BY <1>1, <1>2, <1>3

LEMMA ReportOutcome ==
    ASSUME TypeOK, NEW t \in Tiers, send_fragments_report(t)
    PROVE  /\ \/ toSender' = toSender
              \/ toSender' = Append(toSender, [type |-> "report", tier |-> t])
           /\ toSender' \in Seq(ReceiverMessages)
<1>1. [type |-> "report", tier |-> t] \in ReceiverMessages
  BY DEF ReceiverMessages, Reports
<1>2. toSender \in Seq(ReceiverMessages)
  BY DEF TypeOK
<1>3. Append(toSender, [type |-> "report", tier |-> t]) \in Seq(ReceiverMessages)
  BY <1>1, <1>2
<1> QED
  BY <1>2, <1>3 DEF send_fragments_report

(* The handlers keep every variable in its range.                            *)
LEMMA TypeStep == TypeOK /\ [Next]_vars => TypeOK'
<1> SUFFICES ASSUME TypeOK, [Next]_vars PROVE TypeOK'
  OBVIOUS
<1> USE DEF senderVars, receiverVars, networkVars
<1>1. CASE send_metadata
  BY <1>1 DEF TypeOK, send_metadata, SenderMessages
<1>2. CASE send_next
  <2>1. PICK x \in unsent :
           /\ unsent' = unsent \ {x}
           /\ udp' = udp \cup {[frag |-> x, k |-> N - CurrentM(x[1])]}
    BY <1>2 DEF send_next
  <2>2. x \in Frags /\ CurrentM(x[1]) \in 0 .. MaxM
    BY FragFacts, CurrentMType DEF TypeOK
  <2>3. [frag |-> x, k |-> N - CurrentM(x[1])] \in Packets
    BY <2>2 DEF Packets, Labels
  <2> QED
    BY <1>2, <2>1, <2>3 DEF TypeOK, send_next
<1>3. CASE queue_drained
  BY <1>3, EotOutcome DEF TypeOK, queue_drained
<1>4. CASE handle_request_data
  <2>1. udp' \subseteq Packets
    BY <1>4, GeneratedType DEF TypeOK, handle_request_data
  <2> QED
    BY <1>4, <2>1, EotOutcome DEF TypeOK, handle_request_data, NextForSender
<1>5. CASE stop_transmission
  BY <1>5, EmptySeq DEF TypeOK, stop_transmission
<1>6. CASE handle_report
  <2>1. PICK m \in 0 .. MaxM : ecM' = UpdateEc(ecM, Head(toSender).tier, m)
    BY <1>6 DEF handle_report
  <2>2. Head(toSender) \in ReceiverMessages /\ Head(toSender).type = "report"
    BY <1>6 DEF TypeOK, handle_report, NextForSender
  <2>3. Head(toSender).tier \in Nat
    BY <2>2 DEF ReceiverMessages, Reports, Answers, RequestMessages, AllReceived, Tiers
  <2>4. ecM' \in Seq(0 .. MaxM)
    BY <2>1, <2>3, UpdateEcType DEF TypeOK
  <2> QED
    BY <1>6, <2>4 DEF TypeOK, handle_report, NextForSender
<1>7. CASE sender_read_error
  BY <1>7 DEF TypeOK, sender_read_error
<1>8. ASSUME NEW p \in udp, receive_fragment(p) PROVE TypeOK'
  <2>1. p.frag \in Frags /\ p.k \in Labels /\ p.frag[1] \in Tiers /\ p.frag[2] \in Nat
    BY FragFacts DEF TypeOK, Packets
  <2>2. stored' \in [Frags -> Labels \cup {Absent}]
    BY <1>8, <2>1 DEF TypeOK, receive_fragment
  <2>3. tracked' \subseteq Nat /\ IsFiniteSet(tracked')
    BY <1>8, <2>1, FS_AddElement DEF TypeOK, receive_fragment, update_fragments_tracking
  <2>4. Cardinality(tracked') \in Nat
    BY <2>3, FS_CardinalityType
  <2>5. reported' \in [Tiers -> Nat]
    BY <1>8, <2>1, <2>4 DEF TypeOK, receive_fragment, update_fragments_tracking
  <2>6. toSender' \in Seq(ReceiverMessages)
    BY <1>8, <2>1, ReportOutcome DEF TypeOK, receive_fragment, update_fragments_tracking
  <2> QED
    BY <1>8, <2>2, <2>3, <2>5, <2>6 DEF TypeOK, receive_fragment
<1>9. CASE udp_receive_error
  BY <1>9 DEF TypeOK, udp_receive_error
<1>10. CASE handle_metadata
  BY <1>10 DEF TypeOK, handle_metadata
<1>11. CASE handle_eot
  <2>1. PICK msg \in ReceiverMessages, done \in BOOLEAN :
           send_retransmission_request(msg, done) /\ declared' \in BOOLEAN
    BY <1>11, RequestType DEF handle_eot, TypeOK, ReceiverMessages, Answers, RequestMessages
  <2>2. toSender' \in Seq(ReceiverMessages) /\ complete' \in BOOLEAN /\ rConn' \in BOOLEAN
    BY <2>1, RequestOutcome
  <2>3. toReceiver' \in Seq(SenderMessages)
    BY <1>11 DEF TypeOK, handle_eot
  <2> QED
    BY <1>11, <2>1, <2>2, <2>3 DEF TypeOK, handle_eot
<1>12. CASE receiver_read_error
  BY <1>12 DEF TypeOK, receiver_read_error
<1>13. ASSUME NEW p \in udp, lose(p) PROVE TypeOK'
  BY <1>13 DEF TypeOK, lose
<1>14. CASE break_connection
  BY <1>14, PrefixFacts DEF TypeOK, break_connection
<1>15. CASE UNCHANGED vars
  BY <1>15 DEF TypeOK, vars
<1> QED
  BY <1>1, <1>2, <1>3, <1>4, <1>5, <1>6, <1>7, <1>8, <1>9, <1>10, <1>11, <1>12, <1>13,
     <1>14, <1>15 DEF Next, Sender, Receiver, Network

LEMMA TypeInit == Init => TypeOK
<1> SUFFICES ASSUME Init PROVE TypeOK
  OBVIOUS
<1>1. tracked \subseteq Nat /\ IsFiniteSet(tracked)
  BY FS_EmptySet DEF Init
<1>2. stored \in [Frags -> Labels \cup {Absent}] /\ reported \in [Tiers -> Nat]
  BY DEF Init
<1>3. ecM \in Seq(0 .. MaxM) /\ toReceiver \in Seq(SenderMessages)
         /\ toSender \in Seq(ReceiverMessages)
  BY DEF Init
<1> QED
  BY <1>1, <1>2, <1>3 DEF Init, TypeOK

(* TypeOK: in particular no fragment ever carries a k outside N - MaxM .. N, *)
(* however reports and retransmissions interleave (update_ec_parameters).    *)
THEOREM TypeCorrect == Spec => []TypeOK
BY TypeInit, TypeStep, PTL DEF Spec

-----------------------------------------------------------------------------
(* The inductive invariant.  OneTurn alone is not inductive: that no second  *)
(* end of transmission is sent, and that nothing is sent on the closed       *)
(* socket, depends on what the receiver knew when it concluded.              *)

\* The metadata is ahead of every end of transmission.
MetadataFirst ==
    /\ phase = "start" => toReceiver = <<>>
    /\ expected # Chunks /\ toReceiver # <<>> => Head(toReceiver) = "metadata"
    /\ expected # Chunks /\ phase # "start" /\ link = "up" => toReceiver # <<>>

\* Once the receiver has concluded the exchange is over.
Concluded ==
    declared => /\ complete /\ phase = "sent"
                /\ ~Occurs(toReceiver, {"eot"}) /\ ~Occurs(toSender, RequestMessages)
                /\ \A c \in Chunks : Cardinality(Held(c)) >= N - MaxM

IInv ==
    /\ TypeOK
    /\ OneTurn
    /\ phase = "sent" => unsent = {}
    /\ MetadataFirst
    /\ Concluded
    /\ Occurs(toSender, {AllReceived}) => declared
    /\ ~sOpen => declared
    /\ ~crashed

-----------------------------------------------------------------------------
(* How the tokens of a channel move with its messages.                       *)

LEMMA OccursEmpty ==
    ASSUME NEW S
    PROVE  ~Occurs(<<>>, S) /\ AtMostOne(<<>>, S)
BY DEF Occurs, AtMostOne

LEMMA OccursTail ==
    ASSUME NEW T, NEW s \in Seq(T), s # <<>>, NEW S
    PROVE  /\ Occurs(Tail(s), S) => Occurs(s, S)
           /\ AtMostOne(s, S) => AtMostOne(Tail(s), S)
           /\ Head(s) \in S => Occurs(s, S)
           /\ AtMostOne(s, S) /\ Head(s) \in S => ~Occurs(Tail(s), S)
<1>1. /\ Len(s) \in Nat /\ Len(s) > 0 /\ DOMAIN s = 1 .. Len(s) /\ Head(s) = s[1]
      /\ DOMAIN Tail(s) = 1 .. Len(s) - 1
      /\ \A i \in 1 .. Len(s) - 1 : Tail(s)[i] = s[i + 1]
  BY HeadTailProperties, LenProperties
<1>2. \A i \in DOMAIN Tail(s) : i + 1 \in DOMAIN s /\ i + 1 # 1 /\ Tail(s)[i] = s[i + 1]
  BY <1>1
<1>3. ASSUME Occurs(Tail(s), S) PROVE Occurs(s, S)
  BY <1>2, <1>3 DEF Occurs
<1>4. ASSUME AtMostOne(s, S) PROVE AtMostOne(Tail(s), S)
  <2> SUFFICES ASSUME NEW i \in DOMAIN Tail(s), NEW j \in DOMAIN Tail(s),
                      Tail(s)[i] \in S, Tail(s)[j] \in S
               PROVE  i = j
    BY DEF AtMostOne
  <2>1. i + 1 = j + 1
    BY <1>2, <1>4 DEF AtMostOne
  <2> QED
    BY <2>1, <1>1
<1>5. ASSUME Head(s) \in S PROVE Occurs(s, S)
  BY <1>1, <1>5 DEF Occurs
<1>6. ASSUME AtMostOne(s, S), Head(s) \in S PROVE ~Occurs(Tail(s), S)
  BY <1>1, <1>2, <1>6 DEF Occurs, AtMostOne
<1> QED
  BY <1>3, <1>4, <1>5, <1>6

LEMMA OccursAppend ==
    ASSUME NEW T, NEW s \in Seq(T), NEW e \in T, NEW S
    PROVE  /\ Occurs(Append(s, e), S) <=> Occurs(s, S) \/ e \in S
           /\ AtMostOne(s, S) /\ ~(e \in S /\ Occurs(s, S)) => AtMostOne(Append(s, e), S)
<1>1. /\ Len(s) \in Nat /\ DOMAIN s = 1 .. Len(s)
      /\ DOMAIN Append(s, e) = 1 .. Len(s) + 1
      /\ \A i \in 1 .. Len(s) : Append(s, e)[i] = s[i]
      /\ Append(s, e)[Len(s) + 1] = e
  BY AppendProperties, LenProperties
<1>2. \A i \in DOMAIN Append(s, e) :
        \/ i \in DOMAIN s /\ Append(s, e)[i] = s[i]
        \/ i = Len(s) + 1 /\ Append(s, e)[i] = e
  <2> TAKE i \in DOMAIN Append(s, e)
  <2>1. i \in 1 .. Len(s) \/ i = Len(s) + 1
    BY <1>1
  <2> QED
    BY <2>1, <1>1
<1>3. \A i \in DOMAIN s : i \in DOMAIN Append(s, e) /\ Append(s, e)[i] = s[i]
  BY <1>1
<1>4. Len(s) + 1 \in DOMAIN Append(s, e)
  BY <1>1
<1>5. Occurs(Append(s, e), S) <=> Occurs(s, S) \/ e \in S
  BY <1>1, <1>2, <1>3, <1>4 DEF Occurs
<1>6. ASSUME AtMostOne(s, S), ~(e \in S /\ Occurs(s, S)) PROVE AtMostOne(Append(s, e), S)
  BY <1>2, <1>6 DEF Occurs, AtMostOne
<1> QED
  BY <1>5, <1>6

LEMMA OccursPrefix ==
    ASSUME NEW T, NEW s \in Seq(T), NEW r \in Prefixes(s), NEW S
    PROVE  /\ Occurs(r, S) => Occurs(s, S)
           /\ AtMostOne(s, S) => AtMostOne(r, S)
<1>1. /\ r \in Seq(T) /\ Len(r) <= Len(s) /\ \A i \in 1 .. Len(r) : r[i] = s[i]
  BY PrefixFacts
<1>2. \A i \in DOMAIN r : i \in DOMAIN s /\ r[i] = s[i]
  BY <1>1, LenProperties
<1> QED
  BY <1>2 DEF Occurs, AtMostOne
-----------------------------------------------------------------------------
(* What the receiver holds of a chunk.                                       *)

LEMMA HeldFinite ==
    ASSUME NEW c
    PROVE  /\ Held(c) \subseteq 0 .. N - 1 /\ IsFiniteSet(Held(c))
           /\ Cardinality(Held(c)) \in Nat
<1>1. Held(c) \subseteq 0 .. N - 1 /\ IsFiniteSet(0 .. N - 1)
  BY FS_Interval DEF Held
<1> QED
  BY <1>1, FS_Subset, FS_CardinalityType

LEMMA LeastHeld ==
    ASSUME NEW S \in SUBSET Nat, S # {}
    PROVE  \E i \in S : \A j \in S : i <= j
<1>1. PICK i \in S : \A j \in S : <<j, i>> \notin OpToRel(<, Nat)
  BY NatLessThanWellFounded, WFMin
<1>2. ASSUME NEW j \in S, j < i PROVE FALSE
  <2>1. <<j, i>> \in OpToRel(<, Nat)
    BY <1>2 DEF OpToRel
  <2> QED
    BY <1>1, <2>1
<1>3. \A j \in S : i <= j
  BY <1>2
<1> QED
  BY <1>3

(* A chunk that is not incomplete holds at least N - MaxM fragments.         *)
LEMMA CompleteHolds ==
    ASSUME TypeOK, NEW c \in Chunks, ~Incomplete(c)
    PROVE  Cardinality(Held(c)) >= N - MaxM
<1>1. Held(c) # {} /\ ~(Cardinality(Held(c)) < FirstK(c))
  BY DEF Incomplete
<1>2. PICK i \in Held(c) : \A j \in Held(c) : i <= j
  BY <1>1, HeldFinite, LeastHeld
<1>3. (CHOOSE k \in Held(c) : \A j \in Held(c) : k <= j) \in Held(c)
  BY <1>2
<1>4. \A k \in Held(c) : stored[<<c[1], c[2], k>>] \in Labels
  <2> TAKE k \in Held(c)
  <2>1. <<c[1], c[2], k>> \in Frags
    BY DEF Held, Frags
  <2> QED
    BY <2>1 DEF Held, TypeOK
<1>5. FirstK(c) \in Labels
  BY <1>3, <1>4 DEF FirstK
<1> QED
  BY <1>1, <1>5, HeldFinite DEF Labels

(* The receiver never loses a fragment it holds.                             *)
LEMMA HeldGrows ==
    ASSUME TypeOK, NEW p \in udp, receive_fragment(p), NEW c \in Chunks
    PROVE  /\ Held(c)' = IF c = ChunkOf(p.frag) THEN Held(c) \cup {p.frag[3]} ELSE Held(c)
           /\ Cardinality(Held(c)') \in Nat
           /\ Cardinality(Held(c)') >= Cardinality(Held(c))
<1>1. p.frag \in Frags /\ p.k # Absent
  BY DEF TypeOK, Packets, Labels, Absent
<1>2. stored' = [stored EXCEPT ![p.frag] = p.k] /\ stored \in [Frags -> Labels \cup {Absent}]
  BY DEF receive_fragment, TypeOK
<1>3. p.frag = <<p.frag[1], p.frag[2], p.frag[3]>> /\ p.frag[3] \in 0 .. N - 1
  BY <1>1, FragFacts
<1>4. c = <<c[1], c[2]>>
  BY DEF Chunks
<1>5. \A i \in 0 .. N - 1 : /\ <<c[1], c[2], i>> \in Frags
                            /\ <<c[1], c[2], i>> = p.frag <=> c = ChunkOf(p.frag) /\ i = p.frag[3]
  BY <1>3, <1>4 DEF Frags, ChunkOf
<1>6. \A i \in 0 .. N - 1 : stored'[<<c[1], c[2], i>>]
                              = IF c = ChunkOf(p.frag) /\ i = p.frag[3] THEN p.k
                                ELSE stored[<<c[1], c[2], i>>]
  BY <1>1, <1>2, <1>5
<1>7. Held(c)' = IF c = ChunkOf(p.frag) THEN Held(c) \cup {p.frag[3]} ELSE Held(c)
  BY <1>1, <1>3, <1>6 DEF Held
<1>8. IsFiniteSet(Held(c)') /\ Held(c) \subseteq Held(c)'
  <2>1. IsFiniteSet(Held(c)) /\ IsFiniteSet(Held(c) \cup {p.frag[3]})
    BY HeldFinite, FS_AddElement
  <2> QED
    BY <1>7, <2>1
<1> QED
  BY <1>7, <1>8, HeldFinite, FS_Subset, FS_CardinalityType

(* What the receiver concludes from.                                         *)
LEMMA NothingMissing ==
    ASSUME TypeOK, expected = Chunks, findMissingChunks = {}, NEW c \in Chunks
    PROVE  ~Incomplete(c)
<1>1. ~ \A t \in Tiers : ~Started(t)
  BY DEF findMissingChunks
<1>2. {<<d[1], All>> : d \in {d \in expected : ~Started(d[1])}} = {}
  BY <1>1 DEF findMissingChunks
<1>3. {d \in expected : Started(d[1]) /\ Incomplete(d)} = {}
  BY <1>1 DEF findMissingChunks
<1>4. c \notin {d \in expected : ~Started(d[1])}
  BY <1>2
<1> QED
  BY <1>3, <1>4

LEMMA HeldSame ==
    ASSUME stored' = stored, NEW c
    PROVE  Held(c)' = Held(c)
BY DEF Held

-----------------------------------------------------------------------------
(* The invariant is inductive.                                               *)

LEMMA InvInit == Init => IInv
<1> SUFFICES ASSUME Init PROVE IInv
  OBVIOUS
<1>1. TypeOK
  BY TypeInit
<1>2. toReceiver = <<>> /\ toSender = <<>>
  BY DEF Init
<1>3. \A S : ~Occurs(toReceiver, S) /\ AtMostOne(toReceiver, S)
             /\ ~Occurs(toSender, S) /\ AtMostOne(toSender, S)
  BY <1>2, OccursEmpty
<1> QED
  BY <1>1, <1>3 DEF Init, IInv, OneTurn, MetadataFirst, Concluded

\* The steps that move no token and end nothing.
LEMMA InvQuiet ==
    ASSUME IInv, TypeOK', UNCHANGED <<toReceiver, expected, link, declared, stored, complete>>,
           \A S : S \subseteq Answers => /\ Occurs(toSender', S) => Occurs(toSender, S)
                                         /\ AtMostOne(toSender, S) => AtMostOne(toSender', S),
           phase' = phase, phase = "sent" => unsent' = {}, sOpen' = sOpen, crashed' = crashed
    PROVE  IInv'
<1>1. \A c : Held(c)' = Held(c)
  BY HeldSame
<1>2. RequestMessages \subseteq Answers /\ {AllReceived} \subseteq Answers
  BY DEF Answers
<1>3. OneTurn'
  BY DEF IInv, OneTurn
<1>4. MetadataFirst'
  BY DEF IInv, MetadataFirst
<1>5. Concluded'
  BY <1>1, <1>2 DEF IInv, Concluded
<1> QED
  BY <1>2, <1>3, <1>4, <1>5 DEF IInv

\* An end of transmission is sent when none is in flight.
LEMMA InvEot ==
    ASSUME IInv, send_eot, ~Occurs(toReceiver, {"eot"}), UNCHANGED <<expected, link>>,
           phase # "start", phase' # "start"
    PROVE  AtMostOne(toReceiver', {"eot"}) /\ MetadataFirst'
<1>1. toReceiver \in Seq(SenderMessages) /\ "eot" \in SenderMessages
  BY DEF IInv, TypeOK, SenderMessages
<1>2. CASE toReceiver' = toReceiver
  BY <1>2 DEF IInv, MetadataFirst, OneTurn
<1>3. CASE toReceiver' = Append(toReceiver, "eot") /\ link = "up"
  <2>1. AtMostOne(toReceiver', {"eot"})
    BY <1>1, <1>3, OccursAppend DEF IInv, OneTurn
  <2>2. toReceiver' # <<>> /\ (toReceiver # <<>> => Head(toReceiver') = Head(toReceiver))
    BY <1>1, <1>3, AppendProperties, LenProperties
  <2> QED
    BY <1>3, <2>1, <2>2 DEF IInv, MetadataFirst
<1> QED
  BY <1>2, <1>3, EotOutcome DEF IInv

LEMMA InvStep == IInv /\ [Next]_vars => IInv'
<1> SUFFICES ASSUME IInv, [Next]_vars PROVE IInv'
  OBVIOUS
<1> USE DEF senderVars, receiverVars, networkVars
<1>a. TypeOK /\ TypeOK'
  BY TypeStep DEF IInv
<1>b. toReceiver \in Seq(SenderMessages) /\ toSender \in Seq(ReceiverMessages)
  BY <1>a DEF TypeOK
<1>c. \A S : UNCHANGED toSender => /\ Occurs(toSender', S) => Occurs(toSender, S)
                                   /\ AtMostOne(toSender, S) => AtMostOne(toSender', S)
  OBVIOUS
<1>1. CASE send_metadata
  <2>1. /\ phase = "start" /\ phase' = "sending" /\ toReceiver = <<>>
        /\ toReceiver' = Append(toReceiver, "metadata")
        /\ UNCHANGED <<unsent, sOpen, crashed, expected, declared, toSender>>
    BY <1>1 DEF send_metadata, IInv, MetadataFirst
  <2>2. ~declared /\ ~Occurs(toSender, Answers) /\ AtMostOne(toSender, Answers)
    BY <2>1 DEF IInv, OneTurn, Concluded
  <2>3. ~Occurs(toReceiver, {"eot"}) /\ AtMostOne(toReceiver, {"eot"})
    BY <2>1, OccursEmpty
  <2>4. "metadata" \in SenderMessages
    BY DEF SenderMessages
  <2>5. ~Occurs(toReceiver', {"eot"}) /\ AtMostOne(toReceiver', {"eot"})
    <3>1. toReceiver' = Append(toReceiver, "metadata") /\ "metadata" \notin {"eot"}
      BY <2>1
    <3> QED
      BY <1>b, <2>3, <2>4, <3>1, OccursAppend
  <2>6. toReceiver' # <<>> /\ Head(toReceiver') = "metadata"
    BY <2>1
  <2>7. OneTurn' /\ MetadataFirst' /\ Concluded'
    BY <2>1, <2>2, <2>5, <2>6 DEF OneTurn, MetadataFirst, Concluded
  <2> QED
    BY <1>a, <2>1, <2>2, <2>7 DEF IInv
<1>2. CASE send_next
  <2>1. phase = "sending" /\ phase' = phase
    BY <1>2 DEF send_next
  <2> QED
    BY <1>2, <1>a, <1>c, <2>1, InvQuiet DEF send_next
<1>3. CASE queue_drained
  <2>1. /\ phase = "sending" /\ phase' = "sent" /\ unsent' = {} /\ send_eot
        /\ UNCHANGED <<sOpen, crashed, expected, declared, toSender, link>>
    BY <1>3 DEF queue_drained
  <2>2. ~declared /\ ~Occurs(toSender, Answers) /\ AtMostOne(toSender, Answers)
        /\ ~Occurs(toReceiver, {"eot"})
    BY <2>1 DEF IInv, OneTurn, Concluded
  <2>3. AtMostOne(toReceiver', {"eot"}) /\ MetadataFirst'
    BY <2>1, <2>2, InvEot
  <2>4. OneTurn' /\ Concluded'
    BY <2>1, <2>2, <2>3 DEF OneTurn, Concluded
  <2> QED
    BY <1>a, <2>1, <2>2, <2>3, <2>4 DEF IInv
<1>4. CASE handle_request_data
  <2>1. /\ toSender # <<>> /\ toSender' = Tail(toSender) /\ Head(toSender).type = "request"
        /\ crashed' = ~sOpen /\ send_eot
        /\ UNCHANGED <<phase, unsent, sOpen, expected, declared, link>>
    BY <1>4 DEF handle_request_data, NextForSender
  <2>2. Head(toSender) \in RequestMessages /\ Head(toSender) \in Answers
    BY <1>b, <2>1 DEF ReceiverMessages, Reports, Answers, RequestMessages, AllReceived
  <2>3. Occurs(toSender, Answers) /\ Occurs(toSender, RequestMessages)
        /\ ~Occurs(toSender', Answers) /\ AtMostOne(toSender', Answers)
        /\ (Occurs(toSender', {AllReceived}) => Occurs(toSender, {AllReceived}))
    BY <1>b, <2>1, <2>2, OccursTail DEF IInv, OneTurn
  <2>4. ~declared /\ sOpen /\ phase = "sent" /\ ~Occurs(toReceiver, {"eot"})
    BY <2>3 DEF IInv, OneTurn, Concluded
  <2>5. AtMostOne(toReceiver', {"eot"}) /\ MetadataFirst'
    BY <2>1, <2>4, InvEot
  <2>6. OneTurn' /\ Concluded'
    BY <2>1, <2>3, <2>4, <2>5 DEF OneTurn, Concluded
  <2> QED
    BY <1>a, <2>1, <2>3, <2>4, <2>5, <2>6 DEF IInv
<1>5. CASE stop_transmission
  <2>1. /\ toSender # <<>> /\ toSender' = <<>> /\ Head(toSender).type = "all_received"
        /\ link' # "up"
        /\ UNCHANGED <<phase, unsent, crashed, expected, declared, complete, stored, toReceiver>>
    BY <1>5, <1>a DEF stop_transmission, NextForSender, TypeOK
  <2>2. Head(toSender) = AllReceived
    BY <1>b, <2>1 DEF ReceiverMessages, Reports, Answers, RequestMessages, AllReceived
  <2>3. declared
    BY <1>b, <2>1, <2>2, OccursTail DEF IInv
  <2>4. \A S : ~Occurs(toSender', S) /\ AtMostOne(toSender', S)
    BY <2>1, OccursEmpty
  <2>5. OneTurn' /\ MetadataFirst'
    BY <2>1, <2>4 DEF IInv, OneTurn, MetadataFirst
  <2>6. Concluded'
    BY <2>1, <2>4, HeldSame DEF IInv, Concluded
  <2> QED
    BY <1>a, <2>1, <2>3, <2>4, <2>5, <2>6 DEF IInv
<1>6. CASE handle_report
  <2>1. toSender # <<>> /\ toSender' = Tail(toSender)
    BY <1>6 DEF handle_report, NextForSender
  <2>2. \A S : /\ Occurs(toSender', S) => Occurs(toSender, S)
               /\ AtMostOne(toSender, S) => AtMostOne(toSender', S)
    BY <1>b, <2>1, OccursTail
  <2> QED
    BY <1>6, <1>a, <2>2, InvQuiet DEF handle_report, IInv
<1>7. CASE sender_read_error
  BY <1>7, <1>a, <1>c, InvQuiet DEF sender_read_error, IInv
<1>8. ASSUME NEW p \in udp, receive_fragment(p) PROVE IInv'
  <2>1. p.frag[1] \in Tiers /\ [type |-> "report", tier |-> p.frag[1]] \in ReceiverMessages
        /\ [type |-> "report", tier |-> p.frag[1]] \notin Answers
    BY <1>a, FragFacts DEF TypeOK, Packets, ReceiverMessages, Reports, Answers,
                           RequestMessages, AllReceived
  <2>2. \/ toSender' = toSender
        \/ toSender' = Append(toSender, [type |-> "report", tier |-> p.frag[1]])
    BY <1>8, <1>a, <2>1, ReportOutcome DEF receive_fragment, update_fragments_tracking
  <2>3. \A S : S \subseteq Answers => /\ Occurs(toSender', S) => Occurs(toSender, S)
                                      /\ AtMostOne(toSender, S) => AtMostOne(toSender', S)
    <3> TAKE S
    <3> HAVE S \subseteq Answers
    <3>1. CASE toSender' = toSender
      BY <3>1
    <3>2. CASE toSender' = Append(toSender, [type |-> "report", tier |-> p.frag[1]])
      BY <1>b, <2>1, <3>2, OccursAppend
    <3> QED
      BY <2>2, <3>1, <3>2
  <2>4. RequestMessages \subseteq Answers /\ {AllReceived} \subseteq Answers
    BY DEF Answers
  <2>5. UNCHANGED <<phase, unsent, sOpen, crashed, expected, complete, declared, toReceiver, link>>
    BY <1>8 DEF receive_fragment
  <2>6. OneTurn' /\ MetadataFirst'
    BY <2>3, <2>5 DEF IInv, OneTurn, MetadataFirst
  <2>7. ASSUME NEW c \in Chunks, Cardinality(Held(c)) >= N - MaxM
        PROVE  Cardinality(Held(c)') >= N - MaxM
    <3>1. Cardinality(Held(c)') >= Cardinality(Held(c))
      BY <1>8, <1>a, HeldGrows
    <3>2. Cardinality(Held(c)) \in Nat /\ Cardinality(Held(c)') \in Nat
      BY <1>8, <1>a, HeldGrows, HeldFinite
    <3> QED
      BY <2>7, <3>1, <3>2
  <2>8. Concluded'
    BY <2>3, <2>4, <2>5, <2>7 DEF IInv, Concluded
  <2> QED
    BY <1>a, <2>3, <2>4, <2>5, <2>6, <2>8 DEF IInv
<1>9. CASE udp_receive_error
  BY <1>9, <1>a, <1>c, InvQuiet DEF udp_receive_error, IInv
<1>10. CASE handle_metadata
  <2>1. /\ toReceiver # <<>> /\ toReceiver' = Tail(toReceiver) /\ expected' = Chunks
        /\ UNCHANGED <<phase, unsent, sOpen, crashed, complete, declared, stored, toSender>>
    BY <1>10, <1>a DEF handle_metadata, TypeOK
  <2>2. /\ Occurs(toReceiver', {"eot"}) => Occurs(toReceiver, {"eot"})
        /\ AtMostOne(toReceiver, {"eot"}) => AtMostOne(toReceiver', {"eot"})
    BY <1>b, <2>1, OccursTail
  <2>3. OneTurn' /\ MetadataFirst'
    BY <2>1, <2>2 DEF IInv, OneTurn, MetadataFirst
  <2>4. Concluded'
    BY <2>1, <2>2, HeldSame DEF IInv, Concluded
  <2> QED
    BY <1>a, <2>1, <2>3, <2>4 DEF IInv
<1>11. CASE handle_eot
  <2>1. /\ toReceiver # <<>> /\ toReceiver' = Tail(toReceiver) /\ Head(toReceiver) = "eot"
        /\ UNCHANGED <<phase, unsent, sOpen, crashed, expected, stored, link>>
    BY <1>11 DEF handle_eot
  <2>2. Occurs(toReceiver, {"eot"}) /\ ~Occurs(toReceiver', {"eot"})
        /\ AtMostOne(toReceiver', {"eot"})
    BY <1>b, <2>1, OccursTail DEF IInv, OneTurn
  <2>3. /\ expected = Chunks /\ phase = "sent" /\ ~declared /\ sOpen
        /\ ~Occurs(toSender, Answers) /\ AtMostOne(toSender, Answers)
    BY <2>1, <2>2 DEF IInv, OneTurn, MetadataFirst, Concluded
  <2>4. ~Occurs(toSender, RequestMessages) /\ ~Occurs(toSender, {AllReceived})
    BY <2>3 DEF Occurs, Answers
  <2>5. MetadataFirst'
    BY <2>1, <2>3 DEF MetadataFirst
  <2>6. CASE /\ findMissingChunks = {}
             /\ send_retransmission_request(AllReceived, TRUE)
             /\ declared' = (declared \/ rConn)
    <3>1. complete' = TRUE
      BY <2>6 DEF send_retransmission_request
    <3>2. AllReceived \in ReceiverMessages /\ AllReceived \notin RequestMessages
      BY DEF ReceiverMessages, Answers, RequestMessages, AllReceived
    <3>3. \/ toSender' = toSender
          \/ toSender' = Append(toSender, AllReceived) /\ rConn
      BY <1>a, <2>6, <3>2, RequestOutcome
    <3>4. /\ AtMostOne(toSender', Answers) /\ ~Occurs(toSender', RequestMessages)
          /\ Occurs(toSender', {AllReceived}) => declared'
      <4>1. CASE toSender' = toSender
        BY <2>3, <2>4, <4>1
      <4>2. CASE toSender' = Append(toSender, AllReceived) /\ rConn
        <5>1. AtMostOne(toSender', Answers) /\ ~Occurs(toSender', RequestMessages)
          BY <1>b, <2>3, <2>4, <3>2, <4>2, OccursAppend
        <5>2. declared'
          BY <2>6, <4>2
        <5> QED
          BY <5>1, <5>2
      <4> QED
        BY <3>3, <4>1, <4>2
    <3>5. \A c \in Chunks : Cardinality(Held(c)') >= N - MaxM
      BY <1>a, <2>1, <2>3, <2>6, NothingMissing, CompleteHolds, HeldSame
    <3> QED
      BY <1>a, <2>1, <2>2, <2>3, <2>5, <3>1, <3>4, <3>5 DEF IInv, OneTurn, Concluded
  <2>7. CASE /\ send_retransmission_request(
                    [type |-> "request", items |-> findMissingChunks], FALSE)
             /\ UNCHANGED declared
    <3>1. PICK msg \in RequestMessages : send_retransmission_request(msg, FALSE)
      BY <1>a, <2>7, RequestType DEF RequestMessages
    <3>2. msg \in ReceiverMessages /\ msg # AllReceived
      BY DEF ReceiverMessages, Answers, RequestMessages, AllReceived
    <3>3. toSender' = toSender \/ toSender' = Append(toSender, msg)
      BY <1>a, <3>1, <3>2, RequestOutcome
    <3>4. AtMostOne(toSender', Answers) /\ ~Occurs(toSender', {AllReceived})
      <4>1. CASE toSender' = toSender
        BY <2>3, <2>4, <4>1
      <4>2. CASE toSender' = Append(toSender, msg)
        BY <1>b, <2>3, <2>4, <3>2, <4>2, OccursAppend
      <4> QED
        BY <3>3, <4>1, <4>2
    <3> QED
      BY <1>a, <2>1, <2>2, <2>3, <2>5, <2>7, <3>4 DEF IInv, OneTurn, Concluded
  <2> QED
    BY <1>11, <2>6, <2>7 DEF handle_eot
<1>12. CASE receiver_read_error
  BY <1>12, <1>a, <1>c, InvQuiet DEF receiver_read_error, IInv
<1>13. ASSUME NEW p \in udp, lose(p) PROVE IInv'
  BY <1>13, <1>a, <1>c, InvQuiet DEF lose, IInv
<1>14. CASE break_connection
  <2>1. /\ toReceiver' \in Prefixes(toReceiver) /\ toSender' \in Prefixes(toSender)
        /\ link' = "broken" /\ phase # "start"
        /\ UNCHANGED <<phase, unsent, sOpen, crashed, expected, complete, declared, stored>>
    BY <1>14 DEF break_connection
  <2>2. \A S : /\ Occurs(toReceiver', S) => Occurs(toReceiver, S)
               /\ Occurs(toSender', S) => Occurs(toSender, S)
               /\ AtMostOne(toReceiver, S) => AtMostOne(toReceiver', S)
               /\ AtMostOne(toSender, S) => AtMostOne(toSender', S)
    BY <1>b, <2>1, OccursPrefix
  <2>3. OneTurn'
    BY <2>1, <2>2 DEF IInv, OneTurn
  <2>4. toReceiver' # <<>> => toReceiver # <<>> /\ Head(toReceiver') = Head(toReceiver)
    BY <1>b, <2>1, PrefixFacts
  <2>5. MetadataFirst'
    BY <2>1, <2>4 DEF IInv, MetadataFirst
  <2>6. Concluded'
    BY <2>1, <2>2, HeldSame DEF IInv, Concluded
  <2> QED
    BY <1>a, <2>1, <2>2, <2>3, <2>5, <2>6 DEF IInv
<1>15. CASE UNCHANGED vars
  BY <1>15, <1>a, <1>c, InvQuiet DEF vars, IInv
<1> QED
  BY <1>1, <1>2, <1>3, <1>4, <1>5, <1>6, <1>7, <1>8, <1>9, <1>10, <1>11, <1>12, <1>13,
     <1>14, <1>15 DEF Next, Sender, Receiver, Network

LEMMA Invariance == Spec => []IInv
BY InvInit, InvStep, PTL DEF Spec

-----------------------------------------------------------------------------
(* The safety properties of AdaptiveTransfer.                                *)

(* At most one end of transmission or answer is in flight, and none before   *)
(* the fragment queue is drained (send_next, handle_eot, handle_request_data).*)
THEOREM OneTurnAlways == Spec => []OneTurn
<1>1. IInv => OneTurn
  BY DEF IInv
<1> QED
  BY <1>1, Invariance, PTL

(* Neither a retransmission nor send_next meets the sockets that             *)
(* stop_transmission has closed.                                             *)
THEOREM SocketAlwaysOpen == Spec => []NoSendOnClosedSocket
<1>1. IInv => NoSendOnClosedSocket
  BY DEF IInv, Concluded, NoSendOnClosedSocket
<1> QED
  BY <1>1, Invariance, PTL

(* The sender stops only when every chunk of its store has as many fragments *)
(* as the smallest k in use (findMissingChunks, stop_transmission).          *)
THEOREM StoppedAlwaysReceived == Spec => []StoppedImpliesReceived
<1>1. IInv => StoppedImpliesReceived
  BY DEF IInv, Concluded, StoppedImpliesReceived, Decodable
<1> QED
  BY <1>1, Invariance, PTL

(* A request names, through all, tier and chunk, exactly the fragments of    *)
(* the chunks that are incomplete (findMissingChunks, handle_request_data).  *)
LEMMA CoversMissing ==
    ASSUME TypeOK, expected = Chunks, NEW x \in Frags
    PROVE  (\E r \in findMissingChunks : Covers(r, x)) <=> Incomplete(ChunkOf(x))
<1> DEFINE c == ChunkOf(x)
<1>1. c \in Chunks /\ c = <<x[1], x[2]>> /\ c[1] = x[1] /\ x[1] \in Tiers
      /\ x[1] # All /\ x[2] # All
  BY FragFacts DEF ChunkOf, All
<1>2. ~Started(x[1]) => Incomplete(c)
  <2> SUFFICES ASSUME ~Started(x[1]) PROVE Held(c) = {}
    BY DEF Incomplete
  <2>1. \A i \in 0 .. N - 1 : <<c[1], c[2], i>> \in Frags /\ <<c[1], c[2], i>>[1] = x[1]
    BY <1>1 DEF Frags
  <2> QED
    BY <2>1 DEF Started, Held
<1>3. CASE \A t \in Tiers : ~Started(t)
  <2>1. findMissingChunks = {<<All, All>>}
    BY <1>1, <1>3 DEF findMissingChunks
  <2> QED
    BY <1>1, <1>2, <1>3, <2>1 DEF Covers
<1>4. CASE ~ \A t \in Tiers : ~Started(t)
  <2>1. findMissingChunks = {<<d[1], All>> : d \in {d \in Chunks : ~Started(d[1])}}
                              \cup {d \in Chunks : Started(d[1]) /\ Incomplete(d)}
    BY <1>4 DEF findMissingChunks
  <2>2. \A d \in Chunks : d[1] # All /\ d[2] # All
    BY DEF Chunks, Tiers, All
  <2>3. CASE ~Started(x[1])
    <3>1. <<x[1], All>> \in findMissingChunks
      BY <1>1, <2>1, <2>3
    <3> QED
      BY <1>2, <2>3, <3>1 DEF Covers
  <2>4. CASE Started(x[1])
    <3>1. <<All, All>> \notin findMissingChunks /\ <<x[1], All>> \notin findMissingChunks
      BY <2>1, <2>2, <2>4
    <3>2. c \in findMissingChunks <=> Incomplete(c)
      BY <1>1, <2>1, <2>4
    <3> QED
      BY <3>1, <3>2 DEF Covers
  <2> QED
    BY <2>3, <2>4
<1> QED
  BY <1>3, <1>4

(* Every request sent is exact.                                              *)
THEOREM RequestsAlwaysExact == Spec => RequestsExactlyTheMissing
<1>1. ASSUME IInv, handle_eot, NEW x \in Frags
      PROVE  (\E r \in findMissingChunks : Covers(r, x)) <=> Incomplete(ChunkOf(x))
  <2>1. expected = Chunks
    BY <1>1 DEF IInv, MetadataFirst, handle_eot
  <2> QED
    BY <1>1, <2>1, CoversMissing DEF IInv
<1>2. IInv /\ [Next]_vars =>
        [\A items \in {findMissingChunks} :
           handle_eot /\ toSender' = Append(toSender, [type |-> "request", items |-> items])
           => \A x \in Frags : (\E r \in items : Covers(r, x)) <=> Incomplete(ChunkOf(x))]_vars
  BY <1>1
<1> QED
  BY <1>2, Invariance, PTL DEF Spec, RequestsExactlyTheMissing

(* The transfer implements ChunkDelivery.                                    *)
THEOREM TransferImplementsDelivery == Spec => ImplementsDelivery
<1>1. Init => Delivery!Init
  <2> SUFFICES ASSUME Init PROVE Delivery!Init
    OBVIOUS
  <2>1. \A c \in Chunks : Held(c) = {}
    <3> TAKE c \in Chunks
    <3>1. \A i \in 0 .. N - 1 : <<c[1], c[2], i>> \in Frags
      BY DEF Frags
    <3> QED
      BY <3>1 DEF Init, Held
  <2> QED
    BY <2>1 DEF Init, Delivery!Init
<1>2. IInv /\ [Next]_vars => [Delivery!Next]_Delivery!vars
  <2> SUFFICES ASSUME IInv, IInv', [Next]_vars
               PROVE  Delivery!Next \/ UNCHANGED Delivery!vars
    BY InvStep
  <2> USE DEF senderVars, receiverVars, networkVars
  <2>a. stored' = stored => [c \in Chunks |-> Held(c)]' = [c \in Chunks |-> Held(c)]
    BY HeldSame
  <2>1. CASE UNCHANGED <<stored, armed, declared, sOpen>>
    BY <2>a, <2>1 DEF Delivery!vars
  <2>2. CASE stop_transmission
    <3>1. declared /\ ~sOpen' /\ UNCHANGED <<stored, armed, declared>>
      BY <2>2 DEF stop_transmission, IInv
    <3> QED
      BY <2>a, <3>1 DEF Delivery!Next, Delivery!Close
  <2>3. ASSUME NEW p \in udp, receive_fragment(p)
        PROVE  Delivery!Next
    <3>1. TypeOK /\ p.frag \in Frags
      BY DEF IInv, TypeOK, Packets
    <3>2. ChunkOf(p.frag) \in Chunks /\ p.frag[3] \in 0 .. N - 1
      BY <3>1, FragFacts
    <3>3. [c \in Chunks |-> Held(c)]'
            = [[c \in Chunks |-> Held(c)] EXCEPT ![ChunkOf(p.frag)] = @ \cup {p.frag[3]}]
      BY <2>3, <3>1, <3>2, HeldGrows
    <3>4. /\ armed /\ armed' = ~complete /\ armed' \in BOOLEAN /\ (declared => complete)
          /\ UNCHANGED <<declared, sOpen>>
      BY <2>3, <3>1 DEF receive_fragment, IInv, Concluded, TypeOK
    <3>5. Delivery!Accept(ChunkOf(p.frag), p.frag[3])
      BY <3>3, <3>4 DEF Delivery!Accept
    <3> QED
      BY <3>2, <3>5 DEF Delivery!Next
  <2>4. CASE udp_receive_error
    BY <2>a, <2>4 DEF udp_receive_error, Delivery!Next, Delivery!StopAccepting
  <2>5. CASE handle_eot
    <3>1. UNCHANGED <<stored, armed, sOpen>>
      BY <2>5 DEF handle_eot
    <3>2. CASE declared' = declared
      BY <2>a, <3>1, <3>2 DEF Delivery!vars
    <3>3. CASE declared' # declared
      <4>1. declared' = TRUE
        BY <2>5, <3>3 DEF handle_eot, IInv, TypeOK
      <4>2. \A c \in Chunks : Cardinality(Held(c)) >= N - MaxM
        <5>1. \A c \in Chunks : Cardinality(Held(c)') >= N - MaxM
          BY <4>1 DEF IInv, Concluded
        <5>2. \A c \in Chunks : Held(c)' = Held(c)
          BY <3>1, HeldSame
        <5> QED
          BY <5>1, <5>2
      <4>3. Delivery!Finish
        <5>1. [c \in Chunks |-> Held(c)]' = [c \in Chunks |-> Held(c)]
          BY <2>a, <3>1
        <5>2. \A c \in Chunks : [d \in Chunks |-> Held(d)][c] = Held(c)
          OBVIOUS
        <5>3. \A c \in Chunks : Cardinality([d \in Chunks |-> Held(d)][c]) >= N - MaxM
          BY <4>2, <5>2
        <5>4. \A S : Delivery!Cardinality(S) = Cardinality(S)
          BY DEF Delivery!Cardinality, Cardinality
        <5> QED
          BY <3>1, <4>1, <5>1, <5>3, <5>4 DEF Delivery!Finish
      <4> QED
        BY <4>3 DEF Delivery!Next
    <3> QED
      BY <3>2, <3>3
  <2> QED
    BY <2>1, <2>2, <2>3, <2>4, <2>5
       DEF Next, Sender, Receiver, Network, vars, send_metadata, send_next, queue_drained,
           handle_request_data, handle_report, sender_read_error, handle_metadata,
           receiver_read_error, lose, break_connection
<1> QED
  BY <1>1, <1>2, Invariance, PTL DEF Spec, ImplementsDelivery, Delivery!Spec
=============================================================================
