---------------------------- MODULE GoBackNProofs ----------------------------
(***************************************************************************)
(* Proofs about GoBackN, for any number of packets, window, threshold and  *)
(* losses.                                                                 *)
(***************************************************************************)
EXTENDS GoBackN, SequenceTheorems, TLAPS

USE GoBackNAssumption

(* The acknowledgments still to be read ascend from latest_ack_id to what the *)
(* receiver expects, and below latest_ack_id is all that was acknowledged.   *)
AcksAscend ==
    /\ \A i, j \in DOMAIN ack_link : i <= j => ack_link[i] <= ack_link[j]
    /\ \A i \in DOMAIN ack_link : latest_ack_id <= ack_link[i] /\ ack_link[i] <= expected_next_pkt
    /\ latest_ack_id <= expected_next_pkt

SentOnly ==
    /\ \A i \in DOMAIN trans_link : trans_link[i] < pkt_id
    /\ \A p \in unacked_pkt : p < pkt_id
    /\ expected_next_pkt <= pkt_id

AckedBelowLatest == \A p \in 0 .. pkt_id - 1 : p \in unacked_pkt \/ p < latest_ack_id

Progress ==
    /\ pc = "send" => pkt_id < NumPackets
    /\ pc \in {"drain", "drain goback", "drain scan", "done"} => pkt_id = NumPackets
    /\ pc = "done" => expected_next_pkt = NumPackets

IInv == TypeOK /\ AcksAscend /\ SentOnly /\ AckedBelowLatest /\ KeysPresent /\ Progress

LEMMA InitInv == Init => IInv
<1> SUFFICES ASSUME Init PROVE IInv
  OBVIOUS
<1>1. trans_link \in Seq(Ids) /\ ack_link \in Seq(0 .. NumPackets)
  BY DEF Init
<1>2. TypeOK
  <2>1. pc \in Places /\ recording \in BOOLEAN /\ old \in SUBSET unacked_pkt
    BY DEF Init, Places
  <2>2. unacked_pkt \in SUBSET Ids
    BY DEF Init
  <2>3. 0 \in 0 .. NumPackets /\ 0 \in 0 .. DupAckThreshold /\ 0 \in 0 .. 1 /\ 0 \in 0 .. MaxLosses
    OBVIOUS
  <2> QED
    BY <1>1, <2>1, <2>2, <2>3 DEF Init, TypeOK
<1>3. AcksAscend /\ SentOnly
  BY <1>1, EmptySeq DEF Init, AcksAscend, SentOnly
<1>4. AckedBelowLatest /\ KeysPresent /\ Progress
  BY DEF Init, AckedBelowLatest, KeysPresent, Progress
<1> QED
  BY <1>2, <1>3, <1>4 DEF IInv

(* send puts a packet it has, a new one or one again, on the link.           *)
LEMMA PutFacts ==
    ASSUME TypeOK, NEW p \in Ids, Put(p)
    PROVE  /\ trans_link' \in Seq(Ids)
           /\ \A i \in DOMAIN trans_link' :
                \/ i \in DOMAIN trans_link /\ trans_link'[i] = trans_link[i]
                \/ trans_link'[i] = p
<1>1. trans_link \in Seq(Ids) /\ trans_link' = Append(trans_link, p)
  BY DEF TypeOK, Put
<1> QED
  BY <1>1

LEMMA TailFacts ==
    ASSUME NEW S, NEW s \in Seq(S), s # <<>>
    PROVE  /\ Tail(s) \in Seq(S) /\ Head(s) \in S /\ Head(s) = s[1] /\ 1 \in DOMAIN s
           /\ \A i \in DOMAIN Tail(s) : i + 1 \in DOMAIN s /\ Tail(s)[i] = s[i + 1]
<1>1. Len(s) \in Nat /\ Len(s) > 0
  BY EmptySeq
<1>2. Len(Tail(s)) = Len(s) - 1
  BY <1>1
<1> QED
  BY <1>1, <1>2

(* The loops of send: a packet that was sent before is sent again.           *)
LEMMA ResendInv ==
    ASSUME IInv, NEW p \in Ids, p < pkt_id, p >= k, pc \in Loops, resend(p)
    PROVE  IInv'
<1>1. TypeOK'
  <2>1. old' \in SUBSET unacked_pkt' /\ unacked_pkt' \in SUBSET Ids
    BY DEF IInv, TypeOK, resend
  <2>2. k' \in 0 .. NumPackets
    BY DEF IInv, TypeOK, resend, Ids
  <2>3. trans_link' \in Seq(Ids)
    BY PutFacts DEF IInv, resend
  <2> QED
    BY <2>1, <2>2, <2>3 DEF IInv, TypeOK, resend, acker
<1>2. AcksAscend' /\ Progress' /\ AckedBelowLatest'
  BY DEF IInv, AcksAscend, Progress, AckedBelowLatest, resend, acker
<1>3. SentOnly'
  <2>1. \A i \in DOMAIN trans_link' : trans_link'[i] < pkt_id
    BY PutFacts DEF IInv, SentOnly, resend
  <2> QED
    BY <2>1 DEF IInv, SentOnly, resend
<1>4. KeysPresent'
  <2>1. \A q \in Ids : q >= p + 1 => q >= k
    BY DEF Ids, IInv, TypeOK
  <2> QED
    BY <2>1 DEF IInv, KeysPresent, resend
<1> QED
  BY <1>1, <1>2, <1>3, <1>4 DEF IInv

LEMMA SenderInv == IInv /\ Sender => IInv'
<1> SUFFICES ASSUME IInv, Sender PROVE IInv'
  OBVIOUS
<1>1. CASE put_next
  <2>1. pkt_id \in Ids /\ pkt_id \in Nat /\ Put(pkt_id) /\ pkt_id' = pkt_id + 1
    BY <1>1 DEF put_next, IInv, TypeOK, Progress, Ids
  <2>2. TypeOK'
    <3>1. trans_link' \in Seq(Ids)
      BY <2>1, PutFacts DEF IInv
    <3>2. pkt_id' \in 0 .. NumPackets
      BY <2>1 DEF Ids
    <3>3. unacked_pkt' \in SUBSET Ids /\ old' \in SUBSET unacked_pkt'
      BY <1>1, <2>1 DEF put_next, IInv, TypeOK
    <3> QED
      BY <1>1, <3>1, <3>2, <3>3 DEF put_next, IInv, TypeOK, acker, Places
  <2>3. AcksAscend'
    BY <1>1 DEF put_next, IInv, AcksAscend, acker
  <2>4. SentOnly'
    <3>1. \A i \in DOMAIN trans_link' : trans_link'[i] < pkt_id + 1
      <4> TAKE i \in DOMAIN trans_link'
      <4>1. \/ i \in DOMAIN trans_link /\ trans_link'[i] = trans_link[i]
            \/ trans_link'[i] = pkt_id
        BY <2>1, PutFacts DEF IInv
      <4>2. CASE i \in DOMAIN trans_link /\ trans_link'[i] = trans_link[i]
        <5>1. trans_link[i] \in Ids /\ trans_link[i] < pkt_id
          BY <4>2 DEF IInv, TypeOK, SentOnly
        <5> QED
          BY <2>1, <4>2, <5>1 DEF Ids
      <4> QED
        BY <2>1, <4>1, <4>2
    <3>2. \A p \in unacked_pkt' : p < pkt_id + 1
      BY <1>1, <2>1 DEF put_next, IInv, TypeOK, SentOnly, Ids
    <3>3. expected_next_pkt' <= pkt_id + 1
      BY <1>1, <2>1 DEF put_next, IInv, TypeOK, SentOnly
    <3> QED
      BY <2>1, <3>1, <3>2, <3>3 DEF SentOnly
  <2>5. AckedBelowLatest'
    BY <1>1, <2>1 DEF put_next, IInv, AckedBelowLatest, acker
  <2>6. KeysPresent' /\ Progress'
    BY <1>1 DEF put_next, KeysPresent, Progress
  <2> QED
    BY <2>2, <2>3, <2>4, <2>5, <2>6 DEF IInv
<1>2. CASE goback
  <2>1. k \in 0 .. NumPackets /\ pkt_id \in 0 .. NumPackets /\ k < pkt_id
    BY <1>2 DEF goback, IInv, TypeOK
  <2>2. k \in Ids /\ k >= k
    BY <2>1 DEF Ids
  <2> QED
    BY <1>2, <2>1, <2>2, ResendInv DEF goback, Loops
<1>3. CASE scan
  <2>1. PICK p \in Stale : resend(p)
    BY <1>3 DEF scan
  <2>2. p \in Ids /\ p >= k /\ p < pkt_id
    BY DEF Stale, IInv, TypeOK, SentOnly
  <2> QED
    BY <1>3, <2>1, <2>2, ResendInv DEF scan, Loops
<1>4. CASE check \/ window \/ drain \/ end_loop
  <2>1. UNCHANGED <<pkt_id, unacked_pkt, old, acker, net>>
    BY <1>4 DEF check, window, drain, end_loop
  <2>2. AcksAscend' /\ SentOnly' /\ AckedBelowLatest'
    BY <2>1 DEF IInv, AcksAscend, SentOnly, AckedBelowLatest, acker, net
  <2>3. k' = k \/ k' = latest_ack_id \/ k' = 0
    BY <1>4 DEF check, window, drain, end_loop, GoBackFrom
  <2>4. pc' \in Places
    BY <1>4 DEF check, window, drain, end_loop, AfterCheck, Following, Places, Loops
  <2>5. TypeOK'
    <3>1. k' \in 0 .. NumPackets
      BY <2>3 DEF IInv, TypeOK
    <3> QED
      BY <2>1, <2>4, <3>1 DEF IInv, TypeOK, acker, net
  <2>6. KeysPresent'
    <3>1. CASE pc' \in {"goback", "drain goback"}
      <4>1. k' = latest_ack_id
        BY <1>4, <3>1 DEF check, window, drain, end_loop, GoBackFrom, AfterCheck, Following
      <4>2. \A p \in Ids : p >= latest_ack_id /\ p < pkt_id => p \in unacked_pkt
        BY DEF IInv, AckedBelowLatest, TypeOK, Ids
      <4> QED
        BY <2>1, <4>1, <4>2 DEF KeysPresent
    <3> QED
      BY <3>1 DEF KeysPresent
  <2>7. Progress'
    <3>1. pkt_id \in 0 .. NumPackets /\ expected_next_pkt \in 0 .. NumPackets
          /\ pkt_id' = pkt_id /\ expected_next_pkt' = expected_next_pkt
      BY <2>1 DEF IInv, TypeOK, net
    <3>2. pc' = "send" => pkt_id < NumPackets
      BY <1>4 DEF check, window, drain, end_loop, AfterCheck, Following
    <3>3. pc' \in {"drain", "drain goback", "drain scan", "done"} => pkt_id = NumPackets
      <4>1. Following = "drain" => pkt_id = NumPackets
        BY <3>1 DEF Following
      <4>2. CASE pc \in {"drain", "drain goback", "drain scan"}
        BY <4>2 DEF IInv, Progress
      <4>3. CASE pc \in {"check", "window", "goback", "scan"}
        <5>1. pc' \in {"goback", "scan", "window", "send", "drain"}
              /\ (pc' = "drain" => Following = "drain")
          BY <1>4, <4>3 DEF check, window, drain, end_loop, AfterCheck, Following
        <5> QED
          BY <4>1, <5>1
      <4> QED
        BY <1>4, <4>2, <4>3 DEF check, window, drain, end_loop
    <3>4. pc' = "done" => expected_next_pkt = NumPackets
      <4> SUFFICES ASSUME pc' = "done" PROVE expected_next_pkt = NumPackets
        OBVIOUS
      <4>1. unacked_pkt = {}
        BY <1>4 DEF check, window, drain, end_loop, AfterCheck, Following, Drained
      <4>2. pkt_id = NumPackets /\ NumPackets - 1 \in 0 .. pkt_id - 1
        BY <3>3
      <4>3. NumPackets - 1 < latest_ack_id
        BY <4>1, <4>2 DEF IInv, AckedBelowLatest
      <4> QED
        BY <3>1, <4>3 DEF IInv, AcksAscend, TypeOK
    <3> QED
      BY <3>1, <3>2, <3>3, <3>4 DEF Progress
  <2> QED
    BY <2>2, <2>5, <2>6, <2>7 DEF IInv
<1> QED
  BY <1>1, <1>2, <1>3, <1>4 DEF Sender

(* handle_ack: latest_ack_id only grows, so what it falls below stays acknowledged. *)
LEMMA AckerInv == IInv /\ (take_ack \/ record_ack) => IInv'
<1> SUFFICES ASSUME IInv, take_ack \/ record_ack PROVE IInv'
  OBVIOUS
<1>1. CASE take_ack
  <2>1. /\ ack_link \in Seq(0 .. NumPackets) /\ ack_link # <<>> /\ ack_link' = Tail(ack_link)
        /\ latest_ack_id' = Head(ack_link)
    BY <1>1 DEF take_ack, IInv, TypeOK
  <2>2. /\ ack_link' \in Seq(0 .. NumPackets) /\ latest_ack_id' \in 0 .. NumPackets
        /\ latest_ack_id' = ack_link[1] /\ 1 \in DOMAIN ack_link
        /\ \A i \in DOMAIN ack_link' :
             i \in Nat /\ 1 <= i + 1 /\ i + 1 \in DOMAIN ack_link /\ ack_link'[i] = ack_link[i + 1]
    BY <2>1, TailFacts
  <2>3. TypeOK'
    BY <1>1, <2>2 DEF take_ack, IInv, TypeOK
  <2>4. AcksAscend'
    <3>1. \A i, j \in DOMAIN ack_link' : i <= j => i + 1 <= j + 1
      BY <2>2
    <3>2. \A i, j \in DOMAIN ack_link' : i <= j => ack_link'[i] <= ack_link'[j]
      BY <2>2, <3>1 DEF IInv, AcksAscend
    <3>3. \A i \in DOMAIN ack_link' :
            latest_ack_id' <= ack_link'[i] /\ ack_link'[i] <= expected_next_pkt
      BY <2>2 DEF IInv, AcksAscend
    <3>4. latest_ack_id' <= expected_next_pkt
      BY <2>2 DEF IInv, AcksAscend
    <3> QED
      BY <1>1, <3>2, <3>3, <3>4 DEF take_ack, AcksAscend
  <2>5. AckedBelowLatest'
    <3>1. latest_ack_id <= latest_ack_id'
      BY <2>2 DEF IInv, AcksAscend
    <3>2. latest_ack_id \in Nat /\ latest_ack_id' \in Nat /\ pkt_id \in Nat
      BY <2>2 DEF IInv, TypeOK
    <3>3. \A p \in 0 .. pkt_id - 1 : p < latest_ack_id => p < latest_ack_id'
      BY <3>1, <3>2
    <3> QED
      BY <1>1, <3>3 DEF take_ack, IInv, AckedBelowLatest
  <2>6. SentOnly' /\ KeysPresent' /\ Progress'
    BY <1>1 DEF take_ack, IInv, SentOnly, KeysPresent, Progress
  <2> QED
    BY <2>3, <2>4, <2>5, <2>6 DEF IInv
<1>2. CASE record_ack
  <2>1. UNCHANGED <<pc, pkt_id, k, latest_ack_id, net>>
        /\ unacked_pkt' = unacked_pkt \ {latest_ack_id - 1}
        /\ old' = old \ {latest_ack_id - 1}
    BY <1>2 DEF record_ack, Acked
  <2>2. TypeOK'
    <3>1. latest_ack_id_count' \in 0 .. DupAckThreshold
      <4>1. latest_ack_id_count \in 0 .. DupAckThreshold
        BY DEF IInv, TypeOK
      <4>2. \/ latest_ack_id_count' = 1
            \/ latest_ack_id_count' = latest_ack_id_count
            \/ /\ latest_ack_id_count' = latest_ack_id_count + 1
               /\ ~(latest_ack_id_count >= DupAckThreshold)
        BY <1>2 DEF record_ack, Duplicates
      <4> QED
        BY <4>1, <4>2
    <3>2. unacked_pkt' \in SUBSET Ids /\ old' \in SUBSET unacked_pkt'
      BY <2>1 DEF IInv, TypeOK
    <3>3. recording' \in BOOLEAN
      BY <1>2 DEF record_ack
    <3> QED
      BY <2>1, <3>1, <3>2, <3>3 DEF IInv, TypeOK, net
  <2>3. AcksAscend' /\ SentOnly' /\ Progress'
    BY <2>1 DEF IInv, AcksAscend, SentOnly, Progress, net
  <2>4. AckedBelowLatest'
    <3>1. latest_ack_id \in Nat /\ latest_ack_id - 1 < latest_ack_id
      BY DEF IInv, TypeOK
    <3> QED
      BY <2>1, <3>1 DEF IInv, AckedBelowLatest
  <2>5. KeysPresent'
    BY <1>2 DEF record_ack, KeysPresent, Loops
  <2> QED
    BY <2>2, <2>3, <2>4, <2>5 DEF IInv
<1> QED
  BY <1>1, <1>2

(* The receiver: what it expects next grows by one at most, and is acknowledged. *)
LEMMA ReceiveFacts ==
    ASSUME IInv, receive
    PROVE  /\ trans_link' \in Seq(Ids)
           /\ \A i \in DOMAIN trans_link' : trans_link'[i] < pkt_id
           /\ \/ expected_next_pkt' = expected_next_pkt
              \/ expected_next_pkt' = expected_next_pkt + 1 /\ expected_next_pkt < pkt_id
           /\ expected_next_pkt' \in 0 .. NumPackets /\ expected_next_pkt <= expected_next_pkt'
           /\ expected_next_pkt' <= pkt_id
<1>1. trans_link \in Seq(Ids) /\ trans_link # <<>> /\ trans_link' = Tail(trans_link)
  BY DEF receive, IInv, TypeOK
<1>2. /\ trans_link' \in Seq(Ids) /\ Head(trans_link) = trans_link[1] /\ 1 \in DOMAIN trans_link
      /\ \A i \in DOMAIN trans_link' :
           i + 1 \in DOMAIN trans_link /\ trans_link'[i] = trans_link[i + 1]
  BY <1>1, TailFacts
<1>3. \A i \in DOMAIN trans_link' : trans_link'[i] < pkt_id
  BY <1>2 DEF IInv, SentOnly
<1>4. Head(trans_link) < pkt_id
  BY <1>2 DEF IInv, SentOnly
<1>5. expected_next_pkt \in 0 .. NumPackets /\ pkt_id \in 0 .. NumPackets
      /\ expected_next_pkt <= pkt_id
  BY DEF IInv, TypeOK, SentOnly
<1>6. expected_next_pkt' = IF Head(trans_link) = expected_next_pkt
                           THEN expected_next_pkt + 1 ELSE expected_next_pkt
  BY DEF receive
<1> QED
  BY <1>2, <1>3, <1>4, <1>5, <1>6

LEMMA ReceiveInv == IInv /\ receive => IInv'
<1> SUFFICES ASSUME IInv, receive PROVE IInv'
  OBVIOUS
<1>1. ack_link \in Seq(0 .. NumPackets)
  BY DEF IInv, TypeOK
<1>2. ack_link' = ack_link \/ ack_link' = Append(ack_link, expected_next_pkt')
  BY DEF receive
<1>3. /\ ack_link' \in Seq(0 .. NumPackets)
      /\ \A i \in DOMAIN ack_link' :
           \/ i \in DOMAIN ack_link /\ ack_link'[i] = ack_link[i]
           \/ ack_link'[i] = expected_next_pkt' /\ i = Len(ack_link) + 1
  <2>1. expected_next_pkt' \in 0 .. NumPackets
    BY ReceiveFacts
  <2>2. CASE ack_link' = ack_link
    BY <1>1, <2>2
  <2>3. CASE ack_link' = Append(ack_link, expected_next_pkt')
    <3> DEFINE e == expected_next_pkt'
    <3>1. e \in 0 .. NumPackets /\ ack_link' = Append(ack_link, e)
      BY <2>1, <2>3
    <3> HIDE DEF e
    <3>2. /\ Append(ack_link, e) \in Seq(0 .. NumPackets)
          /\ \A i \in DOMAIN Append(ack_link, e) :
               \/ i \in DOMAIN ack_link /\ Append(ack_link, e)[i] = ack_link[i]
               \/ Append(ack_link, e)[i] = e /\ i = Len(ack_link) + 1
      BY <1>1, <3>1
    <3> QED
      BY <3>1, <3>2 DEF e
  <2> QED
    BY <1>2, <2>2, <2>3
<1>4. TypeOK'
  BY <1>3, ReceiveFacts DEF receive, IInv, TypeOK, acker
<1>5. AcksAscend'
  <2>1. \A i \in DOMAIN ack_link : /\ ack_link[i] \in Nat /\ latest_ack_id <= ack_link[i]
                                   /\ ack_link[i] <= expected_next_pkt'
    <3> TAKE i \in DOMAIN ack_link
    <3>1. ack_link[i] \in 0 .. NumPackets
      BY <1>1
    <3>2. latest_ack_id <= ack_link[i] /\ ack_link[i] <= expected_next_pkt
      BY DEF IInv, AcksAscend
    <3>3. expected_next_pkt \in Nat
      BY DEF IInv, TypeOK
    <3> QED
      BY <3>1, <3>2, <3>3, ReceiveFacts
  <2>2. latest_ack_id <= expected_next_pkt'
    <3>1. latest_ack_id <= expected_next_pkt /\ latest_ack_id \in Nat /\ expected_next_pkt \in Nat
      BY DEF IInv, AcksAscend, TypeOK
    <3> QED
      BY <3>1, ReceiveFacts
  <2>3. \A i \in DOMAIN ack_link' :
          latest_ack_id <= ack_link'[i] /\ ack_link'[i] <= expected_next_pkt'
    BY <1>3, <2>1, <2>2, ReceiveFacts
  <2>4. \A i, j \in DOMAIN ack_link' : i <= j => ack_link'[i] <= ack_link'[j]
    <3> TAKE i, j \in DOMAIN ack_link'
    <3> HAVE i <= j
    <3>1. CASE ack_link'[j] = expected_next_pkt'
      BY <2>3, <3>1
    <3>2. CASE j \in DOMAIN ack_link /\ ack_link'[j] = ack_link[j]
      <4>1. i \in DOMAIN ack_link /\ ack_link'[i] = ack_link[i]
        <5>1. j <= Len(ack_link) /\ i \in Nat /\ j \in Nat /\ Len(ack_link) \in Nat
          BY <1>1, <1>3, <3>2
        <5>2. i # Len(ack_link) + 1
          BY <5>1
        <5> QED
          BY <1>3, <5>2
      <4> QED
        BY <3>2, <4>1 DEF IInv, AcksAscend
    <3> QED
      BY <1>3, <3>1, <3>2
  <2> QED
    BY <2>2, <2>3, <2>4 DEF AcksAscend, receive, acker
<1>6. SentOnly'
  BY ReceiveFacts DEF receive, IInv, SentOnly
<1>7. AckedBelowLatest' /\ KeysPresent'
  BY DEF receive, IInv, AckedBelowLatest, KeysPresent, acker
<1>8. Progress'
  <2>1. pc = "done" => expected_next_pkt' = NumPackets
    <3>1. pc = "done" => expected_next_pkt = NumPackets
      BY DEF IInv, Progress
    <3> QED
      BY <3>1, ReceiveFacts
  <2> QED
    BY <2>1 DEF receive, IInv, Progress
<1> QED
  BY <1>4, <1>5, <1>6, <1>7, <1>8 DEF IInv

LEMMA LinkInv == IInv /\ (loss_gen \/ drop \/ \E p \in Ids : age(p)) => IInv'
<1> SUFFICES ASSUME IInv, loss_gen \/ drop \/ \E p \in Ids : age(p) PROVE IInv'
  OBVIOUS
<1>1. CASE loss_gen
  <2>1. TypeOK'
    BY <1>1 DEF loss_gen, IInv, TypeOK, acker
  <2> QED
    BY <1>1, <2>1 DEF loss_gen, IInv, AcksAscend, SentOnly, AckedBelowLatest, KeysPresent, Progress, acker
<1>2. CASE drop
  <2>1. /\ trans_link' \in Seq(Ids)
        /\ \A i \in DOMAIN trans_link' :
             i + 1 \in DOMAIN trans_link /\ trans_link'[i] = trans_link[i + 1]
    BY <1>2, TailFacts DEF drop, IInv, TypeOK
  <2>2. TypeOK'
    BY <1>2, <2>1 DEF drop, IInv, TypeOK, acker
  <2>3. SentOnly'
    BY <1>2, <2>1 DEF drop, IInv, SentOnly
  <2> QED
    BY <1>2, <2>2, <2>3 DEF drop, IInv, AcksAscend, AckedBelowLatest, KeysPresent, Progress, acker
<1>3. CASE \E p \in Ids : age(p)
  <2>1. PICK p \in Ids : age(p)
    BY <1>3
  <2>2. TypeOK'
    BY <2>1 DEF age, IInv, TypeOK, acker, net
  <2> QED
    BY <2>1, <2>2 DEF age, IInv, AcksAscend, SentOnly, AckedBelowLatest, KeysPresent, Progress, acker, net
<1> QED
  BY <1>1, <1>2, <1>3

LEMMA StepInv == IInv /\ [Next]_vars => IInv'
<1>1. IInv /\ UNCHANGED vars => IInv'
  BY DEF vars, acker, net, IInv, TypeOK, AcksAscend, SentOnly, AckedBelowLatest, KeysPresent, Progress
<1> QED
  BY <1>1, SenderInv, AckerInv, ReceiveInv, LinkInv DEF Next

LEMMA Invariance == Spec => []IInv
BY InitInv, StepInv, PTL DEF Spec

(* The variables keep their types; old holds unacknowledged packets only.     *)
THEOREM TypeCorrect == Spec => []TypeOK
BY Invariance, PTL DEF IInv

(* The going-back loop never reads a key that handle_ack deleted.             *)
THEOREM NoKeyError == Spec => []KeysPresent
BY Invariance, PTL DEF IInv

(* What left unacked_pkt was delivered, for any losses and repetitions.       *)
THEOREM NothingForgotten == Spec => []AckedWasDelivered
<1>1. IInv => AckedWasDelivered
  <2> SUFFICES ASSUME IInv, NEW p \in 0 .. pkt_id - 1, p < latest_ack_id
               PROVE  p < expected_next_pkt
    BY DEF IInv, AckedBelowLatest, AckedWasDelivered
  <2>1. latest_ack_id \in Nat /\ expected_next_pkt \in Nat /\ latest_ack_id <= expected_next_pkt
        /\ pkt_id \in Nat
    BY DEF IInv, TypeOK, AcksAscend
  <2> QED
    BY <2>1
<1> QED
  BY <1>1, Invariance, PTL

(* The transfer implements the safety part of InOrderDelivery.                *)
THEOREM InOrder == Spec => DeliversInOrder
<1>1. Init => Promise!Init
  BY DEF Init, Promise!Init
<1>2. IInv /\ [Next]_vars => [Promise!Next]_(Promise!vars)
  <2> SUFFICES ASSUME IInv, IInv', [Next]_vars
               PROVE  Promise!Next \/ UNCHANGED Promise!vars
    BY StepInv
  <2>1. CASE receive
    <3>1. /\ pc' = pc /\ expected_next_pkt \in 0 .. NumPackets /\ pkt_id \in 0 .. NumPackets
          /\ \/ expected_next_pkt' = expected_next_pkt
             \/ expected_next_pkt' = expected_next_pkt + 1 /\ expected_next_pkt < pkt_id
      BY <2>1, ReceiveFacts DEF receive, IInv, TypeOK
    <3>2. CASE expected_next_pkt' = expected_next_pkt
      BY <3>1, <3>2 DEF Promise!vars
    <3>3. CASE expected_next_pkt' = expected_next_pkt + 1 /\ expected_next_pkt < pkt_id
      <4>1. expected_next_pkt < NumPackets
        BY <3>1, <3>3
      <4> QED
        BY <3>1, <3>3, <4>1 DEF Promise!Next, Promise!Deliver
    <3> QED
      BY <3>1, <3>2, <3>3
  <2>2. CASE ~receive
    <3>1. expected_next_pkt' = expected_next_pkt
      BY <2>2 DEF Next, Sender, put_next, check, window, drain, goback, scan, resend, end_loop, age,
                  take_ack, record_ack, loss_gen, drop, vars, net
    <3>2. CASE pc' = "done" /\ pc # "done"
      <4>1. expected_next_pkt = NumPackets
        BY <3>1, <3>2 DEF IInv, Progress
      <4> QED
        BY <3>1, <3>2, <4>1 DEF Promise!Next, Promise!Finish
    <3>3. CASE pc = "done"
      <4>1. pc' = "done"
        BY <2>2, <3>3 DEF Next, Sender, put_next, check, window, drain, goback, scan, resend, end_loop,
                          age, take_ack, record_ack, loss_gen, drop, vars
      <4> QED
        BY <3>1, <3>3, <4>1 DEF Promise!vars
    <3>4. CASE pc # "done" /\ pc' # "done"
      BY <3>1, <3>4 DEF Promise!vars
    <3> QED
      BY <3>2, <3>3, <3>4
  <2> QED
    BY <2>1, <2>2
<1> QED
  BY <1>1, <1>2, Invariance, PTL DEF Spec, DeliversInOrder, Promise!Safe
=============================================================================
