------------------------- MODULE RefactorSenderProofs -------------------------
(***************************************************************************)
(* Proofs about RefactorSender: its types, that what is sent is an initial *)
(* part of the fragments in their order, and that at most one fragment     *)
(* follows the stop.                                                       *)
(***************************************************************************)
EXTENDS RefactorSender, SequenceTheorems, TLAPS

USE SenderAssumption

-----------------------------------------------------------------------------
(* The inductive invariant                                                  *)

Types ==
    /\ main \in {"metadata", "fragments", "count", "stop", "complete", "close", "close_udp",
                 "join", "done", "terminated"}
    /\ io \in {"idle", "send", "count", "terminated", "ended"}
    /\ posted \in 0 .. NumFragments
    /\ queue \in Seq(Nat) /\ sent \in Seq(Nat) /\ atStop \in Nat
    /\ should_stop \in BOOLEAN
    /\ total \in Nat /\ mainTotal \in Nat /\ ioTotal \in Nat

Messages ==
    /\ toReceiver \in Seq({"metadata", "EOT"})
    /\ toSender \in Seq(Answers) /\ inbox \in Seq(Answers) /\ reported \subseteq Answers

\* The fragments were sent from the first on, and the last ones posted are queued.
SentFirst == \A i \in 1 .. Len(sent) : sent[i] = i
QueuedLast == \A j \in 1 .. Len(queue) : queue[j] = posted - Len(queue) + j
Lengths ==
    /\ Len(sent) + Len(queue) <= posted
    /\ ~should_stop \/ io = "send" => Len(sent) + Len(queue) = posted
    /\ io = "send" => queue # <<>>
Sent == SentFirst /\ QueuedLast /\ Lengths

AfterStop == should_stop => Len(sent) <= atStop + (IF io = "send" THEN 0 ELSE 1)

\* What is counted: the fragments whose sending has been, and the EOT.
Counted == Len(sent) - (IF io = "count" THEN 1 ELSE 0)
CountedEot == IF main \in {"metadata", "fragments", "count"} THEN 0 ELSE 1

\* A thread may overwrite what the other has added, never add what was not sent.
Totals ==
    /\ io = "count" => Len(sent) >= 1 /\ ioTotal <= Counted + CountedEot
    /\ main = "count" => mainTotal <= Counted
    /\ total <= Counted + CountedEot

IInv == Types /\ Messages /\ Sent /\ AfterStop /\ Totals

LEMMA TailFacts ==
    ASSUME NEW S, NEW s \in Seq(S), s # <<>>
    PROVE  /\ Len(s) \in Nat \ {0} /\ Head(s) = s[1] /\ Head(s) \in S
           /\ Tail(s) \in Seq(S) /\ Len(Tail(s)) = Len(s) - 1
           /\ \A i \in 1 .. Len(s) - 1 : Tail(s)[i] = s[i + 1]
<1>1. Len(s) \in Nat /\ Len(s) > 0
  BY EmptySeq
<1> QED
  BY <1>1

LEMMA AppendFacts ==
    ASSUME NEW S, NEW s \in Seq(S), NEW e \in S
    PROVE  /\ Append(s, e) \in Seq(S) /\ Len(Append(s, e)) = Len(s) + 1
           /\ Append(s, e)[Len(s) + 1] = e
           /\ \A i \in 1 .. Len(s) : Append(s, e)[i] = s[i]
OBVIOUS

LEMMA ElementsOf ==
    ASSUME NEW S, NEW T, NEW s \in Seq(S), \A i \in 1 .. Len(s) : s[i] \in T
    PROVE  s \in Seq(T)
<1>1. Len(s) \in Nat /\ s \in [1 .. Len(s) -> S]
  BY LenProperties
<1>2. s \in [1 .. Len(s) -> T]
  BY <1>1
<1> QED
  BY <1>1, <1>2

-----------------------------------------------------------------------------
LEMMA InitInv == Init => IInv
<1> SUFFICES ASSUME Init PROVE IInv
  OBVIOUS
<1>1. Types
  <2>1. <<>> \in Seq(Nat) /\ 0 \in 0 .. NumFragments
    OBVIOUS
  <2> QED
    BY <2>1 DEF Init, Types
<1>3. Messages
  BY DEF Init, Messages
<1>2. Sent /\ AfterStop /\ Totals
  BY DEF Init, Sent, SentFirst, QueuedLast, Lengths, AfterStop, Totals, Counted, CountedEot
<1> QED
  BY <1>1, <1>2, <1>3 DEF IInv

LEMMA StutterInv == IInv /\ UNCHANGED vars => IInv'
<1> SUFFICES ASSUME IInv, UNCHANGED vars PROVE IInv'
  OBVIOUS
<1> USE DEF vars, flags, counts, wires, reader
<1>1. Types' /\ Messages'
  BY DEF IInv, Types, Messages
<1>2. Sent' /\ AfterStop' /\ Totals'
  BY DEF IInv, Sent, SentFirst, QueuedLast, Lengths, AfterStop, Totals, Counted, CountedEot
<1> QED
  BY <1>1, <1>2 DEF IInv

(* The sequences of fragments are those of before unless a fragment is posted, sent or   *)
(* dropped.                                                                              *)
LEMMA MainInv == IInv /\ MainThread => IInv'
<1> SUFFICES ASSUME IInv, MainThread PROVE IInv'
  OBVIOUS
<1> USE DEF flags, counts, wires, reader
<1>0. Types /\ Messages /\ Sent /\ AfterStop /\ Totals
  BY DEF IInv
<1>l. Len(sent) \in Nat /\ Len(queue) \in Nat
  BY <1>0 DEF Types
<1>1. CASE send_metadata
  <2>1. Types' /\ Messages'
    BY <1>0, <1>1 DEF send_metadata, Types, Messages
  <2>2. Sent' /\ AfterStop'
    BY <1>0, <1>1 DEF send_metadata, Sent, SentFirst, QueuedLast, Lengths, AfterStop
  <2>3. Totals'
    BY <1>0, <1>1 DEF send_metadata, Types, Totals, Counted, CountedEot
  <2> QED
    BY <2>1, <2>2, <2>3 DEF IInv
<1>2. CASE send_fragments
  <2>1. /\ queue' \in Seq(Nat) /\ Len(queue') = Len(queue) + 1 /\ posted' = posted + 1
        /\ queue'[Len(queue) + 1] = posted + 1
        /\ \A i \in 1 .. Len(queue) : queue'[i] = queue[i]
    BY <1>0, <1>2, AppendFacts DEF send_fragments, Types
  <2>2. Types' /\ Messages'
    BY <1>0, <1>2, <2>1 DEF send_fragments, Types, Messages
  <2>3. Sent'
    <3>1. SentFirst'
      BY <1>0, <1>2 DEF send_fragments, Sent, SentFirst
    <3>2. QueuedLast'
      <4> SUFFICES ASSUME NEW j \in 1 .. Len(queue) + 1
                   PROVE  queue'[j] = posted' - (Len(queue) + 1) + j
        BY <2>1 DEF QueuedLast
      <4>1. j \in 1 .. Len(queue) => queue[j] = posted - Len(queue) + j
        BY <1>0 DEF Sent, QueuedLast
      <4> QED
        BY <1>0, <1>l, <2>1, <4>1 DEF Types
    <3>3. queue' # <<>>
      BY <1>l, <2>1, EmptySeq
    <3>4. Lengths'
      <4>1. ~should_stop /\ UNCHANGED <<io, sent, should_stop>>
        BY <1>2 DEF send_fragments
      <4>2. Len(sent) + Len(queue) = posted /\ posted \in Nat
        BY <1>0, <4>1 DEF Sent, Lengths, Types
      <4> QED
        BY <1>l, <2>1, <3>3, <4>1, <4>2 DEF Lengths
    <3> QED
      BY <3>1, <3>2, <3>4 DEF Sent
  <2>4. AfterStop' /\ Totals'
    BY <1>0, <1>2 DEF send_fragments, Types, AfterStop, Totals, Counted, CountedEot
  <2> QED
    BY <2>2, <2>3, <2>4 DEF IInv
<1>3. CASE send_eot
  <2>1. Types' /\ Messages'
    BY <1>0, <1>3 DEF send_eot, Types, Messages
  <2>2. Sent' /\ AfterStop'
    BY <1>0, <1>3 DEF send_eot, Sent, SentFirst, QueuedLast, Lengths, AfterStop
  <2>3. Totals'
    BY <1>0, <1>3 DEF send_eot, Types, Totals, Counted, CountedEot
  <2> QED
    BY <2>1, <2>2, <2>3 DEF IInv
<1>4. CASE count_eot
  <2>1. Types' /\ Messages'
    BY <1>0, <1>4 DEF count_eot, Types, Messages
  <2>2. Sent' /\ AfterStop'
    BY <1>0, <1>4 DEF count_eot, Sent, SentFirst, QueuedLast, Lengths, AfterStop
  <2>3. Totals'
    BY <1>0, <1>4, <1>l DEF count_eot, Types, Totals, Counted, CountedEot
  <2> QED
    BY <2>1, <2>2, <2>3 DEF IInv
<1>5. CASE stop
  <2>1. Types' /\ Messages'
    BY <1>0, <1>5, <1>l DEF stop, Types, Messages
  <2>2. Sent'
    BY <1>0, <1>5 DEF stop, Sent, SentFirst, QueuedLast, Lengths
  <2>3. AfterStop'
    BY <1>0, <1>5, <1>l DEF stop, AfterStop
  <2>4. Totals'
    BY <1>0, <1>5 DEF stop, Types, Totals, Counted, CountedEot
  <2> QED
    BY <2>1, <2>2, <2>3, <2>4 DEF IInv
<1>6. CASE complete \/ close_tcp \/ close_udp \/ join
  <2> USE DEF complete, close_tcp, close_udp, join
  <2>1. Types' /\ Messages'
    BY <1>0, <1>6 DEF Types, Messages
  <2>2. Sent' /\ AfterStop'
    <3>1. UNCHANGED <<posted, queue, sent, should_stop, atStop>> /\ (io' = "send" <=> io = "send")
      BY <1>6
    <3> QED
      BY <1>0, <3>1 DEF Sent, SentFirst, QueuedLast, Lengths, AfterStop
  <2>3. Totals'
    BY <1>0, <1>6 DEF Types, Totals, Counted, CountedEot
  <2> QED
    BY <2>1, <2>2, <2>3 DEF IInv
<1> QED
  BY <1>1, <1>2, <1>3, <1>4, <1>5, <1>6 DEF MainThread

LEMMA IoInv == IInv /\ IoThread => IInv'
<1> SUFFICES ASSUME IInv, IoThread PROVE IInv'
  OBVIOUS
<1> USE DEF flags, counts, wires, reader
<1>0. Types /\ Messages /\ Sent /\ AfterStop /\ Totals
  BY DEF IInv
<1>l. Len(sent) \in Nat /\ Len(queue) \in Nat
  BY <1>0 DEF Types
<1>1. CASE begin_send
  <2>1. CASE should_stop
    <3>1. /\ queue' \in Seq(Nat) /\ Len(queue') = Len(queue) - 1 /\ Len(queue) >= 1
          /\ \A i \in 1 .. Len(queue) - 1 : queue'[i] = queue[i + 1]
      <4>1. queue \in Seq(Nat) /\ queue # <<>> /\ queue' = Tail(queue)
        BY <1>0, <1>1, <2>1 DEF begin_send, Skips, Types
      <4> QED
        BY <4>1, TailFacts
    <3>2. /\ UNCHANGED <<main, io, posted, sent, should_stop, total, mainTotal, ioTotal,
                         toReceiver, toSender, inbox, reported, atStop>>
          /\ io = "idle"
      BY <1>1, <2>1 DEF begin_send, Skips
    <3>3. Types' /\ Messages'
      BY <1>0, <3>1, <3>2 DEF Types, Messages
    <3>4. SentFirst' /\ Lengths'
      BY <1>0, <1>l, <2>1, <3>1, <3>2 DEF Types, Sent, SentFirst, Lengths
    <3>6. QueuedLast'
      BY <1>0, <1>l, <3>1, <3>2 DEF Types, Sent, QueuedLast
    <3>5. AfterStop' /\ Totals'
      BY <1>0, <3>2 DEF Types, AfterStop, Totals, Counted, CountedEot
    <3> QED
      BY <3>3, <3>4, <3>5, <3>6 DEF IInv, Sent
  <2>2. CASE ~should_stop
    <3>1. Types' /\ Messages'
      BY <1>0, <1>1, <2>2 DEF begin_send, Skips, Types, Messages
    <3>2. Sent' /\ AfterStop'
      BY <1>0, <1>1, <2>2 DEF begin_send, Skips, Sent, SentFirst, QueuedLast, Lengths, AfterStop
    <3>3. Totals'
      BY <1>0, <1>1, <2>2 DEF begin_send, Skips, Types, Totals, Counted, CountedEot
    <3> QED
      BY <3>1, <3>2, <3>3 DEF IInv
  <2> QED
    BY <2>1, <2>2
<1>2. CASE send_to
  <2>1. queue # <<>> /\ Len(sent) + Len(queue) = posted
    BY <1>0, <1>2 DEF send_to, Sent, Lengths
  <2>2. /\ queue' \in Seq(Nat) /\ Len(queue') = Len(queue) - 1 /\ Len(queue) >= 1
        /\ \A i \in 1 .. Len(queue) - 1 : queue'[i] = queue[i + 1]
        /\ Head(queue) \in Nat /\ Head(queue) = queue[1]
    BY <1>0, <1>2, <2>1, TailFacts DEF send_to, Types
  <2>3. /\ sent' \in Seq(Nat) /\ Len(sent') = Len(sent) + 1
        /\ sent'[Len(sent) + 1] = Head(queue)
        /\ \A i \in 1 .. Len(sent) : sent'[i] = sent[i]
    BY <1>0, <1>2, <2>2, AppendFacts DEF send_to, Types
  <2>4. Types' /\ Messages'
    BY <1>0, <1>2, <2>2, <2>3 DEF send_to, Types, Messages
  <2>5. Sent'
    <3>1. Head(queue) = Len(sent) + 1
      BY <1>0, <1>l, <2>1, <2>2 DEF Types, Sent, QueuedLast
    <3>2. SentFirst'
      BY <1>0, <1>l, <2>3, <3>1 DEF Sent, SentFirst
    <3>3. QueuedLast'
      BY <1>0, <1>2, <1>l, <2>2 DEF send_to, Types, Sent, QueuedLast
    <3>4. Len(sent') + Len(queue') = posted' /\ io' = "count"
      BY <1>0, <1>2, <1>l, <2>1, <2>2, <2>3 DEF send_to
    <3> QED
      BY <1>0, <1>2, <3>2, <3>3, <3>4 DEF Types, Sent, Lengths
  <2>6. AfterStop'
    BY <1>0, <1>2, <1>l, <2>3 DEF send_to, Types, AfterStop
  <2>7. Totals'
    BY <1>0, <1>2, <1>l, <2>3 DEF send_to, Types, Totals, Counted, CountedEot
  <2> QED
    BY <2>4, <2>5, <2>6, <2>7 DEF IInv
<1>3. CASE send_throws
  <2>1. Types' /\ Messages'
    BY <1>0, <1>3 DEF send_throws, Types, Messages
  <2>2. Sent' /\ AfterStop'
    BY <1>0, <1>3, <1>l DEF send_throws, Types, Sent, SentFirst, QueuedLast, Lengths, AfterStop
  <2>3. Totals'
    BY <1>0, <1>3, <1>l DEF send_throws, Types, Totals, Counted, CountedEot
  <2> QED
    BY <2>1, <2>2, <2>3 DEF IInv
<1>4. CASE count_sent
  <2>1. Types' /\ Messages'
    BY <1>0, <1>4 DEF count_sent, Types, Messages
  <2>2. Sent' /\ AfterStop'
    BY <1>0, <1>4 DEF count_sent, Sent, SentFirst, QueuedLast, Lengths, AfterStop
  <2>3. Totals'
    BY <1>0, <1>4, <1>l DEF count_sent, Types, Totals, Counted, CountedEot
  <2> QED
    BY <2>1, <2>2, <2>3 DEF IInv
<1>5. CASE read_message \/ handle_tcp_message
  <2>1. Messages'
    <3>1. CASE read_message
      <4>1. toSender' \in Seq(Answers) /\ inbox' \in Seq(Answers)
        BY <1>0, <3>1, TailFacts, AppendFacts DEF read_message, Messages
      <4> QED
        BY <1>0, <3>1, <4>1 DEF read_message, Messages
    <3>2. CASE handle_tcp_message
      <4>1. inbox' \in Seq(Answers) /\ Head(inbox) \in Answers
        BY <1>0, <3>2, TailFacts DEF handle_tcp_message, Messages
      <4> QED
        BY <1>0, <3>2, <4>1 DEF handle_tcp_message, Messages
    <3> QED
      BY <1>5, <3>1, <3>2
  <2>2. UNCHANGED <<main, io, posted, queue, sent, should_stop, total, mainTotal, ioTotal, atStop>>
    BY <1>5 DEF read_message, handle_tcp_message
  <2>3. Types' /\ Sent' /\ AfterStop' /\ Totals'
    BY <1>0, <2>2 DEF Types, Sent, SentFirst, QueuedLast, Lengths, AfterStop, Totals, Counted,
                      CountedEot
  <2> QED
    BY <2>1, <2>3 DEF IInv
<1>6. CASE read_error \/ end_io
  <2> USE DEF read_error, end_io
  <2>1. Types' /\ Messages'
    BY <1>0, <1>6 DEF Types, Messages
  <2>2. Sent' /\ AfterStop'
    <3>1. UNCHANGED <<posted, queue, sent, should_stop, atStop>> /\ (io' = "send" <=> io = "send")
      BY <1>6
    <3> QED
      BY <1>0, <3>1 DEF Sent, SentFirst, QueuedLast, Lengths, AfterStop
  <2>3. Totals'
    BY <1>0, <1>6 DEF Types, Totals, Counted, CountedEot
  <2> QED
    BY <2>1, <2>2, <2>3 DEF IInv
<1> QED
  BY <1>1, <1>2, <1>3, <1>4, <1>5, <1>6 DEF IoThread

LEMMA ReceiverInv == IInv /\ (send_fragments_report \/ receive_tcp_message) => IInv'
<1> SUFFICES ASSUME IInv, send_fragments_report \/ receive_tcp_message PROVE IInv'
  OBVIOUS
<1> USE DEF flags, counts, wires, reader
<1>0. Types /\ Messages /\ Sent /\ AfterStop /\ Totals
  BY DEF IInv
<1>1. UNCHANGED <<main, io, posted, queue, sent, should_stop, total, mainTotal, ioTotal, atStop,
                  inbox, reported>>
  BY DEF send_fragments_report, receive_tcp_message
<1>2. Types' /\ Sent' /\ AfterStop' /\ Totals'
  BY <1>0, <1>1 DEF Types, Sent, SentFirst, QueuedLast, Lengths, AfterStop, Totals, Counted,
                    CountedEot
<1>3. \A a \in Answers : Answered(a) \in Seq(Answers)
  BY <1>0, AppendFacts DEF Messages, Answered
<1>4. Messages'
  <2>1. CASE send_fragments_report
    BY <1>0, <1>1, <1>3, <2>1 DEF send_fragments_report, Messages, Answers
  <2>2. CASE receive_tcp_message
    <3>1. toReceiver' \in Seq({"metadata", "EOT"})
      BY <1>0, <2>2, TailFacts DEF receive_tcp_message, Messages
    <3>2. toSender' \in Seq(Answers)
      BY <1>0, <1>3, <2>2 DEF receive_tcp_message, Messages, Answers
    <3> QED
      BY <1>0, <1>1, <3>1, <3>2 DEF Messages
  <2> QED
    BY <2>1, <2>2
<1> QED
  BY <1>2, <1>4 DEF IInv

(* The invariant of the two threads: it holds whatever they interleave.                   *)
THEOREM Invariant == Spec => []IInv
<1>1. IInv /\ [Next]_vars => IInv'
  BY MainInv, IoInv, ReceiverInv, StutterInv DEF Next
<1> QED
  BY <1>1, InitInv, PTL DEF Spec

-----------------------------------------------------------------------------
(* send_eot, stop_transmission and the handlers of send_fragments: after should_stop_ is  *)
(* set only the fragment whose handler had looked at it before is still sent, with any    *)
(* number of fragments and however the threads interleave.                                *)
THEOREM StopsWithinOne == Spec => []OneAfterStop
<1>1. IInv => OneAfterStop
  <2> SUFFICES ASSUME IInv, should_stop PROVE Len(sent) <= atStop + 1
    BY DEF OneAfterStop
  <2>1. atStop \in Nat /\ Len(sent) \in Nat
    BY DEF IInv, Types
  <2> QED
    BY <2>1 DEF IInv, AfterStop
<1> QED
  BY <1>1, Invariant, PTL

(* What the stop leaves out is at the end: the fragments sent are the first ones, each    *)
(* once and in the order of send_fragments.                                               *)
SentIsPrefix == Len(sent) <= posted /\ \A i \in 1 .. Len(sent) : sent[i] = i

THEOREM SendsInOrder == Spec => []SentIsPrefix
<1>1. IInv => SentIsPrefix
  <2> SUFFICES ASSUME IInv PROVE SentIsPrefix
    OBVIOUS
  <2>1. posted \in Nat /\ Len(sent) \in Nat /\ Len(queue) \in Nat
    BY DEF IInv, Types
  <2> QED
    BY <2>1 DEF IInv, Sent, SentFirst, Lengths, SentIsPrefix
<1> QED
  BY <1>1, Invariant, PTL

(* The types; among them, total_bytes_sent_ never passes the fragments and the EOT,       *)
(* although two threads add to it without a lock.                                         *)
THEOREM TypeCorrect == Spec => []TypeOK
<1>1. IInv => TypeOK
  <2> SUFFICES ASSUME IInv PROVE TypeOK
    OBVIOUS
  <2>0. Types /\ Messages /\ Sent /\ Totals
    BY DEF IInv
  <2>1. /\ Len(sent) \in Nat /\ Len(queue) \in Nat /\ Len(sent) + Len(queue) <= posted
        /\ posted \in 0 .. NumFragments
    BY <2>0 DEF Types, Sent, Lengths
  <2>2. total \in 0 .. NumFragments + 1
    BY <2>0, <2>1 DEF Types, Totals, Counted, CountedEot
  <2>3. queue \in Seq(1 .. posted) /\ sent \in Seq(1 .. posted)
    <3>1. \A i \in 1 .. Len(sent) : sent[i] \in 1 .. posted
      BY <2>0, <2>1 DEF Sent, SentFirst
    <3>2. \A j \in 1 .. Len(queue) : queue[j] \in 1 .. posted
      <4> SUFFICES ASSUME NEW j \in 1 .. Len(queue) PROVE queue[j] \in 1 .. posted
        OBVIOUS
      <4>1. queue[j] = posted - Len(queue) + j
        BY <2>0 DEF Sent, QueuedLast
      <4> QED
        BY <2>1, <4>1
    <3> QED
      BY <2>0, <3>1, <3>2, ElementsOf DEF Types
  <2> QED
    BY <2>0, <2>2, <2>3 DEF Types, Messages, TypeOK
<1> QED
  BY <1>1, Invariant, PTL
=============================================================================
