------------------------------- MODULE GoBackN -------------------------------
(***************************************************************************)
(* src/other/simpy/tcp_no_sack.py: cumulative acknowledgments, go-back-N   *)
(* after DUP_ACK_THRESHOLD duplicates, and retransmission of old packets,  *)
(* between Sender.send and Sender.handle_ack, which share unacked_pkt      *)
(* under a lock and latest_ack_id without it.  Both links are FIFO; a      *)
(* packet that leaves the link is handled by the receiver in that instant. *)
(***************************************************************************)
EXTENDS Integers, FiniteSets, Sequences

CONSTANTS NumPackets,       \* fragments of all tiers
          WindowSize,       \* WINDOW_SIZE
          DupAckThreshold,  \* DUP_ACK_THRESHOLD
          MaxLosses,        \* bound: loss events
          MaxTransit        \* bound: packets on their way, where the program has none

ASSUME GoBackNAssumption ==
    /\ NumPackets \in Nat \ {0} /\ WindowSize \in Nat \ {0}
    /\ DupAckThreshold \in Nat \ {0} /\ MaxLosses \in Nat /\ MaxTransit \in Nat \ {0}

Ids == 0 .. NumPackets - 1

VARIABLES
    pc,                     \* where Sender.send is
    pkt_id,                 \* the next packet of send
    k,                      \* the loop variable of a retransmission loop
    unacked_pkt,            \* the keys of unacked_pkt
    old,                    \* of these, sent more than RETRANSMISSION_TIMEOUT ago
    latest_ack_id,
    latest_ack_id_count,    \* up to DupAckThreshold, past which nothing looks at it
    recording,              \* handle_ack has an acknowledgment and waits for the lock
    trans_link, ack_link,   \* packets and acknowledgments on their way
    loss, losses,           \* the loss store, of capacity 1, and events so far
    expected_next_pkt       \* Receiver.expected_next_pkt
acker == <<latest_ack_id, latest_ack_id_count, recording>>
net == <<trans_link, ack_link, loss, losses, expected_next_pkt>>
vars == <<pc, pkt_id, k, unacked_pkt, old, acker, net>>

\* Places of send.  It holds the lock in the retransmission loops only.
Loops == {"goback", "scan", "drain goback", "drain scan"}
Places == {"send", "check", "window", "drain", "done"} \cup Loops

Init ==
    /\ pc = "send" /\ pkt_id = 0 /\ k = 0
    /\ unacked_pkt = {} /\ old = {}
    /\ latest_ack_id = 0 /\ latest_ack_id_count = 0 /\ recording = FALSE
    /\ trans_link = <<>> /\ ack_link = <<>> /\ loss = 0 /\ losses = 0
    /\ expected_next_pkt = 0

-----------------------------------------------------------------------------
(* Sender.send                                                              *)

Put(p) == Len(trans_link) < MaxTransit /\ trans_link' = Append(trans_link, p)

\* The next fragment.
put_next ==
    /\ pc = "send"
    /\ Put(pkt_id)
    /\ unacked_pkt' = unacked_pkt \cup {pkt_id}
    /\ pkt_id' = pkt_id + 1
    /\ pc' = "check"
    /\ UNCHANGED <<k, old, acker, ack_link, loss, losses, expected_next_pkt>>

Following == IF pkt_id < NumPackets THEN "send" ELSE "drain"
AfterCheck == IF pkt_id % WindowSize = 0 THEN "window" ELSE Following

Duplicates == latest_ack_id_count >= DupAckThreshold

\* Mutant of GoBackFrom: the loop starts at the last packet acknowledged.
GoBackFromAcked == latest_ack_id - 1
GoBackFrom == latest_ack_id

\* With the lock: start going back, or go on.
check ==
    /\ pc = "check"
    /\ IF Duplicates THEN pc' = "goback" /\ k' = GoBackFrom
                     ELSE pc' = AfterCheck /\ UNCHANGED k
    /\ UNCHANGED <<pkt_id, unacked_pkt, old, acker, net>>

\* Every WINDOW_SIZE packets, with the lock: start looking for old packets.
window ==
    /\ pc = "window"
    /\ pc' = "scan" /\ k' = 0
    /\ UNCHANGED <<pkt_id, unacked_pkt, old, acker, net>>

\* After the last fragment, again and again: the one or the other.
drain ==
    /\ pc = "drain"
    /\ IF Duplicates THEN pc' = "drain goback" /\ k' = GoBackFrom
                     ELSE pc' = "drain scan" /\ k' = 0
    /\ UNCHANGED <<pkt_id, unacked_pkt, old, acker, net>>

\* A packet of a loop is sent again; the lock is kept while it is.
resend(p) ==
    /\ Put(p)
    /\ old' = old \ {p}
    /\ k' = p + 1
    /\ UNCHANGED <<pc, pkt_id, unacked_pkt, acker, ack_link, loss, losses, expected_next_pkt>>

goback ==
    /\ pc \in {"goback", "drain goback"}
    /\ k < pkt_id
    /\ resend(k)

\* Mutant of Stale: only duplicate acknowledgments lead to a retransmission.
StaleNone == {}
Stale == {p \in old : p >= k}

scan ==
    /\ pc \in {"scan", "drain scan"}
    /\ \E p \in Stale : (\A q \in Stale : p <= q) /\ resend(p)

\* The end of a loop releases the lock; draining ends when nothing is unacknowledged.
\* Mutant of Drained: the last loop is taken for the end.
DrainedAlways == TRUE
Drained == unacked_pkt = {}

end_loop ==
    /\ \/ pc \in {"goback", "drain goback"} /\ k >= pkt_id
       \/ pc \in {"scan", "drain scan"} /\ Stale = {}
    /\ pc' = CASE pc = "goback" -> AfterCheck
               [] pc = "scan" -> Following
               [] OTHER -> IF Drained THEN "done" ELSE "drain"
    /\ UNCHANGED <<pkt_id, k, unacked_pkt, old, acker, net>>

Sender == put_next \/ check \/ window \/ drain \/ goback \/ scan \/ end_loop

\* The clock: a packet has been unacknowledged for longer than the timeout.
age(p) ==
    /\ p \in unacked_pkt \ old
    /\ old' = old \cup {p}
    /\ UNCHANGED <<pc, pkt_id, k, unacked_pkt, acker, net>>

-----------------------------------------------------------------------------
(* Sender.handle_ack                                                        *)

\* latest_ack_id is assigned before the lock is asked for.
take_ack ==
    /\ ~recording /\ ack_link # <<>>
    /\ latest_ack_id' = Head(ack_link)
    /\ ack_link' = Tail(ack_link)
    /\ recording' = TRUE
    /\ UNCHANGED <<pc, pkt_id, k, unacked_pkt, old, latest_ack_id_count, trans_link, loss, losses,
                   expected_next_pkt>>

\* Mutant of Acked: the number in the acknowledgment is taken for that of the packet.
AckedNext == latest_ack_id
Acked == latest_ack_id - 1

record_ack ==
    /\ recording /\ pc \notin Loops
    /\ recording' = FALSE
    /\ unacked_pkt' = unacked_pkt \ {Acked}
    /\ old' = old \ {Acked}
    /\ latest_ack_id_count' = IF Acked \in unacked_pkt THEN 1
                              ELSE IF Duplicates THEN latest_ack_id_count
                              ELSE latest_ack_id_count + 1
    /\ UNCHANGED <<pc, pkt_id, k, latest_ack_id, net>>

-----------------------------------------------------------------------------
(* Links and Receiver.receive                                               *)

\* Mutant of loss_gen: the store holds any number of events.
loss_gen_any ==
    /\ losses < MaxLosses
    /\ loss' = loss + 1 /\ losses' = losses + 1
    /\ UNCHANGED <<pc, pkt_id, k, unacked_pkt, old, acker, trans_link, ack_link, expected_next_pkt>>

\* random_expovariate_loss_gen_gaus waits while an event is in the store.
loss_gen ==
    /\ losses < MaxLosses /\ loss = 0
    /\ loss' = 1 /\ losses' = losses + 1
    /\ UNCHANGED <<pc, pkt_id, k, unacked_pkt, old, acker, trans_link, ack_link, expected_next_pkt>>

drop ==
    /\ loss = 1 /\ trans_link # <<>>
    /\ loss' = 0
    /\ trans_link' = Tail(trans_link)
    /\ UNCHANGED <<pc, pkt_id, k, unacked_pkt, old, acker, ack_link, losses, expected_next_pkt>>

\* A further copy of an acknowledgment that is on its way DupAckThreshold + 1 times changes
\* nothing at the sender and is left out.
Copies(a) == Cardinality({i \in DOMAIN ack_link : ack_link[i] = a})

\* Only the expected packet is kept; what is expected next is acknowledged in any case.
receive ==
    /\ loss = 0 /\ trans_link # <<>>
    /\ trans_link' = Tail(trans_link)
    /\ expected_next_pkt' = IF Head(trans_link) = expected_next_pkt
                            THEN expected_next_pkt + 1 ELSE expected_next_pkt
    /\ ack_link' = IF Copies(expected_next_pkt') > DupAckThreshold THEN ack_link
                   ELSE Append(ack_link, expected_next_pkt')
    /\ UNCHANGED <<pc, pkt_id, k, unacked_pkt, old, acker, loss, losses>>

Next ==
    \/ Sender \/ (\E p \in Ids : age(p))
    \/ take_ack \/ record_ack
    \/ loss_gen \/ drop \/ receive

Spec == Init /\ [][Next]_vars

\* The lock is granted in the order of the requests, so handle_ack gets it although send
\* takes it again and again: strong fairness.
FairSpec ==
    /\ Spec
    /\ WF_vars(Sender) /\ (\A p \in Ids : WF_vars(age(p)))
    /\ WF_vars(take_ack) /\ SF_vars(record_ack)
    /\ WF_vars(drop \/ receive)

-----------------------------------------------------------------------------
(* Properties                                                               *)

TypeOK ==
    /\ pc \in Places
    /\ pkt_id \in 0 .. NumPackets /\ k \in 0 .. NumPackets
    /\ unacked_pkt \in SUBSET Ids /\ old \in SUBSET unacked_pkt
    /\ latest_ack_id \in 0 .. NumPackets /\ latest_ack_id_count \in 0 .. DupAckThreshold
    /\ recording \in BOOLEAN
    /\ trans_link \in Seq(Ids) /\ ack_link \in Seq(0 .. NumPackets)
    /\ loss \in 0 .. 1 /\ losses \in 0 .. MaxLosses
    /\ expected_next_pkt \in 0 .. NumPackets

\* The going-back loop reads unacked_pkt[k] for a range fixed when it began, while
\* handle_ack moves latest_ack_id on without the lock: every key is still there.
KeysPresent ==
    pc \in {"goback", "drain goback"} => \A p \in Ids : p >= k /\ p < pkt_id => p \in unacked_pkt

\* A packet leaves unacked_pkt only once it was delivered, whatever was lost or sent twice.
AckedWasDelivered == \A p \in 0 .. pkt_id - 1 : p \in unacked_pkt \/ p < expected_next_pkt

Promise == INSTANCE InOrderDelivery
               WITH delivered <- expected_next_pkt, finished <- (pc = "done")

\* The transfer as a whole delivers in order, each packet once, and send returns only after
\* the last of them.
DeliversInOrder == Promise!Safe

\* And when the losses stop, all is delivered and send returns: no interleaving of the
\* retransmission loops and handle_ack leaves a packet that is never sent again.
DeliversAll == Promise!Spec
=============================================================================
