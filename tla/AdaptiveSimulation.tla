-------------------------- MODULE AdaptiveSimulation --------------------------
(***************************************************************************)
(* src/other/simpy/simulationadaptive.py: the simulation in which the      *)
(* sender changes the parity of later chunks when the receiver reports     *)
(* losses.  The fragments of a chunk are generated when the chunk is       *)
(* reached, so a change of tier_m takes effect in the middle of a tier.    *)
(* The link is FIFO: every packet is delayed by the same time; a packet    *)
(* that leaves it is handled by the receiver in the same instant.          *)
(***************************************************************************)
EXTENDS Integers, FiniteSets, Sequences, SequencesExt, FiniteSetsExt

CONSTANTS NumTiers,     \* the length of tier_frags_num
          N,            \* n: fragments of a full chunk
          Frags,        \* tier_frags_num
          Ms,           \* the values find_min_time_configuration may return
          BatchSize,    \* CHUNK_BATCH_SIZE
          MaxLosses     \* bound: loss events the generator produces

Tiers == 0 .. NumTiers - 1

ASSUME AdaptiveSimulationAssumption ==
    /\ NumTiers \in Nat \ {0} /\ N \in Nat \ {0} /\ BatchSize \in Nat \ {0}
    /\ Frags \in [Tiers -> Nat \ {0}]
    /\ Ms # {} /\ Ms \subseteq 0 .. N - 1
    /\ MaxLosses \in Nat

VARIABLES
    jobs,           \* the sending processes, each a record of where it is
    tier_m,         \* Sender.tier_m
    fragments_sent, \* Sender.fragments_sent: put on the link since the last control message
    transit,        \* the packets being delayed
    loss, losses,   \* events in link.loss, events generated so far
    received,       \* all_tier_frags_received
    required,       \* all_tier_per_chunk_data_frags_num
    fragment_count, \* Receiver.fragment_count
    first,          \* first_frag_time: "none", "now" (this very instant) or "earlier"
    ended,          \* Receiver.end_time is set
    crashed,        \* an exception has left env.run
    generated,      \* history: the data of every chunk as it was first generated
    dropped,        \* history: fragments the link dropped since the last control message
    got,            \* history: the fragments that reached the receiver
    changed         \* history: a report has changed the parity
sender == <<jobs, tier_m, fragments_sent>>
receiver == <<received, required, fragment_count, first, ended>>
history == <<generated, dropped, got, changed>>
vars == <<sender, transit, loss, losses, receiver, crashed, history>>

-----------------------------------------------------------------------------
\* Mutant of LastChunk: the number of full chunks taken for the number of chunks.
LastFullChunk(t) == Frags[t] \div (N - tier_m[t]) - 1

LastChunk(t) == Frags[t] \div (N - tier_m[t])

Min2(a, b) == IF a < b THEN a ELSE b

Has(f, k, otherwise) == IF k \in DOMAIN f THEN f[k] ELSE otherwise
Put(f, k, v) == [x \in DOMAIN f \cup {k} |-> IF x = k THEN v ELSE f[x]]
PutNew(f, k, v) == IF k \in DOMAIN f THEN f ELSE Put(f, k, v)

\* generate_chunk_fragments: the data indices of a chunk under the parity of this moment
\* (m in a data fragment is history: the program does not send it).
DataOf(t, c) ==
    LET start == c * (N - tier_m[t])
    IN  start .. Min2(start + (N - tier_m[t]), Frags[t]) - 1

generate_chunk_fragments(t, c) ==
    LET data == DataOf(t, c)
        k == Cardinality(data)
        start == c * (N - tier_m[t])
    IN  [i \in 1 .. k |-> [type |-> "data", tier |-> t, chunk |-> c, k |-> k, m |-> tier_m[t],
                       index |-> start + i - 1]]
        \o [p \in 1 .. tier_m[t] |->
                [type |-> "parity", tier |-> t, chunk |-> c, m |-> tier_m[t], index |-> k + p - 1]]

last_fragment == [type |-> "last_fragment"]
control(n, again) == [type |-> "control", fragments_sent |-> n, later |-> again]

\* A process in front of chunk c of tier t: send goes on to the chunk last, retransmit_chunks
\* to the chunks in todo.
Sending(t) == [kind |-> "send", tier |-> t, chunk |-> 0, last |-> LastChunk(t),
               todo |-> <<>>, begun |-> FALSE, left |-> <<>>, batch |-> 0]
Resending(todo) == [kind |-> "resend", tier |-> todo[1][1], chunk |-> todo[1][2], last |-> 0,
                    todo |-> Tail(todo), begun |-> FALSE, left |-> <<>>, batch |-> 0]

Init ==
    /\ \E m \in Ms : tier_m = [t \in Tiers |-> m]
    /\ jobs = <<Sending(0)>>
    /\ fragments_sent = 0
    /\ transit = <<>> /\ loss = 0 /\ losses = 0
    /\ received = <<>> /\ required = <<>>
    /\ fragment_count = 0 /\ first = "none"
    /\ ended = FALSE /\ crashed = FALSE
    /\ generated = <<>> /\ dropped = 0 /\ got = {} /\ changed = FALSE

-----------------------------------------------------------------------------
(* Sender                                                                   *)

\* Mutant of Counted: the fragments of a resent chunk are counted twice.
CountedAlways(kind, n) == n
\* What a chunk of n fragments adds to fragments_sent when it begins.
Counted(kind, n) == IF kind = "send" THEN n ELSE 0

\* The process reaches a chunk.  send counts all its fragments at once as sent.
begin_chunk(i) ==
    /\ ~crashed /\ ~jobs[i].begun
    /\ LET t == jobs[i].tier
           c == jobs[i].chunk
           frags == generate_chunk_fragments(t, c)
       IN /\ jobs' = [jobs EXCEPT ![i] = [jobs[i] EXCEPT !.begun = TRUE, !.left = frags]]
          /\ fragments_sent' = fragments_sent + Counted(jobs[i].kind, Len(frags))
          /\ generated' = PutNew(generated, <<t, c>>, DataOf(t, c))
    /\ UNCHANGED <<tier_m, transit, loss, losses, receiver, crashed, dropped, got, changed>>

\* The next fragment of the chunk, 1 / rate later.
put_fragment(i) ==
    /\ ~crashed /\ jobs[i].begun /\ jobs[i].left # <<>>
    /\ transit' = Append(transit, Head(jobs[i].left))
    /\ jobs' = [jobs EXCEPT ![i] = [jobs[i] EXCEPT !.left = Tail(@)]]
    /\ fragments_sent' = IF jobs[i].kind = "resend" THEN fragments_sent + 1 ELSE fragments_sent
    /\ UNCHANGED <<tier_m, loss, losses, receiver, crashed, history>>

\* The end of a chunk in send: a control message after a batch and at the end of the
\* tier, then the next chunk, the next tier with its own last chunk, or last_fragment.
end_sent_chunk(i) ==
    LET j == jobs[i]
        reports == j.batch + 1 = BatchSize \/ j.chunk = j.last
        tail == IF reports THEN <<control(fragments_sent, FALSE)>> ELSE <<>>
    IN  /\ ~crashed /\ j.kind = "send" /\ j.begun /\ j.left = <<>>
        /\ fragments_sent' = IF reports THEN 0 ELSE fragments_sent
        /\ \/ /\ j.chunk < j.last
              /\ jobs' = [jobs EXCEPT ![i] = [j EXCEPT !.chunk = @ + 1, !.begun = FALSE,
                                                       !.batch = IF reports THEN 0 ELSE @ + 1]]
              /\ transit' = transit \o tail
           \/ /\ j.chunk = j.last /\ j.tier < NumTiers - 1
              /\ jobs' = [jobs EXCEPT ![i] = Sending(j.tier + 1)]
              /\ transit' = transit \o tail
           \/ /\ j.chunk = j.last /\ j.tier = NumTiers - 1
              /\ jobs' = RemoveAt(jobs, i)
              /\ transit' = (transit \o tail) \o <<last_fragment>>
        /\ UNCHANGED <<tier_m, loss, losses, receiver, crashed, history>>

\* The end of a chunk in retransmit_chunks, where batch_counter starts again at every
\* chunk: a control message, one transmission time later, after the last of a tier.
end_resent_chunk(i) ==
    LET j == jobs[i]
        reports == BatchSize = 1 \/ j.todo = <<>> \/ Head(j.todo)[1] # j.tier
        tail == IF reports THEN <<control(fragments_sent, TRUE)>> ELSE <<>>
    IN  /\ ~crashed /\ j.kind = "resend" /\ j.begun /\ j.left = <<>>
        /\ fragments_sent' = IF reports THEN 0 ELSE fragments_sent
        /\ IF j.todo # <<>>
           THEN jobs' = [jobs EXCEPT ![i] = Resending(j.todo)] /\ transit' = transit \o tail
           ELSE jobs' = RemoveAt(jobs, i) /\ transit' = (transit \o tail) \o <<last_fragment>>
        /\ UNCHANGED <<tier_m, loss, losses, receiver, crashed, history>>

Send(i) == begin_chunk(i) \/ put_fragment(i) \/ end_sent_chunk(i) \/ end_resent_chunk(i)

\* calculate_packet_loss, called with the time since the first fragment of the batch, and
\* update_m_parameters: both run in the instant of the report.  calculate_lambda divides by
\* that time.
calculate_packet_loss(lost, zero) ==
    \/ lost <= 0 /\ UNCHANGED <<tier_m, crashed>>
    \/ lost > 0 /\ zero /\ crashed' = TRUE /\ UNCHANGED tier_m
    \/ /\ lost > 0 /\ ~zero
       /\ \E m \in Ms : tier_m' = [t \in Tiers |-> m]
       /\ UNCHANGED crashed

-----------------------------------------------------------------------------
(* Link and receiver                                                        *)

loss_gen ==
    /\ ~crashed /\ losses < MaxLosses
    /\ losses' = losses + 1 /\ loss' = loss + 1
    /\ UNCHANGED <<sender, transit, receiver, crashed, history>>

IsFragment(pkt) == pkt.type \in {"data", "parity"}

\* A waiting loss event drops the fragment; time has passed since the one before.
drop ==
    /\ ~crashed /\ loss > 0 /\ transit # <<>> /\ IsFragment(Head(transit))
    /\ transit' = Tail(transit)
    /\ loss' = loss - 1 /\ dropped' = dropped + 1
    /\ first' = IF first = "now" THEN "earlier" ELSE first
    /\ UNCHANGED <<sender, losses, received, required, fragment_count, ended, crashed,
                   generated, got, changed>>

\* update_data_frags_count: the entry is made with 0 before the parity branch asks whether
\* it is missing, so only data sets it.
update_data_frags_count(pkt) ==
    LET key == <<pkt.tier, pkt.chunk>> IN
    IF pkt.type = "data" THEN Put(required, key, pkt.k) ELSE PutNew(required, key, 0)

receive_fragment ==
    /\ ~crashed /\ loss = 0 /\ transit # <<>> /\ IsFragment(Head(transit))
    /\ LET pkt == Head(transit)
           key == <<pkt.tier, pkt.chunk>>
       IN /\ received' = Put(received, key, Has(received, key, 0) + 1)
          /\ required' = update_data_frags_count(pkt)
          /\ got' = got \cup {pkt}
    /\ transit' = Tail(transit)
    /\ fragment_count' = fragment_count + 1
    /\ first' = IF first = "none" THEN "now" ELSE "earlier"
    /\ UNCHANGED <<sender, loss, losses, ended, crashed, generated, dropped,
                   changed>>

\* A control message: a report, unless nothing arrived since the last one.
receive_control ==
    /\ ~crashed /\ transit # <<>> /\ Head(transit).type = "control"
    /\ LET pkt == Head(transit) IN
       IF first = "none" THEN UNCHANGED <<tier_m, crashed>>
       ELSE calculate_packet_loss(pkt.fragments_sent - fragment_count,
                                  first = "now" /\ ~pkt.later)
    /\ transit' = Tail(transit)
    /\ changed' = (changed \/ tier_m' # tier_m)
    /\ first' = "none" /\ fragment_count' = 0 /\ dropped' = 0
    /\ UNCHANGED <<jobs, fragments_sent, loss, losses, received, required, ended, generated, got>>

\* Mutant of Missing: counts are compared with the size of a full chunk.
MissingOfFull == {k \in DOMAIN received : received[k] < N - tier_m[k[1]]}

\* check_all_fragments_received, in the order of the entries.
Missing == {k \in DOMAIN received : received[k] < required[k]}
Before(a, b) == a[1] < b[1] \/ (a[1] = b[1] /\ a[2] < b[2])
MissingInOrder ==
    [i \in 1 .. Cardinality(Missing) |->
        CHOOSE k \in Missing : Cardinality({a \in Missing : Before(a, k)}) = i - 1]

\* Mutant of Emptied.
EmptiedNothing == received

\* The counts of the missing chunks start again.
Emptied == [k \in DOMAIN received |-> IF k \in Missing THEN 0 ELSE received[k]]

\* Mutant of receive_last: the transfer is over although chunks are missing.
receive_last_once ==
    /\ ~crashed /\ transit # <<>> /\ Head(transit) = last_fragment
    /\ transit' = Tail(transit)
    /\ fragment_count' = 0
    /\ ended' = TRUE
    /\ jobs' = IF Missing = {} THEN jobs ELSE Append(jobs, Resending(MissingInOrder))
    /\ UNCHANGED <<received, fragments_sent, tier_m, loss, losses, required, first, crashed,
                   history>>

receive_last ==
    /\ ~crashed /\ transit # <<>> /\ Head(transit) = last_fragment
    /\ transit' = Tail(transit)
    /\ fragment_count' = 0
    /\ IF Missing = {}
       THEN ended' = TRUE /\ UNCHANGED <<jobs, fragments_sent, received>>
       ELSE /\ received' = Emptied
            /\ jobs' = Append(jobs, Resending(MissingInOrder))
            /\ fragments_sent' = 0
            /\ UNCHANGED ended
    /\ UNCHANGED <<tier_m, loss, losses, required, first, crashed, history>>

Deliver == drop \/ receive_fragment \/ receive_control \/ receive_last

Next == (\E i \in DOMAIN jobs : Send(i)) \/ loss_gen \/ Deliver

Spec == Init /\ [][Next]_vars

\* Processes of the simulator that are due run.
FairSpec == Spec /\ WF_vars(\E i \in DOMAIN jobs : Send(i)) /\ WF_vars(Deliver)

-----------------------------------------------------------------------------
(* Properties                                                               *)

Key == Tiers \X Nat
Data == [type : {"data"}, tier : Tiers, chunk : Nat, k : Nat, m : Ms, index : Nat]
Parity == [type : {"parity"}, tier : Tiers, chunk : Nat, m : Ms, index : Nat]
Fragment == Data \cup Parity
Packet ==
    Fragment \cup [type : {"control"}, fragments_sent : Nat, later : BOOLEAN] \cup {last_fragment}
Job ==
    [kind : {"send", "resend"}, tier : Tiers, chunk : Nat, last : Nat, todo : Seq(Key),
     begun : BOOLEAN, left : Seq(Fragment), batch : Nat]

\* The types; the receiver has a requirement exactly for the chunks it counts.
TypeOK ==
    /\ jobs \in Seq(Job) /\ tier_m \in [Tiers -> Ms] /\ fragments_sent \in Nat
    /\ transit \in Seq(Packet) /\ loss \in 0 .. losses /\ losses \in 0 .. MaxLosses
    /\ DOMAIN received \subseteq Key /\ DOMAIN required = DOMAIN received
    /\ \A k \in DOMAIN received : received[k] \in Nat /\ required[k] \in Nat
    /\ fragment_count \in Nat /\ first \in {"none", "now", "earlier"}
    /\ ended \in BOOLEAN /\ crashed \in BOOLEAN
    /\ DOMAIN generated \subseteq Key /\ dropped \in Nat /\ got \subseteq Fragment
    /\ changed \in BOOLEAN

\* What the receiver reports as lost between two control messages is what the link
\* dropped between them, although the sender counts chunks when they begin in one process
\* and fragments when they leave in the other, and both use the same counter.
LossCountExact ==
    transit # <<>> /\ Head(transit).type = "control" =>
        Head(transit).fragments_sent - fragment_count = dropped

\* The transfer ends with nothing on its way.
StopsQuiet == ended => jobs = <<>> /\ transit = <<>>

\* A chunk whose requirement is known is complete at the end under one code: its count
\* never adds fragments generated with one m to fragments generated with another.
FragsOf(k, m) == {f \in got : <<f.tier, f.chunk>> = k /\ f.m = m}
DecodableUnderOneCode ==
    ended => \A k \in DOMAIN received :
                required[k] > 0 => \E m \in Ms : Cardinality(FragsOf(k, m)) >= required[k]

\* "A process which generates and sends fragments by chunk": as long as the parity is that
\* of the beginning, the chunks a tier was divided into have all its data once the sending
\* process is done, although their number, their bounds and their parity are computed apart.
DataGenerated(t) == UNION {generated[k] : k \in {k \in DOMAIN generated : k[1] = t}}
CoversTiers ==
    ~changed /\ (\A i \in DOMAIN jobs : jobs[i].kind = "resend") =>
        \A t \in Tiers : DataGenerated(t) = 0 .. Frags[t] - 1

\* The losses are finite here, so the transfer ends: unless the parity has changed, after
\* which a chunk may be asked for that can never be completed, or the exception of a zero
\* interval has stopped the simulator.
Finishes == <>(ended \/ crashed \/ changed)
=============================================================================
