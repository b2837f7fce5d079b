-------------------------- MODULE AdaptiveTransfer --------------------------
(***************************************************************************)
(* The adaptive transfer: test/new/sender_adaptive.cpp sends the fragments *)
(* of an erasure-coded, tiered data set as UDP datagrams and everything    *)
(* else (metadata, end of transmission, retransmission requests, loss      *)
(* reports) over one TCP connection to test/new/receiver_adaptive.cpp.     *)
(*                                                                         *)
(* Each program runs its handlers on one thread (io_context::run), so one  *)
(* handler is one action.  What really interleaves is the two programs and *)
(* the network between them: datagrams are lost, repeated and reordered,   *)
(* and the reliable channels carry their messages in order but at a pace   *)
(* that has nothing to do with that of the datagrams.                      *)
(***************************************************************************)
EXTENDS Integers, Sequences, FiniteSets

CONSTANTS
    N,            \* fragments of a chunk, data and parity together
    MaxM,         \* largest parity count the sender's calculator tries
    DefaultM,     \* DEFAULT_M: assumed for a tier nothing was reported about
    NumTiers,
    NumChunks,    \* tier -> number of its chunks
    GenM,         \* tier -> parity count its chunks were generated with
    Threshold,    \* CHUNKS_THRESHOLD: a report every so many chunk ids
    LinkMayBreak, \* fault: the TCP connection breaks
    UdpMayFail    \* fault: an asynchronous UDP receive ends in an error

Tiers == 0 .. NumTiers - 1

ASSUME CodingAssumption ==
    /\ N \in Nat /\ MaxM \in Nat /\ MaxM < N /\ DefaultM \in 0 .. MaxM
    /\ NumTiers \in Nat \ {0}
    /\ NumChunks \in [Tiers -> Nat \ {0}]
    /\ GenM \in [Tiers -> 0 .. MaxM]
    /\ Threshold \in Nat \ {0}
    /\ LinkMayBreak \in BOOLEAN /\ UdpMayFail \in BOOLEAN

\* FragmentStore.fragments[tier][chunk][fragment]: generateFragments pads the
\* last chunk of a tier, so every chunk has exactly N fragments, 0 .. N-1, the
\* data fragments before the parity fragments.
Chunks == UNION {{t} \X (0 .. NumChunks[t] - 1) : t \in Tiers}
Frags == {<<c[1], c[2], i>> : c \in Chunks, i \in 0 .. N - 1}
ChunkOf(x) == <<x[1], x[2]>>

\* The k a fragment carries.  Absent is the label of a fragment the receiver
\* does not hold; no fragment carries it because MaxM < N.
Labels == N - MaxM .. N
Absent == 0
Packets == [frag : Frags, k : Labels]
Generated(x) == [frag |-> x, k |-> N - GenM[x[1]]]

\* tier_id = -1 or chunk_id = -1 in a request stands for "all of them".
All == -1
Requests == SUBSET (Chunks \cup {<<t, All>> : t \in Tiers} \cup {<<All, All>>})
\* Mutant: the request for a whole tier is not understood.
CoversNoTier(r, x) == r \in {<<All, All>>, ChunkOf(x)}
Covers(r, x) == r \in {<<All, All>>, <<x[1], All>>, ChunkOf(x)}

SenderMessages == {"metadata", "eot"}
Reports == [type : {"report"}, tier : Tiers]
RequestMessages == [type : {"request"}, items : Requests]
AllReceived == [type |-> "all_received"]
Answers == RequestMessages \cup {AllReceived}
ReceiverMessages == Reports \cup Answers

VARIABLES
    (* the sender *)
    phase,      \* "start", "sending" (fragment_queue not yet drained), "sent"
    unsent,     \* SendState.fragment_queue
    ecM,        \* current_ec_params_m_
    sConn,      \* Sender.tcp_connected_
    sOpen,      \* sockets open and ~transmission_complete_
    crashed,    \* an exception has left io_context.run()
    (* the receiver *)
    stored,     \* variables[..].tiers[..].chunks[..]: fragment -> its k
    expected,   \* variablesMetadata: the chunks announced by the metadata
    tracked,    \* keys of fragments_per_chunk_[var]
    reported,   \* processed_chunks_count_[var]
    complete,   \* Receiver.transmission_complete_
    armed,      \* an async_receive_from is pending
    rConn,      \* Receiver.tcp_connected_
    declared,   \* history: the receiver has found nothing missing
    (* the network *)
    udp, toReceiver, toSender,
    link        \* "up", "closed" by the sender, or "broken"

senderVars == <<phase, unsent, ecM, sConn, sOpen, crashed>>
receiverVars == <<stored, expected, tracked, reported, complete, armed, rConn, declared>>
networkVars == <<udp, toReceiver, toSender, link>>
vars == <<senderVars, receiverVars, networkVars>>

TypeOK ==
    /\ phase \in {"start", "sending", "sent"}
    /\ unsent \subseteq Frags
    /\ ecM \in Seq(0 .. MaxM)
    /\ sConn \in BOOLEAN /\ sOpen \in BOOLEAN /\ crashed \in BOOLEAN
    /\ stored \in [Frags -> Labels \cup {Absent}]
    /\ expected \subseteq Chunks
    /\ tracked \subseteq Nat /\ IsFiniteSet(tracked)
    /\ reported \in [Tiers -> Nat]
    /\ complete \in BOOLEAN /\ armed \in BOOLEAN
    /\ rConn \in BOOLEAN /\ declared \in BOOLEAN
    /\ udp \subseteq Packets
    /\ toReceiver \in Seq(SenderMessages)
    /\ toSender \in Seq(ReceiverMessages)
    /\ link \in {"up", "closed", "broken"}

Init ==
    /\ phase = "start" /\ unsent = Frags /\ ecM = <<>>
    /\ sConn = TRUE /\ sOpen = TRUE /\ crashed = FALSE
    /\ stored = [x \in Frags |-> Absent]
    /\ expected = {} /\ tracked = {} /\ reported = [t \in Tiers |-> 0]
    /\ complete = FALSE /\ armed = TRUE /\ rConn = TRUE /\ declared = FALSE
    /\ udp = {} /\ toReceiver = <<>> /\ toSender = <<>> /\ link = "up"

-----------------------------------------------------------------------------
(* The sender *)

\* send_fragments queues the store tier by tier, chunk by chunk.
Before(x, y) == \/ x[1] < y[1]
                \/ x[1] = y[1] /\ x[2] < y[2]
                \/ x[1] = y[1] /\ x[2] = y[2] /\ x[3] < y[3]
IsFront(x) == x \in unsent /\ \A y \in unsent : y = x \/ Before(x, y)

CurrentM(t) == IF t < Len(ecM) THEN ecM[t + 1] ELSE DefaultM

\* Mutant: k is stored where m belongs.
UpdateEcWithK(s, t, m) ==
    [i \in 1 .. (IF Len(s) > t THEN Len(s) ELSE t + 1) |->
        IF i = t + 1 THEN N - m ELSE IF i <= Len(s) THEN s[i] ELSE 0]

\* vector::resize fills the tiers below a newly reported one with m = 0.
UpdateEc(s, t, m) ==
    [i \in 1 .. (IF Len(s) > t THEN Len(s) ELSE t + 1) |->
        IF i = t + 1 THEN m ELSE IF i <= Len(s) THEN s[i] ELSE 0]

\* What a write can report: nothing is written without a connection, and on one
\* that is gone the write throws or only seems to succeed.
Writes(connected) ==
    IF ~connected THEN {FALSE} ELSE IF link = "up" THEN {TRUE} ELSE BOOLEAN

\* Mutant: one end of transmission for every variable of a request.
send_eot_twice ==
    \E sent \in Writes(sConn) :
        /\ sConn' = sent
        /\ toReceiver' = IF sent /\ link = "up" THEN toReceiver \o <<"eot", "eot">>
                         ELSE toReceiver

\* Mutant: the end of transmission is forgotten.
send_eot_forgotten == UNCHANGED <<sConn, toReceiver>>

send_eot ==
    \E sent \in Writes(sConn) :
        /\ sConn' = sent
        /\ toReceiver' = IF sent /\ link = "up" THEN Append(toReceiver, "eot")
                         ELSE toReceiver

send_metadata ==
    /\ phase = "start" /\ phase' = "sending"
    /\ toReceiver' = Append(toReceiver, "metadata")
    /\ UNCHANGED <<unsent, ecM, sConn, sOpen, crashed, receiverVars, udp, toSender, link>>

\* send_next pops a copy of a fragment, labels it with the parity count now in
\* force for its tier and sends it; a send error is retried until it succeeds.
send_next ==
    /\ phase = "sending" /\ sOpen
    /\ \E x \in unsent :
          /\ IsFront(x)
          /\ unsent' = unsent \ {x}
          /\ udp' = udp \cup {[frag |-> x, k |-> N - CurrentM(x[1])]}
    /\ UNCHANGED <<phase, ecM, sConn, sOpen, crashed, receiverVars, toReceiver, toSender, link>>

\* Mutant: the end of transmission does not wait for the queue.
queue_drained_early ==
    /\ phase = "sending" /\ phase' = "sent"
    /\ send_eot
    /\ UNCHANGED <<unsent, ecM, sOpen, crashed, receiverVars, udp, toSender, link>>

queue_drained ==
    /\ phase = "sending" /\ unsent = {} /\ phase' = "sent"
    /\ send_eot
    /\ UNCHANGED <<unsent, ecM, sOpen, crashed, receiverVars, udp, toSender, link>>

\* The io thread has read the next TCP message and runs the posted handler.
NextForSender(type) == ~crashed /\ toSender # <<>> /\ Head(toSender).type = type

\* Retransmitted fragments carry the k they were generated with.  Sending on
\* the closed UDP socket throws, and nothing catches it on the io thread.
handle_request_data ==
    /\ NextForSender("request") /\ toSender' = Tail(toSender)
    /\ LET wanted == {x \in Frags : \E r \in Head(toSender).items : Covers(r, x)}
       IN udp' = IF sOpen THEN udp \cup {Generated(x) : x \in wanted} ELSE udp
    /\ crashed' = ~sOpen
    /\ send_eot
    /\ UNCHANGED <<phase, unsent, ecM, sOpen, receiverVars, link>>

\* stop_transmission closes both sockets.  A message is handled before the next
\* one is read (its handler is posted first), so whatever follows is gone.
stop_transmission ==
    /\ NextForSender("all_received") /\ toSender' = <<>>
    /\ sOpen' = FALSE /\ sConn' = FALSE
    /\ link' = IF link = "up" THEN "closed" ELSE link
    /\ UNCHANGED <<phase, unsent, ecM, crashed, receiverVars, udp, toReceiver>>

\* The best m is the outcome of a floating-point search over 0 .. MaxM.
handle_report ==
    /\ NextForSender("report") /\ toSender' = Tail(toSender)
    /\ \E m \in 0 .. MaxM : ecM' = UpdateEc(ecM, Head(toSender).tier, m)
    /\ UNCHANGED <<phase, unsent, sConn, sOpen, crashed, receiverVars, udp, toReceiver, link>>

sender_read_error ==
    /\ ~crashed /\ sConn /\ link = "broken" /\ toSender = <<>>
    /\ sConn' = FALSE
    /\ UNCHANGED <<phase, unsent, ecM, sOpen, crashed, receiverVars, networkVars>>

-----------------------------------------------------------------------------
(* The receiver *)

Held(c) == {i \in 0 .. N - 1 : stored[<<c[1], c[2], i>>] # Absent}
Started(t) == \E x \in Frags : x[1] = t /\ stored[x] # Absent

\* The k of the first data fragment, else of the first parity fragment: that
\* of the lowest fragment id held.
FirstK(c) == stored[<<c[1], c[2], CHOOSE i \in Held(c) : \A j \in Held(c) : i <= j>>]
Incomplete(c) == Held(c) = {} \/ Cardinality(Held(c)) < FirstK(c)

\* Mutant: a chunk of which nothing has arrived is skipped, not requested.
findMissingOfHeld ==
    IF \A t \in Tiers : ~Started(t)
    THEN IF expected = {} THEN {} ELSE {<<All, All>>}
    ELSE {c \in expected : Held(c) # {} /\ Incomplete(c)}

findMissingChunks ==
    IF \A t \in Tiers : ~Started(t)
    THEN IF expected = {} THEN {} ELSE {<<All, All>>}
    ELSE {<<c[1], All>> : c \in {d \in expected : ~Started(d[1])}}
           \cup {c \in expected : Started(c[1]) /\ Incomplete(c)}

\* Sent while a fragment is being handled, before that fragment is stored; a
\* failed write is only logged.
send_fragments_report(t) ==
    toSender' = IF link = "up" THEN Append(toSender, [type |-> "report", tier |-> t])
                ELSE toSender

update_fragments_tracking(x) ==
    /\ tracked' = tracked \cup {x[2]}
    /\ LET size == Cardinality(tracked')
       IN \/ /\ size % Threshold = 0 /\ size > reported[x[1]]
             /\ reported' = [reported EXCEPT ![x[1]] = size]
             /\ send_fragments_report(x[1])
          \/ /\ ~(size % Threshold = 0 /\ size > reported[x[1]])
             /\ UNCHANGED <<reported, toSender>>

\* Mutant: the receive is started again without looking at transmission_complete_.
receive_fragment_rearms(p) ==
    /\ armed /\ p \in udp
    /\ udp' \in {udp, udp \ {p}}
    /\ update_fragments_tracking(p.frag)
    /\ stored' = [stored EXCEPT ![p.frag] = p.k]
    /\ UNCHANGED <<senderVars, expected, complete, armed, rConn, declared, toReceiver, link>>

\* Mutant: the receive is not started again.
receive_fragment_once(p) ==
    /\ armed /\ p \in udp
    /\ udp' \in {udp, udp \ {p}}
    /\ update_fragments_tracking(p.frag)
    /\ stored' = [stored EXCEPT ![p.frag] = p.k]
    /\ armed' = FALSE
    /\ UNCHANGED <<senderVars, expected, complete, rConn, declared, toReceiver, link>>

receive_fragment(p) ==
    /\ armed /\ p \in udp
    /\ udp' \in {udp, udp \ {p}}            \* the network may deliver p again
    /\ update_fragments_tracking(p.frag)
    /\ stored' = [stored EXCEPT ![p.frag] = p.k]
    /\ armed' = ~complete
    /\ UNCHANGED <<senderVars, expected, complete, rConn, declared, toReceiver, link>>

udp_receive_error ==
    /\ UdpMayFail /\ armed /\ armed' = FALSE
    /\ UNCHANGED <<senderVars, stored, expected, tracked, reported, complete, rConn,
                   declared, networkVars>>

handle_metadata ==
    /\ toReceiver # <<>> /\ Head(toReceiver) = "metadata"
    /\ toReceiver' = Tail(toReceiver)
    /\ expected' = expected \cup Chunks
    /\ UNCHANGED <<senderVars, stored, tracked, reported, complete, armed, rConn,
                   declared, udp, toSender, link>>

\* A write that throws leaves transmission_complete_ as handle_eot has set it.
send_retransmission_request(msg, completeAfter) ==
    \E sent \in Writes(rConn) :
        /\ rConn' = sent
        /\ complete' = IF sent THEN completeAfter ELSE TRUE
        /\ toSender' = IF sent /\ link = "up" THEN Append(toSender, msg) ELSE toSender

handle_eot ==
    /\ toReceiver # <<>> /\ Head(toReceiver) = "eot"
    /\ toReceiver' = Tail(toReceiver)
    /\ \/ /\ findMissingChunks = {}
          /\ send_retransmission_request(AllReceived, TRUE)
          /\ declared' = (declared \/ rConn)
       \/ /\ findMissingChunks # {}
          /\ send_retransmission_request([type |-> "request", items |-> findMissingChunks], FALSE)
          /\ UNCHANGED declared
    /\ UNCHANGED <<senderVars, stored, expected, tracked, reported, armed, udp, link>>

receiver_read_error ==
    /\ rConn /\ link # "up" /\ toReceiver = <<>>
    /\ rConn' = FALSE
    /\ UNCHANGED <<senderVars, stored, expected, tracked, reported, complete, armed,
                   declared, networkVars>>

-----------------------------------------------------------------------------
(* The network *)

lose(p) ==
    /\ p \in udp /\ udp' = udp \ {p}
    /\ UNCHANGED <<senderVars, receiverVars, toReceiver, toSender, link>>

\* What a broken connection still delivers.
Prefixes(s) == {SubSeq(s, 1, i) : i \in 0 .. Len(s)}

break_connection ==
    /\ LinkMayBreak /\ link = "up" /\ phase # "start" /\ link' = "broken"
    /\ toReceiver' \in Prefixes(toReceiver) /\ toSender' \in Prefixes(toSender)
    /\ UNCHANGED <<senderVars, receiverVars, udp>>

-----------------------------------------------------------------------------
Sender == \/ send_metadata \/ send_next \/ queue_drained \/ handle_request_data
          \/ stop_transmission \/ handle_report \/ sender_read_error
Receiver == \/ \E p \in udp : receive_fragment(p)
            \/ udp_receive_error \/ handle_metadata \/ handle_eot \/ receiver_read_error
Network == (\E p \in udp : lose(p)) \/ break_connection

Next == Sender \/ Receiver \/ Network

Spec == Init /\ [][Next]_vars

(* Both io threads keep running their handlers.  A fragment of which copies    *)
(* are in flight again and again is delivered now and then; nothing is assumed *)
(* of a single datagram.                                                       *)
Delivers(x) == \E p \in udp : p.frag = x /\ receive_fragment(p)
Fairness == /\ WF_vars(Sender)
            /\ WF_vars(handle_metadata) /\ WF_vars(handle_eot)
            /\ \A x \in Frags : SF_vars(Delivers(x))
FairSpec == Spec /\ Fairness

-----------------------------------------------------------------------------
(* Properties *)

Occurs(s, S) == \E i \in DOMAIN s : s[i] \in S
AtMostOne(s, S) == \A i, j \in DOMAIN s : s[i] \in S /\ s[j] \in S => i = j

(* The end of transmission and the answer to it alternate: over both channels  *)
(* there is at most one of them in flight, and none while send_next still has  *)
(* fragments queued (send_next, handle_eot, handle_request_data).              *)
OneTurn ==
    /\ AtMostOne(toReceiver, {"eot"}) /\ AtMostOne(toSender, Answers)
    /\ ~(Occurs(toReceiver, {"eot"}) /\ Occurs(toSender, Answers))
    /\ Occurs(toReceiver, {"eot"}) \/ Occurs(toSender, Answers) => phase = "sent"

(* stop_transmission closes the UDP socket under the feet of two users of it:  *)
(* a retransmission, whose exception would end the sender, and send_next,      *)
(* which would retry for ever.  Neither finds the socket closed.               *)
NoSendOnClosedSocket == ~crashed /\ (~sOpen => unsent = {})

Decodable(c) == Cardinality(Held(c)) >= N - GenM[c[1]]

(* The sender stops only once every chunk of its store, not just the ones the  *)
(* receiver happens to know of, has as many fragments as the smallest k in     *)
(* use; the tiers generated with the largest parity count can be decoded.      *)
StoppedImpliesReceived ==
    ~sOpen => \A c \in Chunks :
                 /\ Cardinality(Held(c)) >= N - MaxM
                 /\ GenM[c[1]] = MaxM => Decodable(c)

(* What findMissingChunks asks for, through the three ways of naming it (all,  *)
(* a tier, a chunk), is exactly what handle_request_data must send again: the  *)
(* fragments of the chunks of the store that are incomplete at that moment.    *)
RequestsExactlyTheMissing ==
    [][\A items \in {findMissingChunks} :
          handle_eot /\ toSender' = Append(toSender, [type |-> "request", items |-> items])
          => \A x \in Frags : (\E r \in items : Covers(r, x)) <=> Incomplete(ChunkOf(x))]_vars

(* Every chunk the receiver has reported received can be decoded, whatever the *)
(* parity its tier was generated with (receiver_adaptive.cpp:743).             *)
VerifiedChunksDecodable == declared => \A c \in Chunks : Decodable(c)

(* The transfer as its users see it (module ChunkDelivery).                    *)
Delivery == INSTANCE ChunkDelivery
                WITH Ids <- 0 .. N - 1, Need <- N - MaxM,
                     have <- [c \in Chunks |-> Held(c)], open <- armed,
                     done <- declared, closed <- ~sOpen
ImplementsDelivery == Delivery!Spec

(* However many datagrams are lost, the sender ends: it is told that all has   *)
(* arrived and closes its sockets, or it notices that the connection is gone.  *)
SenderEnds == <>(phase = "sent" /\ ~sConn)

(* As long as the connection holds, the receiver eventually finds nothing      *)
(* missing.                                                                    *)
ReceiverConcludes == <>(declared \/ link = "broken")
=============================================================================
