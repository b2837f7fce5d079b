---------------------------- MODULE RefactorSender ----------------------------
(***************************************************************************)
(* The sender of mgard_ec_refactor.cpp: the main thread queues the         *)
(* fragments as handlers of the io_context, says EOT, stops and closes the *)
(* sockets; the io thread sends what is queued and reads what the receiver *)
(* (mgard_ec_reconstruct.cpp) answers.  The threads share should_stop_,    *)
(* the sockets and total_bytes_sent_ without a lock.                       *)
(***************************************************************************)
EXTENDS Integers, Sequences

CONSTANTS NumFragments,     \* fragments of the variable
          MaxReports        \* bound: loss reports the receiver sends

ASSUME SenderAssumption == NumFragments \in Nat /\ MaxReports \in Nat

VARIABLES
    main,                   \* what the main thread does next
    posted,                 \* size of fragments_: fragments generated and queued so far
    queue,                  \* queued handlers, one for each fragment
    io,                     \* the io thread: "idle", or a step of the handler it runs
    sent,                   \* the fragments given to the network, in order
    should_stop, transmission_complete, connected,
    tcp, udp,               \* whether the sockets are open
    total,                  \* total_bytes_sent_, one unit for a fragment and for the EOT
    mainTotal, ioTotal,     \* what each thread has read of it
    toReceiver, toSender,   \* the TCP connection
    reading,                \* an async_read is outstanding
    inbox,                  \* messages read whose handler is queued
    reported,               \* history: messages that handle_report was given
    reports,                \* history: reports of the receiver
    atStop                  \* history: fragments sent when should_stop_ was set
flags == <<should_stop, transmission_complete, connected, tcp, udp>>
counts == <<total, mainTotal, ioTotal>>
wires == <<toReceiver, toSender>>
reader == <<reading, inbox, reported>>
vars == <<main, posted, queue, io, sent, flags, counts, wires, reader, reports, atStop>>

Init ==
    /\ main = "metadata" /\ posted = 0 /\ queue = <<>> /\ io = "idle" /\ sent = <<>>
    /\ should_stop = FALSE /\ transmission_complete = FALSE /\ connected = TRUE
    /\ tcp = TRUE /\ udp = TRUE
    /\ total = 0 /\ mainTotal = 0 /\ ioTotal = 0
    /\ toReceiver = <<>> /\ toSender = <<>>
    /\ reading = TRUE /\ inbox = <<>> /\ reported = {} /\ reports = 0 /\ atStop = 0

-----------------------------------------------------------------------------
(* The main thread                                                          *)

send_metadata ==
    /\ main = "metadata" /\ connected
    /\ toReceiver' = Append(toReceiver, "metadata")
    /\ main' = "fragments"
    /\ UNCHANGED <<posted, queue, io, sent, flags, counts, toSender, reader, reports, atStop>>

send_fragments ==
    /\ main = "fragments" /\ posted < NumFragments /\ connected /\ ~should_stop
    /\ posted' = posted + 1
    /\ queue' = Append(queue, posted + 1)
    /\ UNCHANGED <<main, io, sent, flags, counts, wires, reader, reports, atStop>>

send_eot ==
    /\ main = "fragments" /\ posted = NumFragments /\ connected
    /\ toReceiver' = Append(toReceiver, "EOT")
    /\ mainTotal' = total
    /\ main' = "count"
    /\ UNCHANGED <<posted, queue, io, sent, flags, total, ioTotal, toSender, reader, reports,
                   atStop>>

count_eot ==
    /\ main = "count"
    /\ total' = mainTotal + 1
    /\ main' = "stop"
    /\ UNCHANGED <<posted, queue, io, sent, flags, mainTotal, ioTotal, wires, reader, reports,
                   atStop>>

stop ==
    /\ main = "stop"
    /\ should_stop' = TRUE /\ atStop' = Len(sent)
    /\ main' = "complete"
    /\ UNCHANGED <<posted, queue, io, sent, transmission_complete, connected, tcp, udp, counts,
                   wires, reader, reports>>

\* stop_transmission, up to the sockets
complete ==
    /\ main = "complete"
    /\ transmission_complete' = TRUE
    /\ main' = "close"
    /\ UNCHANGED <<posted, queue, io, sent, should_stop, connected, tcp, udp, counts, wires,
                   reader, reports, atStop>>

\* Mutant of Closed: the TCP socket is left open.
ClosedNot == TRUE
Closed == FALSE

close_tcp ==
    /\ main = "close" /\ tcp
    /\ tcp' = Closed
    /\ main' = "close_udp"
    /\ UNCHANGED <<posted, queue, io, sent, should_stop, transmission_complete, connected, udp,
                   counts, wires, reader, reports, atStop>>

close_udp ==
    /\ main = "close_udp"
    /\ udp' = FALSE /\ connected' = FALSE
    /\ main' = "join"
    /\ UNCHANGED <<posted, queue, io, sent, should_stop, transmission_complete, tcp, counts,
                   wires, reader, reports, atStop>>

join ==
    /\ main = "join" /\ io = "ended"
    /\ main' = "done"
    /\ UNCHANGED <<posted, queue, io, sent, flags, counts, wires, reader, reports, atStop>>

-----------------------------------------------------------------------------
(* The io thread                                                            *)

\* Mutant of Skips: the flag is not looked at.
SkipsNot == FALSE
Skips == should_stop

\* A queued handler looks at should_stop_; what it found holds while it sends.
begin_send ==
    /\ io = "idle" /\ queue # <<>>
    /\ IF Skips
       THEN queue' = Tail(queue) /\ UNCHANGED io
       ELSE io' = "send" /\ UNCHANGED queue
    /\ UNCHANGED <<main, posted, sent, flags, counts, wires, reader, reports, atStop>>

send_to ==
    /\ io = "send" /\ udp
    /\ sent' = Append(sent, Head(queue)) /\ queue' = Tail(queue)
    /\ ioTotal' = total
    /\ io' = "count"
    /\ UNCHANGED <<main, posted, flags, total, mainTotal, wires, reader, reports, atStop>>

\* On a closed socket send_to throws, out of the thread: std::terminate.
send_throws ==
    /\ io = "send" /\ ~udp
    /\ io' = "terminated" /\ main' = "terminated"
    /\ UNCHANGED <<posted, queue, sent, flags, counts, wires, reader, reports, atStop>>

count_sent ==
    /\ io = "count"
    /\ total' = ioTotal + 1
    /\ io' = "idle"
    /\ UNCHANGED <<main, posted, queue, sent, flags, mainTotal, ioTotal, wires, reader, reports,
                   atStop>>

\* handle_retransmission_request: the message is handled later; the next is asked for.
read_message ==
    /\ io = "idle" /\ reading /\ tcp /\ toSender # <<>>
    /\ inbox' = Append(inbox, Head(toSender)) /\ toSender' = Tail(toSender)
    /\ reading' = ~transmission_complete
    /\ UNCHANGED <<main, posted, queue, io, sent, flags, counts, toReceiver, reported, reports,
                   atStop>>

read_error ==
    /\ io = "idle" /\ reading /\ ~tcp
    /\ reading' = FALSE /\ connected' = FALSE
    /\ UNCHANGED <<main, posted, queue, io, sent, should_stop, transmission_complete, tcp, udp,
                   counts, wires, inbox, reported, reports, atStop>>

\* Every message parses as a FragmentsReport: its first field takes any bytes, and that
\* is where a RetransmissionRequest has its variables.  No message gets past handle_report.
handle_tcp_message ==
    /\ io = "idle" /\ inbox # <<>>
    /\ reported' = reported \cup {Head(inbox)}
    /\ inbox' = Tail(inbox)
    /\ UNCHANGED <<main, posted, queue, io, sent, flags, counts, wires, reading, reports, atStop>>

\* io_context::run returns when nothing is queued or outstanding.
end_io ==
    /\ io = "idle" /\ queue = <<>> /\ inbox = <<>> /\ ~reading
    /\ io' = "ended"
    /\ UNCHANGED <<main, posted, queue, sent, flags, counts, wires, reader, reports, atStop>>

-----------------------------------------------------------------------------
(* The receiver, mgard_ec_reconstruct.cpp                                   *)

\* What it writes to a closed connection is lost.
Answered(message) == IF tcp THEN Append(toSender, message) ELSE toSender

send_fragments_report ==
    /\ sent # <<>> /\ reports < MaxReports
    /\ reports' = reports + 1
    /\ toSender' = Answered("report")
    /\ UNCHANGED <<main, posted, queue, io, sent, flags, counts, toReceiver, reader, atStop>>

\* handle_eot asks for what is missing, or says that all variables were received.
receive_tcp_message ==
    /\ toReceiver # <<>>
    /\ toReceiver' = Tail(toReceiver)
    /\ IF Head(toReceiver) = "EOT"
       THEN \E answer \in {"request", "all_variables_received"} : toSender' = Answered(answer)
       ELSE UNCHANGED toSender
    /\ UNCHANGED <<main, posted, queue, io, sent, flags, counts, reader, reports, atStop>>

-----------------------------------------------------------------------------
MainThread ==
    \/ send_metadata \/ send_fragments \/ send_eot \/ count_eot
    \/ stop \/ complete \/ close_tcp \/ close_udp \/ join
IoThread ==
    \/ begin_send \/ send_to \/ send_throws \/ count_sent
    \/ read_message \/ read_error \/ handle_tcp_message \/ end_io

Next == MainThread \/ IoThread \/ send_fragments_report \/ receive_tcp_message
Spec == Init /\ [][Next]_vars
\* The threads run; of the receiver nothing is expected.
FairSpec == Spec /\ WF_vars(MainThread) /\ WF_vars(IoThread)

-----------------------------------------------------------------------------
(* Properties                                                               *)

Answers == {"report", "request", "all_variables_received"}

TypeOK ==
    /\ main \in {"metadata", "fragments", "count", "stop", "complete", "close", "close_udp",
                 "join", "done", "terminated"}
    /\ io \in {"idle", "send", "count", "terminated", "ended"}
    /\ posted \in 0 .. NumFragments /\ total \in 0 .. NumFragments + 1
    /\ queue \in Seq(1 .. posted) /\ sent \in Seq(1 .. posted)
    /\ toReceiver \in Seq({"metadata", "EOT"})
    /\ toSender \in Seq(Answers) /\ inbox \in Seq(Answers) /\ reported \subseteq Answers

\* After the stop at most the fragment that passed the test before it is sent.
OneAfterStop == should_stop => Len(sent) <= atStop + 1

\* The thread is joined, or its exception ends the program: it does not run for ever.
Ends == <>(main \in {"done", "terminated"})

-----------------------------------------------------------------------------
(* Statements of the program's comments that its code does not keep         *)

\* "Completed!": the fragments queued have been sent.
AllSent == main = "done" => Len(sent) = posted

\* "Exception: ": what the sockets throw is caught.
NeverTerminates == main # "terminated"

\* "Total bytes sent": while neither thread is adding, it is the sum of what was sent.
TotalIsSum ==
    io = "idle" /\ main \notin {"metadata", "fragments", "count"} => total = Len(sent) + 1

\* "Received fragments report.": what is handled as a report is one.
ReportsOnly == reported \subseteq {"report"}
=============================================================================
