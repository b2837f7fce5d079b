# Multiprecision data refactoring: a TLA+ model

The repository turns a scientific data set into a progressive one (MGARD
decomposition, bitplanes, tiers), protects every tier with an erasure code and
sends the fragments over UDP, with TCP for control. This directory models it.

## The system

| Part | Source | State | Operations |
|---|---|---|---|
| Adaptive sender | `test/new/sender_adaptive.cpp` | fragment store, send queue, m per tier, sockets | `send_metadata`, `send_next`, `send_eot`, `handle_request_data`, `handle_report`, `stop_transmission` |
| Adaptive receiver | `test/new/receiver_adaptive.cpp` | variables/tiers/chunks/fragments, metadata, tracking counters, `transmission_complete_` | `receive_fragment`, `handle_metadata`, `handle_eot`, `findMissingChunks`, `send_fragments_report` |
| Refactoring sender | `test/mgard_ec_refactor.cpp` | the same over real data, main thread and io thread | `send_metadata`, `send_fragments`, `send_eot`, `stop`, `handle_tcp_message` |
| Reconstruction | `test/mgard_ec_reconstruct.cpp` | received tiers of a variable | `restoreData`, decode of every tier, prefix of tiers recovered |
| Retrieval | `include/Reconstructor`, `include/SizeInterpreter`, `include/Retriever` | bitplanes retrieved per level, file offsets | `progressive_reconstruct`, `interpret_retrieve_size`, `retrieve_level_components` |
| Bitplane encoders | `include/BitplaneEncoder` | streams of a level; signs and flags kept from call to call | `encode`, `decode`, `progressive_decode` |
| Interleavers | `include/Interleaver`, `include/RefactorUtils.hpp` | buffers of a level | `interleave`, `reposition` |
| Compressors, reorganizers, writers | `include/` | per-call or per-level buffers | `compress_level`/`decompress_level`, `reorganize` |
| Transfer simulations | `other/simpy` | the protocols tried before the programs: senders, a lossy link, a receiver | `send`, `retransmit_chunks`, `handle_ack`, `receive`, `check_all_fragments_received` |

The two adaptive programs share nothing but the network. Over UDP go fragments,
each carrying the k and m its sender believes in. Over the one TCP connection
the sender sends the metadata (which chunks exist) and end-of-transmission
markers; the receiver sends retransmission requests, loss reports and at last
"all variables received". A loss report makes the sender choose another m for a
tier, which changes the labels of the fragments not yet sent.

What is hard here: datagrams are lost, repeated and reordered and run beside a
reliable channel at another pace; there are no round numbers; the decision that
all has arrived rests on labels in the fragments, which change during a
transfer; the sockets are closed while handlers are queued; the connection may
break between any two steps. In the refactoring sender two threads share flags,
sockets and a counter without a lock. In the simulations processes interleave at
every `yield`, and share counters and dictionaries across it. The encoders and
interleavers are sequential, but keep memory between calls and do their
arithmetic at block boundaries. `PROJECT.json` lists each hazard at its line.

## What makes each part correct

* Adaptive transfer: the programs take turns, the sender does not stop before
  the receiver has enough of every chunk and does not use a closed socket,
  requests name exactly what is missing, the exchange ends.
* Loss reports: what is reported lost was lost, nothing lost is hidden, every tier
  is reported on.
* Refactoring sender: what was posted is sent before the sockets close; a
  request is recognised as one.
* Reconstruction: the tiers counted and read are those that decode, whole.
* Retrieval: planes are read once, in order, and the offsets agree with what was
  read; the interpreters end and satisfy the tolerance or have read everything.
* Encoders and compressors: decoding gives back the planes retrieved, after any
  sequence of retrievals, with the error recorded for them.
* Interleavers: each coefficient is on one level and comes back to its place.
* Simulations: a chunk is never complete on fragments that do not belong together,
  losses are counted right, the transfer ends with everything delivered.

## Modules

| Module | Role |
|---|---|
| `AdaptiveTransfer` | both adaptive programs and the network between them |
| `ChunkDelivery` | what the transfer promises |
| `MCAdaptiveTransfer` | values of the constants for TLC |
| `AdaptiveTransferProofs` | theorems about `AdaptiveTransfer` |
| `Retrieval` | the reconstructor with its size interpreters, file retriever, and the state of compressor and encoder |
| `MCRetrieval` | values of its constants for TLC |
| `RetrievalProofs` | theorems about `Retrieval` |
| `LossReport` | counting of arrivals and contents of the loss reports, of both receivers |
| `RefactorSender` | the two threads of `mgard_ec_refactor.cpp` |
| `TierRestore` | tiers cut into chunks, decoded, counted and read by `restoreData` |
| `BitplaneEncoders` | the grouped, the per-bit and the negabinary encoder |
| `Interleavers` | level dimensions, and the direct, the blocked and the SFC interleaver |
| `AdaptiveSimulation` | `simulationadaptive.py`: parity changing in the middle of a tier |
| `GoBackN` | `tcp_no_sack.py`: cumulative acknowledgments |
| `InOrderDelivery` | what a reliable transfer promises; `GoBackN` implements it |
| `GoBackNProofs` | theorems about `GoBackN` |
| `RefactorSenderProofs`, `LossReportProofs`, `TierRestoreProofs`, `AdaptiveSimulationProofs`, `InterleaversProofs` | theorems about the module named |
| `MC...` | values of the constants of the module named, for TLC |

### AdaptiveTransfer

Each program runs its handlers on one thread (`io_context::run`), so a handler
is one action, with everything it calls. Exceptions: `send_next` stands for the
chain send_next / send_chunk of one fragment, and `send_metadata` for
`start_sender`, which the main thread runs before anything is queued.

| TLA+ | Code |
|---|---|
| `unsent` | `SendState::fragment_queue` |
| `ecM` | `current_ec_params_m_` (0-based in the code) |
| `sOpen` | sockets open, `transmission_complete_` false in the sender |
| `crashed` | an exception has left the sender's `io_context::run` |
| `stored` | `variables`: which fragments are held, and the k of each |
| `expected` | `variablesMetadata` |
| `tracked`, `reported` | keys of `fragments_per_chunk_`, `processed_chunks_count_` |
| `complete`, `armed` | `transmission_complete_`; a UDP receive is pending |
| `declared` | history: the receiver has found nothing missing |
| `udp` | the datagrams in flight |
| `toReceiver`, `toSender`, `link` | the TCP connection and its state |

`udp` is a set: a member may be received more than once, in any order, or lost.
Fragments are `<<tier, chunk, id>>`; their bytes do not matter to the protocol.
There is one variable, as in the programs ("example_variable"). The floating
point search for the best m is "any m from 0 to MaxM", which is its range (16 in
the code). `N` is 32 there.

A broken connection delivers a prefix of what was written. A write to it throws
or seems to succeed. It does not break before the metadata has been written: in
the program that exception ends the sender before the protocol begins. A message
on the sender's side is posted before the next one is read, so after
`stop_transmission` none is handled.

### ChunkDelivery

Fragments are collected until every chunk has `Need`; only then may the
collector be done, only after that may the source close, and once done at most
one more fragment is accepted. `AdaptiveTransfer` implements it with
`Need = N - MaxM`, the smallest k a label can carry. It is not the k a chunk was
generated with: see the finding.

### Retrieval

A progressive reader holds one `ComposedReconstructor` and calls
`progressive_reconstruct(tolerance)` (or `reconstruct`) again and again. It is
sequential; what is hard is that four objects keep state between the calls and
none checks the others: the interpreter advances `level_num_bitplanes`, the
retriever its file offsets, the encoder pushes the signs of a level when it
first meets it, and the sizes and stopping indices were fixed when the data was
written.

| TLA+ | Code |
|---|---|
| `index`, `prev` | `level_num_bitplanes`, `prev_level_num_bitplanes` |
| `retrieve` | `retrieve_sizes` |
| `offsets` | `ConcatLevelFileRetriever::offsets` |
| `errLen` | length of each vector of `level_squared_errors` |
| `known` | `level_signs.size()`, which is `level_recording_bitplanes.size()` |
| `heap`, `cursor`, `sweep`, `met` | the interpreter's locals: levels in the priority queue, loop variables, `tolerance_met` |
| `data` | how often each plane is summed up in `data` |
| `restarted` | history: `reconstruct` was called after planes had been retrieved, and left them out of `data` |
| `undefined` | what was read out of bounds; the model stops there |

`begin_...` is a call up to the interpreter's first decision, one per
interpreter; `next_...` adds a plane (a batch, for negabinary); `reconstruct` is
the rest of the call. `interpreter` stands for the template parameter, and with
it for the encoder: the negabinary one keeps no signs. Levels and planes count
from 0, as in the code. `Start` is the layout of a level file that
`ConcatLevelFileWriter` leaves. Errors are integers, 64 for 1.0; the estimators
are linear with one factor, which changes no comparison of the model, and the
rounding of `accumulated_error` is left out. Where the priority queue has
several tops, any may come first.

### LossReport, RefactorSender, TierRestore

`LossReport` is the part of the receivers that `AdaptiveTransfer` abstracts to
"a report may change any label". Its variables are those of the code
(`fragments_per_chunk_` of the one variable, `processed_chunks_count_`,
`variables` as `stored`); `sent` and `udp` are there to know what really was
lost. `receive_fragment` is one action, in the order of the code: tracking, report,
then storing. `ByCount` selects the report of `mgard_ec_reconstruct.cpp`, which adds up
counts where `receiver_adaptive.cpp` counts what it stores.

`RefactorSender` has one action for every step of a thread that the other thread can
tell apart: the test of `should_stop_`, the `send_to`, and the load and the store of
`total_bytes_sent_ +=` are separate, because nothing makes them atomic. `queue` holds the
posted handlers, `main` and `io` the program counters. The receiver is an
environment that reports and answers an EOT.

`TierRestore` follows a variable from its bitplanes through tiers, chunks
(`ChunkSize` is `splitVector`) and fragments to the rows read. The receiver calls
`restoreData` when it holds k fragments of every chunk; which, and which sites are
unavailable, is chosen in `Init`. `size_t` has 8 bits (`SizeMax`), so that the count that goes
below zero wraps. A chunk without a data fragment leads to the dereference of the
end of an empty map: the model stops there (`undefined`). `end_tier` is the end of the loop over
chunks and what follows it, reached in three ways: all chunks decoded, the break for lack of
parity (before the first chunk, the count untouched), and the break at a chunk that cannot be decoded
(the count taken down first). The history `failed` has the tiers left by either break, `Abandoned`
those of the first kind. The copy of a bitplane out of `dataTiersValues` is not checked by
the code: a row that lies `Inside` the value is read (`read_row`), at any other the model stops
(`read_outside`, `pc = "outside"`).

### BitplaneEncoders, Interleavers

A coefficient is an integer with `F` bits behind the point, which stands for
`ldexp(x, num_bitplanes - exp)`; the streams are sequences of words, one per block,
and `pos` the decoder's pointers. `encoder` chooses the class; a definition is the code
of all three where they agree. `collect_level_errors` is exact, the code's is in
double. Decoding calls take any number of further planes (`begin_progressive_decode`), and
`decode` any number from the first.

An interleaver is the sequence of places it walks through; a coefficient is
the name of its place, so that a wrong pointer shows. `Loops` is three nested loops over
the cells of a box, `Place` the pointer arithmetic that finds a cell in the array.
`Blocked` is the walk of `collect_data_3d_blocked`; `Boxes` are the seven boxes of a level
(`Beyond` says in which directions each lies behind the coarser level, hence where it begins
and how long it is), `Picks` the order in which `skip_one_data_collection` takes from them
(`Alternate` is its pair of loops in one direction). `pos` and `ReadFrom` are where `reposition`
lets the boxes begin in `tmp_buffer` when it writes them and when it reads them; the second
follows from how far the first has been moved. `buffers` and `out` are the buffers of the
levels and the data put back. `interleave` and `reposition` handle one level at a time.

### The simulations

A simulation is itself a program whose processes interleave where they `yield`. The
link delays all packets by the same time, so it is FIFO; otherwise time is
abstracted away: a process that waits for the clock may go on at any moment, and a
timer is pending or expired. Loss events are produced at any time, up to `MaxLosses`, and stay
in the store until a packet meets them. In `AdaptiveSimulation` the search for the
best parity is any choice from `Ms`; a time interval is only zero or not zero
(`first`), `changed` remembers that a report has changed the parity. In `GoBackN` the lock is held where the code holds it, `recording` is
`handle_ack` between its assignment of `latest_ack_id` and the lock.

## Runs

| Run | Instance | Shows |
|---|---|---|
| `tiers` | 2 tiers of 1 chunk, N = 2, m 0 or 1, a UDP receive may fail for good | all safety properties, the request property and the refinement |
| `live` | 1 tier of 2 chunks, connection may break | the exchange ends |
| `decodable` | 2 tiers of 1 chunk, N = 3 | finding: a chunk declared received cannot be decoded |
| `calls` | 3 levels of 3 planes, 5 interpreters, 6 tolerances, 3 calls | all properties of `Retrieval`, and that calls return |
| `minimum` | the same, sign-excluding | finding: levels are left out that were needed |
| `adaptive_changing` | 2 tiers, parity 0 or 1, batches of 2, 3 losses | loss counts, completeness under one code, quiet end; without a change of parity, chunks cover the tiers and the transfer ends |
| `goback_transfer` | 2 packets, window 2, threshold 2, 2 losses | no key error, nothing forgotten, refinement of `InOrderDelivery` with its liveness |
| `loss_reports` | 2 tiers of 2 and 1 chunks of 2 fragments, 6 arrivals | reports hide nothing, are never negative, are not repeated |
| `restore` | 3 tiers of 1 or 2 chunks of 4 fragments, up to 2 unavailable sites | which tiers are counted, assembly and the rows read |
| `refactor_stop` | 3 fragments, 2 reports | what still leaves after the stop, and the end of the threads |
| `encoders_prefix` | 3 encoders, up to 3 coefficients of 10 values, 4 planes, blocks of 2 | decoding, streams and errors |
| `interleave_levels` | every mixture of dimensions 4, 5, 7, and 8 x 9 x 8 | the levels partition the data and are put back |

Two tiers are needed for the three ways of naming missing chunks, for the tier a
report does not name, and for chunk numbers shared by tiers. Two chunks of one
tier are needed for a request that names one chunk and not its neighbour. N = 2
with one parity fragment is the least for which labels 1 and 2 disagree; N = 3
lets a chunk be neither empty nor full when it is misjudged. No counter needs a
bound: datagrams are a set, and the protocol itself keeps the TCP channels short.
The runs of all modules stop without deadlock checking because both programs do stop.

For `Retrieval`, three levels are the least for which round robin can stop before,
at and after a level that is neither first nor last. Three planes give a plane
at, before and after `stopping_index` and one after `latter_index`, and a
negabinary batch of two. Three calls let one begin, one continue, one find
everything read; `MaxCalls` is the only bound. The tolerances lie between the
errors of all kinds of prefixes, from one that is met by nothing to one that is
met at once; one level has only zeros, whose error jumps up with its first
plane. Deadlock is not checked because the calls end. `FairSpec` says that a
call under way goes on, being a sequential loop; no call need be made.

Fairness of `AdaptiveTransfer` (`FairSpec`): the sender's thread keeps running handlers, the
receiver's thread keeps handling TCP messages, and for every fragment, if copies
are in flight again and again, one is received at last. The last is strong
fairness per fragment, not per datagram: retransmission makes new copies, and a
network that loses every copy for ever admits no protocol. Nothing is assumed of
losses, and a connection need not break or stay. `live` excludes a failing UDP
receive, because the receiver does not restart it and then indeed never ends.

Bounds of the other modules. `MaxLosses` in the simulations: 3 losses lose a whole
chunk and a fragment of a retransmission; more losses repeat what a round may do.
`MaxTransit` in `GoBackN` only makes a sender wait for room; with 2 or 3 packets in
flight an old and a new copy of a packet meet. Threshold 2 in `GoBackN` is the least that tells one duplicate from enough. In `LossReport` a
threshold of 2 chunk numbers (10 in the code) with 3 chunks over 2 tiers has numbers of one
and of both tiers, and `MaxArrivals` lets every fragment arrive, some repeatedly.
In `RefactorSender` three fragments have one before, at and after the stop. In
`TierRestore` tier 0 has two bitplanes in one chunk, tier 1 two in two chunks of unequal size, the first
of which holds the first bitplane and more, tier 2 one. With no or one site unavailable any tier may fail at
any chunk, with two tier 1 is abandoned as well, so that tiers are missing first, between and last, for
either reason; the run reaches every end of `restoreData`, `done` with all tiers, with the first ones
only, and `outside`. In `BitplaneEncoders` blocks of 2 with 1 to 3 coefficients are a
leftover alone, full, and behind a block; the values have either sign, first bits on
every plane, and bits behind the point. `encoders_prefix` does not ask `NothingOutside`, which the
code does not keep; a behaviour that goes outside stops there or goes on with the array as it is.

Fairness of the simulations: the event loop of simpy runs every process that is due, so each
sender, link and receiver is weakly fair; losses never need to happen. In `GoBackN`
`record_ack` waits for a lock that simpy grants in the order of the requests, while `send` takes
and releases it again and again: strong fairness, because its enabledness comes and goes; the
clock advances, so packets age. `RefactorSender`: both threads run; nothing is assumed of the
receiver.

## Findings

`findMissingChunks` compares the number of fragments with the k of the lowest
fragment held. The sender writes into each fragment N minus the m now in force,
`DEFAULT_M` (10) at first, while `main` generates tier 0 with 16 parity
fragments and the others with none. A chunk of tiers 1 to 3 is therefore taken
to be received with 22 of its 32 fragments (or 16, after reports), all of which
are needed. `VerifiedChunksDecodable` is violated; `StoppedImpliesReceived`
says what does hold.

`reconstruct` writes the computed errors through a reference into the stored
ones, with one element more on every call. Only `level_errors[i].back()` sees
it: the sign-excluding interpreter takes the least error to be half, a quarter,
... of what it is, leaves out levels it needs and misses tolerances (run
`minimum`). It is therefore excepted from `ToleranceReached`.

### What else the code does not keep

At the end of some modules stand statements taken from comments or messages of the
program which the model, as the code, violates. No configuration lists them; with one of them in place of
the INVARIANTS or PROPERTIES of the configuration named, and the constants given
in brackets, TLC prints the behaviour.

* `Retrieval_calls.cfg` with `Interpreters = {"greedy"}`: `GreedyBasedSizeInterpreter` puts levels on
  its heap without asking whether they have a plane left (`AvailableData`), and may begin a
  level before the one above it, for which the sign-keeping encoders are not prepared
  (`NecessaryInformation`): their `level_signs.size() == level` test expects the levels in order.
  The sign-excluding interpreter, which the test programs use, avoids both: `WithinBounds`.
* `LossReport_reports.cfg`: fragments that are on their way, not sent yet, or being stored
  count as lost (`LostIsLost`); the chunk that arrives is not among the "most recent" ones if
  a tier before had more chunks (`MostRecent`); later tiers have no report
  (`EveryThreshold`; for these two `NumChunks <- ThreeAndTwo`, `N = 1`, `Analyzed = 1`); the receiver of `mgard_ec_reconstruct.cpp` counts repeated
  datagrams, and the loss becomes negative (`NeverNegative` with `ByCount = TRUE`).
* `RefactorSender_stop.cfg`: `stop` discards what was posted, so "Completed!" does not mean sent
  (`AllSent`); a datagram sent in the moment of closing ends the program by an uncaught
  exception (`NeverTerminates`); a count may be lost (`TotalIsSum`); requests are parsed
  as reports (`ReportsOnly`).
* `TierRestore_restore.cfg`: a tier abandoned because "parity chunks are not enough to recover" is
  announced among the recovered ones (`AnnouncedAreRecovered`), and which tiers are read
  follows the count, not the tiers: with a tier abandoned, or one that failed before a decoded
  one, bitplanes are copied out of a value that is empty or too short (`FailedTierIsSkipped`); the
  assertion on available fragments can fail (`SomethingAvailable`).
* `BitplaneEncoders_prefix.cfg`: levels shorter than a block make an unsigned loop bound wrap, and a
  leftover of zeros is cleared beyond its end (`NothingOutside`); a buffer is one word
  short (`StreamsFit` with `BlockSize = 4`, `Lengths = {5}`); with an odd number of planes
  (`B = 3`) the negabinary encoder decodes every coefficient negated (`DecodesPrefix`).
* `AdaptiveSimulation`: after a change of parity in the middle of a tier data may be left
  out and a chunk may never be complete; the conditions on `changed` in `CoversTiers` and `Finishes` say
  so. A report whose interval is zero divides by it: `crashed`. A chunk of which only
  parity arrives is taken to need nothing: `required` is 0.

## Proofs

`AdaptiveTransferProofs` proves for all values of the constants that satisfy
`CodingAssumption` (so for any number of tiers, chunks and fragments, with and
without faults): `TypeOK`, `OneTurn`, `NoSendOnClosedSocket`,
`StoppedImpliesReceived`, `RequestsExactlyTheMissing` and that `AdaptiveTransfer`
implements `ChunkDelivery`.

The argument is one inductive invariant, `IInv`. `OneTurn` is not inductive: that
the sender will not receive a request after closing depends on the receiver
never concluding while an end of transmission is in flight. `Concluded` says so:
once `declared`, nothing of the exchange is in flight but the final answer, and
every chunk holds at least N - MaxM fragments. That needs the receiver to know
all chunks when it decides, hence `MetadataFirst`: as long as it does not, the
metadata is at the head of the channel. The lemmas `Occurs...` say how tokens
move with the messages of a channel; `CompleteHolds` and `HeldGrows` what a
complete chunk holds and that it never loses a fragment; `CoversMissing` that a
request covers what is incomplete.

`RetrievalProofs` proves all safety properties of the run `calls` for every
layout, error, tolerance, number of levels and planes that satisfy
`LayoutAssumption`, and any number of calls. The inductive invariant `IInv` says
what holds in the middle of a call: the offsets are those of `prev`
(`Files`), the sizes to be read are the difference to `index` (`Sizes`), `data`
holds consecutive planes up to `prev` (`Sums`), from the first one on as long as no `reconstruct`
has left out planes that had been retrieved (`restarted`). `WithinBounds` needs that every
interpreter but the greedy one begins the levels in order. Each has its own
reason, `Round`, `InOrder` and `Prefix`, from which `BegunInOrder` follows; with
it `Signs`, that exactly the levels begun are recorded, is kept by the encoder.
`ToleranceReached` needs that giving up means everything has been fetched: for
round robin, which looks at the last level only, that is `Round` again, for the
heaps `Heap`. `Estimate` is never expanded: the argument does not depend on how
errors are estimated.

`GoBackNProofs` proves for any number of packets, window and threshold the type invariant, that
the going-back loop never meets a missing key (`NoKeyError`), that a packet leaves
`unacked_pkt` only after its delivery (`NothingForgotten`), and that `GoBackN` implements the safety of
`InOrderDelivery` (`InOrder`). None is inductive alone. The loop runs over a range fixed before
`handle_ack` assigns `latest_ack_id` without the lock; what saves it is that
acknowledgments in flight ascend, from `latest_ack_id` to what the receiver expects
(`AcksAscend`), that what was removed lies below `latest_ack_id` (`AckedBelowLatest`), and that a packet
is removed by its own acknowledgment only, for which `record_ack` waits for the lock the loop holds.

`RefactorSenderProofs` proves for any number of fragments and reports that at most one fragment
follows the stop (`StopsWithinOne`), that what is sent is an initial part of the fragments, each
once and in order (`SendsInOrder`), and the types. `OneAfterStop` is not inductive: a handler that
has tested `should_stop_` may still send, one that has not will not, so `AfterStop` looks at where
the io thread is. The order follows from what is queued: the last fragments posted, exactly those
not yet sent as long as nothing has been discarded (`QueuedLast`, `Lengths`). `Totals` bounds the
counter that both threads read and write back: what a thread holds in a register is never more
than has been sent when it writes it, so additions are lost but never invented.

`LossReportProofs` proves for any tiers, chunks, fragments and thresholds, and any losses, copies
and orders of the datagrams, that each report of a tier covers more chunk numbers than the one
before (`ReportsAreNew`, both receivers), that `receiver_adaptive.cpp` (`ByCount = FALSE`) never
reports a negative loss (`LossIsNatural`) and that no fragment lost from the chunks a report is
about is left out of it (`LossIsReported`, a property of steps). The hypothesis `ByCount = FALSE`
is needed: with the counts of `mgard_ec_reconstruct.cpp` the loss does become negative (see
above). The argument is one of cardinalities: what the code adds up is the size of
`StoredIn`, the fragments held of the chunks looked at, because these are disjoint
(`TotalIsStored`), and a chunk has at most N of them. The module begins with what is needed of
the folds of the community modules, derived without induction: a set of least size about
which two functions differ does not exist.

`TierRestoreProofs` proves the four invariants of `restore` for any number of tiers that the
type of the count can hold, any bitplanes and parities, and whatever was received and is
unavailable. `CountsAbandonedToo`: the count is the number of tiers decoded and, because only the other
break takes a tier out of it, of those abandoned for lack of parity; decrementing at zero and
incrementing again keep that modulo `SizeMax`, and as the sum is at most `NumTiers` it holds
of the numbers themselves. `ReadsInside`:
`ChunksFacts` shows that the unequal chunks of `splitVector` add up to the tier, so a tier
that did not fail is as long as it was (`Whole`). `ReadsTheRecovered` has two parts. A tier
that failed is shorter than it was, so a row of it lies outside: a reconstruction that comes to the
end of the rows has met none, hence all failed tiers are at or above the count. By the count there are no
fewer of them than tiers from the count on, so they are exactly these, and the rows
read are those of the decoded tiers. And if only the last tiers failed to decode, the count is the
first of them, so no row before the end is outside. Both need that the
query table is in the order of the tiers and leaves none out (`TableFacts`, by a least
counterexample over the tiers already tabulated). `TiersAssumption`, no tier
is empty, is what the code needs: an empty tier has no chunks, and `splitVector` divides by
their number (`mgard_ec_refactor.cpp:228` and `239`).

`AdaptiveSimulationProofs` proves the safety of `adaptive_changing` for any number of tiers,
fragments, parities, batch sizes and losses. `IInv` has three parts.

* `Flow`: there is at most one sending process; when it is gone `last_fragment` is the last packet
  on the link, and when `ended` nothing is (`Turn`, hence `Stops`). `Sent` says what each control
  message on the link counts: the packets since the one before, or for the first one also
  those that have arrived or been dropped. What has been counted but is not on the link yet
  is what the process has left (`Pending`), which differs between `send`, which counts a chunk when it
  begins, and `retransmit_chunks`, which counts fragments as they leave. `AccountPacket`, `AccountControl`,
  `AccountArrival` and `AccountReport` say how this moves with the packets; `CountsLosses` is the
  last of them at the head of the link.
* `Divided`: without a change of parity every chunk up to `LastChunk` has been generated or lies
  ahead of the process. That the bounds of the chunks leave nothing out is the arithmetic of
  `DividesTiers`.
* `Codes`: for every chunk there is one parity of which all counted fragments are, different
  ones, and all fragments of it on their way (`OneCode`). It is kept when a chunk is generated again
  with another parity because then nothing of it is counted or on its way
  (`Fresh`): the receiver resets the count in the instant in which it asks, and asks only when
  the link is empty. No chunk is asked for twice at once (`Todo`), which `Asked` shows of the
  order of the missing chunks.

`InterleaversProofs` proves for data of any three dimensions, any number of levels, any size of the
blocks and each interleaver that every buffer is filled with exactly the elements of its
level, none twice and none on two levels (`Partition`), and that reposition puts every
coefficient back where it came from (`PutsBack`). That the dimensions are at least one, and the size
of a block, is all it assumes (`InterleaverAssumption`). The invariant says that each buffer
lists the places of its level, every one once, in the order that reposition will walk again
(`BuffersInv`), and that what has been put back are these places with their own data (`OutInv`).
It is kept by every step because the three orders list the same set, `OwnPlaces`:

* `Lists(s, S)`: a sequence has every element of S once. Nested loops list what their bodies list
  if every element is of one cell only (`LoopsList`).
* Cells and places correspond one to one (`PlaceArithmetic`, `PlacesAreCells`: digits of a number in a
  mixed radix), also when the box is a part of the data.
* The blocks of a dimension cover it exactly, the shorter last one included (`BlocksCover`), so the
  blocked walk lists its box (`BlockedLists`); the seven boxes are the cells of a level that are not
  of the coarser one, each cell in one box (`BoxesPartition`).
* For the SFC interleaver, `skip_one_data_collection` takes from each box exactly as often as the box has
  coefficients, whatever the mixture of loops (`PicksCount`; `Mixtures` are its polynomial
  identities). It needs that no dimension of a level is less than that of the level below or more than
  twice it, which `LevelDimsFacts` shows of the halving. In `reposition` the pointers moved on by one
  box's coefficients are then those of the next box (`PosFacts`), the segments of `tmp_buffer` do not
  overlap (`SegmentsApart`), and each coefficient comes to its place (`PutToPlaces`).

What runs over data is recursive here only in folds and in functions over positions; where induction
would be the argument, the proofs take the least position at which the claim fails (`LeastOf`).

The runs check the safety of `AdaptiveTransfer` with a failing UDP receive only; with a broken
connection too (`LinkMayBreak` and `UdpMayFail` both TRUE in `AdaptiveTransfer_tiers.cfg`) TLC
explores 1.1 million states without an error, which takes too long to be repeated as a run, and the
theorems hold whatever these constants are. `TypeOK` of `LossReport`, `RefactorSender`,
`AdaptiveSimulation` and `Interleavers` is proved rather than listed in a run; that of `BitplaneEncoders`
documents the ranges of its variables and holds in the instance of its run.

Only model-checked: liveness (`SenderEnds`, `ReceiverConcludes`, `CallsReturn`, `Finishes`,
`Ends`, the liveness of `DeliversAll`), which is beyond the prover; the violations; and
`DecodesPrefix`, `ReadsToTheEnd` and `ErrorsAreExact` of `BitplaneEncoders`, which computes with the
bitwise operators of a library the prover does not read and with powers of two, of which
it knows nothing. Its run covers every kind of case listed under the bounds.

## Not modelled, and the plan

* Generated and vendored code: about 24 000 of the 28 000 lines counted as implementation are
  protoc output (`fragment.pb.*`, `message.pb.*`), copied several times under `other/`, and socket
  examples of boost and zmq. They have no logic of this system: serialization is used, and modelled,
  as the delivery of a message or the failure to parse it. The share of lines the model covers
  is therefore small however much of the system's own code is in it.
* The decomposition (MGARD, a library of floating-point transforms), rounding, the squared error
  collector, the s-norm estimators and the search for the best parity (`TransmissionTimeCalculator`,
  `formula*.py`): numerics, which enter the models as a choice among their results.
* The default and null compressors (all planes alike), reorganizers and writers (file layout,
  no state shared with anything; `Retrieval` starts from the layout that `ConcatLevelFileWriter`
  leaves), the HPSS retriever and writer.
* Other simulations: `simulation.py` is `simulationadaptive.py` with the parity fixed and
  without reports; `simulation tcp work.py` and `simulation tcp2.py` are windows with selective
  acknowledgments, experiments beside the two protocols modelled; `simulation sc2.py` and `simulationadaptive copy.py`
  are variants of these, `simulation_timeconstraint.py` does not run as committed,
  `udpsimulation.py` has no retransmission.
* TCP-only and UDP-only prototypes under `test/new`: no retransmission or no end.
* Errors of a socket that is open: any error of the UDP send at `sender_adaptive.cpp:482` throws, of which
  `AdaptiveTransfer` has the closed socket only; failing TCP writes of `mgard_ec_refactor.cpp` are left
  out of `RefactorSender`.
* A dimension of 1: `Interleavers` starts from dimensions of at least 2, because for 1 the number of
  levels, a `uint8_t`, would wrap (`ComposedRefactor.hpp:76`).
* Parsing order, the receive left pending at the end of the receiver,
  and a second `load_metadata` are hazards without a property; their notes say why.

What could come next: the file layout (`BasicReorganizer`, `RoundRobinReorganizer`, the HPSS writer) as a
module that produces the `Start` of `Retrieval`; `Retrieval` with a second `load_metadata`; the
encoders with planes as functions instead of words, to be proved about.
