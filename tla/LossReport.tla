----------------------------- MODULE LossReport -----------------------------
(***************************************************************************)
(* The loss reports of receiver_adaptive.cpp: what update_fragments_       *)
(* tracking counts, when it sends a report, and what                       *)
(* send_fragments_report says was received and expected, against what      *)
(* really was lost.  With ByCount the reports are those of the receiver in *)
(* mgard_ec_reconstruct.cpp, which adds up the tracked counts.             *)
(* AdaptiveTransfer has the other half: a report may change any label.     *)
(***************************************************************************)
EXTENDS Integers, FiniteSets, Sequences, Functions

CONSTANTS NumTiers,
          NumChunks,    \* chunks of each tier
          N,            \* EXPECTED_FRAGMENTS_PER_CHUNK
          Threshold,    \* CHUNKS_THRESHOLD
          Analyzed,     \* analyzed_chunks
          ByCount,      \* the report of mgard_ec_reconstruct.cpp
          MaxArrivals   \* bound: datagrams received

Tiers == 0 .. NumTiers - 1

ASSUME ReportAssumption ==
    /\ NumTiers \in Nat \ {0} /\ NumChunks \in [Tiers -> Nat \ {0}]
    /\ N \in Nat \ {0} /\ Threshold \in Nat \ {0} /\ Analyzed \in Nat \ {0}
    /\ ByCount \in BOOLEAN /\ MaxArrivals \in Nat

Frags == UNION {{<<t, c, i>> : c \in 0 .. NumChunks[t] - 1, i \in 0 .. N - 1} : t \in Tiers}

VARIABLES
    sent,                   \* fragments the sender has sent at least once
    udp,                    \* datagrams on their way
    stored,                 \* variables: the fragments held
    fragments_per_chunk_,   \* of the one variable: number of a chunk -> arrivals
    processed_chunks_count_,
    reports                 \* the reports sent
vars == <<sent, udp, stored, fragments_per_chunk_, processed_chunks_count_, reports>>

Init ==
    /\ sent = {} /\ udp = {} /\ stored = {}
    /\ fragments_per_chunk_ = <<>>
    /\ processed_chunks_count_ = [t \in Tiers |-> 0]
    /\ reports = <<>>

-----------------------------------------------------------------------------
\* The queue of the sender holds tier after tier, chunk after chunk.
Earlier(f) ==
    {g \in Frags : \/ g[1] < f[1]
                   \/ g[1] = f[1] /\ g[2] < f[2]
                   \/ g[1] = f[1] /\ g[2] = f[2] /\ g[3] < f[3]}

send(f) ==
    /\ f \notin sent /\ Earlier(f) \subseteq sent
    /\ sent' = sent \cup {f} /\ udp' = udp \cup {f}
    /\ UNCHANGED <<stored, fragments_per_chunk_, processed_chunks_count_, reports>>

\* A chunk is sent again once all has been sent.
retransmit(t, c) ==
    /\ sent = Frags
    /\ udp' = udp \cup {f \in Frags : f[1] = t /\ f[2] = c}
    /\ UNCHANGED <<sent, stored, fragments_per_chunk_, processed_chunks_count_, reports>>

lose(f) ==
    /\ udp' = udp \ {f}
    /\ UNCHANGED <<sent, stored, fragments_per_chunk_, processed_chunks_count_, reports>>

-----------------------------------------------------------------------------
Tracked(c) ==
    [d \in DOMAIN fragments_per_chunk_ \cup {c} |->
        (IF d \in DOMAIN fragments_per_chunk_ THEN fragments_per_chunk_[d] ELSE 0)
            + (IF d = c THEN 1 ELSE 0)]

\* Mutant of Due: the count of the last report is not looked at.
DueAlways(size, t) == size % Threshold = 0
Due(size, t) == size % Threshold = 0 /\ size > processed_chunks_count_[t]

\* The highest chunk numbers.
LastChunks(counts) ==
    {c \in DOMAIN counts : Cardinality({d \in DOMAIN counts : d > c}) < Analyzed}

StoredOf(t, c) == {f \in stored : f[1] = t /\ f[2] = c}

\* Mutant of TotalReceived: arrivals are added up, repeated ones too.
TotalOfCounts(t, counts) == SumFunctionOnSet(counts, LastChunks(counts))

TotalReceived(t, counts) ==
    SumFunction([c \in LastChunks(counts) |->
                    IF ByCount THEN counts[c] ELSE Cardinality(StoredOf(t, c))])

\* Mutant of Expected: only chunks of which something is held are expected.
ExpectedOfHeld(t, counts) == N * Cardinality({c \in LastChunks(counts) : StoredOf(t, c) # {}})
Expected(t, counts) == N * Cardinality(LastChunks(counts))

\* send_fragments_report.  `after` is not in the report: the chunk numbers known then.
report(t, counts) ==
    [tier |-> t, received |-> TotalReceived(t, counts), expected |-> Expected(t, counts),
     after |-> Cardinality(DOMAIN counts)]

\* update_fragments_tracking.
update_fragments_tracking(f) ==
    LET counts == Tracked(f[2])
        size == Cardinality(DOMAIN counts)
    IN  /\ fragments_per_chunk_' = counts
        /\ IF Due(size, f[1])
           THEN /\ processed_chunks_count_' = [processed_chunks_count_ EXCEPT ![f[1]] = size]
                /\ reports' = Append(reports, report(f[1], counts))
           ELSE UNCHANGED <<processed_chunks_count_, reports>>

Arrivals == SumFunction(fragments_per_chunk_)

\* receive_fragment: the tracking, with the report, comes before the fragment is stored.
\* The network may deliver another copy later.
receive_fragment(f) ==
    /\ Arrivals < MaxArrivals
    /\ update_fragments_tracking(f)
    /\ stored' = stored \cup {f}
    /\ udp' \in {udp, udp \ {f}}
    /\ UNCHANGED sent

Next ==
    \/ \E f \in Frags : send(f)
    \/ \E t \in Tiers : \E c \in 0 .. NumChunks[t] - 1 : retransmit(t, c)
    \/ \E f \in udp : lose(f) \/ receive_fragment(f)

Spec == Init /\ [][Next]_vars

-----------------------------------------------------------------------------
(* Properties                                                               *)

Numbers == UNION {0 .. NumChunks[t] - 1 : t \in Tiers}

TypeOK ==
    /\ sent \subseteq Frags /\ udp \subseteq sent /\ stored \subseteq sent
    /\ fragments_per_chunk_ \in UNION {[S -> 1 .. MaxArrivals] : S \in SUBSET Numbers}
    /\ processed_chunks_count_ \in [Tiers -> 0 .. Cardinality(Numbers)]
    /\ \A i \in DOMAIN reports : reports[i].tier \in Tiers /\ reports[i].received \in Nat

\* Repeated and late datagrams make no report again: those of a tier are about more and
\* more chunk numbers.
ReportsAscend ==
    \A i, j \in DOMAIN reports :
        i < j /\ reports[i].tier = reports[j].tier => reports[i].after < reports[j].after

\* The number of lost fragments, an int that the sender computes from two unsigned ones
\* and divides into a rate, is not negative, whatever arrives twice.
NeverNegative == \A i \in DOMAIN reports : reports[i].received <= reports[i].expected

\* What a step that makes a report calls lost.
Reported == reports'[Len(reports')]
Lost == {f \in sent : f \notin udp /\ f \notin stored}
IsReport == Len(reports') > Len(reports)

\* A report calls lost at least what was lost of the chunks it is about.
NothingHidden ==
    [][IsReport => Reported.expected - Reported.received >=
           Cardinality({f \in Lost : f[1] = Reported.tier
                                     /\ f[2] \in LastChunks(fragments_per_chunk_')})]_vars

-----------------------------------------------------------------------------
(* Statements of the program's comments that its code does not keep         *)

\* "Calculate the number of lost fragments": what a report calls lost was lost.
LostIsLost == [][IsReport => Reported.expected - Reported.received <= Cardinality(Lost)]_vars

\* "Process up to 10 most recent chunks": the chunk that is just arriving is one of them.
MostRecent ==
    [][IsReport => \E f \in udp : receive_fragment(f)
                                  /\ f[2] \in LastChunks(fragments_per_chunk_')]_vars

\* "Check if we need to send a report (every 10 chunks)": a tier of which that many chunks
\* have arrived has had a report.
EveryThreshold ==
    \A t \in Tiers :
        Cardinality({c \in Numbers : StoredOf(t, c) # {}}) >= Threshold =>
            \E i \in DOMAIN reports : reports[i].tier = t
=============================================================================
