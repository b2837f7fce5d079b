----------------------------- MODULE TierRestore -----------------------------
(***************************************************************************)
(* The way of a variable through the erasure code: mgard_ec_refactor.cpp   *)
(* concatenates bitplanes to tiers and splits these into chunks, restoreData *)
(* in mgard_ec_reconstruct.cpp decodes chunk after chunk, counts the tiers *)
(* it recovered and takes the bitplanes out of them again.  What happens   *)
(* to a fragment in between is the choice of `held`: the receiver calls    *)
(* restoreData when it has k fragments of every chunk.                     *)
(***************************************************************************)
EXTENDS Integers, FiniteSets, Sequences, SequencesExt, FiniteSetsExt

CONSTANTS NumTiers,
          N,                \* fragments of a chunk, 32
          M,                \* dataTiersECParam_m of each tier
          FragmentSize,
          Pieces,           \* of each tier: the sizes of its bitplanes, in order
          UnavailableSites  \* the values of the program's argument unavaialbleSites

Tiers == 0 .. NumTiers - 1
SizeMax == 256              \* size_t, 2^64 in the code

ASSUME RestoreAssumption ==
    /\ NumTiers \in 1 .. SizeMax - 1 /\ N \in Nat \ {0} /\ M \in [Tiers -> 0 .. N - 1]
    /\ FragmentSize \in Nat \ {0} /\ UnavailableSites \subseteq 0 .. N
    /\ Pieces \in [Tiers -> Seq(Nat)]

-----------------------------------------------------------------------------
(* The refactoring program                                                  *)

K(t) == N - M[t]

\* The size of the first j bitplanes of tier t, before the next is appended.
currentTierCopidedSize(t) ==
    LET size[j \in 0 .. Len(Pieces[t])] == IF j = 0 THEN 0 ELSE size[j - 1] + Pieces[t][j]
    IN  size
TierSize(t) == currentTierCopidedSize(t)[Len(Pieces[t])]

\* An empty tier has no chunks, and splitVector divides by their number: with one the
\* refactoring program ends before anything is sent.
ASSUME TiersAssumption == \A t \in Tiers : TierSize(t) > 0

\* calculateNumberOfChunks
NumChunks(t) == (TierSize(t) + FragmentSize * K(t) - 1) \div (FragmentSize * K(t))

\* Mutants of ChunkSize: the remainder is dropped; every chunk is as large as the first.
ChunkSizeEqual(t, c) == TierSize(t) \div NumChunks(t)
ChunkSizeRoundedUp(t, c) == (TierSize(t) + NumChunks(t) - 1) \div NumChunks(t)

\* splitVector: the first chunks take the remainder, one unit each.
ChunkSize(t, c) ==
    TierSize(t) \div NumChunks(t) + IF c < TierSize(t) % NumChunks(t) THEN 1 ELSE 0

\* The query table: tier, offset and size of every bitplane.
queryTable ==
    FlattenSeq([u \in 1 .. NumTiers |->
        [j \in DOMAIN Pieces[u - 1] |->
            [tier |-> u - 1, size |-> Pieces[u - 1][j],
             offset |-> currentTierCopidedSize(u - 1)[j - 1]]]])

Chunks == UNION {{<<t, c>> : c \in 0 .. NumChunks(t) - 1} : t \in Tiers}

-----------------------------------------------------------------------------
VARIABLES
    held,               \* chunk -> sites of the fragments received: data first, then parity
    unavailable,        \* unavailableSiteList
    pc,                 \* "decode", "rows", or how restoreData ended
    tier, chunk,        \* loop variables
    got,                \* the size of dataChunkValues
    dataTiersValues,    \* the size of the value of each tier
    dataTiersRecovered,
    row,                \* the next row of the query table
    read,               \* history: rows taken out
    failed              \* history: tiers left before their last chunk was decoded
input == <<held, unavailable>>
vars == <<input, pc, tier, chunk, got, dataTiersValues, dataTiersRecovered, row, read, failed>>

Init ==
    /\ held \in {h \in [Chunks -> SUBSET (0 .. N - 1)] :
                     \A x \in Chunks : Cardinality(h[x]) >= K(x[1])}
    /\ unavailable \in UNION {kSubset(u, 0 .. N - 1) : u \in UnavailableSites}
    /\ pc = "decode" /\ tier = 0 /\ chunk = 0 /\ got = 0
    /\ dataTiersValues = [t \in Tiers |-> 0] /\ dataTiersRecovered = 0
    /\ row = 1 /\ read = {} /\ failed = {}

HasParity(t) == M[t] >= Cardinality(unavailable)
DataHeld == {s \in held[<<tier, chunk>>] : s < K(tier)}
Available == held[<<tier, chunk>>] \ unavailable

InLoop == pc = "decode" /\ tier < NumTiers /\ chunk < NumChunks(tier)

\* The first data fragment says how long the fragments are; without one the iterator is
\* dereferenced all the same.
no_data_fragment ==
    /\ InLoop /\ HasParity(tier) /\ DataHeld = {}
    /\ pc' = "undefined"
    /\ UNCHANGED <<input, tier, chunk, got, dataTiersValues, dataTiersRecovered, row, read, failed>>

\* assert(num_avail_frags > 0)
nothing_available ==
    /\ InLoop /\ HasParity(tier) /\ DataHeld # {} /\ Available = {}
    /\ pc' = "aborted"
    /\ UNCHANGED <<input, tier, chunk, got, dataTiersValues, dataTiersRecovered, row, read, failed>>

Decodable == Cardinality(Available) >= K(tier)

decode_chunk ==
    /\ InLoop /\ HasParity(tier) /\ DataHeld # {} /\ Available # {} /\ Decodable
    /\ got' = got + ChunkSize(tier, chunk)
    /\ chunk' = chunk + 1
    /\ UNCHANGED <<input, pc, tier, dataTiersValues, dataTiersRecovered, row, read, failed>>

\* Mutant of Uncounted: a chunk that cannot be decoded is only left out.
UncountedNot == dataTiersRecovered
Uncounted == (dataTiersRecovered - 1) % SizeMax

\* The end of the loop over chunks, by itself or by a break, and what follows it.  Only the
\* break at a chunk that cannot be decoded takes the tier out of the count.
end_tier ==
    /\ pc = "decode" /\ tier < NumTiers
    /\ InLoop => ~HasParity(tier) \/ (DataHeld # {} /\ Available # {} /\ ~Decodable)
    /\ failed' = IF InLoop THEN failed \cup {tier} ELSE failed
    /\ dataTiersRecovered' =
           ((IF InLoop /\ HasParity(tier) THEN Uncounted ELSE dataTiersRecovered) + 1) % SizeMax
    /\ dataTiersValues' = [dataTiersValues EXCEPT ![tier] = got]
    /\ tier' = tier + 1 /\ chunk' = 0 /\ got' = 0
    /\ UNCHANGED <<input, pc, row, read>>

begin_rows ==
    /\ pc = "decode" /\ tier = NumTiers
    /\ pc' = IF dataTiersRecovered = 0 THEN "nothing" ELSE "rows"
    /\ UNCHANGED <<input, tier, chunk, got, dataTiersValues, dataTiersRecovered, row, read, failed>>

\* Mutant of LastRow: tiers are taken to count from 1.
LastRowBefore ==
    row \in DOMAIN queryTable => queryTable[row].tier = dataTiersRecovered - 1
LastRow ==
    row \in DOMAIN queryTable => queryTable[row].tier = dataTiersRecovered

Inside(r) ==
    queryTable[r].offset + queryTable[r].size <= dataTiersValues[queryTable[r].tier]

read_row ==
    /\ pc = "rows" /\ ~LastRow /\ Inside(row)
    /\ read' = read \cup {row} /\ row' = row + 1
    /\ UNCHANGED <<input, pc, tier, chunk, got, dataTiersValues, dataTiersRecovered, failed>>

\* The copy is not checked: it goes outside a value that is empty or too short.
read_outside ==
    /\ pc = "rows" /\ ~LastRow /\ ~Inside(row)
    /\ pc' = "outside"
    /\ UNCHANGED <<input, tier, chunk, got, dataTiersValues, dataTiersRecovered, row, read, failed>>

end_rows ==
    /\ pc = "rows" /\ LastRow
    /\ pc' = "done"
    /\ UNCHANGED <<input, tier, chunk, got, dataTiersValues, dataTiersRecovered, row, read, failed>>

Next ==
    \/ no_data_fragment \/ nothing_available \/ decode_chunk \/ end_tier
    \/ begin_rows \/ read_row \/ read_outside \/ end_rows

Spec == Init /\ [][Next]_vars

-----------------------------------------------------------------------------
(* Properties                                                               *)

\* Tiers left at the first chunk because the parity does not suffice.
Abandoned == {t \in failed : ~HasParity(t)}

\* The count goes down before it goes up, at the first tier from zero to the largest number
\* and back.  It is too high by the tiers abandoned for lack of parity, and by no others: a
\* tier of which a chunk could not be decoded is never counted, one that is whole always.
CountIncludesAbandoned ==
    dataTiersRecovered = (tier - Cardinality(failed)) + Cardinality(Abandoned)

\* A tier of which every chunk was decoded, put together from what it was split into, has
\* every bitplane at its offset.
DecodedIsWhole ==
    \A r \in DOMAIN queryTable :
        queryTable[r].tier < tier /\ queryTable[r].tier \notin failed => Inside(r)

\* No tier was abandoned, and those that failed are the last ones.
OnlyLastFailed == Abandoned = {} /\ \A t \in failed, u \in Tiers : u > t => u \in failed

\* When restoreData comes to the end of the rows, it has taken out the bitplanes of the tiers
\* that were decoded, and only these; when only the last tiers failed it never goes outside.
RecoveredAreRead ==
    /\ pc = "done" => read = {r \in DOMAIN queryTable : queryTable[r].tier \notin failed}
    /\ pc = "outside" => ~OnlyLastFailed

TypeOK ==
    /\ pc \in {"decode", "rows", "done", "nothing", "undefined", "aborted", "outside"}
    /\ tier \in 0 .. NumTiers /\ dataTiersRecovered \in 0 .. SizeMax - 1
    /\ \A t \in Tiers : dataTiersValues[t] \in 0 .. TierSize(t)
    /\ read \subseteq DOMAIN queryTable /\ failed \subseteq Tiers

-----------------------------------------------------------------------------
(* Statements of the program's messages and assertions that its code does   *)
(* not keep                                                                 *)

\* "data tiers recovered!": the number announced is that of the tiers that were decoded,
\* without those whose parity was announced not to be enough.
AnnouncedAreRecovered == pc # "decode" => dataTiersRecovered = tier - Cardinality(failed)

\* "cannot be reconstructed due to a corrupted fragment. Skipping Tier...": what is read
\* is not of a tier that failed.
FailedTierIsSkipped ==
    /\ \A r \in read : queryTable[r].tier \notin failed
    /\ pc # "outside"

\* assert(num_avail_frags > 0)
SomethingAvailable == pc # "aborted"
=============================================================================
