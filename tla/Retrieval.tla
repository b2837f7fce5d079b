------------------------------- MODULE Retrieval -------------------------------
(***************************************************************************)
(* Progressive retrieval: include/Reconstructor/ComposedReconstructor.hpp  *)
(* called again and again with tolerances, together with what it is        *)
(* composed of: a size interpreter, which decides how many bitplanes of    *)
(* each level to read; the file retriever, which keeps an offset per level *)
(* file; the level compressor; and a bitplane encoder, which keeps the     *)
(* signs of every level it has begun to decode.                            *)
(*                                                                         *)
(* The program is sequential.  What it can get wrong is the agreement of   *)
(* the states its parts keep from one call to the next.                    *)
(***************************************************************************)
EXTENDS Integers, FiniteSets
LOCAL INSTANCE FiniteSetsExt

CONSTANTS
    NumLevels,
    B,             \* num_bitplanes: the same for every level
    Start,         \* level -> plane -> its position in the file of the level
    MaxErr,        \* level -> level_error_bounds
    HalfUnit,      \* level -> 2^(exp - 1), exp as frexp gives it for MaxErr
    StoppingIndex, \* level -> stopping_indices
    LatterIndex,   \* AdaptiveLevelCompressor.latter_index
    Interpreters,  \* the interpreters (and encoders) to instantiate
    Tolerances,
    MaxCalls       \* bound on the calls of one behaviour

Levels == 0 .. NumLevels - 1
Planes == 0 .. B - 1
InterpreterNames == {"in_order", "round_robin", "greedy", "sign_exclude", "negabinary"}

ASSUME LayoutAssumption ==
    /\ NumLevels \in Nat \ {0} /\ B \in Nat \ {0} /\ MaxCalls \in Nat
    /\ Start \in [Levels -> [0 .. B -> Nat]]
    /\ \A l \in Levels : Start[l][0] = 0 /\ \A p, q \in 0 .. B : p < q => Start[l][p] < Start[l][q]
    /\ MaxErr \in [Levels -> Nat] /\ HalfUnit \in [Levels -> Nat \ {0}]
    /\ StoppingIndex \in [Levels -> 1 .. B] /\ LatterIndex \in Nat
    /\ Interpreters \subseteq InterpreterNames /\ Tolerances \subseteq Nat

VARIABLES
    interpreter,   \* a template parameter: it never changes
    call,          \* "idle" or the operation under way
    tolerance,     \* of that call
    met,           \* tolerance_met
    heap,          \* levels in the priority queue of a greedy interpreter
    cursor,        \* round robin: the level whose turn it is
    sweep,         \* round robin: "first" completes the round of an earlier call
    index,         \* level_num_bitplanes
    prev,          \* prev_level_num_bitplanes
    retrieve,      \* retrieve_sizes
    errLen,        \* length of each vector of level_squared_errors
    offsets,       \* ConcatLevelFileRetriever.offsets
    known,         \* levels whose signs the encoder has begun to record
    data,          \* level -> plane -> how often it is summed up in data
    restarted,     \* history: reconstruct left planes retrieved before out of data
    undefined      \* "no", or what was read out of bounds

control == <<interpreter, call, tolerance, met, heap, cursor, sweep>>
vars == <<control, index, prev, retrieve, errLen, offsets, known, data, restarted,
          undefined>>

TypeOK ==
    /\ interpreter \in Interpreters
    /\ call \in {"idle", "reconstruct", "progressive_reconstruct"}
    /\ tolerance \in Tolerances \cup {0} /\ met \in BOOLEAN
    /\ heap \subseteq Levels /\ cursor \in 0 .. NumLevels /\ sweep \in {"first", "main"}
    /\ index \in [Levels -> 0 .. B] /\ prev \in [Levels -> 0 .. B]
    /\ retrieve \in [Levels -> Nat] /\ offsets \in [Levels -> Nat]
    /\ errLen \in B + 1 .. B + 1 + MaxCalls
    /\ known \in 0 .. NumLevels
    /\ data \in [Levels -> [Planes -> Nat]] /\ restarted \in BOOLEAN
    /\ undefined \in {"no", "plane", "signs"}

\* After the constructor and load_metadata.
Init ==
    /\ interpreter \in Interpreters /\ call = "idle" /\ tolerance = 0 /\ met = FALSE
    /\ heap = {} /\ cursor = 0 /\ sweep = "first"
    /\ index = [l \in Levels |-> 0] /\ prev = index
    /\ retrieve = [l \in Levels |-> 0] /\ offsets = [l \in Levels |-> 0]
    /\ errLen = B + 1 /\ known = 0
    /\ data = [l \in Levels |-> [p \in Planes |-> 0]] /\ restarted = FALSE
    /\ undefined = "no"

-----------------------------------------------------------------------------
(* Estimated errors.  The estimators are linear: their constant factor is   *)
(* left out, and what rounding adds to the accumulated error.               *)

\* MaxErrorCollector: the error of level l after k planes.
Err(l, k) == IF k = 0 THEN MaxErr[l] ELSE HalfUnit[l] \div 2 ^ (k - 1)

\* accumulated_error, for planes p[l] of every level l.
Estimate(p) == MapThenSumSet(LAMBDA l : Err(l, p[l]), Levels)

\* Error gain and size of n more planes of level l; efficiencies are compared
\* as fractions.
Gain(l, n) == Err(l, index[l]) - Err(l, index[l] + n)
Size(l, n) == Start[l][index[l] + n] - Start[l][index[l]]
AsEfficient(l, n, k, m) == Gain(l, n) * Size(k, m) >= Gain(k, m) * Size(l, n)

\* estimated_efficiency: the planes are taken together as long as the next one
\* does not lower the efficiency.  The last plane of a level is never joined.
Stops(l, n) == Gain(l, n) > 0 /\ ~AsEfficient(l, n + 1, l, n)
LongestBatch(l) == IF index[l] + 1 < B THEN B - index[l] - 1 ELSE 1
IsBatch(l, n) ==
    IF interpreter = "negabinary"
    THEN /\ n <= LongestBatch(l) /\ (n < LongestBatch(l) => Stops(l, n))
         /\ \A i \in 1 .. n - 1 : ~Stops(l, i)
    ELSE n = 1

\* The unit error gain of level l is at the top of the heap.
IsTop(l, n) ==
    /\ l \in heap /\ n \in 1 .. B - index[l] /\ IsBatch(l, n)
    /\ \A k \in heap : \A m \in 1 .. B - index[k] : IsBatch(k, m) => AsEfficient(l, n, k, m)

-----------------------------------------------------------------------------
(* A call: the interpreter prepares, then adds planes one by one.           *)

Begin(op, t) ==
    /\ call = "idle" /\ undefined = "no" /\ errLen < B + 1 + MaxCalls
    /\ call' = op /\ tolerance' = t /\ prev' = index
    \* level_errors is a reference to level_squared_errors: every call replaces
    \* the vectors by ones that are one longer.
    /\ errLen' = errLen + 1
    /\ UNCHANGED <<interpreter, offsets, known, data, restarted>>

NothingFetched == /\ index' = index
                  /\ retrieve' = [l \in Levels |-> 0]

begin_in_order(op, t) ==
    /\ interpreter = "in_order" /\ Begin(op, t) /\ NothingFetched
    /\ met' = FALSE
    /\ UNCHANGED <<heap, cursor, sweep, undefined>>

\* Mutant: every call starts a new round at level 0.
IsLevelZero(i) == i = 0

\* The level at which the round of the last call was left.
IsStartingLevel(i) ==
    LET behind == {l \in Levels \ {0} : index[l] < index[l - 1]}
    IN IF behind = {} THEN i = 0 ELSE i \in behind /\ \A l \in behind : i <= l

begin_round_robin(op, t) ==
    /\ interpreter = "round_robin" /\ Begin(op, t) /\ NothingFetched
    /\ met' = FALSE /\ sweep' = "first"
    /\ \E i \in Levels : IsStartingLevel(i) /\ cursor' = i
    /\ UNCHANGED <<heap, undefined>>

\* Every level is pushed, those without a plane left too: their next size and
\* error gain are read beyond the end of the vectors.
begin_greedy(op, t) ==
    /\ interpreter = "greedy" /\ Begin(op, t) /\ NothingFetched
    /\ met' = FALSE /\ heap' = Levels
    /\ undefined' = IF \E l \in Levels : index[l] = B THEN "plane" ELSE "no"
    /\ UNCHANGED <<cursor, sweep>>

\* min_error: levels 0 .. i with all their planes (level_errors[i].back()), the
\* others as they are.
MinError(i) == Estimate([l \in Levels |-> IF l <= i THEN errLen' - 1 ELSE index[l]])

\* Mutant: the first component is left to the heap.
FirstFetchedNever(i) == index
FirstFetched(i) == [l \in Levels |-> IF l <= i /\ index[l] = 0 THEN 1 ELSE index[l]]

begin_sign_exclude(op, t) ==
    /\ interpreter = "sign_exclude" /\ Begin(op, t)
    /\ \E i \in Levels :
          /\ i = NumLevels - 1 \/ MinError(i) < t
          /\ \A l \in Levels : l < i => MinError(l) >= t
          /\ index' = FirstFetched(i)
          /\ heap' = {l \in 0 .. i : index'[l] # B}
    /\ retrieve' = [l \in Levels |-> Start[l][index'[l]] - Start[l][index[l]]]
    /\ met' = (Estimate(index') < t)
    /\ UNCHANGED <<cursor, sweep, undefined>>

begin_negabinary(op, t) ==
    /\ interpreter = "negabinary" /\ Begin(op, t) /\ NothingFetched
    /\ heap' = {l \in Levels : index[l] # B}
    /\ met' = (Estimate(index) < t)
    /\ UNCHANGED <<cursor, sweep, undefined>>

Fetching == call # "idle" /\ undefined = "no" /\ ~met

fetch(l, n) ==
    /\ index' = [index EXCEPT ![l] = @ + n]
    /\ retrieve' = [retrieve EXCEPT ![l] = @ + Size(l, n)]
    /\ met' = (Estimate(index') < tolerance)
    /\ UNCHANGED <<interpreter, call, tolerance, prev, errLen, offsets, known, data, restarted,
                   undefined>>

next_in_order ==
    /\ interpreter = "in_order" /\ Fetching
    /\ \E l \in Levels : /\ index[l] < B /\ \A k \in Levels : k < l => index[k] = B
                         /\ fetch(l, 1)
    /\ UNCHANGED <<heap, cursor, sweep>>

next_round_robin ==
    /\ interpreter = "round_robin" /\ Fetching
    /\ cursor < NumLevels /\ cursor' = cursor + 1
    /\ \/ index[cursor] < B /\ fetch(cursor, 1)
       \/ /\ index[cursor] = B
          /\ UNCHANGED <<interpreter, call, tolerance, met, index, prev, retrieve, errLen,
                         offsets, known, data, restarted, undefined>>
    /\ UNCHANGED <<heap, sweep>>

\* Mutants: there is only one round; the end of the last level is missed.
OnlyRound == sweep = "main"
LastRoundPast == sweep = "main" /\ index[NumLevels - 1] > B

\* The loop over planes and the loop over levels share the variable j: whether
\* there is another round depends on the last level alone.
LastRound == sweep = "main" /\ index[NumLevels - 1] = B

next_round ==
    /\ interpreter = "round_robin" /\ Fetching
    /\ cursor = NumLevels /\ ~LastRound
    /\ cursor' = 0 /\ sweep' = "main"
    /\ UNCHANGED <<interpreter, call, tolerance, met, heap, index, prev, retrieve, errLen,
                   offsets, known, data, restarted, undefined>>

next_greedy ==
    /\ interpreter \in {"greedy", "sign_exclude", "negabinary"} /\ Fetching
    /\ \E l \in Levels : \E n \in 1 .. B - index[l] :
          /\ IsTop(l, n) /\ fetch(l, n)
          /\ heap' = IF index'[l] = B THEN heap \ {l} ELSE heap
    /\ UNCHANGED <<cursor, sweep>>

NothingLeft ==
    CASE interpreter = "in_order" -> \A l \in Levels : index[l] = B
      [] interpreter = "round_robin" -> cursor = NumLevels /\ LastRound
      [] OTHER -> heap = {}

-----------------------------------------------------------------------------
(* The planes are read, inflated, decoded and summed up.                    *)

Fresh(l) == prev[l] .. index[l] - 1

\* interleave_level_components: where the plane is taken from, and whether the
\* buffer read from the file reaches that far.
Located(l, p) ==
    /\ offsets[l] + Start[l][p] - Start[l][prev[l]] = Start[l][p]
    /\ Start[l][p + 1] - Start[l][prev[l]] <= retrieve[l]

\* compress_level compresses up to the stopping index, and from latter_index
\* on; decompress_level decides plane by plane.
Compressed(l, p) ==
    \/ p <= StoppingIndex[l]
    \/ p >= IF StoppingIndex[l] < LatterIndex THEN LatterIndex ELSE StoppingIndex[l] + 1
\* Mutant: the plane at the stopping index is taken to be raw.
DecompressedBefore(l, p) == p < StoppingIndex[l] \/ p >= LatterIndex
Decompressed(l, p) == p <= StoppingIndex[l] \/ p >= LatterIndex

Decoded(l, p) == p \in Fresh(l) /\ Located(l, p) /\ (Compressed(l, p) <=> Decompressed(l, p))

\* Of an encoder that keeps signs: the signs of a level are recorded when the
\* number of levels recorded is that of the level, and used in any case.
RecordsSigns(m) ==
    /\ m \in known .. NumLevels
    /\ \A l \in known .. m - 1 : Fresh(l) # {}
    /\ m < NumLevels => Fresh(m) = {}
SignsMisread(m) ==
    \/ \E l \in Levels : Fresh(l) # {} /\ l >= m
    \/ \E l \in known .. m - 1 : prev[l] # 0

\* Mutant: every level decoded is pushed once more.
progressive_decode_pushing ==
    known' = known + Cardinality({l \in Levels : Fresh(l) # {}}) /\ UNCHANGED undefined

progressive_decode ==
    IF interpreter = "negabinary" THEN UNCHANGED <<known, undefined>>
    ELSE \E m \in known .. NumLevels :
            /\ RecordsSigns(m) /\ known' = m
            /\ undefined' = IF SignsMisread(m) THEN "signs" ELSE "no"

\* Mutant: the offset is set to what was read last.
retrieve_level_components_anew == offsets' = retrieve
retrieve_level_components == offsets' = [l \in Levels |-> offsets[l] + retrieve[l]]

\* Mutant: progressive_reconstruct returns the increment alone.
BeforeNothing(l, p) == 0

\* cur_data: progressive_reconstruct adds what reconstruct returns to what was
\* there; reconstruct starts from zero.
Before(l, p) == IF call = "progressive_reconstruct" THEN data[l][p] ELSE 0

reconstruct ==
    /\ call # "idle" /\ undefined = "no" /\ (met \/ NothingLeft)
    /\ retrieve_level_components
    /\ progressive_decode
    /\ data' = [l \in Levels |-> [p \in Planes |->
                                   Before(l, p) + (IF Decoded(l, p) THEN 1 ELSE 0)]]
    /\ restarted' = (restarted \/ (call = "reconstruct" /\ \E l \in Levels : prev[l] # 0))
    /\ call' = "idle"
    /\ UNCHANGED <<interpreter, tolerance, met, heap, cursor, sweep, index, prev, retrieve,
                   errLen>>

Call == \E op \in {"reconstruct", "progressive_reconstruct"}, t \in Tolerances :
           \/ begin_in_order(op, t) \/ begin_round_robin(op, t) \/ begin_greedy(op, t)
           \/ begin_sign_exclude(op, t) \/ begin_negabinary(op, t)

Work == \/ next_in_order \/ next_round_robin \/ next_round \/ next_greedy
        \/ reconstruct

Next == Call \/ Work
Spec == Init /\ [][Next]_vars
FairSpec == Spec /\ WF_vars(Work)

-----------------------------------------------------------------------------
(* Properties *)

Idle == call = "idle" /\ undefined = "no"
Called == errLen > B + 1
Exhausted == \A l \in Levels : index[l] = B

\* Between calls the retriever stands in every file where the next plane the
\* interpreter will ask for begins: level_num_bitplanes and offsets, kept by two
\* classes, agree.
OffsetsAgree == Idle => \A l \in Levels : offsets[l] = Start[l][index[l]]

\* After a call, data is the sum of consecutive planes of each level up to the
\* last one retrieved, each of them located, inflated and added exactly once, and
\* from the first one on unless reconstruct was called after planes had been retrieved.
EachPlaneOnce ==
    Idle => \A l \in Levels : \E first \in 0 .. B :
               /\ ~restarted => first = 0
               /\ \A p \in Planes :
                     data[l][p] = IF first <= p /\ p < index[l] THEN 1 ELSE 0

\* Neither the planes of a level nor the recorded signs are read out of bounds,
\* with any interpreter but the plain greedy one: levels are begun in order.
WithinBounds == interpreter # "greedy" => undefined = "no"

\* After a call the estimate meets the tolerance, or all planes have been read.
\* The sign-excluding interpreter is excepted: see TheMinimumIsReached.
ToleranceReached ==
    Idle /\ Called /\ interpreter # "sign_exclude" => Estimate(index) < tolerance \/ Exhausted

\* Round robin keeps the levels within one plane of each other over all calls,
\* which is why it may judge by the last level that nothing is left.
RoundRobinBalanced ==
    interpreter = "round_robin" =>
        \A k, l \in Levels : k < l => index[k] \in {index[l], index[l] + 1}

\* Every call returns, unless it reads out of bounds.
CallsReturn == (call # "idle") ~> (call = "idle" \/ undefined # "no")

-----------------------------------------------------------------------------
(* Statements of the program's comments that its code does not keep         *)

\* "reconstruct progressively based on available data": no plane beyond the
\* last one of a level is asked for.
AvailableData == undefined # "plane"

\* "decode the data and record necessary information for progressiveness": what
\* a later call needs of a level has been recorded.
NecessaryInformation == undefined # "signs"

\* "the min error of first 0~i levels meets the tolerance": leaving out the
\* levels after i never costs a tolerance that all planes together would meet.
TheMinimumIsReached ==
    Idle /\ Called /\ interpreter = "sign_exclude" =>
        Estimate(index) < tolerance \/ Estimate([l \in Levels |-> B]) >= tolerance
=============================================================================
