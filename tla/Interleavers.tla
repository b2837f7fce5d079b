----------------------------- MODULE Interleavers -----------------------------
(***************************************************************************)
(* Decomposed data lie in one array: the coarsest level is the corner box  *)
(* of the array, every finer level the rest of a larger box.  interleave   *)
(* of include/Interleaver collects the coefficients of a level in a buffer *)
(* to be encoded, reposition puts a decoded buffer back.  Each interleaver *)
(* has an order of its own, which both walk by pointers of their own.      *)
(***************************************************************************)
EXTENDS Integers, FiniteSets, Sequences, SequencesExt

CONSTANTS
    Interleaver,     \* the interleavers to instantiate
    Dims,            \* dimensions of the data
    TargetLevels,
    BlockSize        \* of the blocked interleaver, 4

\* The refactor refuses a target level above log2 of the smallest dimension less one.
ASSUME InterleaverAssumption ==
    /\ Interleaver \subseteq {"direct", "blocked", "sfc"}
    /\ Dims \subseteq [1 .. 3 -> Nat \ {0}]
    /\ TargetLevels \subseteq Nat /\ BlockSize \in Nat \ {0}

VARIABLES
    interleaver, dims, target_level,
    level_dims,
    level,           \* the next level
    pc,              \* "interleave", "reposition", "done"
    buffers,         \* level -> its coefficients in the order of the buffer
    out              \* the data put back: places, with what they get
input == <<interleaver, dims, target_level, level_dims>>
vars == <<input, level, pc, buffers, out>>

Product(d) == d[1] * d[2] * d[3]
Places == 0 .. Product(dims) - 1

\* (n >> 1) + 1
Halved(m) == m \div 2 + 1

\* compute_level_dims
LevelDims(d, top) ==
    LET n[j \in 0 .. top] == IF j = 0 THEN d ELSE [x \in 1 .. 3 |-> Halved(n[j - 1][x])]
    IN  [l \in 0 .. top |-> n[top - l]]

Init ==
    /\ interleaver \in Interleaver
    /\ dims \in Dims /\ target_level \in TargetLevels
    /\ \A x \in 1 .. 3 : 2^(target_level + 1) <= dims[x]
    /\ level_dims = LevelDims(dims, target_level)
    /\ level = 0 /\ pc = "interleave" /\ buffers = <<>>
    /\ out = {}

\* The data: every place has a value of its own.
Datum(x) == x + 1

dims_coarse(l) == IF l = 0 THEN [x \in 1 .. 3 |-> 0] ELSE level_dims[l - 1]

\* compute_level_elements
level_elements(l) == Product(level_dims[l]) - IF l = 0 THEN 0 ELSE Product(level_dims[l - 1])

-----------------------------------------------------------------------------
(* Orders: sequences of places, by the dimensions d of the data and those  *)
(* of two levels                                                           *)

\* The cells of a box, and where they are in data of dimensions d.
Cells(n) == (0 .. n[1] - 1) \X (0 .. n[2] - 1) \X (0 .. n[3] - 1)
Place(d, c) == c[1] * (d[2] * d[3]) + c[2] * d[3] + c[3]

\* Three nested loops, and what the body appends in each cell.
Loops(n, body) ==
    FlattenSeq([i \in 1 .. n[1] |->
        FlattenSeq([j \in 1 .. n[2] |->
            FlattenSeq([k \in 1 .. n[3] |-> body[<<i - 1, j - 1, k - 1>>]])])])

\* DirectInterleaver
Direct(d, fine, coarse) ==
    Loops(fine, [c \in Cells(fine) |-> IF c \in Cells(coarse) THEN <<>> ELSE <<Place(d, c)>>])

num_block(m, size) == (m - 1) \div size + 1
\* Mutant of BlockLength: the last block is full, too.
BlockLengthFull(m, b, size) == size
BlockLength(m, b, size) == IF b = num_block(m, size) - 1 THEN m - b * size ELSE size

\* collect_data_3d_blocked and reposition_data_3d_blocked, of the n cells after those of from.
Blocked(d, from, n, size) ==
    LET blocks == [x \in 1 .. 3 |-> num_block(n[x], size)]
        lengths(b) == [x \in 1 .. 3 |-> BlockLength(n[x], b[x], size)]
    IN  Loops(blocks, [b \in Cells(blocks) |->
            Loops(lengths(b), [c \in Cells(lengths(b)) |->
                <<Place(d, [x \in 1 .. 3 |-> from[x] + (b[x] * size + c[x])])>>])])

\* The seven boxes next to the coarse one: the directions in which they are beyond it, where
\* they begin, and their dimensions: coefficients there, nodal in the others.
Beyond == <<{3}, {2}, {2, 3}, {1}, {1, 3}, {1, 2}, {1, 2, 3}>>
BoxFrom(coarse, b) == [x \in 1 .. 3 |-> IF x \in Beyond[b] THEN coarse[x] ELSE 0]
BoxDims(fine, coarse, b) ==
    [x \in 1 .. 3 |-> IF x \in Beyond[b] THEN fine[x] - coarse[x] ELSE coarse[x]]
Boxes(d, fine, coarse, size) ==
    [b \in 1 .. 7 |-> Blocked(d, BoxFrom(coarse, b), BoxDims(fine, coarse, b), size)]

Repeat(m, s) == FlattenSeq([i \in 1 .. m |-> s])

\* In one direction, as many coefficients as there are alternate with nodal places, then come
\* the nodal places left over, without the boxes that have ended.
Alternate(fine, coarse, x, both, nodalOnly) ==
    Repeat(fine[x] - coarse[x], both) \o Repeat(coarse[x] - (fine[x] - coarse[x]), nodalOnly)

\* skip_one_data_collection, skip_one_data_reposition: of which box the next coefficient is,
\* "2-1-3-6-4-5-7".
Picks(fine, coarse) ==
    Alternate(fine, coarse, 1,
        Alternate(fine, coarse, 2, Alternate(fine, coarse, 3, <<2, 1, 3, 6, 4, 5, 7>>, <<2, 6, 4>>),
                                   Alternate(fine, coarse, 3, <<1, 4, 5>>, <<4>>)),
        Alternate(fine, coarse, 2, Alternate(fine, coarse, 3, <<2, 1, 3>>, <<2>>),
                                   Alternate(fine, coarse, 3, <<1>>, <<>>)))

\* For every pick, how many of its box there are up to it.
Ordinals(picks) ==
    [c \in DOMAIN picks |-> Cardinality({e \in 1 .. c : picks[e] = picks[c]})]

InBoxes(l) == interleaver = "sfc" /\ Product(dims_coarse(l)) # 0

\* The places in the order of the buffer, but for the SFC interleaver.
PlacesInOrder(l) ==
    IF interleaver = "direct" THEN Direct(dims, level_dims[l], dims_coarse(l))
    ELSE IF Product(dims_coarse(l)) = 0
    THEN Blocked(dims, [x \in 1 .. 3 |-> 0],
                 [x \in 1 .. 3 |-> level_dims[l][x] - dims_coarse(l)[x]],
                 IF interleaver = "sfc" THEN 1 ELSE BlockSize)
    ELSE FlattenSeq(Boxes(dims, level_dims[l], dims_coarse(l), BlockSize))

\* Mutant of pos: the size added is that of the box itself, not of the one before.
posOfItself(fine, coarse) ==
    LET at[b \in 1 .. 7] == IF b = 1 THEN 0 ELSE at[b - 1] + Product(BoxDims(fine, coarse, b))
    IN  at
\* Where reposition of the SFC interleaver lets the boxes begin in tmp_buffer.
pos(fine, coarse) ==
    LET at[b \in 1 .. 7] ==
            IF b = 1 THEN 0 ELSE at[b - 1] + Product(BoxDims(fine, coarse, b - 1))
    IN  at

\* "pos[p] has been increased to the position of next segment"
ReadFrom(at, b, picks) ==
    IF b = 1 THEN 0 ELSE at[b - 1] + Cardinality({c \in DOMAIN picks : picks[c] = b - 1})

-----------------------------------------------------------------------------
interleave ==
    /\ pc = "interleave" /\ level <= target_level /\ ~InBoxes(level)
    /\ \E places \in {PlacesInOrder(level)} :
           buffers' = Append(buffers, [c \in DOMAIN places |-> Datum(places[c])])
    /\ level' = level + 1
    /\ UNCHANGED <<input, pc, out>>

\* The boxes are collected one by one, then the coefficients are picked from them.
interleave_sfc ==
    /\ pc = "interleave" /\ level <= target_level /\ InBoxes(level)
    /\ \E boxes \in {Boxes(dims, level_dims[level], dims_coarse(level), 1)},
          picks \in {Picks(level_dims[level], dims_coarse(level))} :
       \E ordinals \in {Ordinals(picks)} :
           buffers' = Append(buffers, [c \in DOMAIN picks |-> Datum(boxes[picks[c]][ordinals[c]])])
    /\ level' = level + 1
    /\ UNCHANGED <<input, pc, out>>

begin_reposition ==
    /\ pc = "interleave" /\ level = target_level + 1
    /\ pc' = "reposition" /\ level' = 0
    /\ UNCHANGED <<input, buffers, out>>

reposition ==
    /\ pc = "reposition" /\ level <= target_level /\ ~InBoxes(level)
    /\ \E places \in {PlacesInOrder(level)} :
           out' = out \cup {<<places[c], buffers[level + 1][c]>> :
                               c \in DOMAIN places \cap DOMAIN buffers[level + 1]}
    /\ level' = level + 1
    /\ UNCHANGED <<input, pc, buffers>>

\* The coefficients are put into tmp_buffer, and from there box by box to their places.
reposition_sfc ==
    /\ pc = "reposition" /\ level <= target_level /\ InBoxes(level)
    /\ \E boxes \in {Boxes(dims, level_dims[level], dims_coarse(level), 1)},
          picks \in {Picks(level_dims[level], dims_coarse(level))},
          at \in {pos(level_dims[level], dims_coarse(level))} :
       \E ordinals \in {Ordinals(picks)} :
           LET cell(c) == at[picks[c]] + ordinals[c]
           IN  out' = out \cup UNION {
                   {<<boxes[b][cell(c) - ReadFrom(at, b, picks)], buffers[level + 1][c]>> :
                       c \in {c \in DOMAIN picks :
                                 cell(c) - ReadFrom(at, b, picks) \in DOMAIN boxes[b]}} :
                   b \in 1 .. 7}
    /\ level' = level + 1
    /\ UNCHANGED <<input, pc, buffers>>

end_reposition ==
    /\ pc = "reposition" /\ level = target_level + 1
    /\ pc' = "done"
    /\ UNCHANGED <<input, level, buffers, out>>

Next ==
    \/ interleave \/ interleave_sfc \/ begin_reposition
    \/ reposition \/ reposition_sfc \/ end_reposition
Spec == Init /\ [][Next]_vars

-----------------------------------------------------------------------------
(* Properties                                                               *)

TypeOK ==
    /\ pc \in {"interleave", "reposition", "done"}
    /\ level \in 0 .. target_level + 1 /\ Len(buffers) <= target_level + 1
    /\ \A l \in DOMAIN buffers : Range(buffers[l]) \subseteq {Datum(x) : x \in Places}
    /\ \A o \in out : o[1] \in Places /\ o[2] \in {Datum(x) : x \in Places}

\* The buffers, allocated for level_elements coefficients and encoded as that many, are
\* filled to the last, and no coefficient is on two levels, or twice in a buffer: a plane
\* less of one level changes only the coefficients of that level.
LevelsPartition ==
    /\ \A l \in DOMAIN buffers : Len(buffers[l]) = level_elements(l - 1)
    /\ IsInjective(FlattenSeq(buffers))

\* What reposition puts back level by level is where interleave took it from.
PutBack == pc = "done" => out = {<<x, Datum(x)>> : x \in Places}
=============================================================================
