--------------------------- MODULE BitplaneEncoders ---------------------------
(***************************************************************************)
(* The bitplane encoders: GroupedBPEncoder, PerBitBPEncoder and            *)
(* NegaBinaryBPEncoder of include/BitplaneEncoder.  The coefficients of a  *)
(* level become one stream of words per bitplane, and calls of             *)
(* progressive_decode add up what any prefix of the streams holds.         *)
(*                                                                         *)
(* A coefficient is an integer: what ldexp(x, num_bitplanes - exp) leaves  *)
(* before the point and F bits behind it.  A word is the sequence of its   *)
(* bits, one for each coefficient of the block.                            *)
(***************************************************************************)
EXTENDS Integers, Sequences, Bitwise
LOCAL INSTANCE SequencesExt
LOCAL INSTANCE FiniteSetsExt

CONSTANTS
    Encoders,     \* the encoders to instantiate
    BlockSize,    \* bits of T_stream; PER_BIT_BLOCK_SIZE is 1
    B,            \* num_bitplanes
    F,            \* bits behind the point
    Width,        \* bits of the integers, 32 in the code
    Lengths, Values

ASSUME EncoderAssumption ==
    /\ Encoders \subseteq {"grouped", "per_bit", "negabinary"}
    /\ BlockSize \in Nat \ {0} /\ B \in Nat \ {0} /\ F \in Nat /\ Width \in B .. 30
    /\ Lengths \subseteq Nat \ {0} /\ Values \subseteq Int

Planes == 0 .. B - 1
SumOf(s) == FoldSeq(+, 0, s)
Abs(v) == IF v < 0 THEN -v ELSE v
Bit(v, k) == (v \div 2^k) % 2

VARIABLES
    encoder, data,
    phase,        \* "encode", "idle" or the decoding call under way
    block,        \* the block it is at
    streams,      \* plane -> words
    recording,    \* starting_bitplanes: of every block the first plane that is not zero
    level_errors, \* in units of the last bit behind the point, squared
    starting, ending,   \* the planes of the call
    pos,          \* streams_pos
    signs,        \* level_signs: 1 is negative
    flags,        \* sign_flags
    result,       \* what the call returns, in units of the last bitplane
    total, read,  \* sum of the calls of progressive_decode, and planes they read
    whole, wholeOf,     \* what decode returned, and of how many planes
    outside       \* memory outside the arrays was read or written
input == <<encoder, data>>
encoded == <<streams, recording, level_errors>>
memory == <<signs, flags>>
results == <<total, read, whole, wholeOf>>
vars == <<input, phase, block, encoded, starting, ending, pos, memory, result, results, outside>>

n == Len(data)
Size == IF encoder = "per_bit" THEN 1 ELSE BlockSize
Zeros == [i \in 1 .. n |-> 0]

\* |x| < 2^exp, as frexp gives it; the negabinary encoder adds 2 to exp.
Limit(e) == 2^(B + F - IF e = "negabinary" THEN 2 ELSE 0)

Init ==
    /\ encoder \in Encoders
    /\ \E len \in Lengths : data \in [1 .. len -> {x \in Values : Abs(x) < Limit(encoder)}]
    /\ phase = "encode" /\ block = 0
    /\ streams = [p \in Planes |-> <<>>] /\ recording = <<>>
    /\ level_errors = [e \in 0 .. B |-> 0]
    /\ starting = 0 /\ ending = 0 /\ pos = [p \in Planes |-> 1]
    /\ signs = Zeros /\ flags = [i \in 1 .. n |-> FALSE]
    /\ result = Zeros /\ total = Zeros /\ read = 0 /\ whole = Zeros /\ wholeOf = 0
    /\ outside = FALSE

-----------------------------------------------------------------------------
(* Blocks                                                                   *)

\* for(int i=0; i<n - block_size; i+=block_size): the difference is unsigned, but for the
\* per-bit encoder, whose block size is signed.
FullBlocks ==
    ((IF encoder = "per_bit" THEN n - 1 ELSE (n - BlockSize) % 2^Width) + Size - 1) \div Size

\* The coefficients of a block; the last one is the leftover.
Block == block * Size + 1 ..
             IF block < FullBlocks THEN (block + 1) * Size ELSE n

-----------------------------------------------------------------------------
(* Encoding                                                                 *)

Mask == FoldSet(LAMBDA k, m : m + 2^k, 0, {k \in 0 .. Width - 1 : k % 2 = 1})
Signed(u) == IF u >= 2^(Width - 1) THEN u - 2^Width ELSE u
binary2negabinary(v) == ((v + Mask) % 2^Width) ^^ Mask
negabinary2binary(u) == Signed(((u ^^ Mask) - Mask) % 2^Width)

\* (int64_t) shifted_data rounds to zero.
Truncated(x) == IF x < 0 THEN -((-x) \div 2^F) ELSE x \div 2^F
Code(x) ==
    IF encoder = "negabinary" THEN binary2negabinary(Truncated(x)) ELSE Abs(Truncated(x))

Word(p) == [j \in 1 .. Cardinality(Block) |-> Bit(Code(data[block * Size + j]), B - 1 - p)]
Negative == [j \in 1 .. Cardinality(Block) |-> IF data[block * Size + j] < 0 THEN 1 ELSE 0]
NotZero == {p \in Planes : 1 \in Range(Word(p))}
RecordingPlane == Min(NotZero \cup {B})

\* encode_block, and the inner loops of the other encoders: the grouped encoder has the
\* signs before the first word that is not zero, the per-bit one behind the first bit.
Words(p) ==
    CASE encoder = "grouped" ->
             IF p < RecordingPlane THEN <<>>
             ELSE IF p = RecordingPlane THEN <<Negative, Word(p)>> ELSE <<Word(p)>>
      [] encoder = "per_bit" /\ p = RecordingPlane -> <<Word(p), Negative>>
      [] OTHER -> <<Word(p)>>

\* Mutant of LowPart: the bits behind the point are not counted.
LowPartOfInteger(x, k) ==
    IF encoder = "negabinary" THEN negabinary2binary(Code(x) % 2^k) * 2^F
    ELSE (Code(x) % 2^k) * 2^F
\* What the planes but the last k leave of a coefficient: (fp_data & mask) + mantissa.
LowPart(x, k) ==
    IF encoder = "negabinary"
    THEN negabinary2binary(Code(x) % 2^k) * 2^F + x - Truncated(x) * 2^F
    ELSE Abs(x) % 2^(k + F)

collect_level_errors ==
    [e \in 0 .. B |-> level_errors[e] +
        MapThenSumSet(LAMBDA i : IF e = 0 THEN data[i]^2 ELSE LowPart(data[i], B - e)^2, Block)]

encode_block ==
    /\ phase = "encode" /\ block <= FullBlocks /\ Block \subseteq 1 .. n
    /\ streams' = [p \in Planes |-> streams[p] \o Words(p)]
    /\ recording' = Append(recording, RecordingPlane)
    /\ level_errors' = collect_level_errors
    /\ block' = block + 1
    /\ UNCHANGED <<input, phase, starting, ending, pos, memory, result, results, outside>>

\* The loop is past the last coefficient and goes on.
encode_outside ==
    /\ phase = "encode" /\ block <= FullBlocks /\ ~(Block \subseteq 1 .. n)
    /\ outside' = TRUE /\ phase' = "undefined"
    /\ UNCHANGED <<input, block, encoded, starting, ending, pos, memory, result, results>>

end_encode ==
    /\ phase = "encode" /\ block = FullBlocks + 1
    /\ phase' = "idle"
    /\ UNCHANGED <<input, block, encoded, starting, ending, pos, memory, result, results,
                   outside>>

-----------------------------------------------------------------------------
(* Decoding                                                                 *)

Begin(call, from, planes) ==
    /\ phase = "idle"
    /\ phase' = call
    /\ starting' = from /\ ending' = from + planes
    /\ block' = 0 /\ pos' = [p \in Planes |-> 1] /\ result' = Zeros
    /\ UNCHANGED <<input, encoded, memory, results, outside>>

\* The planes after those of the last call; with none of them zeros are returned.
begin_progressive_decode == \E m \in 1 .. B - read : Begin("progressive_decode", read, m)
begin_decode == wholeOf = 0 /\ \E m \in 1 .. B : Begin("decode", 0, m)

Progressive == phase = "progressive_decode"
recording_bitplane == recording[block + 1]

\* The planes of the call of which the block has words.
Active ==
    {p \in starting .. ending - 1 : encoder = "grouped" => p >= recording_bitplane}

\* Mutant of NewSigns: the signs are looked for in every call.
NewSignsAlways(i) == TRUE
\* Whether the sign of a coefficient of the per-bit encoder is not known yet.
NewSigns(i) == ~(Progressive /\ flags[i])

\* What a stream holds; behind its end, the bits that fill its last word.
Stream(p, i) ==
    IF i <= Len(streams[p]) THEN streams[p][i] ELSE [j \in 1 .. Cardinality(Block) |-> 0]

\* The plane whose stream holds the signs of the block, if one of the call does.
SignPlanes ==
    CASE encoder = "grouped" -> {recording_bitplane} \cap (starting .. ending - 1)
      [] encoder = "per_bit" /\ NewSigns(block + 1) ->
             LET ones == {p \in Active : Stream(p, pos[p]) = <<1>>}
             IN  IF ones = {} THEN {} ELSE {Min(ones)}
      [] OTHER -> {}

SignAt(p) == IF encoder = "grouped" THEN pos[p] ELSE pos[p] + 1
WordAt(p) == IF encoder = "grouped" /\ p \in SignPlanes THEN pos[p] + 1 ELSE pos[p]

BlockSigns ==
    [j \in 1 .. Cardinality(Block) |->
        IF encoder = "negabinary" THEN 0
        ELSE IF SignPlanes # {} THEN LET p == Min(SignPlanes) IN Stream(p, SignAt(p))[j]
        ELSE IF Progressive /\ (encoder = "per_bit" => flags[block + 1])
             THEN signs[block * Size + j]
        ELSE 0]

\* The bits read, as a number, and the number they stand for.
Bits(j) == MapThenSumSet(LAMBDA p : Stream(p, WordAt(p))[j] * 2^(ending - 1 - p), Active)

\* Mutant of Turned: the sign of the last digit is left out.
TurnedNot(v) == v
\* The last digit read stands for a power of -2: an odd one if the planes read are odd.
Turned(v) == IF ending % 2 = 0 THEN v ELSE -v

Decoded(j) ==
    2^(B - ending) *
        IF encoder = "negabinary" THEN Turned(negabinary2binary(Bits(j)))
        ELSE IF BlockSigns[j] = 1 THEN -Bits(j) ELSE Bits(j)

\* decode clears a whole block where the leftover has nothing recorded.
ClearsOutside ==
    /\ phase = "decode" /\ encoder = "grouped" /\ block = FullBlocks
    /\ recording_bitplane >= ending /\ Cardinality(Block) < BlockSize

decode_block ==
    /\ phase \in {"progressive_decode", "decode"} /\ block <= FullBlocks
    /\ result' = [i \in 1 .. n |-> IF i \in Block THEN Decoded(i - block * Size) ELSE result[i]]
    /\ pos' = [p \in Planes |->
                  IF p \in Active THEN pos[p] + (IF p \in SignPlanes THEN 2 ELSE 1) ELSE pos[p]]
    /\ signs' = [i \in 1 .. n |->
                    IF Progressive /\ i \in Block THEN BlockSigns[i - block * Size] ELSE signs[i]]
    /\ flags' = [i \in 1 .. n |-> flags[i] \/ (Progressive /\ i \in Block /\ SignPlanes # {})]
    /\ outside' = (outside \/ ClearsOutside)
    /\ block' = block + 1
    /\ UNCHANGED <<input, phase, encoded, starting, ending, results>>

\* The reconstructor adds what progressive_decode returns to the data it has.
end_decode ==
    /\ phase \in {"progressive_decode", "decode"} /\ block = FullBlocks + 1
    /\ phase' = "idle"
    /\ IF Progressive
       THEN /\ total' = [i \in 1 .. n |-> total[i] + result[i]] /\ read' = ending
            /\ UNCHANGED <<whole, wholeOf>>
       ELSE whole' = result /\ wholeOf' = ending /\ UNCHANGED <<total, read>>
    /\ UNCHANGED <<input, block, encoded, starting, ending, pos, memory, result, outside>>

Next ==
    \/ encode_block \/ encode_outside \/ end_encode
    \/ begin_progressive_decode \/ begin_decode \/ decode_block \/ end_decode

Spec == Init /\ [][Next]_vars

-----------------------------------------------------------------------------
(* Properties                                                               *)

TypeOK ==
    /\ phase \in {"encode", "idle", "progressive_decode", "decode", "undefined"}
    /\ block \in 0 .. FullBlocks + 1
    /\ \A p \in Planes : pos[p] \in 1 .. Len(streams[p]) + 1
    /\ read \in 0 .. B /\ ending \in 0 .. B
    /\ \A i \in 1 .. n : Abs(total[i]) < 2^(B + 1) /\ signs[i] \in {0, 1}

\* The numbers that k negabinary digits can stand for.
NegabinaryNumbers(k) ==
    -SumOf([j \in 1 .. k |-> IF j % 2 = 0 THEN 2^(j - 1) ELSE 0]) ..
     SumOf([j \in 1 .. k |-> IF j % 2 = 1 THEN 2^(j - 1) ELSE 0])

\* The coefficient cut off after m planes, by its meaning: without the rest that the other
\* planes can hold.
CutOff(x, m) ==
    LET v == Truncated(x) IN
    IF encoder = "negabinary"
    THEN v - (CHOOSE r \in NegabinaryNumbers(B - m) : (v - r) % 2^(B - m) = 0)
    ELSE IF v < 0 THEN v + ((-v) % 2^(B - m)) ELSE v - (v % 2^(B - m))

\* Whatever the calls, the data they add up to are the coefficients cut off after the planes
\* read; decode returns the same from the streams alone.
DecodesPrefix ==
    phase = "idle" =>
        \A i \in 1 .. n : /\ total[i] = CutOff(data[i], read)
                          /\ wholeOf # 0 => whole[i] = CutOff(data[i], wholeOf)

\* A call reads every stream it is given to its end, though only the first words of a block
\* say whether signs are among them.
ReadsToTheEnd ==
    phase = "idle" => \A p \in starting .. ending - 1 : pos[p] = Len(streams[p]) + 1

\* The errors collected while encoding are the squared errors of the data as decoded: the
\* size interpreters stop at a tolerance by them.
ErrorsAreExact ==
    phase = "idle" =>
        level_errors[read] =
            SumOf([i \in 1 .. n |-> (data[i] - total[i] * 2^F)^2])

-----------------------------------------------------------------------------
(* Statements of the program's comments that its code does not keep         *)

\* "general bitplane encoder": no coefficient outside the n of the level is read or written.
NothingOutside == ~outside

\* malloc(2 * n / UINT8_BITS + sizeof(T_stream)), in bits: a stream fits in its buffer.
StreamsFit ==
    encoder = "grouped" =>
        \A p \in Planes : Len(streams[p]) * BlockSize <= 2 * n + BlockSize
=============================================================================
