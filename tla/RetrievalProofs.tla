---------------------------- MODULE RetrievalProofs ----------------------------
(***************************************************************************)
(* The safety properties of Retrieval, for all layouts, errors, tolerances *)
(* and any number of calls.                                                *)
(***************************************************************************)
EXTENDS Retrieval, TLAPS

\* Planes of level l that the retriever and data have: those of the calls that
\* have returned.
Done(l) == IF call = "idle" THEN index[l] ELSE prev[l]

Files == \A l \in Levels : offsets[l] = Start[l][Done(l)]

Sizes == call # "idle" =>
    \A l \in Levels : /\ prev[l] <= index[l]
                      /\ retrieve[l] = Start[l][index[l]] - Start[l][prev[l]]

Sums == \A l \in Levels : \E first \in 0 .. B :
           /\ first <= Done(l) /\ (~restarted => first = 0)
           /\ \A p \in Planes : data[l][p] = IF first <= p /\ p < Done(l) THEN 1 ELSE 0

\* Round robin: r + 1 planes of the levels before the cursor, r of the others.
Round == interpreter = "round_robin" =>
    \E r \in 0 .. B : \A l \in Levels :
        index[l] = IF l < cursor /\ r < B THEN r + 1 ELSE r

InOrder == interpreter = "in_order" =>
    \A k, l \in Levels : k < l /\ index[l] > 0 => index[k] = B

\* The levels of which planes were fetched are the first ones.
Prefix == interpreter = "sign_exclude" =>
    /\ \A k, l \in Levels : k < l /\ index[l] > 0 => index[k] > 0
    /\ call # "idle" => \A l \in heap : index[l] > 0

Heap == interpreter \in {"greedy", "negabinary"} /\ call # "idle" /\ undefined = "no" =>
    heap = {l \in Levels : index[l] # B}

Signs == interpreter \notin {"greedy", "negabinary"} =>
    \A l \in Levels : l < known <=> Done(l) > 0

Met == /\ call # "idle" /\ met => Estimate(index) < tolerance
       /\ ToleranceReached

IInv == TypeOK /\ Files /\ Sizes /\ Sums /\ Round /\ InOrder /\ Prefix /\ Heap /\ Signs
          /\ WithinBounds /\ Met

-----------------------------------------------------------------------------
LEMMA Layout ==
    /\ NumLevels \in Nat \ {0} /\ B \in Nat \ {0} /\ MaxCalls \in Nat
    /\ Levels = 0 .. NumLevels - 1 /\ NumLevels - 1 \in Levels
    /\ \A l \in Levels : \A p \in 0 .. B : Start[l][p] \in Nat
    /\ \A l \in Levels : \A p, q \in 0 .. B : p <= q => Start[l][p] <= Start[l][q]
<1>1. /\ NumLevels \in Nat \ {0} /\ B \in Nat \ {0} /\ MaxCalls \in Nat
      /\ Levels = 0 .. NumLevels - 1 /\ NumLevels - 1 \in Levels
    BY LayoutAssumption DEF LayoutAssumption, Levels
<1>2. \A l \in Levels : Start[l] \in [0 .. B -> Nat]
    BY LayoutAssumption DEF LayoutAssumption
<1>3. \A l \in Levels : \A p \in 0 .. B : Start[l][p] \in Nat
    BY <1>2
<1>4. \A l \in Levels : \A p, q \in 0 .. B : p < q => Start[l][p] < Start[l][q]
    BY LayoutAssumption DEF LayoutAssumption
<1>5. \A l \in Levels : \A p, q \in 0 .. B : p <= q => Start[l][p] <= Start[l][q]
    BY <1>1, <1>3, <1>4
<1> QED BY <1>1, <1>3, <1>5

\* What is decompressed is what was compressed.
LEMMA InflatesWhatWasDeflated ==
    ASSUME NEW l \in Levels, NEW p \in Planes
    PROVE  Compressed(l, p) <=> Decompressed(l, p)
<1>1. StoppingIndex[l] \in Nat /\ LatterIndex \in Nat /\ p \in Int
    BY LayoutAssumption DEF LayoutAssumption, Planes
<1> QED BY <1>1 DEF Compressed, Decompressed

\* One step of an interpreter's loop.
LEMMA FetchType ==
    ASSUME TypeOK, NEW l \in Levels, NEW n \in 1 .. B - index[l], fetch(l, n)
    PROVE  /\ index' \in [Levels -> 0 .. B] /\ index'[l] = index[l] + n
           /\ \A k \in Levels \ {l} : index'[k] = index[k]
           /\ retrieve' \in [Levels -> Nat] /\ met' \in BOOLEAN
           /\ retrieve'[l] = retrieve[l] + Start[l][index'[l]] - Start[l][index[l]]
           /\ \A k \in Levels \ {l} : retrieve'[k] = retrieve[k]
<1>0. index \in [Levels -> 0 .. B] /\ retrieve \in [Levels -> Nat] /\ B \in Nat
    BY Layout DEF TypeOK
<1>1. index[l] \in 0 .. B /\ index[l] + n \in 0 .. B /\ index[l] <= index[l] + n
    <2>1. index[l] \in 0 .. B BY <1>0
    <2> QED BY <1>0, <2>1
<1>2. /\ Size(l, n) = Start[l][index[l] + n] - Start[l][index[l]]
      /\ Start[l][index[l] + n] \in Nat /\ Start[l][index[l]] \in Nat
      /\ Start[l][index[l]] <= Start[l][index[l] + n]
    BY <1>1, Layout DEF Size
<1>3. retrieve[l] \in Nat /\ retrieve[l] + Size(l, n) \in Nat
    BY <1>0, <1>2
<1>4. /\ index'[l] = index[l] + n /\ index' \in [Levels -> 0 .. B]
      /\ \A k \in Levels \ {l} : index'[k] = index[k]
    BY <1>0, <1>1 DEF fetch
<1>5. /\ retrieve' \in [Levels -> Nat] /\ retrieve'[l] = retrieve[l] + Size(l, n)
      /\ \A k \in Levels \ {l} : retrieve'[k] = retrieve[k]
    BY <1>0, <1>3 DEF fetch
<1>6. retrieve'[l] = retrieve[l] + Start[l][index'[l]] - Start[l][index[l]]
    BY <1>2, <1>3, <1>4, <1>5
<1>7. met' \in BOOLEAN
    BY DEF fetch
<1> QED BY <1>4, <1>5, <1>6, <1>7

LEMMA BeginType ==
    ASSUME TypeOK, NEW op \in {"reconstruct", "progressive_reconstruct"}, NEW t \in Tolerances,
           Begin(op, t)
    PROVE  /\ interpreter' = interpreter /\ interpreter \in Interpreters
           /\ call' = op /\ call' \in {"idle", "reconstruct", "progressive_reconstruct"}
           /\ tolerance' \in Tolerances \cup {0}
           /\ prev' = index /\ index \in [Levels -> 0 .. B]
           /\ errLen' \in B + 1 .. B + 1 + MaxCalls
           /\ offsets' = offsets /\ known' = known /\ data' = data /\ restarted' = restarted
           /\ offsets \in [Levels -> Nat] /\ known \in 0 .. NumLevels
           /\ data \in [Levels -> [Planes -> Nat]] /\ restarted \in BOOLEAN
<1>1. errLen' \in B + 1 .. B + 1 + MaxCalls
    <2>1. errLen \in B + 1 .. B + 1 + MaxCalls /\ errLen < B + 1 + MaxCalls
            /\ errLen' = errLen + 1
        BY DEF TypeOK, Begin
    <2> QED BY <2>1, Layout
<1> QED BY <1>1 DEF TypeOK, Begin

LEMMA OneMore ==
    ASSUME TypeOK, NEW l \in Levels, index[l] < B
    PROVE  1 \in 1 .. B - index[l]
<1>1. index[l] \in 0 .. B /\ B \in Nat
    BY Layout DEF TypeOK
<1> QED BY <1>1

LEMMA TypeInit == Init => TypeOK
<1> SUFFICES ASSUME Init PROVE TypeOK OBVIOUS
<1>1. index \in [Levels -> 0 .. B] /\ prev \in [Levels -> 0 .. B]
    BY Layout DEF Init
<1>2. errLen \in B + 1 .. B + 1 + MaxCalls /\ cursor \in 0 .. NumLevels
        /\ known \in 0 .. NumLevels
    BY Layout DEF Init
<1> QED BY <1>1, <1>2 DEF Init, TypeOK

LEMMA TypeStep == ASSUME TypeOK, Next PROVE TypeOK'
<1>1. ASSUME NEW op \in {"reconstruct", "progressive_reconstruct"}, NEW t \in Tolerances,
             Begin(op, t), NothingFetched,
             heap' \subseteq Levels, cursor' \in 0 .. NumLevels, sweep' \in {"first", "main"},
             met' \in BOOLEAN, undefined' \in {"no", "plane", "signs"}
      PROVE  TypeOK'
    <2>1. index' \in [Levels -> 0 .. B] /\ retrieve' \in [Levels -> Nat]
        BY <1>1 DEF TypeOK, NothingFetched
    <2> QED BY <1>1, <2>1, BeginType DEF TypeOK
<1>2. ASSUME NEW op \in {"reconstruct", "progressive_reconstruct"}, NEW t \in Tolerances,
             begin_in_order(op, t)
      PROVE  TypeOK'
    BY <1>1, <1>2 DEF begin_in_order, TypeOK
<1>3. ASSUME NEW op \in {"reconstruct", "progressive_reconstruct"}, NEW t \in Tolerances,
             begin_round_robin(op, t)
      PROVE  TypeOK'
    <2>1. cursor' \in Levels
        BY <1>3 DEF begin_round_robin
    <2>2. cursor' \in 0 .. NumLevels
        BY <2>1, Layout
    <2> QED BY <1>1, <1>3, <2>2 DEF begin_round_robin, TypeOK
<1>4. ASSUME NEW op \in {"reconstruct", "progressive_reconstruct"}, NEW t \in Tolerances,
             begin_greedy(op, t)
      PROVE  TypeOK'
    BY <1>1, <1>4 DEF begin_greedy, TypeOK
<1>5. ASSUME NEW op \in {"reconstruct", "progressive_reconstruct"}, NEW t \in Tolerances,
             begin_sign_exclude(op, t)
      PROVE  TypeOK'
    <2>1. PICK i \in Levels : /\ index' = FirstFetched(i)
                              /\ heap' = {l \in 0 .. i : index'[l] # B}
        BY <1>5 DEF begin_sign_exclude
    <2>2. index' \in [Levels -> 0 .. B] /\ \A l \in Levels : index[l] <= index'[l]
        <3>1. /\ index \in [Levels -> 0 .. B] /\ 1 \in 0 .. B
              /\ index' = [l \in Levels |-> IF l <= i /\ index[l] = 0 THEN 1 ELSE index[l]]
            BY <2>1, Layout DEF FirstFetched, TypeOK
        <3> QED BY <3>1
    <2>3. \A l \in Levels : Start[l][index'[l]] - Start[l][index[l]] \in Nat
        <3> SUFFICES ASSUME NEW l \in Levels
                     PROVE  Start[l][index'[l]] - Start[l][index[l]] \in Nat
            OBVIOUS
        <3>1. index[l] \in 0 .. B /\ index'[l] \in 0 .. B /\ index[l] <= index'[l]
            BY <2>2 DEF TypeOK
        <3>2. /\ Start[l][index[l]] \in Nat /\ Start[l][index'[l]] \in Nat
              /\ Start[l][index[l]] <= Start[l][index'[l]]
            BY <3>1, Layout
        <3> QED BY <3>2
    <2>4. retrieve' \in [Levels -> Nat]
        BY <1>5, <2>3 DEF begin_sign_exclude
    <2>5. heap' \subseteq Levels
        BY <2>1, Layout
    <2> QED BY <1>5, <2>2, <2>4, <2>5, BeginType DEF TypeOK, begin_sign_exclude
<1>6. ASSUME NEW op \in {"reconstruct", "progressive_reconstruct"}, NEW t \in Tolerances,
             begin_negabinary(op, t)
      PROVE  TypeOK'
    BY <1>1, <1>6 DEF begin_negabinary, TypeOK
<1>7. ASSUME next_in_order PROVE TypeOK'
    <2>1. PICK l \in Levels : index[l] < B /\ fetch(l, 1)
        BY <1>7 DEF next_in_order
    <2>2. 1 \in 1 .. B - index[l]
        BY <2>1, OneMore
    <2> QED BY <1>7, <2>1, <2>2, FetchType DEF next_in_order, fetch, TypeOK
<1>8. ASSUME next_round_robin PROVE TypeOK'
    <2>1. cursor \in Levels /\ cursor' \in 0 .. NumLevels
        BY <1>8, Layout DEF next_round_robin, TypeOK
    <2>2. CASE index[cursor] < B /\ fetch(cursor, 1)
        <3>1. 1 \in 1 .. B - index[cursor]
            BY <2>1, <2>2, OneMore
        <3> QED BY <1>8, <2>1, <2>2, <3>1, FetchType DEF next_round_robin, fetch, TypeOK
    <2>3. CASE index[cursor] = B /\ UNCHANGED <<met, index, retrieve>>
        BY <1>8, <2>1, <2>3 DEF next_round_robin, fetch, TypeOK
    <2> QED BY <1>8, <2>2, <2>3 DEF next_round_robin
<1>9. ASSUME next_round PROVE TypeOK'
    <2>1. cursor' \in 0 .. NumLevels
        BY <1>9, Layout DEF next_round
    <2>2. sweep' \in {"first", "main"}
        BY <1>9 DEF next_round
    <2> QED BY <1>9, <2>1, <2>2 DEF next_round, TypeOK
<1>10. ASSUME next_greedy PROVE TypeOK'
    <2>1. PICK l \in Levels : \E n \in 1 .. B - index[l] :
             fetch(l, n) /\ heap' = IF index'[l] = B THEN heap \ {l} ELSE heap
        BY <1>10 DEF next_greedy
    <2>2. PICK n \in 1 .. B - index[l] : fetch(l, n)
        BY <2>1
    <2>3. index' \in [Levels -> 0 .. B] /\ retrieve' \in [Levels -> Nat] /\ met' \in BOOLEAN
        BY <2>2, FetchType
    <2>4. /\ UNCHANGED <<interpreter, call, tolerance, prev, errLen, offsets, known, data,
                         restarted, undefined>>
          /\ UNCHANGED <<cursor, sweep>> /\ heap' \subseteq heap
        BY <1>10, <2>1, <2>2 DEF next_greedy, fetch
    <2> QED BY <2>3, <2>4 DEF TypeOK
<1>11. ASSUME reconstruct PROVE TypeOK'
    <2>1. offsets' \in [Levels -> Nat]
        BY <1>11 DEF reconstruct, retrieve_level_components, TypeOK
    <2>2. known' \in 0 .. NumLevels /\ undefined' \in {"no", "plane", "signs"}
        <3>1. CASE interpreter = "negabinary"
            BY <1>11, <3>1 DEF reconstruct, progressive_decode, TypeOK
        <3>2. CASE interpreter # "negabinary"
            <4>1. PICK m \in known .. NumLevels :
                     known' = m /\ undefined' = IF SignsMisread(m) THEN "signs" ELSE "no"
                BY <1>11, <3>2 DEF reconstruct, progressive_decode
            <4>2. known \in 0 .. NumLevels /\ NumLevels \in Nat
                BY Layout DEF TypeOK
            <4>3. m \in 0 .. NumLevels
                BY <4>2
            <4> QED BY <4>1, <4>3
        <3> QED BY <3>1, <3>2
    <2>3. data' \in [Levels -> [Planes -> Nat]] /\ restarted' \in BOOLEAN
        BY <1>11 DEF reconstruct, Before, TypeOK
    <2> QED BY <1>11, <2>1, <2>2, <2>3 DEF reconstruct, TypeOK
<1> QED BY <1>2, <1>3, <1>4, <1>5, <1>6, <1>7, <1>8, <1>9, <1>10, <1>11 DEF Next, Call, Work

-----------------------------------------------------------------------------
(* What the steps of a call have in common.                                 *)

Ops == {"reconstruct", "progressive_reconstruct"}
KeepsDone == UNCHANGED <<offsets, known, data, restarted>>

Begins ==
    /\ call = "idle" /\ call' \in Ops /\ prev' = index /\ KeepsDone
    /\ interpreter' = interpreter
    /\ \A l \in Levels : /\ index[l] <= index'[l]
                          /\ retrieve'[l] = Start[l][index'[l]] - Start[l][index[l]]

Continues ==
    /\ call \in Ops /\ call' = call /\ prev' = prev /\ KeepsDone
    /\ interpreter' = interpreter /\ undefined' = undefined /\ undefined = "no"
    /\ \A l \in Levels :
          /\ index[l] <= index'[l]
          /\ retrieve'[l] = retrieve[l] + Start[l][index'[l]] - Start[l][index[l]]

LEMMA BeginSteps ==
    ASSUME TypeOK, TypeOK', NEW op \in Ops, NEW t \in Tolerances,
           \/ begin_in_order(op, t) \/ begin_round_robin(op, t) \/ begin_greedy(op, t)
           \/ begin_sign_exclude(op, t) \/ begin_negabinary(op, t)
    PROVE  Begins
<1>1. Begin(op, t)
    BY DEF begin_in_order, begin_round_robin, begin_greedy, begin_sign_exclude, begin_negabinary
<1>2. call = "idle" /\ call' \in Ops /\ prev' = index /\ KeepsDone /\ interpreter' = interpreter
    BY <1>1 DEF Begin, KeepsDone
<1>3. CASE NothingFetched
    <2> SUFFICES ASSUME NEW l \in Levels
                 PROVE  /\ index[l] <= index'[l]
                        /\ retrieve'[l] = Start[l][index'[l]] - Start[l][index[l]]
        BY <1>2 DEF Begins
    <2>1. index[l] \in 0 .. B /\ index'[l] = index[l] /\ retrieve'[l] = 0
        BY <1>3 DEF NothingFetched, TypeOK
    <2>2. Start[l][index[l]] \in Nat
        BY <2>1, Layout
    <2> QED BY <2>1, <2>2, Layout
<1>4. CASE begin_sign_exclude(op, t)
    <2> SUFFICES ASSUME NEW l \in Levels
                 PROVE  /\ index[l] <= index'[l]
                        /\ retrieve'[l] = Start[l][index'[l]] - Start[l][index[l]]
        BY <1>2 DEF Begins
    <2>1. PICK i \in Levels : index' = FirstFetched(i)
        BY <1>4 DEF begin_sign_exclude
    <2>2. index[l] \in 0 .. B /\ index'[l] = IF l <= i /\ index[l] = 0 THEN 1 ELSE index[l]
        BY <2>1 DEF FirstFetched, TypeOK
    <2>3. retrieve'[l] = Start[l][index'[l]] - Start[l][index[l]]
        BY <1>4 DEF begin_sign_exclude
    <2> QED BY <2>2, <2>3, Layout
<1> QED BY <1>3, <1>4
        DEF begin_in_order, begin_round_robin, begin_greedy, begin_negabinary

LEMMA FetchContinues ==
    ASSUME TypeOK, NEW l \in Levels, NEW n \in 1 .. B - index[l], fetch(l, n), Fetching
    PROVE  Continues
<1>1. \A k \in Levels : index[k] \in 0 .. B /\ Start[k][index[k]] \in Nat /\ retrieve[k] \in Nat
    BY Layout DEF TypeOK
<1>2. /\ call \in Ops /\ call' = call /\ prev' = prev /\ KeepsDone
      /\ interpreter' = interpreter /\ undefined' = undefined /\ undefined = "no"
    BY DEF TypeOK, Fetching, fetch, KeepsDone, Ops
<1>3. ASSUME NEW k \in Levels
      PROVE  /\ index[k] <= index'[k]
             /\ retrieve'[k] = retrieve[k] + Start[k][index'[k]] - Start[k][index[k]]
    <2>1. CASE k = l
        <3>1. index'[l] = index[l] + n /\ index[l] \in 0 .. B /\ n \in Nat
            BY <1>1, FetchType, Layout
        <3>2. retrieve'[l] = retrieve[l] + Start[l][index'[l]] - Start[l][index[l]]
            BY FetchType
        <3>3. index[l] <= index'[l]
            BY <3>1, Layout
        <3> QED BY <2>1, <3>2, <3>3
    <2>2. CASE k # l
        <3>1. index'[k] = index[k] /\ retrieve'[k] = retrieve[k]
            BY <2>2, FetchType
        <3> QED BY <1>1, <3>1, Layout
    <2> QED BY <2>1, <2>2
<1> QED BY <1>2, <1>3 DEF Continues

LEMMA WorkSteps ==
    ASSUME TypeOK, Work
    PROVE  Continues \/ reconstruct
<1>1. CASE next_in_order
    <2>1. PICK l \in Levels : index[l] < B /\ fetch(l, 1)
        BY <1>1 DEF next_in_order
    <2> QED BY <1>1, <2>1, OneMore, FetchContinues DEF next_in_order
<1>2. ASSUME Fetching, UNCHANGED <<interpreter, call, index, prev, retrieve, offsets, known,
                                   data, restarted, undefined>>
      PROVE  Continues
    <2>1. \A k \in Levels : index[k] \in 0 .. B /\ Start[k][index[k]] \in Nat /\ retrieve[k] \in Nat
        BY Layout DEF TypeOK
    <2>2. ASSUME NEW k \in Levels
          PROVE  /\ index[k] <= index'[k]
                 /\ retrieve'[k] = retrieve[k] + Start[k][index'[k]] - Start[k][index[k]]
        <3>1. index'[k] = index[k] /\ retrieve'[k] = retrieve[k]
            BY <1>2
        <3> QED BY <2>1, <3>1, Layout
    <2>3. call \in Ops /\ undefined = "no"
        BY <1>2 DEF Fetching, TypeOK, Ops
    <2> QED BY <1>2, <2>2, <2>3 DEF Continues, KeepsDone
<1>3. CASE next_round_robin
    <2>1. cursor \in Levels
        BY <1>3, Layout DEF next_round_robin, TypeOK
    <2>2. CASE index[cursor] < B /\ fetch(cursor, 1)
        BY <1>3, <2>1, <2>2, OneMore, FetchContinues DEF next_round_robin
    <2> QED BY <1>2, <1>3, <2>2 DEF next_round_robin
<1>4. CASE next_round
    BY <1>2, <1>4 DEF next_round
<1>5. CASE next_greedy
    <2>1. PICK l \in Levels : \E n \in 1 .. B - index[l] : fetch(l, n)
        BY <1>5 DEF next_greedy
    <2> QED BY <1>5, <2>1, FetchContinues DEF next_greedy
<1> QED BY <1>1, <1>3, <1>4, <1>5 DEF Work

-----------------------------------------------------------------------------
(* The files and the sums                                                   *)

\* Every fresh plane, and no other, is decoded.
LEMMA DecodesTheFresh ==
    ASSUME TypeOK, Files, Sizes, call # "idle", NEW l \in Levels, NEW p \in Planes
    PROVE  Decoded(l, p) <=> prev[l] <= p /\ p < index[l]
<1>1. prev[l] \in 0 .. B /\ index[l] \in 0 .. B /\ prev[l] <= index[l] /\ p \in 0 .. B - 1
    BY DEF TypeOK, Sizes, Planes
<1>2. p \in Fresh(l) <=> prev[l] <= p /\ p < index[l]
    BY <1>1, Layout DEF Fresh
<1>3. ASSUME p \in Fresh(l) PROVE Located(l, p)
    <2>1. offsets[l] = Start[l][prev[l]] /\ retrieve[l] = Start[l][index[l]] - Start[l][prev[l]]
        BY DEF Files, Done, Sizes
    <2>2. /\ p \in 0 .. B /\ p + 1 \in 0 .. B /\ p + 1 <= index[l]
        BY <1>1, <1>2, <1>3, Layout
    <2>3. /\ Start[l][p] \in Nat /\ Start[l][p + 1] \in Nat /\ Start[l][prev[l]] \in Nat
          /\ Start[l][index[l]] \in Nat /\ Start[l][p + 1] <= Start[l][index[l]]
        BY <1>1, <2>2, Layout
    <2> QED BY <2>1, <2>3 DEF Located
<1> QED BY <1>2, <1>3, InflatesWhatWasDeflated DEF Decoded

LEMMA SumsStep ==
    ASSUME TypeOK, Files, Sizes, Sums, reconstruct
    PROVE  Sums'
<1> SUFFICES ASSUME NEW l \in Levels
             PROVE  \E first \in 0 .. B :
                       /\ first <= index[l] /\ (~restarted' => first = 0)
                       /\ \A p \in Planes :
                             data'[l][p] = IF first <= p /\ p < index[l] THEN 1 ELSE 0
    BY DEF Sums, Done, reconstruct
<1>1. /\ call \in Ops /\ call # "idle"
      /\ prev[l] \in 0 .. B /\ index[l] \in 0 .. B /\ prev[l] <= index[l]
    BY DEF reconstruct, TypeOK, Sizes, Ops
<1>2. PICK first \in 0 .. B :
         /\ first <= prev[l] /\ (~restarted => first = 0)
         /\ \A p \in Planes : data[l][p] = IF first <= p /\ p < prev[l] THEN 1 ELSE 0
    BY <1>1 DEF Sums, Done
<1>3. \A p \in Planes : data'[l][p] = Before(l, p) + (IF Decoded(l, p) THEN 1 ELSE 0)
    BY DEF reconstruct
<1>4. \A p \in Planes : data'[l][p] = Before(l, p) + (IF prev[l] <= p /\ p < index[l] THEN 1 ELSE 0)
    BY <1>1, <1>3, DecodesTheFresh
<1>5. \A p \in Planes : p \in Nat
    BY DEF Planes
<1>6. ~restarted' => ~restarted /\ (call = "reconstruct" => prev[l] = 0)
    BY DEF reconstruct
<1>7. CASE call = "progressive_reconstruct"
    <2>1. \A p \in Planes : Before(l, p) = IF first <= p /\ p < prev[l] THEN 1 ELSE 0
        BY <1>2, <1>7 DEF Before
    <2>2. \A p \in Planes : data'[l][p] = IF first <= p /\ p < index[l] THEN 1 ELSE 0
        BY <1>1, <1>2, <1>4, <1>5, <2>1
    <2>3. first <= index[l] /\ (~restarted' => first = 0)
        BY <1>1, <1>2, <1>6
    <2> QED BY <2>2, <2>3
<1>8. CASE call = "reconstruct"
    <2>1. \A p \in Planes : Before(l, p) = 0
        BY <1>8 DEF Before
    <2>2. \A p \in Planes : data'[l][p] = IF prev[l] <= p /\ p < index[l] THEN 1 ELSE 0
        BY <1>4, <2>1
    <2> QED BY <1>1, <1>6, <1>8, <2>2
<1> QED BY <1>1, <1>7, <1>8 DEF Ops

LEMMA FilesStep ==
    ASSUME TypeOK, TypeOK', Files, Sizes, Sums, Next
    PROVE  Files' /\ Sizes' /\ Sums'
<1>1. CASE Begins
    BY <1>1 DEF Begins, KeepsDone, Files, Sizes, Sums, Done, Ops
<1>2. CASE Continues
    <2>1. Files' /\ Sums'
        BY <1>2 DEF Continues, KeepsDone, Files, Sums, Done, Ops
    <2>2. ASSUME NEW l \in Levels
          PROVE  /\ prev[l] <= index'[l]
                 /\ retrieve'[l] = Start[l][index'[l]] - Start[l][prev[l]]
        <3>1. /\ prev[l] \in 0 .. B /\ index[l] \in 0 .. B /\ index'[l] \in 0 .. B
            BY DEF TypeOK
        <3>2. /\ Start[l][prev[l]] \in Nat /\ Start[l][index[l]] \in Nat
              /\ Start[l][index'[l]] \in Nat
            BY <3>1, Layout
        <3>3. prev[l] <= index[l] /\ retrieve[l] = Start[l][index[l]] - Start[l][prev[l]]
            BY <1>2 DEF Continues, Sizes, Ops
        <3>4. /\ index[l] <= index'[l]
              /\ retrieve'[l] = retrieve[l] + Start[l][index'[l]] - Start[l][index[l]]
            BY <1>2 DEF Continues
        <3> QED BY <3>1, <3>2, <3>3, <3>4
    <2> QED BY <1>2, <2>1, <2>2 DEF Continues, Sizes
<1>3. CASE reconstruct
    <2>1. call' = "idle" /\ index' = index
        BY <1>3 DEF reconstruct
    <2>2. ASSUME NEW l \in Levels PROVE offsets'[l] = Start[l][index[l]]
        <3>1. offsets'[l] = offsets[l] + retrieve[l]
            BY <1>3 DEF reconstruct, retrieve_level_components
        <3>2. offsets[l] = Start[l][prev[l]] /\ retrieve[l] = Start[l][index[l]] - Start[l][prev[l]]
            BY <1>3 DEF reconstruct, Files, Done, Sizes
        <3>3. Start[l][prev[l]] \in Nat /\ Start[l][index[l]] \in Nat
            BY Layout DEF TypeOK
        <3> QED BY <3>1, <3>2, <3>3
    <2>3. Files' /\ Sizes'
        BY <2>1, <2>2 DEF Files, Sizes, Done
    <2> QED BY <1>3, <2>3, SumsStep
<1> QED BY <1>1, <1>2, <1>3, BeginSteps, WorkSteps DEF Next, Call, Ops

-----------------------------------------------------------------------------
(* The order in which the interpreters take the levels                      *)

\* Only the actions of its interpreter can disturb what is said of one.
RoundRobinStep ==
    \/ \E op \in Ops, t \in Tolerances : begin_round_robin(op, t)
    \/ next_round_robin \/ next_round
    \/ UNCHANGED <<index, cursor>>

LEMMA WhoMoves ==
    ASSUME TypeOK, Next
    PROVE  /\ interpreter' = interpreter
           /\ interpreter = "round_robin" => RoundRobinStep
           /\ interpreter = "in_order" => next_in_order \/ index' = index
<1>1. CASE reconstruct
    BY <1>1 DEF reconstruct, RoundRobinStep
<1>2. CASE Call
    <2>1. PICK op \in Ops, t \in Tolerances :
             \/ begin_in_order(op, t) \/ begin_round_robin(op, t) \/ begin_greedy(op, t)
             \/ begin_sign_exclude(op, t) \/ begin_negabinary(op, t)
        BY <1>2 DEF Call, Ops
    <2>2. interpreter' = interpreter
        BY <2>1 DEF begin_in_order, begin_round_robin, begin_greedy, begin_sign_exclude,
                    begin_negabinary, Begin
    <2>3. interpreter = "round_robin" => begin_round_robin(op, t)
        BY <2>1 DEF begin_in_order, begin_greedy, begin_sign_exclude, begin_negabinary
    <2>4. interpreter = "in_order" => index' = index
        BY <2>1 DEF begin_in_order, begin_round_robin, begin_greedy, begin_sign_exclude,
                    begin_negabinary, NothingFetched
    <2> QED BY <2>2, <2>3, <2>4 DEF RoundRobinStep
<1>3. CASE next_in_order \/ next_greedy
    BY <1>3 DEF next_in_order, next_greedy, fetch
<1>4. CASE next_round_robin \/ next_round
    BY <1>4 DEF next_round_robin, next_round, fetch, RoundRobinStep
<1> QED BY <1>1, <1>2, <1>3, <1>4 DEF Next, Work

LEMMA RoundStep == ASSUME TypeOK, TypeOK', Round, Next PROVE Round'
<1> SUFFICES ASSUME interpreter = "round_robin", RoundRobinStep
             PROVE  \E r \in 0 .. B : \A l \in Levels :
                       index'[l] = IF l < cursor' /\ r < B THEN r + 1 ELSE r
    BY WhoMoves DEF Round
<1>1. PICK r \in 0 .. B : \A l \in Levels :
         index[l] = IF l < cursor /\ r < B THEN r + 1 ELSE r
    BY DEF Round
<1>2. /\ NumLevels \in Nat \ {0} /\ B \in Nat \ {0} /\ Levels = 0 .. NumLevels - 1
      /\ cursor \in 0 .. NumLevels /\ 0 \in Levels /\ r \in Nat
    BY Layout DEF TypeOK
<1>3. ASSUME NEW op \in Ops, NEW t \in Tolerances, begin_round_robin(op, t)
      PROVE  \E q \in 0 .. B : \A l \in Levels :
                index'[l] = IF l < cursor' /\ q < B THEN q + 1 ELSE q
    <2>1. PICK i \in Levels : IsStartingLevel(i) /\ cursor' = i
        BY <1>3 DEF begin_round_robin
    <2>2. index' = index
        BY <1>3 DEF begin_round_robin, NothingFetched
    <2> DEFINE behind == {l \in Levels \ {0} : index[l] < index[l - 1]}
    <2>3. IF behind = {} THEN i = 0 ELSE i \in behind
        BY <2>1 DEF IsStartingLevel
    <2>4. CASE 0 < cursor /\ cursor < NumLevels /\ r < B
        <3>1. cursor \in Levels \ {0} /\ cursor - 1 \in Levels
            BY <1>2, <2>4
        <3>2. index[cursor] = r /\ index[cursor - 1] = r + 1
            BY <1>1, <1>2, <2>4, <3>1
        <3>3. cursor \in behind
            BY <1>2, <3>1, <3>2
        <3>4. i \in Levels \ {0} /\ i - 1 \in Levels /\ index[i] < index[i - 1]
            <4>1. i \in behind
                BY <2>3, <3>3
            <4>2. i \in Levels \ {0} /\ index[i] < index[i - 1]
                BY <4>1
            <4> QED BY <1>2, <4>2
        <3>5. /\ index[i] = IF i < cursor THEN r + 1 ELSE r
              /\ index[i - 1] = IF i - 1 < cursor THEN r + 1 ELSE r
            BY <1>1, <2>4, <3>4
        <3>6. i = cursor
            BY <1>2, <3>4, <3>5
        <3> QED BY <1>1, <2>1, <2>2, <3>6
    <2>5. CASE ~(0 < cursor /\ cursor < NumLevels /\ r < B)
        <3>1. PICK q \in 0 .. B : \A l \in Levels : index[l] = q
            <4>1. CASE cursor = NumLevels /\ r < B
                <5>1. r + 1 \in 0 .. B /\ \A l \in Levels : l < cursor
                    BY <1>2, <4>1
                <5> QED BY <1>1, <4>1, <5>1
            <4>2. CASE cursor = 0 \/ ~(r < B)
                <5>1. \A l \in Levels : ~(l < cursor /\ r < B)
                    BY <1>2, <4>2
                <5> QED BY <1>1, <5>1
            <4> QED BY <1>2, <2>5, <4>1, <4>2
        <3>2. behind = {}
            <4> SUFFICES ASSUME NEW l \in Levels \ {0} PROVE ~(index[l] < index[l - 1])
                OBVIOUS
            <4>1. l - 1 \in Levels
                BY <1>2
            <4> QED BY <3>1, <4>1
        <3>3. cursor' = 0
            BY <2>1, <2>3, <3>2
        <3>4. \A l \in Levels : ~(l < 0)
            BY <1>2
        <3> QED BY <2>2, <3>1, <3>3, <3>4
    <2> QED BY <2>4, <2>5
<1>4. CASE next_round_robin
    <2>1. cursor \in Levels /\ cursor < NumLevels /\ cursor' = cursor + 1
        BY <1>2, <1>4 DEF next_round_robin
    <2>2. index[cursor] = r
        BY <1>1, <1>2, <2>1
    <2>3. CASE index[cursor] < B /\ fetch(cursor, 1)
        <3>1. 1 \in 1 .. B - index[cursor]
            BY <1>2, <2>2, <2>3
        <3>2. index'[cursor] = r + 1 /\ \A k \in Levels \ {cursor} : index'[k] = index[k]
            BY <2>1, <2>2, <2>3, <3>1, FetchType
        <3>3. r < B
            BY <2>2, <2>3
        <3>4. ASSUME NEW l \in Levels
              PROVE  index'[l] = IF l < cursor' /\ r < B THEN r + 1 ELSE r
            <4>1. l \in Int /\ cursor \in Int
                BY <1>2
            <4>2. CASE l = cursor
                BY <2>1, <3>2, <3>3, <4>1, <4>2
            <4>3. CASE l # cursor
                <5>1. l < cursor' <=> l < cursor
                    BY <2>1, <4>1, <4>3
                <5> QED BY <1>1, <3>2, <4>3, <5>1
            <4> QED BY <4>2, <4>3
        <3> QED BY <3>4
    <2>4. CASE index[cursor] = B /\ index' = index
        <3>1. r = B /\ ~(r < B)
            BY <1>2, <2>2, <2>4
        <3> QED BY <1>1, <2>4, <3>1
    <2> QED BY <1>4, <2>3, <2>4 DEF next_round_robin
<1>5. CASE next_round
    <2>1. cursor = NumLevels /\ cursor' = 0 /\ index' = index
        BY <1>5 DEF next_round
    <2>2. \A l \in Levels : l < cursor /\ ~(l < cursor')
        BY <1>2, <2>1
    <2>3. CASE r < B
        <3>1. r + 1 \in 0 .. B
            BY <1>2, <2>3
        <3> QED BY <1>1, <2>1, <2>2, <2>3, <3>1
    <2>4. CASE ~(r < B)
        BY <1>1, <2>1, <2>2, <2>4
    <2> QED BY <2>3, <2>4
<1>6. CASE UNCHANGED <<index, cursor>>
    BY <1>1, <1>6
<1> QED BY <1>3, <1>4, <1>5, <1>6 DEF RoundRobinStep

LEMMA InOrderStep == ASSUME TypeOK, InOrder, Next PROVE InOrder'
<1> SUFFICES ASSUME interpreter = "in_order", next_in_order,
                    NEW k \in Levels, NEW l \in Levels, k < l, index'[l] > 0
             PROVE  index'[k] = B
    BY WhoMoves DEF InOrder
<1>1. PICK m \in Levels : /\ index[m] < B /\ \A j \in Levels : j < m => index[j] = B
                          /\ fetch(m, 1)
    BY DEF next_in_order
<1>2. 1 \in 1 .. B - index[m] /\ B \in Nat /\ k \in Int /\ l \in Int /\ m \in Int
    <2>1. index[m] \in 0 .. B
        BY DEF TypeOK
    <2> QED BY <1>1, <2>1, Layout
<1>3. \A j \in Levels \ {m} : index'[j] = index[j]
    BY <1>1, <1>2, FetchType
<1>4. index[k] = B
    <2>1. CASE l = m
        BY <1>1, <2>1
    <2>2. CASE l # m
        BY <1>3, <2>2 DEF InOrder
    <2> QED BY <2>1, <2>2
<1>5. k # m
    BY <1>1, <1>2, <1>4
<1> QED BY <1>3, <1>4, <1>5

\* Of the steps that change what Prefix and Heap speak of.
LEMMA PrefixStep == ASSUME TypeOK, TypeOK', Prefix, Next PROVE Prefix'
<1>0. B \in Nat \ {0} /\ Levels = 0 .. NumLevels - 1 /\ \A l \in Levels : index[l] \in Nat
    <2>1. index \in [Levels -> 0 .. B]
        BY DEF TypeOK
    <2> QED BY <2>1, Layout
<1> SUFFICES ASSUME interpreter = "sign_exclude"
             PROVE  /\ \A k, l \in Levels : k < l /\ index'[l] > 0 => index'[k] > 0
                    /\ call' # "idle" => \A l \in heap' : index'[l] > 0
    BY WhoMoves DEF Prefix
<1>1. ASSUME NEW op \in Ops, NEW t \in Tolerances, begin_sign_exclude(op, t)
      PROVE  /\ \A k, l \in Levels : k < l /\ index'[l] > 0 => index'[k] > 0
             /\ \A l \in heap' : index'[l] > 0
    <2>1. PICK i \in Levels : /\ index' = FirstFetched(i)
                              /\ heap' = {l \in 0 .. i : index'[l] # B}
        BY <1>1 DEF begin_sign_exclude
    <2>2. \A l \in Levels : index'[l] = IF l <= i /\ index[l] = 0 THEN 1 ELSE index[l]
        BY <2>1 DEF FirstFetched
    <2>3. ASSUME NEW k \in Levels, NEW l \in Levels, k < l, index'[l] > 0
          PROVE  index'[k] > 0
        <3>1. CASE l <= i
            <4>1. k <= i
                BY <1>0, <2>3, <3>1
            <4> QED BY <1>0, <2>2, <4>1
        <3>2. CASE ~(l <= i)
            <4>1. index[k] > 0
                BY <2>2, <2>3, <3>2 DEF Prefix
            <4> QED BY <2>2, <4>1
        <3> QED BY <3>1, <3>2
    <2>4. ASSUME NEW l \in heap' PROVE index'[l] > 0
        <3>0. NumLevels \in Nat
            BY Layout
        <3>1. l \in 0 .. i /\ l \in Levels
            BY <1>0, <2>1, <2>4, <3>0
        <3> QED BY <1>0, <2>2, <3>1
    <2> QED BY <2>3, <2>4
<1>2. CASE next_greedy
    <2>1. PICK l \in Levels : \E n \in 1 .. B - index[l] : IsTop(l, n) /\ fetch(l, n)
        BY <1>2 DEF next_greedy
    <2>2. PICK n \in 1 .. B - index[l] : IsTop(l, n) /\ fetch(l, n)
        BY <2>1
    <2>3. /\ index'[l] = index[l] + n /\ \A k \in Levels \ {l} : index'[k] = index[k]
        BY <2>2, FetchType
    <2>4. index[l] > 0
        BY <1>2, <2>2 DEF next_greedy, Fetching, IsTop, Prefix
    <2>5. n \in Nat /\ index[l] \in Nat
        BY <1>0
    <2>6. \A k \in Levels : index'[k] > 0 <=> index[k] > 0
        BY <2>3, <2>4, <2>5
    <2>7. heap' \subseteq heap /\ heap \subseteq Levels /\ call # "idle"
        BY <1>2 DEF next_greedy, Fetching, TypeOK
    <2> QED BY <2>6, <2>7 DEF Prefix
<1>3. CASE reconstruct
    BY <1>3 DEF reconstruct, Prefix
<1>4. CASE Call
    BY <1>1, <1>4 DEF Call, Ops, begin_in_order, begin_round_robin, begin_greedy, begin_negabinary
<1> QED BY <1>2, <1>3, <1>4 DEF Next, Work, next_in_order, next_round_robin, next_round

LEMMA HeapStep == ASSUME TypeOK, TypeOK', Heap, Next PROVE Heap'
<1> SUFFICES ASSUME interpreter \in {"greedy", "negabinary"}, call' # "idle", undefined' = "no"
             PROVE  heap' = {l \in Levels : index'[l] # B}
    BY WhoMoves DEF Heap
<1>1. ASSUME NEW op \in Ops, NEW t \in Tolerances,
             begin_greedy(op, t) \/ begin_negabinary(op, t)
      PROVE  heap' = {l \in Levels : index'[l] # B}
    <2>1. CASE begin_greedy(op, t)
        <3>1. heap' = Levels /\ index' = index /\ \A l \in Levels : index[l] # B
            BY <2>1 DEF begin_greedy, NothingFetched
        <3> QED BY <3>1
    <2>2. CASE begin_negabinary(op, t)
        BY <2>2 DEF begin_negabinary, NothingFetched
    <2> QED BY <1>1, <2>1, <2>2
<1>2. CASE next_greedy
    <2>1. PICK l \in Levels : \E n \in 1 .. B - index[l] :
             fetch(l, n) /\ heap' = IF index'[l] = B THEN heap \ {l} ELSE heap
        BY <1>2 DEF next_greedy
    <2>2. PICK n \in 1 .. B - index[l] : fetch(l, n)
        BY <2>1
    <2>3. /\ index'[l] = index[l] + n /\ \A k \in Levels \ {l} : index'[k] = index[k]
        BY <2>2, FetchType
    <2>4. heap = {k \in Levels : index[k] # B}
        BY <1>2 DEF next_greedy, Fetching, Heap
    <2>5. index[l] # B
        <3>1. index[l] \in 0 .. B /\ B \in Nat
            BY Layout DEF TypeOK
        <3> QED BY <3>1
    <2> QED BY <2>1, <2>3, <2>4, <2>5
<1>3. CASE reconstruct
    BY <1>3 DEF reconstruct
<1>4. CASE Call
    BY <1>1, <1>4 DEF Call, Ops, begin_in_order, begin_round_robin, begin_sign_exclude
<1> QED BY <1>2, <1>3, <1>4 DEF Next, Work, next_in_order, next_round_robin, next_round

-----------------------------------------------------------------------------
(* The signs                                                                *)

LEMMA BegunInOrder ==
    ASSUME TypeOK, Round, InOrder, Prefix, interpreter \notin {"greedy", "negabinary"},
           NEW k \in Levels, NEW l \in Levels, k < l, index[l] > 0
    PROVE  index[k] > 0
<1>0. /\ k \in Int /\ l \in Int /\ cursor \in Int /\ B \in Nat \ {0}
      /\ interpreter \in {"in_order", "round_robin", "sign_exclude"}
    BY Layout, LayoutAssumption DEF LayoutAssumption, TypeOK, InterpreterNames
<1>1. CASE interpreter = "in_order"
    BY <1>0, <1>1 DEF InOrder
<1>2. CASE interpreter = "round_robin"
    <2>1. PICK r \in 0 .. B : \A m \in Levels :
             index[m] = IF m < cursor /\ r < B THEN r + 1 ELSE r
        BY <1>2 DEF Round
    <2>2. l < cursor => k < cursor
        BY <1>0
    <2>3. r \in Nat
        BY <1>0
    <2>4. CASE r > 0
        BY <2>1, <2>3, <2>4
    <2>5. CASE r = 0
        <3>1. l < cursor /\ r < B
            BY <2>1, <2>5
        <3> QED BY <2>1, <2>2, <2>3, <3>1
    <2> QED BY <2>3, <2>4, <2>5
<1>3. CASE interpreter = "sign_exclude"
    BY <1>3 DEF Prefix
<1> QED BY <1>0, <1>1, <1>2, <1>3

LEMMA SignsRecorded ==
    ASSUME TypeOK, Sizes, Round, InOrder, Prefix, Signs, call # "idle",
           interpreter \notin {"greedy", "negabinary"},
           NEW m \in known .. NumLevels, RecordsSigns(m)
    PROVE  /\ \A l \in Levels : l < m <=> index[l] > 0
           /\ ~SignsMisread(m)
<1>1. /\ NumLevels \in Nat \ {0} /\ Levels = 0 .. NumLevels - 1 /\ known \in 0 .. NumLevels
      /\ B \in Nat
    BY Layout DEF TypeOK
<1>2. ASSUME NEW l \in Levels
      PROVE  /\ prev[l] \in Nat /\ index[l] \in Nat /\ prev[l] <= index[l]
             /\ Fresh(l) # {} <=> prev[l] < index[l]
    <2>1. prev[l] \in 0 .. B /\ index[l] \in 0 .. B /\ prev[l] <= index[l]
        BY DEF TypeOK, Sizes
    <2> QED BY <1>1, <2>1 DEF Fresh
<1>3. \A l \in Levels : l < known <=> prev[l] > 0
    BY DEF Signs, Done
<1>4. ASSUME NEW l \in Levels, l < m PROVE index[l] > 0
    <2>1. CASE l < known
        BY <1>2, <1>3, <2>1
    <2>2. CASE ~(l < known)
        <3>1. l \in known .. m - 1
            BY <1>1, <1>4, <2>2
        <3>2. Fresh(l) # {}
            BY <3>1 DEF RecordsSigns
        <3> QED BY <1>2, <3>2
    <2> QED BY <2>1, <2>2
<1>5. ASSUME NEW l \in Levels, index[l] > 0 PROVE l < m
    <2> SUFFICES ASSUME ~(l < m) PROVE FALSE
        OBVIOUS
    <2>1. m \in Levels /\ m < NumLevels /\ ~(m < known)
        BY <1>1
    <2>2. Fresh(m) = {}
        BY <2>1 DEF RecordsSigns
    <2>3. index[m] = 0
        BY <1>2, <1>3, <2>1, <2>2
    <2>4. m < l
        BY <1>1, <1>5, <2>3
    <2>5. index[m] > 0
        BY <1>5, <2>1, <2>4, BegunInOrder
    <2> QED BY <2>3, <2>5
<1>6. ~SignsMisread(m)
    <2>1. ASSUME NEW l \in Levels, Fresh(l) # {} PROVE l < m
        <3>1. index[l] > 0
            BY <1>2, <2>1
        <3> QED BY <1>5, <3>1
    <2>2. ASSUME NEW l \in known .. m - 1 PROVE prev[l] = 0
        <3>1. l \in Levels /\ ~(l < known)
            BY <1>1
        <3> QED BY <1>2, <1>3, <3>1
    <2>3. \A l \in Levels : Fresh(l) # {} => ~(l >= m)
        BY <1>1, <2>1
    <2> QED BY <2>2, <2>3 DEF SignsMisread
<1> QED BY <1>4, <1>5, <1>6

LEMMA SignsStep ==
    ASSUME TypeOK, TypeOK', Sizes, Round, InOrder, Prefix, Signs, WithinBounds, Next
    PROVE  Signs' /\ WithinBounds'
<1>1. CASE Call
    <2>1. PICK op \in Ops, t \in Tolerances :
             \/ begin_in_order(op, t) \/ begin_round_robin(op, t) \/ begin_greedy(op, t)
             \/ begin_sign_exclude(op, t) \/ begin_negabinary(op, t)
        BY <1>1 DEF Call, Ops
    <2>2. Begins
        BY <2>1, BeginSteps
    <2>3. Signs'
        BY <2>2 DEF Begins, KeepsDone, Signs, Done, Ops
    <2>4. interpreter # "greedy" => undefined' = undefined
        BY <2>1 DEF begin_in_order, begin_round_robin, begin_greedy, begin_sign_exclude,
                    begin_negabinary
    <2> QED BY <2>2, <2>3, <2>4 DEF Begins, WithinBounds
<1>2. CASE Continues
    BY <1>2 DEF Continues, KeepsDone, Signs, WithinBounds, Done, Ops
<1>3. CASE reconstruct
    <2>1. /\ call # "idle" /\ call' = "idle" /\ undefined = "no" /\ index' = index
          /\ interpreter' = interpreter /\ progressive_decode
        BY <1>3 DEF reconstruct
    <2>2. CASE interpreter \in {"greedy", "negabinary"}
        BY <2>1, <2>2 DEF progressive_decode, Signs, WithinBounds
    <2>3. CASE interpreter \notin {"greedy", "negabinary"}
        <3>1. PICK m \in known .. NumLevels :
                 /\ RecordsSigns(m) /\ known' = m
                 /\ undefined' = IF SignsMisread(m) THEN "signs" ELSE "no"
            BY <2>1, <2>3 DEF progressive_decode
        <3>2. (\A l \in Levels : l < m <=> index[l] > 0) /\ ~SignsMisread(m)
            BY <2>1, <2>3, <3>1, SignsRecorded
        <3> QED BY <2>1, <3>1, <3>2 DEF Signs, WithinBounds, Done
    <2> QED BY <2>2, <2>3
<1> QED BY <1>1, <1>2, <1>3, WorkSteps DEF Next

-----------------------------------------------------------------------------
(* The tolerance                                                            *)

\* The conditions under which the interpreters give up mean that every plane of
\* every level has been fetched.
LEMMA NothingLeftIsExhausted ==
    ASSUME TypeOK, Round, Heap, call # "idle", undefined = "no", NothingLeft,
           interpreter # "sign_exclude"
    PROVE  Exhausted
<1>1. CASE interpreter = "in_order"
    BY <1>1 DEF NothingLeft, Exhausted
<1>2. CASE interpreter = "round_robin"
    <2>1. PICK r \in 0 .. B : \A l \in Levels :
             index[l] = IF l < cursor /\ r < B THEN r + 1 ELSE r
        BY <1>2 DEF Round
    <2>2. cursor = NumLevels /\ index[NumLevels - 1] = B
        BY <1>2 DEF NothingLeft, LastRound
    <2>3. NumLevels - 1 \in Levels /\ \A l \in Levels : l < cursor
        BY <2>2, Layout
    <2> QED BY <2>1, <2>2, <2>3 DEF Exhausted
<1>3. CASE interpreter \in {"greedy", "negabinary"}
    BY <1>3 DEF NothingLeft, Heap, Exhausted
<1> QED BY <1>1, <1>2, <1>3, LayoutAssumption DEF LayoutAssumption, TypeOK, InterpreterNames

LEMMA MetStep == ASSUME TypeOK, TypeOK', Round, Heap, Met, Next PROVE Met'
<1>1. ASSUME call' # "idle", met' => Estimate(index') < tolerance' PROVE Met'
    BY <1>1 DEF Met, ToleranceReached, Idle
<1>2. ASSUME NEW l \in Levels, NEW n \in 1 .. B - index[l], fetch(l, n), Fetching PROVE Met'
    BY <1>1, <1>2 DEF fetch, Fetching
<1>3. ASSUME Fetching, UNCHANGED <<call, met, tolerance, index>> PROVE Met'
    BY <1>1, <1>3 DEF Fetching
<1>4. CASE Call
    <2>1. PICK op \in Ops, t \in Tolerances :
             \/ begin_in_order(op, t) \/ begin_round_robin(op, t) \/ begin_greedy(op, t)
             \/ begin_sign_exclude(op, t) \/ begin_negabinary(op, t)
        BY <1>4 DEF Call, Ops
    <2>2. call' # "idle" /\ tolerance' = t
        BY <2>1 DEF Ops, Begin, begin_in_order, begin_round_robin, begin_greedy,
                    begin_sign_exclude, begin_negabinary
    <2>3. met' => Estimate(index') < t
        BY <2>1 DEF begin_in_order, begin_round_robin, begin_greedy, begin_sign_exclude,
                    begin_negabinary, NothingFetched
    <2> QED BY <1>1, <2>2, <2>3
<1>5. CASE next_in_order
    <2>1. PICK l \in Levels : index[l] < B /\ fetch(l, 1)
        BY <1>5 DEF next_in_order
    <2>2. 1 \in 1 .. B - index[l]
        BY <2>1, OneMore
    <2> QED BY <1>2, <1>5, <2>1, <2>2 DEF next_in_order
<1>6. CASE next_round_robin
    <2>1. cursor \in Levels
        BY <1>6, Layout DEF next_round_robin, TypeOK
    <2>2. CASE index[cursor] < B /\ fetch(cursor, 1)
        <3>1. 1 \in 1 .. B - index[cursor]
            BY <2>1, <2>2, OneMore
        <3> QED BY <1>2, <1>6, <2>1, <2>2, <3>1 DEF next_round_robin
    <2> QED BY <1>3, <1>6, <2>2 DEF next_round_robin
<1>7. CASE next_round
    BY <1>3, <1>7 DEF next_round
<1>8. CASE next_greedy
    <2>1. PICK l \in Levels : \E n \in 1 .. B - index[l] : fetch(l, n)
        BY <1>8 DEF next_greedy
    <2> QED BY <1>2, <1>8, <2>1 DEF next_greedy
<1>9. CASE reconstruct
    <2>1. /\ call # "idle" /\ call' = "idle" /\ undefined = "no" /\ (met \/ NothingLeft)
          /\ UNCHANGED <<interpreter, index, tolerance>>
        BY <1>9 DEF reconstruct
    <2>2. interpreter # "sign_exclude" => Estimate(index) < tolerance \/ Exhausted
        BY <2>1, NothingLeftIsExhausted DEF Met
    <2>3. interpreter' # "sign_exclude" => Estimate(index') < tolerance' \/ Exhausted'
        BY <2>1, <2>2 DEF Exhausted
    <2> QED BY <2>1, <2>3 DEF Met, ToleranceReached
<1> QED BY <1>4, <1>5, <1>6, <1>7, <1>8, <1>9 DEF Next, Work

-----------------------------------------------------------------------------
(* The invariant, and what follows from it                                  *)

LEMMA InvariantInit == Init => IInv
<1> SUFFICES ASSUME Init PROVE IInv OBVIOUS
<1>1. TypeOK
    BY TypeInit
<1>2. /\ call = "idle" /\ known = 0 /\ undefined = "no" /\ errLen = B + 1
      /\ \A l \in Levels : index[l] = 0 /\ offsets[l] = 0 /\ Start[l][0] = 0 /\ l \in Nat
      /\ \A l \in Levels, p \in Planes : data[l][p] = 0
    BY Layout, LayoutAssumption DEF Init, LayoutAssumption
<1>3. Files /\ Sizes
    BY <1>2 DEF Files, Sizes, Done
<1>4. Sums
    <2>1. 0 \in 0 .. B /\ \A p \in Planes : p \in Nat
        BY Layout DEF Planes
    <2> QED BY <1>2, <2>1 DEF Sums, Done
<1>5. Round
    <2>1. 0 \in 0 .. B /\ cursor = 0 /\ \A l \in Levels : ~(l < 0)
        BY <1>2, Layout DEF Init
    <2> QED BY <1>2, <2>1 DEF Round
<1>6. InOrder /\ Prefix /\ Heap /\ Signs /\ WithinBounds
    BY <1>2 DEF InOrder, Prefix, Heap, Signs, WithinBounds, Done
<1>7. Met
    BY <1>2, Layout DEF Met, ToleranceReached, Called
<1> QED BY <1>1, <1>3, <1>4, <1>5, <1>6, <1>7 DEF IInv

LEMMA InvariantStep == IInv /\ [Next]_vars => IInv'
<1> SUFFICES ASSUME IInv, [Next]_vars PROVE IInv'
    OBVIOUS
<1>1. CASE Next
    <2>1. TypeOK'
        BY <1>1, TypeStep DEF IInv
    <2>2. Files' /\ Sizes' /\ Sums'
        BY <1>1, <2>1, FilesStep DEF IInv
    <2>3. Round' /\ InOrder'
        BY <1>1, <2>1, RoundStep, InOrderStep DEF IInv
    <2>4. Prefix' /\ Heap'
        BY <1>1, <2>1, PrefixStep, HeapStep DEF IInv
    <2>5. Signs' /\ WithinBounds'
        BY <1>1, <2>1, SignsStep DEF IInv
    <2>6. Met'
        BY <1>1, <2>1, MetStep DEF IInv
    <2> QED BY <2>1, <2>2, <2>3, <2>4, <2>5, <2>6 DEF IInv
<1>2. CASE UNCHANGED vars
    BY <1>2 DEF vars, control, IInv, TypeOK, Files, Sizes, Sums, Round, InOrder, Prefix, Heap,
                Signs, WithinBounds, Met, ToleranceReached, Done, Idle, Called, Exhausted
<1> QED BY <1>1, <1>2

LEMMA Invariance == Spec => []IInv
BY InvariantInit, InvariantStep, PTL DEF Spec

\* The variables keep their types, and the retriever and the interpreter never
\* ask for a plane beyond the last one of a level.
THEOREM RetrievalTypeCorrect == Spec => []TypeOK
<1>1. IInv => TypeOK
    BY DEF IInv
<1> QED BY <1>1, Invariance, PTL

\* However many calls there have been, with whatever tolerances and whichever of
\* the interpreters, the offset of every level file is where the next plane of
\* the level begins.
THEOREM OffsetsAlwaysAgree == Spec => []OffsetsAgree
<1>1. IInv => OffsetsAgree
    BY DEF IInv, Files, Done, OffsetsAgree, Idle
<1> QED BY <1>1, Invariance, PTL

\* After every call, data sums up consecutive planes of a level up to the last
\* one retrieved, each exactly once: all of them, unless reconstruct was called
\* after planes had been retrieved.
THEOREM EveryPlaneSummedOnce == Spec => []EachPlaneOnce
<1>1. IInv => EachPlaneOnce
    BY DEF IInv, Sums, Done, EachPlaneOnce, Idle
<1> QED BY <1>1, Invariance, PTL

\* The interpreters that begin the levels in their order never make the encoder
\* read signs it has not recorded, and only the plain greedy one reads the size
\* of a plane that is not there.
THEOREM AlwaysWithinBounds == Spec => []WithinBounds
<1>1. IInv => WithinBounds
    BY DEF IInv
<1> QED BY <1>1, Invariance, PTL

\* A call returns with an estimate that meets its tolerance, or with all planes
\* of all levels.
THEOREM ToleranceAlwaysReached == Spec => []ToleranceReached
<1>1. IInv => ToleranceReached
    BY DEF IInv, Met
<1> QED BY <1>1, Invariance, PTL

\* Round robin keeps the levels within one plane of each other, the first ones
\* ahead, across the rounds and across the calls.
THEOREM RoundRobinAlwaysBalanced == Spec => []RoundRobinBalanced
<1>1. IInv => RoundRobinBalanced
    <2> SUFFICES ASSUME IInv, interpreter = "round_robin",
                        NEW k \in Levels, NEW l \in Levels, k < l
                 PROVE  index[k] \in {index[l], index[l] + 1}
        BY DEF RoundRobinBalanced
    <2>1. PICK r \in 0 .. B : \A m \in Levels :
             index[m] = IF m < cursor /\ r < B THEN r + 1 ELSE r
        BY DEF IInv, Round
    <2>2. l < cursor => k < cursor
        BY Layout DEF IInv, TypeOK
    <2> QED BY <2>1, <2>2
<1> QED BY <1>1, Invariance, PTL
=============================================================================
