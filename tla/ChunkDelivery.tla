---------------------------- MODULE ChunkDelivery ----------------------------
(***************************************************************************)
(* What the transfer promises: fragments of chunks are collected, in any   *)
(* order and possibly again, until every chunk has at least Need of them;  *)
(* only then may the collector say it is done, and only after that may the *)
(* source close.  Once done the collector accepts one more fragment at     *)
(* most.                                                                   *)
(***************************************************************************)
EXTENDS Integers, FiniteSets

CONSTANTS Chunks, Ids, Need

VARIABLES have,     \* chunk -> ids of the fragments collected
          open,     \* the collector still accepts fragments
          done,     \* the collector has all it needs
          closed    \* the source has closed
vars == <<have, open, done, closed>>

Init == /\ have = [c \in Chunks |-> {}]
        /\ open = TRUE /\ done = FALSE /\ closed = FALSE

Accept(c, i) ==
    /\ open /\ open' \in BOOLEAN /\ (done => ~open')
    /\ have' = [have EXCEPT ![c] = @ \cup {i}]
    /\ UNCHANGED <<done, closed>>

StopAccepting == open /\ open' = FALSE /\ UNCHANGED <<have, done, closed>>

Finish ==
    /\ \A c \in Chunks : Cardinality(have[c]) >= Need
    /\ done' = TRUE /\ UNCHANGED <<have, open, closed>>

Close == done /\ closed' = TRUE /\ UNCHANGED <<have, open, done>>

Next == \/ \E c \in Chunks, i \in Ids : Accept(c, i)
        \/ StopAccepting \/ Finish \/ Close

Spec == Init /\ [][Next]_vars
=============================================================================
