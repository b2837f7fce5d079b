--------------------------- MODULE InOrderDelivery ---------------------------
\* What a reliable transfer promises: packets 0 .. NumPackets - 1 are delivered one after
\* the other, each once, and the sender finishes after the last of them, never before.
EXTENDS Naturals
CONSTANT NumPackets
VARIABLES delivered,    \* packets delivered so far
          finished      \* the sender has returned
vars == <<delivered, finished>>

Init == delivered = 0 /\ finished = FALSE

Deliver == delivered < NumPackets /\ delivered' = delivered + 1 /\ UNCHANGED finished

Finish == delivered = NumPackets /\ ~finished /\ finished' = TRUE /\ UNCHANGED delivered

Next == Deliver \/ Finish

Safe == Init /\ [][Next]_vars

Spec == Safe /\ WF_vars(Next)
=============================================================================
