---------------------------- MODULE MCLossReport ----------------------------
\* Values for the constants of LossReport.
EXTENDS LossReport

\* The second tier has a chunk number of the first.
TwoAndOne == [t \in 0 .. 1 |-> 2 - t]
\* For MostRecent and EveryThreshold: two chunks of the second tier have numbers of the first.
ThreeAndTwo == [t \in 0 .. 1 |-> 3 - t]
=============================================================================
