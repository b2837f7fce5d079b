------------------------- MODULE MCAdaptiveTransfer -------------------------
(* Instances of AdaptiveTransfer for TLC.                                    *)
EXTENDS AdaptiveTransfer

\* NumChunks: the size of every tier.
OneChunkEach == [t \in Tiers |-> 1]
TwoChunksEach == [t \in Tiers |-> 2]

\* GenM: as in main(), tier 0 with the largest parity count and the others with
\* none; or every tier with the largest.
MaxThenNone == [t \in Tiers |-> IF t = 0 THEN MaxM ELSE 0]
AllMax == [t \in Tiers |-> MaxM]
=============================================================================
