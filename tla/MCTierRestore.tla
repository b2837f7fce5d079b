---------------------------- MODULE MCTierRestore ----------------------------
\* Values for the constants of TierRestore.
EXTENDS TierRestore, TLC

\* Two bitplanes in one chunk; two in two chunks of unequal size, the first of which holds
\* the first bitplane and more; one in one chunk.
ThreeTiers == 0 :> <<1, 1>> @@ 1 :> <<2, 3>> @@ 2 :> <<2>>
\* With two sites unavailable tier 1 is abandoned; with one any tier may fail.
Parity == 0 :> 2 @@ 1 :> 1 @@ 2 :> 2
=============================================================================
