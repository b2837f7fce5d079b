------------------------- MODULE MCAdaptiveSimulation -------------------------
\* Values for the constants of AdaptiveSimulation.
EXTENDS AdaptiveSimulation

TwoTiers == [t \in 0 .. 1 |-> IF t = 0 THEN 5 ELSE 2]
=============================================================================
