----------------------------- MODULE MCRetrieval -----------------------------
\* Values for the constants of Retrieval.  An error of 1.0 is 64 here.
EXTENDS Retrieval

ThreePlanes(a, b, c) == [p \in 0 .. 3 |-> CASE p = 0 -> 0 [] p = 1 -> a
                                             [] p = 2 -> a + b [] OTHER -> a + b + c]

\* Level 2 has no coefficient but zero: frexp gives it the exponent 0.
ThreeLevels == [l \in 0 .. 2 |-> CASE l = 0 -> ThreePlanes(2, 1, 3)
                                   [] l = 1 -> ThreePlanes(5, 1, 1)
                                   [] OTHER -> ThreePlanes(1, 4, 2)]
ThreeMaxErr == [l \in 0 .. 2 |-> CASE l = 0 -> 150 [] l = 1 -> 250 [] OTHER -> 0]
\* Same exponents but no level of zeros, and the largest efficiency at level 1.
OtherMaxErr == [l \in 0 .. 2 |-> CASE l = 0 -> 128 [] l = 1 -> 250 [] OTHER -> 40]
ThreeHalfUnit == [l \in 0 .. 2 |-> CASE l = 0 -> 128 [] l = 1 -> 128 [] OTHER -> 32]
ThreeStopping == [l \in 0 .. 2 |-> CASE l = 0 -> 1 [] l = 1 -> 3 [] OTHER -> 2]
=============================================================================
