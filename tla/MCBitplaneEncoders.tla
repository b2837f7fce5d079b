-------------------------- MODULE MCBitplaneEncoders --------------------------
\* Values for the constants of BitplaneEncoders.
EXTENDS BitplaneEncoders

\* Of both signs, with and without bits behind the point, from every plane on; the
\* negabinary encoder takes those below 8.
SomeValues == {-31, -20, -7, -4, -1, 0, 2, 5, 6, 18}
=============================================================================
