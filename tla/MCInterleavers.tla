---------------------------- MODULE MCInterleavers ----------------------------
\* Values for the constants of Interleavers.
EXTENDS Interleavers

\* Every mixture of even and odd dimensions with one level below, and one with two.
SomeDims == [1 .. 3 -> {4, 5, 7}] \cup {<<8, 9, 8>>}
=============================================================================
