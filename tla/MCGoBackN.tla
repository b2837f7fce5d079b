------------------------------ MODULE MCGoBackN ------------------------------
\* The runs of GoBackN, whose constants are numbers.
EXTENDS GoBackN
=============================================================================
