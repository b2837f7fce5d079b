--------------------------- MODULE MCRefactorSender ---------------------------
\* The constants of RefactorSender are numbers, given in the configurations.
EXTENDS RefactorSender
=============================================================================
