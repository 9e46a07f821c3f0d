------------------------------ MODULE MCFiles --------------------------------
EXTENDS Files

CONSTANTS f1, f2

OneFile == <<f1>>
TwoFiles == <<f1, f2>>

=============================================================================
