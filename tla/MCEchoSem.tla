------------------------------ MODULE MCEchoSem ------------------------------
EXTENDS EchoSem

CONSTANTS c1, c2, c3, c4
=============================================================================
