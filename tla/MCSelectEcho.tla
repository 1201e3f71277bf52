----------------------------- MODULE MCSelectEcho -----------------------------
(* Instances of SelectEcho for TLC.                                        *)
EXTENDS SelectEcho

CONSTANTS a, b, c

MCClient == {a, b, c}
MCPair == {a, b}
MCA == {a}
MCNobody == {}

\* Client a, which does not read, sends enough to fill the kernel's buffer;
\* client c only connects and closes.
MCSend == [x \in Client |-> IF x = a THEN 2 ELSE IF x = b THEN 1 ELSE 0]
=============================================================================
