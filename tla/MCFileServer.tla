----------------------------- MODULE MCFileServer -----------------------------
EXTENDS FileServer

CONSTANTS c1, c2, full, empty, none

\* A file of more blocks than a client's queue holds, an empty one, and one that
\* is not there.
MCBlocks == [f \in File |-> IF f = full THEN 2 ELSE IF f = empty THEN 0 ELSE -1]
MCAsks == [p \in Pid |-> IF p \in Mortal THEN {full} ELSE {empty, none}]
\* A second process with the pid of the one that may be killed.
MCMaxRuns == [p \in Pid |-> IF p \in Mortal THEN 2 ELSE 1]
=============================================================================
