------------------------------- MODULE MCDtree -------------------------------
EXTENDS Dtree

CONSTANTS r1, r2, i1, i2, x, y

\* The tree at the start: two roots and r1/x, with an inode to spare.
MCInitLoc == [d \in Dir |-> IF d = i1 THEN <<r1, x>> ELSE Gone]
=============================================================================
