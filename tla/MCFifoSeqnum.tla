--------------------------- MODULE MCFifoSeqnum ---------------------------
(* Instances of FifoSeqnum for TLC.                                        *)
EXTENDS FifoSeqnum, TLC

CONSTANTS c1, c2, c3, b1

MCClient == {c1, c2}
MCClient3 == {c1, c2, c3}
MCSymmetry == Permutations(MCClient3)
MCBadClient == {b1}
MCNoBadClient == {}
MCVariants == {"44_3", "44_4", "44_6"}
MCPolling == {"44_6"}

\* Every point of the server at which a signal can reach it.
MCCrashAnywhere == ServerPoints

\* The server dies only while it waits for the next request, everything of
\* the last one behind it.
MCCrashIdle == {"read"}
=============================================================================
