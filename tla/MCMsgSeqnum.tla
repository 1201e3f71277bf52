----------------------------- MODULE MCMsgSeqnum -----------------------------
EXTENDS MsgSeqnum

CONSTANTS c1, c2
=============================================================================
