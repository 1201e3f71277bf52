------------------------------ MODULE MCShmXfr ------------------------------
(* Instances of ShmXfr for TLC.                                            *)
EXTENDS ShmXfr

MCAll == {"48_1", "48_3", "54_1", "53_1"}
MCSemaphores == {"48_3", "54_1", "53_1"}
=============================================================================
