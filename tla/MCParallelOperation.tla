------------------------- MODULE MCParallelOperation -------------------------
(* Names for the threads and operations of ParallelOperation, and two codes *)
(* that a build may return.                                                 *)
EXTENDS ParallelOperation

CONSTANTS t1, t2, t3, o1, o2

TwoCodes == {"SUCCESS", "RETRY"}
==============================================================================
