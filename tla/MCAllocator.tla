----------------------------- MODULE MCAllocator -----------------------------
(* Allocator with three threads that ask for the header, for one node and   *)
(* for a fat leaf of three quads, in a buffer of seven 64-byte units: there *)
(* are runs that fill it exactly, that leave a rest too small for some      *)
(* request, and in which all three threads overshoot its end together.      *)
EXTENDS Allocator, TLC

MCRequests ==
  {Request(HeaderBytes, 16), Request(NodeBytes, 64), Request(3 * QuadBytes, 64)}

(* The threads run the same code.                                           *)
MCSymmetry == Permutations(Threads)
==============================================================================
