------------------------------ MODULE BlockPool ------------------------------
(***************************************************************************)
(* What the BVH builder needs from the allocator of the acceleration       *)
(* structure buffer, with no counter and no threads: memory is handed out  *)
(* as blocks that never overlap and never reach the end of the buffer, and *)
(* once one request has been refused none is served any more.              *)
(*                                                                         *)
(* Allocator.tla implements this module; see Allocator!PoolSpec.           *)
(***************************************************************************)
EXTENDS Integers

CONSTANTS
  End,      \* The size of the buffer in bytes.
  Requests  \* The requests [bytes, align] that the builder makes.

VARIABLES
  blocks,   \* The blocks [start, bytes] handed out so far.
  refused   \* TRUE once a request could not be served.

poolVars == <<blocks, refused>>

(* Two blocks that have no byte in common. *)
Disjoint(b, c) ==
  \/ b.start + b.bytes <= c.start
  \/ c.start + c.bytes <= b.start

Init ==
  /\ blocks = {}
  /\ refused = FALSE

(* One more block, of the size some request asked for.                     *)
Give ==
  /\ ~refused
  /\ \E b \in blocks' :
       /\ blocks' = blocks \union {b}
       /\ \E r \in Requests : b = [start |-> b.start, bytes |-> r.bytes]
       /\ b.start \in Nat
       /\ b.start + b.bytes < End
       /\ \A c \in blocks : Disjoint(b, c)
  /\ UNCHANGED refused

Refuse ==
  /\ refused' = TRUE
  /\ UNCHANGED blocks

Next == Give \/ Refuse

Spec == Init /\ [][Next]_poolVars
==============================================================================
