----------------------------- MODULE OpenInstance -----------------------------
(***************************************************************************)
(* Opening an instance before the build: BuilderT::openInstance (rtbuild/  *)
(* qbvh6_builder_sah.h) replaces the instance by nodes of the BVH it        *)
(* refers to. The nodes are kept in a heap of bounded size (darray_t,       *)
(* rtbuild/sys/array.h) with the largest box on top; the top is replaced by *)
(* its children until there are as many nodes as asked for, no room for     *)
(* another NumChildren - 1, or nothing on the heap that can be opened.      *)
(*                                                                          *)
(* Of a node the model keeps whether it can be opened: its priority is its  *)
(* area, and 0 for a fat leaf or a box without an area. Everything that can *)
(* be opened is above everything that cannot, so that the heap is a pair of *)
(* numbers. The BVH behind the instance is left open: a node that is opened *)
(* has any children that Arities admits.                                    *)
(*                                                                          *)
(* Definitions named Mut... are faulty versions of the definition that      *)
(* follows them, with which the properties are known to fail.               *)
(***************************************************************************)
EXTENDS Integers

CONSTANTS
  MaxPieces,   \* MAX_PRESPLITS_PER_PRIMITIVE, the capacity of the heap.
  NumChildren, \* QBVH6::InternalNode6::NUM_CHILDREN.
  Targets,     \* The values of splitprims that the pre-splitting asks for.
  RootArities, \* How many valid children the root of the instance may have.
  Arities      \* How many valid children a node below the root may have.

ASSUME OpenInstanceAssumption ==
  /\ MaxPieces \in Nat \ {0}
  /\ NumChildren \in Nat \ {0}
  /\ Targets \subseteq 1 .. MaxPieces
  /\ RootArities \subseteq 0 .. NumChildren
  /\ Arities \subseteq 1 .. NumChildren

VARIABLES
  targetSubPrims, \* The number of pieces asked for.
  open,           \* The nodes on the heap that can be opened.
  fixed,          \* The nodes on the heap whose priority is 0.
  toPush,         \* The children of the opened node that are not yet pushed.
  atRoot,         \* The next node to be opened is the root.
  phase,          \* "check" the loop's conditions, "top", "push", "emit", "done".
  numSubPrims     \* The PrimRefs written to subPrims.

vars == <<targetSubPrims, open, fixed, toPush, atRoot, phase, numSubPrims>>

Size == open + fixed

Children == [open : 0 .. NumChildren, fixed : 0 .. NumChildren]

NoChildren == [open |-> 0, fixed |-> 0]

(* A root that is a fat leaf is on the heap with priority 0.                *)
Init ==
  /\ targetSubPrims \in Targets
  /\ open \in 0 .. 1
  /\ fixed = 1 - open
  /\ toPush = NoChildren
  /\ atRoot = TRUE
  /\ phase = "check"
  /\ numSubPrims = 0

MutRoom == Size <= MaxPieces

Room == Size + (NumChildren - 1) <= MaxPieces

Enough == Size >= targetSubPrims

(* The loop's condition and the test of the budget.                         *)
Check ==
  /\ phase = "check"
  /\ phase' = IF Room /\ ~ Enough THEN "top" ELSE "emit"
  /\ UNCHANGED <<targetSubPrims, open, fixed, toPush, atRoot, numSubPrims>>

(* The top of the heap cannot be opened, so nothing on it can.              *)
NothingToOpen ==
  /\ phase = "top"
  /\ open = 0
  /\ phase' = "emit"
  /\ UNCHANGED <<targetSubPrims, open, fixed, toPush, atRoot, numSubPrims>>

(* pop_heap, back and pop_back take the top node off the heap.              *)
Pop ==
  /\ phase = "top"
  /\ open > 0
  /\ \E c \in Children :
       /\ c.open + c.fixed \in IF atRoot THEN RootArities ELSE Arities
       /\ toPush' = c
  /\ open' = open - 1
  /\ atRoot' = FALSE
  /\ phase' = "push"
  /\ UNCHANGED <<targetSubPrims, fixed, numSubPrims>>

(* push_back and push_heap of one valid child.                              *)
Push ==
  /\ phase = "push"
  /\ \/ /\ toPush.open > 0
        /\ toPush' = [toPush EXCEPT !.open = @ - 1]
        /\ open' = open + 1
        /\ fixed' = fixed
     \/ /\ toPush.fixed > 0
        /\ toPush' = [toPush EXCEPT !.fixed = @ - 1]
        /\ fixed' = fixed + 1
        /\ open' = open
  /\ UNCHANGED <<targetSubPrims, atRoot, phase, numSubPrims>>

(* Every valid child of the opened node has been pushed.                    *)
Pushed ==
  /\ phase = "push"
  /\ toPush = NoChildren
  /\ phase' = "check"
  /\ UNCHANGED <<targetSubPrims, open, fixed, toPush, atRoot, numSubPrims>>

(* One PrimRef for every node on the heap.                                  *)
Emit ==
  /\ phase = "emit"
  /\ IF numSubPrims < Size
     THEN numSubPrims' = numSubPrims + 1 /\ phase' = phase
     ELSE phase' = "done" /\ numSubPrims' = numSubPrims
  /\ UNCHANGED <<targetSubPrims, open, fixed, toPush, atRoot>>

Next == Check \/ NothingToOpen \/ Pop \/ Push \/ Pushed \/ Emit

Spec == Init /\ [][Next]_vars

------------------------------------------------------------------------------
TypeOK ==
  /\ targetSubPrims \in Targets
  /\ open \in Nat /\ fixed \in Nat
  /\ toPush \in Children
  /\ atRoot \in BOOLEAN
  /\ phase \in {"check", "top", "push", "emit", "done"}
  /\ numSubPrims \in Nat

(* The heap never holds more nodes than it has items for, and subPrims gets *)
(* no more PrimRefs than it has room for: the loop stops early enough for   *)
(* a node with all its children.                                            *)
CapacityKept ==
  /\ Size + toPush.open + toPush.fixed <= MaxPieces
  /\ numSubPrims <= MaxPieces

(* back() is never called on an empty heap (its assert, sys/array.h), and   *)
(* the instance is never replaced by nothing: createPrimRefArray_presplit   *)
(* asserts numSubPrims.                                                     *)
TopExists ==
  /\ phase = "top" => Size > 0
  /\ phase = "done" => numSubPrims > 0

(* The heap neither overflows nor runs empty.                               *)
HeapSound == CapacityKept /\ TopExists

(* push_back asserts M+1 < max_size() (sys/array.h) before it appends.      *)
PushAsserted ==
  (phase = "push" /\ toPush # NoChildren) => Size + 1 < MaxPieces
==============================================================================
