---------------------------- MODULE DeferredBuild ----------------------------
(***************************************************************************)
(* What a parallel operation promises (level_zero/ze_api.h: zeRTASBuilder-  *)
(* BuildExt, zeRTASParallelOperationJoinExt): it carries one build at a     *)
(* time, and once that build is complete every thread that joined it is     *)
(* given the code of that build, whichever thread did the work.             *)
(***************************************************************************)
CONSTANTS
  Ops,    \* The parallel operations.
  Codes   \* The codes that a build can end with.

(* The code of an operation that has no complete build.                     *)
NoCode == "none"

VARIABLES
  building, \* The operations that carry a build which is not complete.
  code,     \* code[o]: the code of o's latest build, NoCode until complete.
  answers   \* answers[o]: what the joins of o's latest build have returned.

vars == <<building, code, answers>>

Init ==
  /\ building = {}
  /\ code = [o \in Ops |-> NoCode]
  /\ answers = [o \in Ops |-> {}]

Start(o) ==
  /\ o \notin building
  /\ building' = building \union {o}
  /\ code' = [code EXCEPT ![o] = NoCode]
  /\ answers' = [answers EXCEPT ![o] = {}]

Complete(o) ==
  /\ o \in building
  /\ building' = building \ {o}
  /\ \E c \in Codes : code' = [code EXCEPT ![o] = c]
  /\ UNCHANGED answers

Answer(o) ==
  /\ o \notin building
  /\ code[o] # NoCode
  /\ answers' = [answers EXCEPT ![o] = @ \union {code[o]}]
  /\ UNCHANGED <<building, code>>

Next == \E o \in Ops : Start(o) \/ Complete(o) \/ Answer(o)

Spec == Init /\ [][Next]_vars
==============================================================================
