------------------------------ MODULE PrimRefGen ------------------------------
(***************************************************************************)
(* Filling the array of build primitives in parallel: build of              *)
(* rtbuild/qbvh6_builder_sah.h over parallel_for_for_prefix_sum.h.          *)
(*                                                                          *)
(* The primitives of all geometries, laid end to end, are cut into one      *)
(* range per task; a range can begin and end inside a geometry. Pass 0      *)
(* pairs the triangles of every slice of a range and counts quads and       *)
(* single primitives. The running sums of the counts are where the tasks    *)
(* store their primitives in pass 1, which leaves invalid ones out. When    *)
(* some were left out, pass 2 stores all again, without the holes.          *)
(*                                                                          *)
(* A slice is handled in one step: tasks write different slots (NoRace).    *)
(* Definitions named Mut... are faulty versions of the definition after     *)
(* them, which the properties refute.                                       *)
(***************************************************************************)
EXTENDS Integers, FiniteSets, FiniteSetsExt

CONSTANTS
  NumGeometries, \* The geometries of the build.
  MaxPrimitives, \* Bound: the primitives of all of them together.
  MaxThreads,    \* Bound: the threads of the task scheduler.
  MinStepSize,   \* Primitives that deserve a task, 1024.
  MaxTasks       \* ParallelForForState::MAX_TASKS, 64.

SizesAssumption ==
  /\ NumGeometries \in Nat \ {0} /\ MaxPrimitives \in Nat
  /\ MaxThreads \in Nat \ {0} /\ MinStepSize \in Nat \ {0} /\ MaxTasks \in Nat \ {0}

QUADIFIER_PAIRED == 65535
QUADIFIER_TRIANGLE == 0
QUADIFIER_MAX_DISTANCE == 31
None == <<>>

Geometries == 0 .. NumGeometries - 1

VARIABLES
  getSize,       \* Input: the number of primitives of each geometry.
  valid,         \* Input: the primitives <<geomID, primID>> that are valid.
  threadCount,   \* Input: TaskScheduler::threadCount().
  phase,         \* "split", then "pass" and "sum" by turns, then "done".
  pass,          \* Of the three passes over the primitives.
  i0, j0,        \* The geometry and the primitive each task begins with.
  at,            \* The cursor of the loop that splits: i, j, k, taskIndex, k0.
  task,          \* The loop of each task: i, j, k and its count N.
  sums,          \* The counts of the tasks before it, for each task.
  quadification, \* For each primitive, what pair_triangles stored.
  numPrimitives, \* The count that the latest pass has to meet.
  prims,         \* The array: in each slot a primitive or None.
  writers        \* History: the tasks that wrote a slot in this pass.

inputs == <<getSize, valid, threadCount>>
vars == <<inputs, phase, pass, i0, j0, at, task, sums, quadification,
          numPrimitives, prims, writers>>

Least(a, b) == IF a < b THEN a ELSE b

Primitives == {q \in Geometries \X (0 .. MaxPrimitives) : q[2] < getSize[q[1]]}

SizeN == MapThenSumSet(LAMBDA g : getSize[g], Geometries)

taskCount ==
  Max({1, Min({threadCount, (SizeN + MinStepSize - 1) \div MinStepSize, MaxTasks})})

Tasks == 0 .. taskCount - 1

(* The first primitive, in the common numbering, of a task's range.         *)
First(t) == (t * SizeN) \div taskCount

Slots == 0 .. MaxPrimitives - 1

(* Where a task's loop stands before a pass.                                *)
Fresh == [t \in Tasks |-> [i |-> i0[t], j |-> j0[t], k |-> First(t), N |-> 0]]

Init ==
  /\ getSize \in {s \in [Geometries -> 0 .. MaxPrimitives] :
                    MapThenSumSet(LAMBDA g : s[g], Geometries) <= MaxPrimitives}
  /\ valid \in SUBSET Primitives
  /\ threadCount \in 1 .. MaxThreads
  /\ phase = "split" /\ pass = 0
  /\ i0 = [t \in Tasks |-> 0] /\ j0 = [t \in Tasks |-> 0]
  /\ at = [i |-> 0, j |-> 0, k |-> 0, taskIndex |-> 1, k0 |-> First(1)]
  /\ task = Fresh
  /\ sums = [t \in Tasks |-> 0]
  /\ quadification = [q \in Primitives |-> QUADIFIER_TRIANGLE]
  /\ numPrimitives = 0
  /\ prims = [s \in Slots |-> None]
  /\ writers = [s \in Slots |-> {}]

------------------------------------------------------------------------------
(* ParallelForForState::init.                                               *)

StartsHere ==
  /\ at.j < getSize[at.i]
  /\ at.k + getSize[at.i] - at.j >= at.k0
  /\ at.taskIndex < taskCount

(* The inner loop: the next task begins inside, or at the end of, this      *)
(* geometry.                                                                *)
SplitTask ==
  /\ phase = "split" /\ at.taskIndex < taskCount
  /\ StartsHere
  /\ i0' = [i0 EXCEPT ![at.taskIndex] = at.i]
  /\ j0' = [j0 EXCEPT ![at.taskIndex] = at.j + at.k0 - at.k]
  /\ at' = [at EXCEPT !.j = @ + at.k0 - at.k, !.k = at.k0,
                      !.taskIndex = @ + 1, !.k0 = First(at.taskIndex + 1)]
  /\ UNCHANGED <<inputs, phase, pass, task, sums, quadification, numPrimitives, prims, writers>>

(* The outer loop: on to the next geometry.                                 *)
SplitGeometry ==
  /\ phase = "split" /\ at.taskIndex < taskCount
  /\ ~StartsHere
  /\ at' = [at EXCEPT !.i = @ + 1, !.j = 0, !.k = @ + getSize[at.i] - at.j]
  /\ UNCHANGED <<inputs, phase, pass, i0, j0, task, sums, quadification, numPrimitives, prims, writers>>

(* The first parallel loop begins.                                          *)
SplitDone ==
  /\ phase = "split" /\ at.taskIndex = taskCount
  /\ phase' = "pass"
  /\ task' = Fresh
  /\ UNCHANGED <<inputs, pass, i0, j0, at, sums, quadification, numPrimitives, prims, writers>>

------------------------------------------------------------------------------
(* The loop of a task, over the geometries its range meets.                 *)

Running(t) == phase = "pass" /\ task[t].k < First(t + 1)

(* The primitives of geometry i in the range: from r0 up to, not with, r1.  *)
SliceEnd(t) == Least(getSize[task[t].i], task[t].j + First(t + 1) - task[t].k)
Slice(t) == task[t].j .. SliceEnd(t) - 1

(* The loop's step after count primitives came out of the slice.            *)
Advance(t, count) ==
  task' = [task EXCEPT ![t] = [i |-> @.i + 1, j |-> 0,
                               k |-> @.k + SliceEnd(t) - @.j, N |-> @.N + count]]

(* What pair_triangles can return for a slice: disjoint pairs <<j, j2>>.    *)
(* For other geometries, and meshes without common edges, there are none.   *)
Pairings(r) ==
  {m \in SUBSET {p \in r \X r : p[1] < p[2] /\ p[2] - p[1] <= QUADIFIER_MAX_DISTANCE} :
     \A p, q \in m : p # q => {p[1], p[2]} \intersect {q[1], q[2]} = {}}

(* Pass 0: pair the slice; the count is that of quads and single ones.      *)
Quadify(t) ==
  /\ Running(t) /\ pass = 0
  /\ \E m \in Pairings(Slice(t)) :
       /\ quadification' = [q \in Primitives |->
            IF q[1] # task[t].i \/ q[2] \notin Slice(t) THEN quadification[q]
            ELSE IF \E p \in m : p[2] = q[2] THEN QUADIFIER_PAIRED
            ELSE IF \E p \in m : p[1] = q[2]
            THEN (CHOOSE p \in m : p[1] = q[2])[2] - q[2]
            ELSE QUADIFIER_TRIANGLE]
       /\ Advance(t, Cardinality(Slice(t)) - Cardinality(m))
  /\ UNCHANGED <<inputs, phase, pass, i0, j0, at, sums, numPrimitives, prims, writers>>

(* A primitive that the later passes store: not the second of a quad, and   *)
(* valid as is its partner.                                                 *)
Stored(g, p) ==
  /\ quadification[<<g, p>>] # QUADIFIER_PAIRED
  /\ <<g, p>> \in valid
  /\ <<g, p + quadification[<<g, p>>]>> \in valid

(* Where the slice begins to store: base.size().                            *)
Base(t) == sums[t] + task[t].N

(* Which primitives of the slice are stored, and in which slots.            *)
Kept(t) == {p \in Slice(t) : Stored(task[t].i, p)}
SlotOf(t, p) == Base(t) + Cardinality({o \in Kept(t) : o < p})

(* Pass 1 and 2: createTrianglePairPrimRefArray, createPrimRefArray.        *)
Store(t) ==
  /\ Running(t) /\ pass > 0
  /\ LET into(s) == {p \in Kept(t) : SlotOf(t, p) = s}
     IN /\ prims' = [s \in Slots |->
              IF into(s) = {} THEN prims[s] ELSE <<task[t].i, CHOOSE p \in into(s) : TRUE>>]
        /\ writers' = [s \in Slots |->
              IF into(s) = {} THEN writers[s] ELSE writers[s] \union {t}]
        /\ Advance(t, Cardinality(Kept(t)))
  /\ UNCHANGED <<inputs, phase, pass, i0, j0, at, sums, quadification, numPrimitives>>

------------------------------------------------------------------------------
(* All tasks have returned: the running sums of their counts, and whether   *)
(* another pass follows.                                                    *)

Counted == MapThenSumSet(LAMBDA t : task[t].N, Tasks)

PrefixSums ==
  [t \in Tasks |-> MapThenSumSet(LAMBDA u : task[u].N, 0 .. t - 1)]

Barrier == phase = "pass" /\ \A t \in Tasks : ~Running(t)

NextPass ==
  /\ Barrier
  /\ pass = 0 \/ (pass = 1 /\ Counted # numPrimitives)
  /\ pass' = pass + 1
  /\ sums' = PrefixSums
  /\ numPrimitives' = Counted
  /\ task' = Fresh
  /\ writers' = [s \in Slots |-> {}]
  /\ UNCHANGED <<inputs, phase, i0, j0, at, quadification, prims>>

MutFinish ==
  /\ Barrier
  /\ pass > 0
  /\ phase' = "done"
  /\ sums' = PrefixSums
  /\ UNCHANGED <<inputs, pass, i0, j0, at, task, quadification, numPrimitives, prims, writers>>

Finish ==
  /\ Barrier
  /\ pass = 2 \/ (pass = 1 /\ Counted = numPrimitives)
  /\ phase' = "done"
  /\ sums' = PrefixSums
  /\ UNCHANGED <<inputs, pass, i0, j0, at, task, quadification, numPrimitives, prims, writers>>

Next ==
  \/ SplitTask \/ SplitGeometry \/ SplitDone
  \/ \E t \in Tasks : Quadify(t) \/ Store(t)
  \/ NextPass \/ Finish

Spec == Init /\ [][Next]_vars

------------------------------------------------------------------------------
(* A task stores only in the slots that the pass before it counted for it:  *)
(* no two tasks write one slot, and none lies outside of the array.         *)
OwnSlots ==
  pass > 0 /\ phase = "pass" => \A s \in Slots : \A t \in writers[s] :
    /\ sums[t] <= s
    /\ s < IF t + 1 \in Tasks THEN sums[t + 1] ELSE numPrimitives

Precedes(q, r) == q[1] < r[1] \/ (q[1] = r[1] /\ q[2] < r[2])

(* The hierarchy is built over each quad and single primitive whose         *)
(* triangles are valid, once, in the order of the input and without a hole, *)
(* and their number is the one the last pass was to meet (the assertion     *)
(* after it).                                                               *)
ResultExact ==
  phase = "done" =>
    LET members(q) == {q, <<q[1], q[2] + quadification[q]>>}
        wanted == {q \in Primitives :
                     quadification[q] # QUADIFIER_PAIRED /\ members(q) \subseteq valid}
    IN /\ Counted = numPrimitives
       /\ {prims[s] : s \in 0 .. Counted - 1} = wanted
       /\ \A s, r \in 0 .. Counted - 1 : s < r => Precedes(prims[s], prims[r])
==============================================================================
