------------------------------ MODULE PrefixSum ------------------------------
(***************************************************************************)
(* parallel_prefix_sum (rtbuild/algorithms/parallel_prefix_sum.h), which    *)
(* the pre-splitting uses to find the place of every piece.                 *)
(*                                                                          *)
(* A short array is summed by its caller. A long one is cut into segments,  *)
(* one for each task; a first pass computes the sum of every segment, the   *)
(* caller turns these into the sum before every segment, a second pass      *)
(* writes dst and counts again. Both passes ask how many threads there are  *)
(* and both share one state, whose entries the tasks of a pass read and     *)
(* overwrite in any order. Definitions named Mut... are faulty versions of  *)
(* the definition that follows them, with which the properties are known    *)
(* to fail.                                                                 *)
(***************************************************************************)
EXTENDS Integers, FiniteSets, FiniteSetsExt

CONSTANTS
  Sizes,        \* The lengths of src.
  Values,       \* The values in src.
  ThreadCounts, \* What TaskScheduler::threadCount may be.
  MaxTasks,     \* ParallelPrefixSumState::MAX_TASKS.
  MinStepSize,  \* The least number of items for which a task is worth having.
  Threshold     \* SINGLE_THREAD_THRESHOLD.

PrefixSumAssumption ==
  /\ Sizes \subseteq Nat
  /\ Values \subseteq Nat
  /\ ThreadCounts \subseteq Nat \ {0}
  /\ MaxTasks \in Nat \ {0}
  /\ MinStepSize \in Nat \ {0}
  /\ Threshold \in Nat \ {0}

VARIABLES
  N,       \* The length of src.
  src,     \* What is summed.
  threads, \* The number of threads.
  pass,    \* 0 before the first, 1 and 2, 3 when the function has returned.
  left,    \* The tasks of the pass that have not run.
  counts, sums, \* The ParallelPrefixSumState.
  dst,     \* The result, -1 where it is not written.
  total    \* The value returned.

vars == <<N, src, threads, pass, left, counts, sums, dst, total>>

Items == 0 .. N - 1
Tasks == 0 .. MaxTasks - 1

Sum(S) == MapThenSumSet(LAMBDA i : src[i], S)

Init ==
  /\ N \in Sizes
  /\ src \in [Items -> Values]
  /\ threads \in ThreadCounts
  /\ pass = 0
  /\ left = {}
  /\ counts = [t \in Tasks |-> -1]
  /\ sums = [t \in Tasks |-> -1]
  /\ dst = [i \in Items |-> -1]
  /\ total = -1

numBlocks == (N + MinStepSize - 1) \div MinStepSize

taskCount == Min({threads, numBlocks, MaxTasks})

Segment(t) == (t * N) \div taskCount .. ((t + 1) * N) \div taskCount - 1

(* The caller sums a short array.                                           *)
Serial ==
  /\ pass = 0
  /\ N < Threshold
  /\ dst' = [i \in Items |-> Sum(0 .. i - 1)]
  /\ total' = Sum(Items)
  /\ pass' = 3
  /\ UNCHANGED <<N, src, threads, left, counts, sums>>

Begin ==
  /\ pass = 0
  /\ N >= Threshold
  /\ pass' = 1
  /\ left' = 0 .. taskCount - 1
  /\ UNCHANGED <<N, src, threads, counts, sums, dst, total>>

MutRunTask(t) ==
  /\ t \in left
  /\ left' = left \ {t}
  /\ counts' = [counts EXCEPT ![t] = Sum(Segment(t))]
  /\ dst' = IF pass = 1 THEN dst
            ELSE [i \in Items |->
                    IF i \in Segment(t) THEN counts[t] + Sum(Segment(t) \cap 0 .. i - 1)
                    ELSE dst[i]]
  /\ UNCHANGED <<N, src, threads, pass, sums, total>>

(* A task sums its segment, in the second pass on top of the sum before it, *)
(* and returns the sum of the segment alone.                                *)
RunTask(t) ==
  /\ t \in left
  /\ left' = left \ {t}
  /\ counts' = [counts EXCEPT ![t] = Sum(Segment(t))]
  /\ dst' = IF pass = 1 THEN dst
            ELSE [i \in Items |->
                    IF i \in Segment(t) THEN sums[t] + Sum(Segment(t) \cap 0 .. i - 1)
                    ELSE dst[i]]
  /\ UNCHANGED <<N, src, threads, pass, sums, total>>

(* The caller sums the counts of the tasks, and runs the second pass or     *)
(* returns.                                                                 *)
Reduce ==
  /\ pass \in {1, 2}
  /\ left = {}
  /\ sums' = [t \in Tasks |->
                IF t < taskCount THEN MapThenSumSet(LAMBDA u : counts[u], 0 .. t - 1)
                ELSE sums[t]]
  /\ pass' = pass + 1
  /\ IF pass = 1
     THEN left' = 0 .. taskCount - 1 /\ total' = total
     ELSE left' = {} /\ total' = MapThenSumSet(LAMBDA u : counts[u], 0 .. taskCount - 1)
  /\ UNCHANGED <<N, src, threads, counts, dst>>

Next == Serial \/ Begin \/ Reduce \/ \E t \in Tasks : RunTask(t)

Spec == Init /\ [][Next]_vars

------------------------------------------------------------------------------
(* The result is the prefix sum of src, and what is returned is its sum,    *)
(* whatever the number of threads and the order of the tasks.               *)
PrefixSumExact ==
  pass = 3 =>
    /\ \A i \in Items : dst[i] = Sum(0 .. i - 1)
    /\ total = Sum(Items)
==============================================================================
