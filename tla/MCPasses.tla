------------------------------- MODULE MCPasses -------------------------------
(***************************************************************************)
(* The parallel passes over the primitives, for TLC: PrimRefGen, PrefixSum, *)
(* RadixSort and ParallelPartition. They follow each other in a build, hand *)
(* over an array each, and share nothing else: an initial state chooses one *)
(* of them with an input of its own, and the variables of the others are    *)
(* unused.                                                                  *)
(***************************************************************************)
EXTENDS Integers, FiniteSets

CONSTANTS
  NumGeometries, MaxPrimitives, MaxThreads, MinStepSize, MaxTasks,
  SumSizes, Values, Threshold,
  PartitionSizes, LeftSets, BlockSize,
  SortSizes, Digits, BUCKETS

VARIABLES
  algorithm, \* Which of the four runs.
  getSize, valid, i0, j0, cursor, task, quadification, numPrimitives, primRefs, writers,
  src, counts, dst, total,
  array, lPtr, rPtr, reduced, mid, ranges, swap, touched,
  keys, tmp, radixCount, ran,
  progress, pass, threadCount, sums, N, leftOnes \* Of more than one.

ofPrimRefs ==
  <<getSize, valid, i0, j0, cursor, task, quadification, numPrimitives, primRefs, writers>>
ofPrefixSum == <<src, counts, dst, total>>
ofSort == <<keys, tmp, radixCount, ran>>
ofPartition == <<array, lPtr, rPtr, reduced, mid, ranges, swap, touched>>

passesVars ==
  <<algorithm, ofPrimRefs, ofPrefixSum, ofSort, ofPartition, progress, pass, threadCount, sums, N,
    leftOnes>>

PrimRefs == INSTANCE PrimRefGen WITH phase <- progress, prims <- primRefs, at <- cursor

PrefixSum == INSTANCE PrefixSum
  WITH Sizes <- SumSizes, ThreadCounts <- 1 .. MaxTasks + 1, threads <- threadCount, left <- leftOnes

(* Every predicate on up to eight items. Only of twelve does a task's share *)
(* of the swaps cross from one misplaced range to the next: there the first *)
(* segment of three tasks is all misplaced.                                 *)
FewLeftSets ==
  [n \in PartitionSizes |-> IF n > 8 THEN SUBSET (n - 8 .. n - 1) ELSE SUBSET (0 .. n - 1)]

Partition == INSTANCE ParallelPartition
  WITH Sizes <- PartitionSizes, phase <- progress, l <- lPtr, r <- rPtr, left <- leftOnes

Sorting == INSTANCE RadixSort
  WITH Sizes <- SortSizes, blockSize <- BlockSize, ThreadCounts <- 1 .. MaxTasks + 1,
       MAX_TASKS <- MaxTasks, phase <- progress

ASSUME PassesAssumption ==
  /\ Sorting!RadixSortAssumption
  /\ PrimRefs!SizesAssumption /\ PrefixSum!PrefixSumAssumption /\ Partition!BoundsAssumption

------------------------------------------------------------------------------
KeepPrimRefs == UNCHANGED <<algorithm, ofPrefixSum, ofSort, ofPartition, N, leftOnes>>
KeepPrefixSum == UNCHANGED <<algorithm, ofPrimRefs, ofSort, ofPartition, progress>>
KeepSort ==
  UNCHANGED <<algorithm, ofPrimRefs, counts, dst, total, ofPartition, sums, leftOnes>>
KeepPartition == UNCHANGED <<algorithm, ofPrimRefs, ofPrefixSum, ofSort, pass, sums>>

NoSort == keys = {} /\ tmp = {} /\ radixCount = {} /\ ran = {}

InitPrimRefs ==
  /\ algorithm = "primrefs" /\ PrimRefs!Init
  /\ src = {} /\ counts = {} /\ dst = {} /\ total = {}
  /\ array = {} /\ lPtr = {} /\ rPtr = {} /\ reduced = {} /\ mid = {} /\ ranges = {}
  /\ swap = {} /\ touched = {} /\ N = {} /\ leftOnes = {}

InitPrefixSum ==
  /\ algorithm = "prefix sum" /\ PrefixSum!Init
  /\ getSize = {} /\ valid = {} /\ i0 = {} /\ j0 = {} /\ cursor = {} /\ task = {}
  /\ quadification = {} /\ numPrimitives = {} /\ primRefs = {} /\ writers = {}
  /\ array = {} /\ lPtr = {} /\ rPtr = {} /\ reduced = {} /\ mid = {} /\ ranges = {}
  /\ swap = {} /\ touched = {} /\ progress = {}

InitPartition ==
  /\ algorithm = "partition" /\ Partition!Init
  /\ getSize = {} /\ valid = {} /\ i0 = {} /\ j0 = {} /\ cursor = {} /\ task = {}
  /\ quadification = {} /\ numPrimitives = {} /\ primRefs = {} /\ writers = {}
  /\ src = {} /\ counts = {} /\ dst = {} /\ total = {} /\ pass = {} /\ sums = {}

InitSort ==
  /\ algorithm = "sort" /\ Sorting!Init
  /\ getSize = {} /\ valid = {} /\ i0 = {} /\ j0 = {} /\ cursor = {} /\ task = {}
  /\ quadification = {} /\ numPrimitives = {} /\ primRefs = {} /\ writers = {}
  /\ counts = {} /\ dst = {} /\ total = {} /\ sums = {}
  /\ array = {} /\ lPtr = {} /\ rPtr = {} /\ reduced = {} /\ mid = {} /\ ranges = {}
  /\ swap = {} /\ touched = {} /\ leftOnes = {}

InitOfPasses ==
  \/ InitSort
  \/ (InitPrimRefs \/ InitPrefixSum \/ InitPartition) /\ NoSort

SplitTask == algorithm = "primrefs" /\ PrimRefs!SplitTask /\ KeepPrimRefs
SplitGeometry == algorithm = "primrefs" /\ PrimRefs!SplitGeometry /\ KeepPrimRefs
SplitDone == algorithm = "primrefs" /\ PrimRefs!SplitDone /\ KeepPrimRefs
Quadify == algorithm = "primrefs" /\ (\E t \in PrimRefs!Tasks : PrimRefs!Quadify(t)) /\ KeepPrimRefs
StoreRefs == algorithm = "primrefs" /\ (\E t \in PrimRefs!Tasks : PrimRefs!Store(t)) /\ KeepPrimRefs
NextPass == algorithm = "primrefs" /\ PrimRefs!NextPass /\ KeepPrimRefs
FinishRefs == algorithm = "primrefs" /\ PrimRefs!Finish /\ KeepPrimRefs

Serial == algorithm = "prefix sum" /\ PrefixSum!Serial /\ KeepPrefixSum
Begin == algorithm = "prefix sum" /\ PrefixSum!Begin /\ KeepPrefixSum
Reduce == algorithm = "prefix sum" /\ PrefixSum!Reduce /\ KeepPrefixSum
RunTask ==
  algorithm = "prefix sum" /\ (\E t \in PrefixSum!Tasks : PrefixSum!RunTask(t)) /\ KeepPrefixSum

SequentialSort == algorithm = "sort" /\ Sorting!SequentialSort /\ KeepSort
StartSort == algorithm = "sort" /\ Sorting!Start /\ KeepSort
CountDigits == algorithm = "sort" /\ (\E t \in Sorting!Tasks : Sorting!CountDigits(t)) /\ KeepSort
CopyItems == algorithm = "sort" /\ (\E t \in Sorting!Tasks : Sorting!CopyItems(t)) /\ KeepSort

SegmentStep ==
  algorithm = "partition" /\ (\E t \in Partition!Tasks : Partition!SegmentStep(t)) /\ KeepPartition
FindMisplaced == algorithm = "partition" /\ Partition!FindMisplaced /\ KeepPartition
SwapStep ==
  algorithm = "partition" /\ (\E t \in Partition!Tasks : Partition!SwapStep(t)) /\ KeepPartition
Return == algorithm = "partition" /\ Partition!Return /\ KeepPartition

(* Every run of an algorithm can only end here, by TLC's check for deadlock. *)
PassesEnded ==
  /\ CASE algorithm = "prefix sum" -> pass = 3
       [] OTHER -> progress = "done"
  /\ UNCHANGED passesVars

NextOfPasses ==
  \/ SplitTask \/ SplitGeometry \/ SplitDone \/ Quadify \/ StoreRefs \/ NextPass \/ FinishRefs
  \/ Serial \/ Begin \/ Reduce \/ RunTask
  \/ SequentialSort \/ StartSort \/ CountDigits \/ CopyItems
  \/ SegmentStep \/ FindMisplaced \/ SwapStep \/ Return
  \/ PassesEnded

SpecOfPasses == InitOfPasses /\ [][NextOfPasses]_passesVars

------------------------------------------------------------------------------
(* The hierarchy is built over each valid quad and primitive once, and a    *)
(* task stores primitives only in the slots that were counted for it.       *)
PrimRefsExact == algorithm = "primrefs" => PrimRefs!OwnSlots /\ PrimRefs!ResultExact

(* The parallel prefix sum is the sequential one.                           *)
PrefixSumExact == algorithm = "prefix sum" => PrefixSum!PrefixSumExact

(* The items to be split are in the order of their keys, all of them.       *)
RadixSorted == algorithm = "sort" => Sorting!RadixSorted

(* The partition puts every item on its side and bounds the sides exactly.  *)
Partitioned == algorithm = "partition" => Partition!Partitioned
==============================================================================
