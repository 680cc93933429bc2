----------------------------- MODULE MCPrimitives -----------------------------
(***************************************************************************)
(* What a build does with its primitives before it makes a tree of them,    *)
(* for TLC: the parallel passes (MCPasses), and splitting primitives and     *)
(* opening instances (MCSplitting). An initial state chooses one of these,  *)
(* and the variables of the others are unused.                              *)
(***************************************************************************)
EXTENDS MCPasses, MCSplitting

KeepPasses == UNCHANGED passesVars
KeepSplitting == UNCHANGED <<function, vars, ofPresplit, ofSplit>>

PassesUnused ==
  /\ algorithm = "none" /\ NoSort
  /\ getSize = {} /\ valid = {} /\ i0 = {} /\ j0 = {} /\ cursor = {} /\ task = {}
  /\ quadification = {} /\ numPrimitives = {} /\ primRefs = {} /\ writers = {}
  /\ src = {} /\ counts = {} /\ dst = {} /\ total = {} /\ pass = {} /\ sums = {}
  /\ array = {} /\ lPtr = {} /\ rPtr = {} /\ reduced = {} /\ mid = {} /\ ranges = {}
  /\ swap = {} /\ touched = {} /\ progress = {} /\ threadCount = {} /\ N = {} /\ leftOnes = {}

SplittingUnused ==
  function = "none" /\ OpeningUnused /\ PresplitUnused /\ SplitUnused

InitOfPrimitives ==
  \/ InitOfPasses /\ SplittingUnused
  \/ InitOfAny /\ PassesUnused

NextOfPrimitives ==
  \/ SplitTask /\ KeepSplitting
  \/ SplitGeometry /\ KeepSplitting
  \/ SplitDone /\ KeepSplitting
  \/ Quadify /\ KeepSplitting
  \/ StoreRefs /\ KeepSplitting
  \/ NextPass /\ KeepSplitting
  \/ FinishRefs /\ KeepSplitting
  \/ Serial /\ KeepSplitting
  \/ Begin /\ KeepSplitting
  \/ Reduce /\ KeepSplitting
  \/ RunTask /\ KeepSplitting
  \/ SequentialSort /\ KeepSplitting
  \/ StartSort /\ KeepSplitting
  \/ CountDigits /\ KeepSplitting
  \/ CopyItems /\ KeepSplitting
  \/ SegmentStep /\ KeepSplitting
  \/ FindMisplaced /\ KeepSplitting
  \/ SwapStep /\ KeepSplitting
  \/ Return /\ KeepSplitting
  \/ algorithm # "none" /\ PassesEnded /\ KeepSplitting
  \/ OpenCheck /\ KeepPasses
  \/ OpenNothing /\ KeepPasses
  \/ OpenPop /\ KeepPasses
  \/ OpenPush /\ KeepPasses
  \/ OpenPushed /\ KeepPasses
  \/ OpenEmit /\ KeepPasses
  \/ Weigh /\ KeepPasses
  \/ Sort /\ KeepPasses
  \/ Count /\ KeepPasses
  \/ ShrinkOne /\ KeepPasses
  \/ Offsets /\ KeepPasses
  \/ Store /\ KeepPasses
  \/ Finish /\ KeepPasses
  \/ EmitPiece /\ KeepPasses
  \/ SplitPiece /\ KeepPasses
  \/ Ended /\ KeepPasses

SpecOfPrimitives ==
  InitOfPrimitives /\ [][NextOfPrimitives]_<<passesVars, function, vars, ofPresplit, ofSplit>>
==============================================================================
