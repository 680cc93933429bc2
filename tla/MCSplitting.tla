------------------------------ MODULE MCSplitting ------------------------------
(***************************************************************************)
(* Splitting primitives before the build, for TLC: createPrimRefArray_      *)
(* presplit (Presplit), and openInstance (OpenInstance) and splitPrimitive  *)
(* (SplittingGrid), which it calls for instances and for triangles. Presplit*)
(* takes the number of pieces that a call gives as an input, so that each   *)
(* is checked by itself: an initial state chooses one, and the others stay  *)
(* where they are, not called.                                              *)
(***************************************************************************)
EXTENDS OpenInstance

CONSTANTS NumPrims, Budgets, MaxPriority, MaxLog, NumDims, GridBits, Corners, Shares, Rounding

VARIABLES
  function, \* Which of the three runs.
  stage,    \* The phase of createPrimRefArray_presplit.
  budget, priority, data, index, center, pieces, newCenter, sum, first, primOffset,
  stored, prims, size,
  asked, todo, subPrims \* Those of splitPrimitive.

ofPresplit == <<stage, budget, priority, data, index, center, pieces, newCenter, sum, first,
                primOffset, stored, prims, size>>

(* Two pieces more than asked for, instead of up to NumChildren - 2.        *)
Presplitting == INSTANCE Presplit WITH Overshoot <- 2, phase <- stage

ofSplit == <<asked, todo, subPrims>>

Splitting == INSTANCE SplittingGrid

ASSUME SplittingAssumption == Splitting!SplittingGridAssumption

ASSUME PresplittingAssumption == Presplitting!PresplitAssumption

KeepOpening == UNCHANGED <<function, vars, ofSplit>>
KeepPresplit == UNCHANGED <<function, ofPresplit, ofSplit>>

OpeningUnused ==
  /\ targetSubPrims \in Targets /\ \A n \in Targets : targetSubPrims <= n
  /\ open = 1 /\ Init

PresplitUnused ==
  /\ stage = {} /\ budget = {} /\ priority = {} /\ data = {} /\ index = {} /\ center = {}
  /\ pieces = {} /\ newCenter = {} /\ sum = {} /\ first = {} /\ primOffset = {} /\ stored = {}
  /\ prims = {} /\ size = {}

SplitUnused == asked = {} /\ todo = {} /\ subPrims = {}

InitOfAny ==
  \/ function = "openInstance" /\ Init /\ PresplitUnused /\ SplitUnused
  \/ function = "presplit" /\ Presplitting!Init /\ OpeningUnused /\ SplitUnused
  \/ function = "splitPrimitive" /\ Splitting!Init /\ OpeningUnused /\ PresplitUnused

OpenCheck == function = "openInstance" /\ Check /\ KeepPresplit
OpenNothing == function = "openInstance" /\ NothingToOpen /\ KeepPresplit
OpenPop == function = "openInstance" /\ Pop /\ KeepPresplit
OpenPush == function = "openInstance" /\ Push /\ KeepPresplit
OpenPushed == function = "openInstance" /\ Pushed /\ KeepPresplit
OpenEmit == function = "openInstance" /\ Emit /\ KeepPresplit

Weigh == function = "presplit" /\ Presplitting!Weigh /\ KeepOpening
Sort == function = "presplit" /\ Presplitting!Sort /\ KeepOpening
Count == function = "presplit" /\ Presplitting!Count /\ KeepOpening
ShrinkOne == function = "presplit" /\ Presplitting!ShrinkOne /\ KeepOpening
Offsets == function = "presplit" /\ Presplitting!Offsets /\ KeepOpening
Store ==
  function = "presplit" /\ (\E j \in Presplitting!Prims : Presplitting!Store(j)) /\ KeepOpening
Finish == function = "presplit" /\ Presplitting!Finish /\ KeepOpening

KeepOthers == UNCHANGED <<function, vars, ofPresplit>>

EmitPiece == function = "splitPrimitive" /\ Splitting!Emit /\ KeepOthers
SplitPiece == function = "splitPrimitive" /\ Splitting!Split /\ KeepOthers

(* Each can only end by returning, by TLC's check for deadlock.           *)
Ended ==
  /\ \/ function = "openInstance" /\ phase = "done"
     \/ function = "presplit" /\ stage = "done"
     \/ function = "splitPrimitive" /\ todo = <<>>
  /\ UNCHANGED <<function, vars, ofPresplit, ofSplit>>

NextOfAny ==
  \/ OpenCheck \/ OpenNothing \/ OpenPop \/ OpenPush \/ OpenPushed \/ OpenEmit
  \/ Weigh \/ Sort \/ Count \/ ShrinkOne \/ Offsets \/ Store \/ Finish
  \/ EmitPiece \/ SplitPiece
  \/ Ended

SpecOfAny == InitOfAny /\ [][NextOfAny]_<<function, vars, ofPresplit, ofSplit>>

------------------------------------------------------------------------------
(* No piece is stored beyond the array of primitives.                       *)
WithinBudget == function = "presplit" => Presplitting!WithinBudget

(* The array ends with every primitive, or all its pieces, once.            *)
PresplitExact == function = "presplit" => Presplitting!ResultExact

(* Primitives that stay whole were worth no more than those split.          *)
WorthiestSplit == function = "presplit" => Presplitting!WorthiestSplit

(* Every plane of the grid cuts the primitive for which it is used.         *)
PlanesCut == function = "splitPrimitive" => Splitting!PlanesCut
==============================================================================
