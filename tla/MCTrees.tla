------------------------------- MODULE MCTrees -------------------------------
(***************************************************************************)
(* Trees and their sizes for TLC: the shape of a tree (TreeShape), its       *)
(* bytes (TreeBytes), the estimates with the client's retries (BuildRetry), *)
(* and the splits of a node (Binning). An initial state chooses one of      *)
(* them, and the variables of the others are unused.                        *)
(*                                                                          *)
(* Shapes have three types and nodes of three children, so that few         *)
(* primitives give every case; a leaf of six triangles can be split so      *)
(* unevenly that a child gets four, as one of nine can with the six         *)
(* children of the code. Bytes are those of the code.                       *)
(***************************************************************************)
EXTENDS TreeBytes, Sequences, FiniteSets, Bags, TLC

CONSTANTS
  tri, proc, inst,
  Types, UNKNOWN, Mixes, Width, MaxRun, FanIn, leafSize, typeSplitSize, maxDepth,
  MinLargeLeafLevels, \* TreeShape.
  FewPrims,     \* Numbers of primitives of one type for TreeBytes, the rest is filtered.
  Counts,       \* Numbers of primitives of a geometry, in scenes of up to two.
  FewCounts,    \* Numbers of primitives of a geometry, in scenes of three.
  GeometryLists, Misalignments, \* BuildRetry.
  BoxLists, Far, BINS, blockSize, Share, leafThreshold, MaxChildren, \* Binning.
  MaxBoxes      \* The most primitives of a node in Binning.

FewMixes ==
  {n \in [Types -> 0 .. 22] : n[tri] <= 22 /\ n[proc] <= 3 /\ n[inst] <= 2}
MCLeafSize == (tri :> 6) @@ (proc :> 2) @@ (inst :> 2) @@ (UNKNOWN :> 2)

VARIABLES
  subject,                                                    \* What is checked.
  rec, depth, level, fn, stage, children, large,              \* TreeShape.
  scene, split, misaligned, props, bytes, bytesOut, tries, result, \* BuildRetry.
  prims, sets, chosen, unbinned, binner, bestSplit            \* Binning.

ofShape == <<rec, depth, level, fn, stage, children, large>>
ofRetry == <<scene, split, misaligned, props, bytes, bytesOut, tries, result>>
ofBinning == <<prims, sets, chosen, unbinned, binner, bestSplit>>

(* Scenes of one type, and of one or two primitives of several types.       *)
FewScenes ==
  {[t \in GeometryTypes |-> IF t = u THEN n ELSE 0] : u \in GeometryTypes, n \in FewPrims}
  \union [GeometryTypes -> 0 .. 1]

Tree == INSTANCE TreeShape

Geometries(counts) == [type : GeometryTypes, prims : counts]

FewGeometries ==
  UNION {[1 .. n -> Geometries(Counts)] : n \in 0 .. 2} \union [1 .. 3 -> Geometries(FewCounts)]

Retry == INSTANCE BuildRetry WITH Scenes <- GeometryLists

(* Small and large boxes, that coincide in their centres, in some of their  *)
(* coordinates, or overlap; and nodes of up to MaxBoxes of them.            *)
Box(x, y, z, w, h, d) ==
  [lower |-> (0 :> x) @@ (1 :> y) @@ (2 :> z),
   upper |-> (0 :> x + w) @@ (1 :> y + h) @@ (2 :> z + d)]

Boxes ==
  <<Box(2, 2, 0, 0, 0, 0), Box(1, 1, 0, 2, 2, 0), Box(0, 0, 0, 4, 4, 0), Box(7, 2, 0, 1, 0, 0),
    Box(3, 1, 3, 3, 2, 0), Box(2, 5, 1, 0, 3, 2), Box(9, 9, 5, 1, 1, 1)>>

FewBoxes ==
  {[i \in DOMAIN s |-> Boxes[s[i]]] : s \in
     {t \in UNION {[1 .. n -> DOMAIN Boxes] : n \in 1 .. MaxBoxes} :
        \A i, j \in DOMAIN t : i < j => t[i] <= t[j]}}

Bins == INSTANCE Binning WITH Scenes <- BoxLists

ASSUME SizesAssumption ==
  TreeBytesAssumption /\ Tree!TreeShapeAssumption /\ Retry!BuildRetryAssumption /\ Bins!BinningAssumption

------------------------------------------------------------------------------
(* Nothing is to be built.                                                  *)
UnusedBytes == Init /\ stats = NoStats /\ type = "TRIANGLE"

UnusedRetry ==
  /\ scene = {} /\ split = {} /\ misaligned = {} /\ props = {} /\ bytes = {}
  /\ bytesOut = {} /\ tries = {} /\ result = {}

UnusedBinning ==
  /\ prims = {} /\ sets = {} /\ chosen = {} /\ unbinned = {} /\ binner = {} /\ bestSplit = {}

UnusedShape ==
  /\ rec = {} /\ depth = {} /\ level = {} /\ fn = {} /\ stage = {} /\ children = {} /\ large = {}

InitOfAny ==
  \/ subject = "shape" /\ Tree!Init /\ UnusedBytes /\ UnusedRetry /\ UnusedBinning
  \/ subject = "bytes" /\ Init /\ UnusedShape /\ UnusedRetry /\ UnusedBinning
  \/ subject = "retry" /\ Retry!Init /\ UnusedShape /\ UnusedBytes /\ UnusedBinning
  \/ subject = "binning" /\ Bins!Init /\ UnusedShape /\ UnusedBytes /\ UnusedRetry

InShape == subject = "shape" /\ UNCHANGED <<subject, vars, ofRetry, ofBinning>>
InBytes == subject = "bytes" /\ UNCHANGED <<subject, ofShape, ofRetry, ofBinning>>
InRetry == subject = "retry" /\ UNCHANGED <<subject, vars, ofShape, ofBinning>>
InBinning == subject = "binning" /\ UNCHANGED <<subject, vars, ofShape, ofRetry>>

Shape ==
  /\ InShape
  /\ \/ Tree!EnterInternal \/ Tree!SplitTypes \/ Tree!SplitSAH \/ Tree!Recurse
     \/ Tree!EnterLarge \/ Tree!SplitLarge \/ Tree!EnterFat \/ Tree!SplitFat

Allocation == InBytes /\ Next

GetBuildProperties == InRetry /\ Retry!GetBuildProperties
Build == InRetry /\ Retry!Build

Choose == InBinning /\ Bins!Choose
Bin == InBinning /\ Bins!Bin
FindBest == InBinning /\ Bins!FindBest
SplitAtPlane == InBinning /\ Bins!split
SplitInMiddle == InBinning /\ Bins!performFallbackSplit

(* Every tree ends in a leaf or an exception, or when nothing is pending,   *)
(* and every client with success, by TLC's check for deadlock.              *)
Ended ==
  /\ \/ subject = "shape" /\ fn \in {"leaf", "thrown"}
     \/ subject = "bytes" /\ records = 0 /\ pending = 0
     \/ subject = "retry" /\ result = "success"
     \/ subject = "binning" /\ chosen = 0 /\ (Len(sets) = MaxChildren \/ Bins!Splittable = {})
  /\ UNCHANGED <<subject, vars, ofShape, ofRetry, ofBinning>>

NextOfAny ==
  Shape \/ Allocation \/ GetBuildProperties \/ Build
  \/ Choose \/ Bin \/ FindBest \/ SplitAtPlane \/ SplitInMiddle \/ Ended

SpecOfAny == InitOfAny /\ [][NextOfAny]_<<subject, vars, ofShape, ofRetry, ofBinning>>

------------------------------------------------------------------------------
(* Leaves are as the format wants them.                                     *)
LeafSound == subject = "shape" => Tree!LeafSound

(* No node lies too deep, and only large records are refused.               *)
DepthSound == subject = "shape" => Tree!DepthSound

(* A client that follows the answers of failed builds gets through, and the *)
(* scratch size is enough, however the buffer is aligned.                   *)
RetriesSuffice == subject = "retry" => Retry!RetriesSuffice /\ Retry!ScratchSuffices

(* The best of the planes is chosen, and both sides are what it promised.   *)
SplitSound == subject = "binning" => Bins!SplitSound
==============================================================================
