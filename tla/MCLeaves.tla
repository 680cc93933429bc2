------------------------------- MODULE MCLeaves -------------------------------
(***************************************************************************)
(* From triangles to the leaves of the hierarchy, for TLC: pairing them     *)
(* (Quadifier), the layout of a quad (TrianglePair), the fat leaves that    *)
(* hold them (FatLeaf) and the boxes of children in a node (QuantisedNode). *)
(* They hand over to one another without sharing state: an initial state    *)
(* chooses one of them with an input of its own, and the variables of the   *)
(* others are unused.                                                       *)
(***************************************************************************)
EXTENDS Integers, FiniteSetsExt

CONSTANTS
  WindowSize, MaxDistance, NumTriangles, MaxEdges,
  Vertices, DeltaBits, PairDistances,
  Geometries, NumChildren, MaxRun, LeafCapacity, InstanceBlocks,
  Mantissa, FewMantissas, Grid, MinExp, Floats, Others

(* Numbers of two exponents and both signs, and zero.                       *)
FewFloats ==
  {s * m * 2^e * 2^(2 * Mantissa + 2) : s \in {-1, 0, 1}, m \in FewMantissas, e \in {0, 1}}

(* Nothing, or the largest of those.                                        *)
FewOthers == {0, Max(FewFloats)}

VARIABLES
  step, \* Which of the four runs.
  sharesEdge, primID, array, begin, end, quads, numTrianglePairs,
  corners, second, stage, leaf,
  kind, runs, geoms, leafBlocks, numBlocks, blocks, ranges, node, underrun,
  box, child, far, lower, exp, qbounds, bounded

ofPairing == <<sharesEdge, primID, array, begin, end, quads, numTrianglePairs>>
ofQuad == <<corners, second, stage, leaf>>
ofFatLeaf == <<kind, runs, geoms, leafBlocks, numBlocks, blocks, ranges, node, underrun>>
ofNode == <<box, child, far, lower, exp, qbounds, bounded>>

leavesVars == <<step, ofPairing, ofQuad, ofFatLeaf, ofNode>>

Pairing == INSTANCE Quadifier
Quad == INSTANCE TrianglePair
Leaf == INSTANCE FatLeaf
Node == INSTANCE QuantisedNode WITH stage <- bounded

ASSUME LeavesAssumption ==
  /\ Pairing!WindowAssumption /\ Pairing!NumTrianglesAssumption
  /\ Quad!TrianglePairAssumption
  /\ Leaf!FatLeafAssumption /\ Node!QuantisedNodeAssumption

NoPairing ==
  /\ sharesEdge = {} /\ primID = {} /\ array = {} /\ begin = {} /\ end = {} /\ quads = {}
  /\ numTrianglePairs = {}

NoQuad == corners = {} /\ second = {} /\ stage = {} /\ leaf = {}

NoFatLeaf ==
  /\ kind = {} /\ runs = {} /\ geoms = {} /\ leafBlocks = {} /\ numBlocks = {} /\ blocks = {}
  /\ ranges = {} /\ node = {} /\ underrun = {}

NoNode ==
  /\ box = {} /\ child = {} /\ far = {} /\ lower = {} /\ exp = {} /\ qbounds = {} /\ bounded = {}

InitOfLeaves ==
  \/ step = "pairing" /\ Pairing!Init /\ NoQuad /\ NoFatLeaf /\ NoNode
  \/ step = "quad" /\ Quad!Init /\ NoPairing /\ NoFatLeaf /\ NoNode
  \/ step = "fat leaf" /\ Leaf!Init /\ NoPairing /\ NoQuad /\ NoNode
  \/ step = "node" /\ Node!Init /\ NoPairing /\ NoQuad /\ NoFatLeaf

KeepButPairing == UNCHANGED <<step, ofQuad, ofFatLeaf, ofNode>>
KeepButQuad == UNCHANGED <<step, ofPairing, ofFatLeaf, ofNode>>
KeepButFatLeaf == UNCHANGED <<step, ofPairing, ofQuad, ofNode>>
KeepButNode == UNCHANGED <<step, ofPairing, ofQuad, ofFatLeaf>>

Push == step = "pairing" /\ Pairing!Push /\ KeepButPairing
MergePair == step = "pairing" /\ Pairing!MergePair /\ KeepButPairing
MergeSingle == step = "pairing" /\ Pairing!MergeSingle /\ KeepButPairing

Reject == step = "quad" /\ Quad!Reject /\ KeepButQuad
Pair == step = "quad" /\ Quad!Pair /\ KeepButQuad
CreateTriangles == step = "quad" /\ Quad!createTriangles /\ KeepButQuad
CreateQuad == step = "quad" /\ Quad!createQuad /\ KeepButQuad

AddQuads == step = "fat leaf" /\ Leaf!AddQuads /\ KeepButFatLeaf
AddProcedural == step = "fat leaf" /\ Leaf!AddProcedural /\ KeepButFatLeaf
AddInstance == step = "fat leaf" /\ Leaf!AddInstance /\ KeepButFatLeaf
SetChildren == step = "fat leaf" /\ Leaf!SetChildren /\ KeepButFatLeaf

SetNodeBounds == step = "node" /\ Node!setNodeBounds /\ KeepButNode
SetChildBounds == step = "node" /\ Node!setChildBounds /\ KeepButNode

(* Each can only end here, by TLC's check for deadlock.                     *)
LeafEnded ==
  /\ CASE step = "pairing" -> Pairing!Done
       [] step = "quad" -> stage = "leaf"
       [] step = "fat leaf" -> node # <<>>
       [] OTHER -> bounded = "child"
  /\ UNCHANGED leavesVars

NextOfLeaves ==
  \/ Push \/ MergePair \/ MergeSingle
  \/ Reject \/ Pair \/ CreateTriangles \/ CreateQuad
  \/ AddQuads \/ AddProcedural \/ AddInstance \/ SetChildren
  \/ SetNodeBounds \/ SetChildBounds
  \/ LeafEnded

SpecOfLeaves == InitOfLeaves /\ [][NextOfLeaves]_leavesVars

------------------------------------------------------------------------------
(* The window of triangles loses none when it erases from its middle, and   *)
(* the streaming search finds the pairs of a quadratic one.                 *)
PairsGreedy == step = "pairing" => Pairing!PairsGreedy

(* The triangles of a leaf are read back corner by corner.                  *)
QuadDecodes == step = "quad" => Quad!QuadDecodes

(* The node of a fat leaf leads to the primitives of each child.            *)
DecodesToChildren == step = "fat leaf" => Leaf!DecodesToChildren

(* The box of a child that is read from a node holds the child.             *)
BoundsConservative == step = "node" => Node!BoundsConservative
==============================================================================
