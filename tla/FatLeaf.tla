------------------------------- MODULE FatLeaf -------------------------------
(***************************************************************************)
(* Fat leaves: createFatQuadLeaf, createProcedurals with its                *)
(* ProceduralLeafBuilder, and createInstances (rtbuild/                     *)
(* qbvh6_builder_sah.h), with ProceduralLeaf::add (rtbuild/leaf.h) and the  *)
(* encoding of children in the node (rtbuild/qnode.h).                      *)
(*                                                                          *)
(* A fat leaf is a node whose children lie one behind the other in blocks   *)
(* of 64 bytes. The node stores for every child how many blocks further the *)
(* next one begins, in two bits, and with which primitive of its block it   *)
(* begins, in four. Several procedural children may share a block; a child  *)
(* of quads may have several blocks, the last of which is marked. What the  *)
(* traversal finds when it follows the node has to be what was put there.   *)
(* Definitions named Mut... are faulty versions of the definition that      *)
(* follows them, with which the properties are known to fail.               *)
(***************************************************************************)
EXTENDS Integers, Sequences, SequencesExt, FiniteSets, FiniteSetsExt, Functions

CONSTANTS
  Geometries,     \* The geometries of procedurals.
  NumChildren,    \* QBVH6::InternalNode6::NUM_CHILDREN.
  MaxRun,         \* The most quads in a child.
  LeafCapacity,   \* ProceduralLeaf::N.
  InstanceBlocks  \* The sizes of InstanceLeaf and InstanceLeafV2, in blocks.

FatLeafAssumption ==
  /\ NumChildren \in Nat \ {0}
  /\ LeafCapacity \in NumChildren .. 15
  /\ MaxRun \in 1 .. 3
  /\ InstanceBlocks \subseteq 1 .. 3

VARIABLES
  kind,      \* "quad", "procedural" or "instance".
  runs,      \* runs[c]: how many primitives child c has.
  geoms,     \* geoms[p]: the geometry of primitive p.
  leafBlocks, \* The blocks of one instance leaf.
  numBlocks, \* The allocated blocks that are not yet used.
  blocks,    \* What is written so far, a sequence of blocks.
  ranges,    \* ranges[c]: where child c begins, relative to child c - 1.
  node,      \* The child data of the node, <<>> before it is written.
  underrun   \* A block was used when none was left.

vars == <<kind, runs, geoms, leafBlocks, numBlocks, blocks, ranges, node, underrun>>

(* A block: its primitives, whether each is the last of its child, and the  *)
(* geometry they share. An instance's further blocks have no primitives.    *)
Block(ps, ls, g) == [prims |-> ps, last |-> ls, geom |-> g]

(* createProcedurals allocates a block for every change of geometry.        *)
BlocksOf(gs) ==
  1 + Cardinality({p \in 2 .. Len(gs) : gs[p] # gs[p - 1]})

Total(s) == SumFunctionOnSet(s, DOMAIN s)

Init ==
  /\ \/ /\ kind = "quad"
        /\ runs \in SeqOf(1 .. MaxRun, NumChildren) \ {<<>>}
        /\ geoms = [p \in 1 .. Total(runs) |-> 0]
        /\ leafBlocks = 1
        /\ numBlocks = Total(runs)
     \/ /\ kind = "procedural"
        /\ geoms \in SeqOf(Geometries, NumChildren) \ {<<>>}
        /\ runs = [p \in DOMAIN geoms |-> 1]
        /\ leafBlocks = 1
        /\ numBlocks = BlocksOf(geoms)
     \/ /\ kind = "instance"
        /\ \E n \in 1 .. NumChildren :
             geoms = [p \in 1 .. n |-> 0] /\ runs = [p \in 1 .. n |-> 1]
        /\ leafBlocks \in InstanceBlocks
        /\ numBlocks = leafBlocks * Len(runs)
  /\ blocks = <<>> /\ ranges = <<>> /\ node = <<>>
  /\ underrun = FALSE

(* The child that is written next, and its primitives.                      *)
Current == Len(ranges) + 1

FirstPrim(c) == SumFunctionOnSet(runs, 1 .. c - 1) + 1

Use(n) ==
  /\ numBlocks' = numBlocks - n
  /\ underrun' = (underrun \/ numBlocks < n)

PrimRange(delta, prim) == [delta |-> delta, prim |-> prim]

LastFlag(p, c) == p = runs[c]

(* createQuads writes a block for each quad of the child and marks the last.*)
AddQuads ==
  /\ kind = "quad"
  /\ Current <= Len(runs)
  /\ blocks' = blocks \o
       [p \in 1 .. runs[Current] |->
          Block(<<FirstPrim(Current) + p - 1>>, <<LastFlag(p, Current)>>, 0)]
  /\ ranges' = Append(ranges, PrimRange(runs[Current], 0))
  /\ Use(runs[Current])
  /\ UNCHANGED <<kind, runs, geoms, leafBlocks, node>>

(* ProceduralLeaf::add refuses a full leaf and another geometry.            *)
Fits(g) ==
  /\ blocks # <<>>
  /\ Len(Last(blocks).prims) < LeafCapacity
  /\ Last(blocks).geom = g

(* addProcedural adds the primitive to the current leaf or begins another.  *)
(* The first leaf is created by getCurProcedural and takes the geometry of  *)
(* the first primitive.                                                     *)
AddProcedural ==
  /\ kind = "procedural"
  /\ Current <= Len(runs)
  /\ LET g == geoms[Current]
     IN IF Fits(g)
        THEN /\ blocks' = [blocks EXCEPT ![Len(blocks)].prims = Append(@, Current),
                                         ![Len(blocks)].last = Append(@, TRUE)]
             /\ ranges' = Append(ranges, PrimRange(0, Len(Last(blocks).prims)))
             /\ UNCHANGED <<numBlocks, underrun>>
        ELSE /\ blocks' = Append(blocks, Block(<<Current>>, <<TRUE>>, g))
             /\ ranges' = Append(ranges, PrimRange(IF blocks = <<>> THEN 0 ELSE 1, 0))
             /\ Use(1)
  /\ UNCHANGED <<kind, runs, geoms, leafBlocks, node>>

AddInstance ==
  /\ kind = "instance"
  /\ Current <= Len(runs)
  /\ blocks' = blocks \o
       [b \in 1 .. leafBlocks |-> IF b = 1 THEN Block(<<Current>>, <<TRUE>>, 0)
                                           ELSE Block(<<>>, <<>>, 0)]
  /\ ranges' = Append(ranges, PrimRange(leafBlocks, 0))
  /\ Use(leafBlocks)
  /\ UNCHANGED <<kind, runs, geoms, leafBlocks, node>>

MutDelta(c) == ranges[c].delta

(* The block increment of child c: for procedurals the delta of the next    *)
(* child, and 0, as initialized, behind the last.                           *)
Delta(c) ==
  IF kind # "procedural" THEN ranges[c].delta
  ELSE IF c < Len(ranges) THEN ranges[c + 1].delta
  ELSE 0

(* setChild for every child; the last possible child has no increment.      *)
SetChildren ==
  /\ node = <<>>
  /\ Current = Len(runs) + 1
  /\ node' = [c \in DOMAIN runs |->
                [blockIncr |-> IF c = NumChildren THEN 0 ELSE Delta(c) % 4,
                 startPrim |-> ranges[c].prim % 16]]
  /\ UNCHANGED <<kind, runs, geoms, leafBlocks, numBlocks, blocks, ranges, underrun>>

Next == AddQuads \/ AddProcedural \/ AddInstance \/ SetChildren

Spec == Init /\ [][Next]_vars

------------------------------------------------------------------------------
(* getChildOffset, in blocks.                                               *)
getChildOffset(c) ==
  SumFunctionOnSet([i \in DOMAIN node |-> node[i].blockIncr], 1 .. c - 1)

(* From a primitive the traversal goes on to the next one of its block, and *)
(* from the last of a block to the first of the next block.                 *)
Following(place) ==
  IF place.prim < Len(blocks[place.block].prims)
  THEN [block |-> place.block, prim |-> place.prim + 1]
  ELSE [block |-> place.block + 1, prim |-> 1]

(* Where it reads, from where the node says that child c begins, as many    *)
(* primitives as the child has.                                             *)
Read(c) ==
  LET at[j \in 1 .. runs[c]] ==
        IF j = 1 THEN [block |-> getChildOffset(c) + 1, prim |-> node[c].startPrim + 1]
        ELSE Following(at[j - 1])
  IN at

(* At that place is primitive p, with its geometry, and its mark says       *)
(* whether it is the last of its child.                                     *)
Holds(place, p, isLast) ==
  /\ place.block \in DOMAIN blocks
  /\ place.prim \in DOMAIN blocks[place.block].prims
  /\ blocks[place.block].prims[place.prim] = p
  /\ blocks[place.block].last[place.prim] = isLast
  /\ kind = "procedural" => blocks[place.block].geom = geoms[p]

(* Following the node to a child finds the primitives of that child, with   *)
(* their geometry, and ends there. The blocks that were allocated are       *)
(* enough, and when the node is written none is left (the asserts on        *)
(* numBlocks).                                                              *)
DecodesToChildren ==
  /\ ~ underrun
  /\ node # <<>> => numBlocks = 0
  /\ node # <<>> =>
    \A c \in DOMAIN runs, j \in 1 .. MaxRun :
      j <= runs[c] => Holds(Read(c)[j], FirstPrim(c) + j - 1, j = runs[c])
==============================================================================
