------------------------------ MODULE TreeShape ------------------------------
(***************************************************************************)
(* The shape of the BVH: createInternalNode, createLargeLeaf and            *)
(* createFatLeaf of BuilderT (rtbuild/qbvh6_builder_sah.h) with the splits  *)
(* they choose from.                                                        *)
(*                                                                          *)
(* A build record is a range of primitives, here the number of them of each *)
(* type, and the type they share, or UNKNOWN when nobody has looked. The    *)
(* SAH may cut a record into any two parts that are not empty. The children *)
(* of a node are built independently of each other, so that a behaviour     *)
(* follows one child of every node, from the root to a fat leaf or to the   *)
(* exception "BVH too deep". Memory, and how the children run in parallel,  *)
(* are the subject of TreeBuild. Definitions named Mut... are faulty        *)
(* versions of the definition that follows them, with which the properties  *)
(* are known to fail.                                                       *)
(***************************************************************************)
EXTENDS Integers, FiniteSets, FiniteSetsExt, Bags

CONSTANTS
  Types,         \* The types of primitives.
  UNKNOWN,       \* The type of a record that may mix types.
  Mixes,         \* Numbers of primitives of each type, for the root.
  Width,         \* BVH_WIDTH, the children of a node.
  MaxRun,        \* The most primitives in a child of a fat leaf.
  FanIn,         \* By what createLargeLeaf divides the size at every level.
  leafSize,      \* cfg.leafSize, the most primitives in a fat leaf.
  typeSplitSize, \* cfg.typeSplitSize, below which types are split.
  maxDepth,      \* cfg.maxDepth, the largest depth of a leaf.
  MinLargeLeafLevels \* MIN_LARGE_LEAF_LEVELS, kept for large leaves.

TreeShapeAssumption ==
  /\ IsFiniteSet(Types) /\ UNKNOWN \notin Types
  /\ Mixes \subseteq [Types -> Nat]
  /\ Width \in Nat \ {0, 1} /\ Cardinality(Types) <= Width
  /\ leafSize \in [Types \union {UNKNOWN} -> Nat \ {0}]
  /\ \A t \in Types : leafSize[UNKNOWN] <= leafSize[t]
  /\ MaxRun \in Nat /\ 3 <= MaxRun
  /\ \A t \in Types : leafSize[t] <= 2 * Width + 1
  /\ FanIn \in {2, 4} /\ FanIn <= Width
  /\ maxDepth \in Nat /\ MinLargeLeafLevels \in 1 .. maxDepth - 1

VARIABLES
  rec,      \* The build record at hand: [n, type].
  depth,    \* rec.depth.
  level,    \* On which level of the tree the record's node is.
  fn,       \* "internal", "large", "fat", or "leaf" and "thrown" at the end.
  stage,    \* "enter", "types", "split", "recurse", and "redo" in createFatLeaf.
  children, \* The bag of records into which rec is split.
  large     \* [size, depth] of the record that first became a large leaf.

vars == <<rec, depth, level, fn, stage, children, large>>

SizeOf(r) == SumFunctionOnSet(r.n, Types)

TypesIn(r) == {t \in Types : r.n[t] > 0}

Record(n, type) == [n |-> n, type |-> type]

equalType(r) == r.type # UNKNOWN

NotLarge == [size |-> 0, depth |-> 0]

Init ==
  /\ \E n \in Mixes : rec = Record(n, UNKNOWN)
  /\ SizeOf(rec) > 0
  /\ depth = 1 /\ level = 1
  /\ fn = "internal" /\ stage = "enter"
  /\ children = EmptyBag
  /\ large = NotLarge

------------------------------------------------------------------------------
(* The two halves of a split.                                               *)

Without(r, n) == [t \in Types |-> r.n[t] - n[t]]

(* What the binned SAH, or the fallback that replaces it, may cut off.      *)
SAHParts(r) ==
  {n \in [Types -> 0 .. SizeOf(r)] :
     /\ \A t \in Types : n[t] <= r.n[t]
     /\ \E t \in Types : n[t] > 0
     /\ \E t \in Types : n[t] < r.n[t]}

MutFallbackParts(r) ==
  {n \in SAHParts(r) : SizeOf(Record(n, r.type)) = 1}

(* performFallbackSplit cuts in the middle, and rounds up or down as the    *)
(* range begins at an odd or an even place.                                 *)
FallbackParts(r) ==
  {n \in SAHParts(r) :
     2 * SizeOf(Record(n, r.type)) - SizeOf(r) \in {-1, 0, 1}}

Replace(r, a, b) ==
  (children (-) SetToBag({r})) (+) SetToBag({a}) (+) SetToBag({b})

SplitChild(r, n) ==
  children' = Replace(r, Record(n, r.type), Record(Without(r, n), r.type))

numChildren == SumFunction(children)

Full == numChildren >= Width

(* The candidates for a split: more primitives than the threshold.          *)
Above(threshold) == {r \in BagToSet(children) : SizeOf(r) > threshold}

(* findChildWithLargestArea: any of them, as areas are not modelled.        *)
LargestArea(threshold) == Above(threshold)

(* findChildWithMostPrimitives.                                             *)
MostPrimitives(threshold) ==
  {r \in Above(threshold) : \A s \in Above(threshold) : SizeOf(s) <= SizeOf(r)}

------------------------------------------------------------------------------
(* createInternalNode.                                                      *)

Become(f, s) == fn' = f /\ stage' = s

createLeaf ==
  \/ SizeOf(rec) <= leafSize[rec.type]
  \/ depth + MinLargeLeafLevels >= maxDepth

(* Whether the types are worth looking at.                                  *)
AttemptTypeSplit ==
  ~ equalType(rec) /\ (createLeaf \/ SizeOf(rec) <= typeSplitSize)

Labelled ==
  IF AttemptTypeSplit /\ Cardinality(TypesIn(rec)) = 1
  THEN [rec EXCEPT !.type = CHOOSE t \in TypesIn(rec) : TRUE]
  ELSE rec

performTypeSplit == AttemptTypeSplit /\ ~ equalType(Labelled)

EnterInternal ==
  /\ fn = "internal" /\ stage = "enter"
  /\ rec' = Labelled
  /\ IF ~ performTypeSplit /\ createLeaf
     THEN /\ Become("large", "enter")
          /\ large' = [size |-> SizeOf(rec), depth |-> depth]
          /\ UNCHANGED children
     ELSE /\ children' = SetToBag({rec'})
          /\ Become("internal", IF performTypeSplit THEN "types" ELSE "split")
          /\ UNCHANGED large
  /\ UNCHANGED <<depth, level>>

TypeLabel(r) ==
  IF Cardinality(TypesIn(r)) = 1 THEN CHOOSE t \in TypesIn(r) : TRUE ELSE UNKNOWN

(* TypeSplit takes the type of the record's first primitive to one side and *)
(* looks whether the other side has a type of its own.                      *)
SplitTypes ==
  /\ fn = "internal" /\ stage = "types"
  /\ IF Full \/ \A r \in BagToSet(children) : equalType(r)
     THEN stage' = "split" /\ UNCHANGED children
     ELSE /\ \E r \in {s \in BagToSet(children) : ~ equalType(s)} :
               \E t \in TypesIn(r) :
                 LET left == [u \in Types |-> IF u = t THEN r.n[t] ELSE 0]
                     right == Record(Without(r, left), UNKNOWN)
                 IN children' = Replace(r, Record(left, t),
                                        [right EXCEPT !.type = TypeLabel(right)])
          /\ UNCHANGED stage
  /\ UNCHANGED <<rec, depth, level, fn, large>>

SplitSAH ==
  /\ fn = "internal" /\ stage = "split"
  /\ IF Full \/ LargestArea(leafSize[rec.type]) = {}
     THEN stage' = "recurse" /\ UNCHANGED children
     ELSE /\ \E r \in LargestArea(leafSize[rec.type]) : \E n \in SAHParts(r) :
               SplitChild(r, n)
          /\ UNCHANGED stage
  /\ UNCHANGED <<rec, depth, level, fn, large>>

(* One of the children. A child that is the record itself keeps its depth.  *)
Recurse ==
  /\ fn \in {"internal", "large"} /\ stage = "recurse"
  /\ rec' \in BagToSet(children)
  /\ depth' = IF rec' = rec THEN depth ELSE depth + 1
  /\ level' = level + 1
  /\ children' = EmptyBag
  /\ stage' = "enter"
  /\ UNCHANGED <<fn, large>>

------------------------------------------------------------------------------
(* createLargeLeaf.                                                         *)

EnterLarge ==
  /\ fn = "large" /\ stage = "enter"
  /\ CASE depth > maxDepth -> Become("thrown", "enter") /\ UNCHANGED children
       [] depth <= maxDepth /\ SizeOf(rec) <= leafSize[rec.type] ->
            Become("fat", "enter") /\ UNCHANGED children
       [] OTHER -> Become("large", "split") /\ children' = SetToBag({rec})
  /\ UNCHANGED <<rec, depth, level, large>>

SplitLarge ==
  /\ fn = "large" /\ stage = "split"
  /\ IF Full \/ MostPrimitives(leafSize[rec.type]) = {}
     THEN stage' = "recurse" /\ UNCHANGED children
     ELSE /\ \E r \in MostPrimitives(leafSize[rec.type]) :
               \E n \in FallbackParts(r) : SplitChild(r, n)
          /\ UNCHANGED stage
  /\ UNCHANGED <<rec, depth, level, fn, large>>

------------------------------------------------------------------------------
(* createFatLeaf, whose check of the depth repeats that of its caller. The  *)
(* leaves it then creates are the subject of FatLeaf.                       *)

One(t) == Record([u \in Types |-> IF u = t THEN 1 ELSE 0], rec.type)

EnterFat ==
  /\ fn = "fat" /\ stage = "enter"
  /\ IF SizeOf(rec) <= Width
     THEN /\ Become("leaf", "enter")
          /\ children' = [r \in {One(t) : t \in TypesIn(rec)} |->
                            rec.n[CHOOSE t \in TypesIn(rec) : r = One(t)]]
     ELSE Become("fat", "split") /\ children' = SetToBag({rec})
  /\ UNCHANGED <<rec, depth, level, large>>

MutTooUneven == FALSE

TooUneven == \E r \in MostPrimitives(1) : SizeOf(r) > 3

(* Splits by the SAH, and, when that leaves too many primitives to a child, *)
(* all over again in the middle.                                            *)
SplitFat ==
  /\ fn = "fat" /\ stage \in {"split", "redo"}
  /\ IF Full \/ MostPrimitives(1) = {}
     THEN IF stage = "split" /\ TooUneven
          THEN Become("fat", "redo") /\ children' = SetToBag({rec})
          ELSE Become("leaf", "enter") /\ UNCHANGED children
     ELSE /\ \E r \in MostPrimitives(1) :
               \E n \in IF stage = "split" THEN SAHParts(r) ELSE FallbackParts(r) :
                 SplitChild(r, n)
          /\ UNCHANGED <<fn, stage>>
  /\ UNCHANGED <<rec, depth, level, large>>

Next ==
  \/ EnterInternal \/ SplitTypes \/ SplitSAH \/ Recurse
  \/ EnterLarge \/ SplitLarge
  \/ EnterFat \/ SplitFat

Spec == Init /\ [][Next]_vars

------------------------------------------------------------------------------
(* A fat leaf has primitives of one type, as many as a leaf of that type    *)
(* may have, in at most Width children, each with few enough for the two    *)
(* bits of a block increment (the asserts of createFatLeaf, PrimRange and   *)
(* setChildType, and of createProcedurals and createInstances).             *)
LeafSound ==
  fn = "leaf" =>
    /\ TypesIn(rec) = {rec.type}
    /\ SizeOf(rec) \in 1 .. leafSize[rec.type]
    /\ numChildren <= Width
    /\ \A r \in BagToSet(children) : SizeOf(r) \in 1 .. MaxRun

Power[k \in Nat] == IF k = 0 THEN 1 ELSE FanIn * Power[k - 1]

(* No node of the tree lies below level maxDepth, "maximum depth of BVH to  *)
(* build", although the depth that is checked may lag behind the level: a   *)
(* record that only now turns out to be of one type, and is too large for a *)
(* leaf of mixed types but not for one of its type, gets a node with a      *)
(* single child of the same depth. And "BVH too deep" is thrown only for    *)
(* records that are larger than the levels kept for large leaves can        *)
(* divide, however bad the SAH splits are.                                  *)
DepthSound ==
  /\ \/ level <= maxDepth
     \/ fn = "thrown" \/ (fn \in {"internal", "large"} /\ stage = "enter")
  /\ fn = "thrown" =>
       /\ large.size > leafSize[rec.type] * Power[maxDepth - large.depth]
       /\ maxDepth - large.depth >= MinLargeLeafLevels - 1
==============================================================================
