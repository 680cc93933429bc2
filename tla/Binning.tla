------------------------------- MODULE Binning -------------------------------
(***************************************************************************)
(* Splitting the primitives of a node by binning: the loop of               *)
(* createInternalNode with SAHSplit (rtbuild/qbvh6_builder_sah.h), on       *)
(* BinMapping and BinInfoT (rtbuild/builders/heuristic_binning.h) and       *)
(* HeuristicArrayBinningSAH (heuristic_binning_array_aligned.h).            *)
(*                                                                          *)
(* The centres of the primitives are sorted into bins along each dimension. *)
(* The bins only hold bounds and counts, and the best plane between two     *)
(* bins is found from these. Then the primitives are partitioned, by asking *)
(* each for its bin once more. Large sets are binned by several tasks whose *)
(* bins are merged (algorithms/parallel_reduce.h); they are partitioned in  *)
(* parallel as well, which is the subject of ParallelPartition, so that the *)
(* order of the array is left open here. Coordinates are small integers,    *)
(* and nothing is rounded. Definitions named Mut... are faulty versions of  *)
(* the definition that follows them.                                        *)
(***************************************************************************)
EXTENDS Integers, Sequences, FiniteSets, FiniteSetsExt

CONSTANTS
  Scenes,        \* Sequences of boxes, the primitives of a node.
  Far,           \* Beyond every coordinate, the infinity of empty boxes.
  BINS,          \* The most bins, 32 in the code.
  blockSize,     \* sahBlockSize, the primitives that are paid for as one.
  Share,         \* The most primitives a task bins.
  leafThreshold, \* Sets that are not larger are not split.
  MaxChildren    \* BVH_WIDTH.

Dims == 0 .. 2

AABB == [lower : [Dims -> Int], upper : [Dims -> Int]]

BinningAssumption ==
  /\ Scenes \subseteq Seq(AABB) \ {<<>>}
  /\ \A s \in Scenes : \A i \in DOMAIN s, d \in Dims :
       -Far < 2 * s[i].lower[d] /\ s[i].lower[d] <= s[i].upper[d] /\ 2 * s[i].upper[d] < Far
  /\ Far \in Nat
  /\ BINS \in Nat \ {0, 1} /\ blockSize \in Nat \ {0} /\ Share \in Nat \ {0}
  /\ leafThreshold \in Nat \ {0} /\ MaxChildren \in Nat \ {0, 1}

VARIABLES
  prims,     \* The boxes of the primitives.
  sets,      \* children[].prims: indices with the bounds kept for them.
  chosen,    \* The child that is split, 0 when none is.
  unbinned,  \* The primitives of that child that no task has binned yet.
  binner,    \* The bins, merged so far.
  bestSplit  \* What best_block_size has found.

vars == <<prims, sets, chosen, unbinned, binner, bestSplit>>

------------------------------------------------------------------------------
(* Boxes.                                                                   *)
EmptyBox == [lower |-> [d \in Dims |-> Far], upper |-> [d \in Dims |-> -Far]]

extend(a, b) ==
  [lower |-> [d \in Dims |-> IF a.lower[d] <= b.lower[d] THEN a.lower[d] ELSE b.lower[d]],
   upper |-> [d \in Dims |-> IF a.upper[d] >= b.upper[d] THEN a.upper[d] ELSE b.upper[d]]]

size(b, d) == b.upper[d] - b.lower[d]

halfArea(b) == size(b, 0) * (size(b, 1) + size(b, 2)) + size(b, 1) * size(b, 2)

center2(b) == [d \in Dims |-> b.lower[d] + b.upper[d]]

(* PrimInfoRange, as extend_center2 collects it over a range.               *)
CenterBox(i) == [lower |-> center2(prims[i]), upper |-> center2(prims[i])]

Info(is) ==
  [ids |-> is,
   geom |-> FoldSet(LAMBDA i, b : extend(b, prims[i]), EmptyBox, is),
   cent |-> FoldSet(LAMBDA i, b : extend(b, CenterBox(i)), EmptyBox, is)]

------------------------------------------------------------------------------
(* BinMapping. The scale of a dimension without extent is 0.                *)
Num(set) == LET n == 4 + Cardinality(set.ids) \div 20 IN IF n < BINS THEN n ELSE BINS

Invalid(set, d) == size(set.cent, d) = 0

bin_unsafe(set, i, d) ==
  IF Invalid(set, d) THEN 0
  ELSE (99 * Num(set) * (center2(prims[i])[d] - set.cent.lower[d])) \div (100 * size(set.cent, d))

bin(set, i, d) ==
  LET b == bin_unsafe(set, i, d)
  IN IF b < 0 THEN 0 ELSE IF b > Num(set) - 1 THEN Num(set) - 1 ELSE b

(* BinInfoT: for every dimension a sequence of bins.                        *)
NoBin == [bounds |-> EmptyBox, count |-> 0]

Cleared == [d \in Dims |-> [b \in 0 .. BINS - 1 |-> NoBin]]

merge(a, b) == [bounds |-> extend(a.bounds, b.bounds), count |-> a.count + b.count]

(* The bins a task fills from its share of the primitives.                  *)
BinsOf(set, is) ==
  FoldSet(LAMBDA i, info :
            [d \in Dims |->
               [info[d] EXCEPT ![bin(set, i, d)] = merge(@, [bounds |-> prims[i], count |-> 1])]],
          Cleared, is)

MergeBins(set, x, y) ==
  [d \in Dims |->
     [b \in 0 .. BINS - 1 |-> IF b < Num(set) THEN merge(x[d][b], y[d][b]) ELSE x[d][b]]]

------------------------------------------------------------------------------
(* best_block_size. A side without primitives costs 0 * inf, which is not   *)
(* less than any number, and the plane is never taken.                      *)
blocks(n) == (n + blockSize - 1) \div blockSize

Cost(side) == halfArea(side.bounds) * blocks(side.count)

Side(d, bs) == FoldSet(LAMBDA b, s : merge(s, binner[d][b]), NoBin, bs)

Left(plane) == Side(plane.dim, 0 .. plane.pos - 1)

Right(set, plane) == Side(plane.dim, plane.pos .. Num(set) - 1)

NoSplit == [dim |-> -1, pos |-> 0]

Planes(set) ==
  {p \in [dim : Dims, pos : 1 .. Num(set) - 1] :
     ~ Invalid(set, p.dim) /\ Left(p).count > 0 /\ Right(set, p).count > 0}

Sah(set, plane) == Cost(Left(plane)) + Cost(Right(set, plane))

(* Only a lower cost replaces what was found: the first dimension, and in   *)
(* it the first plane, with the lowest cost.                                *)
NotAfter(p, q) == p.dim < q.dim \/ (p.dim = q.dim /\ p.pos <= q.pos)

best_block_size(set) ==
  IF Planes(set) = {} THEN NoSplit
  ELSE CHOOSE p \in Planes(set) : \A q \in Planes(set) :
         Sah(set, p) < Sah(set, q) \/ (Sah(set, p) = Sah(set, q) /\ NotAfter(p, q))

------------------------------------------------------------------------------
Idle == [dim |-> -2, pos |-> 0]

Init ==
  /\ prims \in Scenes
  /\ sets = <<Info(DOMAIN prims)>>
  /\ chosen = 0 /\ unbinned = {} /\ binner = Cleared /\ bestSplit = Idle

(* findChildWithLargestArea: the first of the largest, among those that are *)
(* large enough to be split; then find_block_size begins.                   *)
Splittable == {i \in DOMAIN sets : Cardinality(sets[i].ids) > leafThreshold}

Choose ==
  /\ chosen = 0 /\ Len(sets) < MaxChildren /\ Splittable # {}
  /\ chosen' = CHOOSE i \in Splittable : \A j \in Splittable :
                 LET a == halfArea(sets[i].geom)
                     b == halfArea(sets[j].geom)
                 IN a > b \/ (a = b /\ i <= j)
  /\ unbinned' = sets[chosen'].ids
  /\ binner' = Cleared
  /\ UNCHANGED <<prims, sets, bestSplit>>

(* A task has binned its share, and its bins are merged.                    *)
Bin ==
  /\ chosen # 0
  /\ \E is \in SUBSET unbinned :
       /\ is # {}
       /\ Cardinality(is) = Share \/ (is = unbinned /\ Cardinality(is) < Share)
       /\ unbinned' = unbinned \ is
       /\ binner' = MergeBins(sets[chosen], binner, BinsOf(sets[chosen], is))
  /\ UNCHANGED <<prims, sets, chosen, bestSplit>>

FindBest ==
  /\ chosen # 0 /\ unbinned = {} /\ bestSplit = Idle
  /\ bestSplit' = best_block_size(sets[chosen])
  /\ UNCHANGED <<prims, sets, chosen, unbinned, binner>>

MutIsLeft(set, plane, i) == bin_unsafe(set, i, plane.dim) <= plane.pos

(* The predicate of the partition.                                          *)
isLeft(set, plane, i) == bin_unsafe(set, i, plane.dim) < plane.pos

SplitInto(left, right) ==
  /\ sets' = Append([sets EXCEPT ![chosen] = Info(left)], Info(right))
  /\ chosen' = 0 /\ bestSplit' = Idle
  /\ UNCHANGED <<prims, unbinned, binner>>

split ==
  /\ bestSplit \notin {Idle, NoSplit}
  /\ LET set == sets[chosen]
         left == {i \in set.ids : isLeft(set, bestSplit, i)}
     IN SplitInto(left, set.ids \ left)

(* performFallbackSplit cuts the array in the middle; whether that is       *)
(* rounded up or down depends on where the range begins.                    *)
performFallbackSplit ==
  /\ bestSplit = NoSplit
  /\ LET ids == sets[chosen].ids
     IN \E left \in SUBSET ids :
          /\ 2 * Cardinality(left) - Cardinality(ids) \in {-1, 0, 1}
          /\ SplitInto(left, ids \ left)

Next == Choose \/ Bin \/ FindBest \/ split \/ performFallbackSplit

Spec == Init /\ [][Next]_vars

------------------------------------------------------------------------------
(* What the primitives say of a plane, without bins: those whose centre is  *)
(* before it, and the cost of both sides.                                   *)
LeftOf(set, p) == {i \in set.ids : isLeft(set, p, i)}

TrueCost(is) == halfArea(Info(is).geom) * blocks(Cardinality(is))

TrueSah(set, p) == TrueCost(LeftOf(set, p)) + TrueCost(set.ids \ LeftOf(set, p))

(* The plane chosen from merged bins is the best for the primitives: the    *)
(* partition gives the sides the bins promised, neither is empty, at their  *)
(* cost, and no other plane is cheaper. Only primitives with one common     *)
(* centre have no plane. The assert of BinMapping::bin holds, so that the   *)
(* clamping of bin and its lack in bin_unsafe agree. No primitive is lost   *)
(* or doubled and the children are not empty.                               *)
SplitSound ==
  /\ bestSplit \notin {Idle, NoSplit} =>
       LET set == sets[chosen]
           left == LeftOf(set, bestSplit)
       IN /\ left # {} /\ left # set.ids
          /\ Left(bestSplit) = [bounds |-> Info(left).geom, count |-> Cardinality(left)]
          /\ Right(set, bestSplit).bounds = Info(set.ids \ left).geom
          /\ \A d \in Dims, pos \in 1 .. Num(set) - 1 :
               LET p == [dim |-> d, pos |-> pos]
               IN LeftOf(set, p) \notin {{}, set.ids} => TrueSah(set, bestSplit) <= TrueSah(set, p)
  /\ bestSplit = NoSplit =>
       \A i, j \in sets[chosen].ids : center2(prims[i]) = center2(prims[j])
  /\ chosen # 0 =>
       \A i \in sets[chosen].ids, d \in Dims :
         bin(sets[chosen], i, d) = bin_unsafe(sets[chosen], i, d)
  /\ \A i \in DOMAIN sets :
       /\ sets[i] = Info(sets[i].ids) /\ sets[i].ids # {}
       /\ \A j \in DOMAIN sets : i # j => sets[i].ids \cap sets[j].ids = {}
  /\ UNION {sets[i].ids : i \in DOMAIN sets} = DOMAIN prims
==============================================================================
