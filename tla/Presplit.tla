------------------------------- MODULE Presplit -------------------------------
(***************************************************************************)
(* Pre-splitting: createPrimRefArray_presplit (rtbuild/builders/            *)
(* primrefgen_presplit.h) spends the slots of the primitive array that      *)
(* pairing and filtering left over on splitting the primitives with the     *)
(* largest priorities.                                                      *)
(*                                                                          *)
(* The function weighs the primitives, sorts those worth splitting by the   *)
(* number of pieces they may have, splits each once only to count its       *)
(* pieces, drops the cheapest when there are more pieces than slots,        *)
(* computes by a prefix sum where the pieces go, and splits again, in       *)
(* parallel, to store them. A primitive's first piece replaces it, the      *)
(* others go behind the array.                                              *)
(*                                                                          *)
(* Priorities are small numbers. The splitter (splitPrimitive or            *)
(* openInstance) is left open but for the number of pieces, which it must   *)
(* give both times. Items are addressed as in the code: item j of           *)
(* preSplitItem0 holds primitive index[j]. Definitions named Mut... are     *)
(* faulty versions of the definition that follows them, with which the      *)
(* properties are known to fail.                                            *)
(***************************************************************************)
EXTENDS Integers, FiniteSets, FiniteSetsExt, Functions

CONSTANTS
  NumPrims,    \* pinfo.size(), the primitives before splitting.
  Budgets,     \* numSplitPrimitivesBudget, how many more slots prims has.
  MaxPriority, \* The largest priority.
  MaxLog,      \* MAX_PRESPLITS_PER_PRIMITIVE_LOG.
  Overshoot    \* By how many pieces openInstance exceeds what it is asked for.

PresplitAssumption ==
  /\ NumPrims \in Nat \ {0}
  /\ Budgets \subseteq Nat
  /\ MaxPriority \in Nat
  /\ MaxLog \in Nat \ {0}
  /\ Overshoot \in Nat

Prims == 0 .. NumPrims - 1

(* 1 << n.                                                                  *)
Pow2[n \in Nat] == IF n = 0 THEN 1 ELSE 2 * Pow2[n - 1]

MAX_PRESPLITS_PER_PRIMITIVE == Pow2[MaxLog]

VARIABLES
  budget,     \* numSplitPrimitivesBudget.
  priority,   \* priority[p]: the priority of primitive p.
  phase,      \* "weigh", "sort", "count", "shrink", "offsets", "store", "done".
  data,       \* data[p]: splitprims of primitive p, 1 when it stays whole.
  index,      \* index[j]: the primitive of item j.
  center,     \* The first item to split.
  pieces,     \* pieces[p]: what the splitter makes of p.
  newCenter, sum, \* The loop that shrinks the range.
  first,      \* The value of center before, to which the offsets refer.
  primOffset, \* primOffset[j]: where item j's further pieces go.
  stored,     \* The items whose pieces are stored.
  prims,      \* The primitive array.
  size        \* The number of primitives in the result.

vars == <<budget, priority, phase, data, index, center, pieces, newCenter, sum,
          first, primOffset, stored, prims, size>>

Slots == 0 .. NumPrims + budget - 1

Unset == [prim |-> -1, piece |-> -1]
Whole(p) == [prim |-> p, piece |-> 0]
Piece(p, i) == [prim |-> p, piece |-> i]

Init ==
  /\ budget \in Budgets
  /\ priority \in [Prims -> 0 .. MaxPriority]
  /\ phase = "weigh"
  /\ data = [p \in Prims |-> 1]
  /\ index = [j \in Prims |-> j]
  /\ center = 0
  /\ pieces = [p \in Prims |-> 1]
  /\ newCenter = 0 /\ sum = 0 /\ first = 0
  /\ primOffset = [j \in Prims |-> 0]
  /\ stored = {}
  /\ prims = [s \in Slots |-> IF s < NumPrims THEN Whole(s) ELSE Unset]
  /\ size = NumPrims

Total(f, S) == MapThenSumSet(LAMBDA x : f[x], S)

(* 2 to the rounded-up logarithm of rel_p = budget * priority / psum, at    *)
(* least 2 and at most MAX_PRESPLITS_PER_PRIMITIVE.                         *)
SplitPrims(p) ==
  LET psum == Total(priority, Prims)
      share == budget * priority[p]
  IN IF priority[p] = 0 \/ share < psum THEN 1
     ELSE Min({Pow2[k] : k \in {l \in 1 .. MaxLog : Pow2[l] * psum >= share}}
                \union {MAX_PRESPLITS_PER_PRIMITIVE})

Weigh ==
  /\ phase = "weigh"
  /\ data' = [p \in Prims |-> SplitPrims(p)]
  /\ phase' = "sort"
  /\ UNCHANGED <<budget, priority, index, center, pieces, newCenter, sum, first,
                 primOffset, stored, prims, size>>

MutAscending(f, j) == data[f[j - 1]] >= data[f[j]]

Ascending(f, j) == data[f[j - 1]] <= data[f[j]]

(* parallel_partitioning moves the primitives that stay whole to the front, *)
(* in any order, and radix_sort_u32 sorts the others. The function returns  *)
(* when there are no others.                                                *)
Sort ==
  /\ phase = "sort"
  /\ LET c == Cardinality({p \in Prims : data[p] <= 1})
     IN /\ center' = c
        /\ first' = c
        /\ IF c >= NumPrims
           THEN phase' = "done" /\ index' = index
           ELSE /\ phase' = "count"
                /\ index' \in {f \in Bijection(Prims, Prims) :
                                 /\ \A j \in Prims : j < c <=> data[f[j]] <= 1
                                 /\ \A j \in c + 1 .. NumPrims - 1 : Ascending(f, j)}
  /\ UNCHANGED <<budget, priority, data, pieces, newCenter, sum, primOffset,
                 stored, prims, size>>

ToSplit == center .. NumPrims - 1

(* A primitive that the grid does not separate is one piece, splitPrimitive *)
(* gives at most splitprims pieces, openInstance a few more.                *)
PieceCounts(p) ==
  {1, data[p] - 1, data[p], Min({data[p] + Overshoot, MAX_PRESPLITS_PER_PRIMITIVE})} \ {0}

(* The pieces beyond the first, which reuses the slot of the primitive.     *)
Further(j) == pieces[index[j]] - 1

OverBudget == Total([j \in ToSplit |-> pieces'[index[j]] - 1], ToSplit) > budget

Count ==
  /\ phase = "count"
  /\ \E n \in [{index[j] : j \in ToSplit} -> 1 .. MAX_PRESPLITS_PER_PRIMITIVE] :
       /\ \A p \in DOMAIN n : n[p] \in PieceCounts(p)
       /\ pieces' = [p \in Prims |-> IF p \in DOMAIN n THEN n[p] ELSE 1]
  /\ IF OverBudget
     THEN phase' = "shrink" /\ newCenter' = NumPrims - 1
     ELSE phase' = "offsets" /\ newCenter' = newCenter
  /\ UNCHANGED <<budget, priority, data, index, center, sum, first, primOffset,
                 stored, prims, size>>

MutShrinkOne ==
  /\ phase = "shrink"
  /\ IF sum + Further(newCenter) >= budget
     THEN /\ center' = newCenter
          /\ phase' = "offsets"
          /\ UNCHANGED <<newCenter, sum>>
     ELSE /\ sum' = sum + Further(newCenter)
          /\ newCenter' = newCenter - 1
          /\ UNCHANGED <<center, phase>>
  /\ UNCHANGED <<budget, priority, data, index, pieces, first, primOffset, stored,
                 prims, size>>

(* One iteration of the loop that walks down from the most expensive item.  *)
ShrinkOne ==
  /\ phase = "shrink"
  /\ IF sum + Further(newCenter) >= budget
     THEN /\ center' = newCenter + 1
          /\ phase' = "offsets"
          /\ UNCHANGED <<newCenter, sum>>
     ELSE /\ sum' = sum + Further(newCenter)
          /\ newCenter' = newCenter - 1
          /\ UNCHANGED <<center, phase>>
  /\ UNCHANGED <<budget, priority, data, index, pieces, first, primOffset, stored,
                 prims, size>>

MutPrefix(j) == Total([i \in Prims |-> Further(i)], first .. first + (j - center) - 1)

(* parallel_prefix_sum over the counts of the items that are left: the      *)
(* pointer to the counts moves with center, the one to the offsets does not.*)
Prefix(j) == Total([i \in Prims |-> Further(i)], center .. j - 1)

Offsets ==
  /\ phase = "offsets"
  /\ primOffset' = [j \in Prims |-> IF j \in ToSplit THEN Prefix(j) ELSE 0]
  /\ size' = NumPrims + Total([i \in Prims |-> Further(i)], ToSplit)
  /\ phase' = "store"
  /\ UNCHANGED <<budget, priority, data, index, center, pieces, newCenter, sum,
                 first, stored, prims>>

(* The slot of the i-th further piece of item j, counting from 1.           *)
Target(j, i) == NumPrims + primOffset[j] + i - 1

(* A task splits item j again and stores its pieces.                        *)
Store(j) ==
  /\ phase = "store"
  /\ j \in ToSplit \ stored
  /\ LET p == index[j]
         places == {Target(j, i) : i \in 1 .. Further(j)}
     IN prims' = [s \in Slots \union places |->
                    IF s \in places THEN Piece(p, s - Target(j, 1) + 2)
                    ELSE IF s = p THEN Piece(p, 1)
                    ELSE prims[s]]
  /\ stored' = stored \union {j}
  /\ UNCHANGED <<budget, priority, phase, data, index, center, pieces, newCenter,
                 sum, first, primOffset, size>>

(* All tasks are done; the bounds are recomputed over the new array.        *)
Finish ==
  /\ phase = "store"
  /\ stored = ToSplit
  /\ phase' = "done"
  /\ UNCHANGED <<budget, priority, data, index, center, pieces, newCenter, sum,
                 first, primOffset, stored, prims, size>>

Next ==
  \/ Weigh \/ Sort \/ Count \/ ShrinkOne \/ Offsets \/ Finish
  \/ \E j \in Prims : Store(j)

Spec == Init /\ [][Next]_vars

------------------------------------------------------------------------------
(* No piece is stored beyond the array: the asserts on numPrimitives+offset *)
(* and on newID+numSubPrims-1.                                              *)
WithinBudget ==
  /\ DOMAIN prims = Slots
  /\ phase \in {"store", "done"} => size <= NumPrims + budget

(* Which primitives the result has to hold in pieces.                       *)
SplitOnes == IF phase = "done" THEN {index[j] : j \in stored} ELSE {}

Expected ==
  {Whole(p) : p \in Prims \ SplitOnes}
    \union UNION {{Piece(p, i) : i \in 1 .. pieces[p]} : p \in SplitOnes}

(* The array holds every primitive that stays whole once, every piece of    *)
(* the others once, and nothing else, and none of its slots is unset.       *)
ResultExact ==
  phase = "done" =>
    /\ {prims[s] : s \in 0 .. size - 1} = Expected
    /\ Cardinality(Expected) = size

(* When there is no room for all of them, those that stay whole were worth  *)
(* no more pieces than those that were split.                               *)
WorthiestSplit ==
  phase = "done" =>
    \A p \in SplitOnes, q \in Prims \ SplitOnes : data[q] <= data[p]
==============================================================================
