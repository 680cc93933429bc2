----------------------------- MODULE Prims_proofs -----------------------------
(***************************************************************************)
(* The work on primitives before the build: filling their array             *)
(* (PrimRefGen, as put together in MCPasses), opening instances             *)
(* (OpenInstance) and pre-splitting (Presplit, SplittingGrid), as they are  *)
(* put together in MCSplitting.                                             *)
(*                                                                          *)
(* Pre-splitting stores the further pieces of the primitives that are split *)
(* behind all primitives. The start of each is the sum of the further       *)
(* pieces of those before it, so that the slots of two primitives are apart *)
(* and all of them fill what lies below the total, which the loop that      *)
(* drops primitives has brought below the budget.                           *)
(*                                                                          *)
(* A plane of the grid belongs to the highest bit in which the codes of a   *)
(* box's corners differ: above that bit the corners agree, so that the      *)
(* plane lies between them and was not used on the way to the box.          *)
(*                                                                          *)
(* Opening an instance never needs more room than the heap and subPrims     *)
(* have, and never leaves the heap empty when the root of the instance has  *)
(* a valid child, whatever the capacity and the width of the nodes are. The *)
(* children that wait to be pushed count as if they were on the heap: the   *)
(* node that is opened makes room for one, and the loop's condition leaves  *)
(* room for the others.                                                     *)
(*                                                                          *)
(* Filling the array of primitives (PrimRefGen, in MCPasses): a task's loop *)
(* stands at a position of the primitives laid end to end, and has counted  *)
(* the marked positions behind it; the place of a marked position is the    *)
(* number of those below it.                                                *)
(***************************************************************************)
EXTENDS MCSplitting, MCPasses, SumTheorems, Sequences

Waiting == toPush.open + toPush.fixed

IInv ==
  /\ TypeOK
  /\ phase # "push" => toPush = NoChildren
  /\ phase \in {"check", "top", "push"} => numSubPrims = 0
  /\ phase = "top" => Room
  /\ Size + Waiting <= MaxPieces
  /\ numSubPrims <= Size

(* The bounds above hold of the initial states and are kept by every step.  *)
THEOREM HeapBounds == Spec => []IInv
<1>1. Init => IInv
  BY OpenInstanceAssumption
     DEF Init, IInv, TypeOK, Children, NoChildren, Waiting, Size
<1>2. IInv /\ [Next]_vars => IInv'
  <2> SUFFICES ASSUME IInv, [Next]_vars PROVE IInv'
    OBVIOUS
  <2> USE OpenInstanceAssumption
          DEF IInv, TypeOK, Children, NoChildren, Waiting, Size
  <2>1. CASE Check
    BY <2>1 DEF Check, Room
  <2>2. CASE NothingToOpen
    BY <2>2 DEF NothingToOpen
  <2>3. CASE Pop
    <3>1. PICK c \in Children :
            /\ c.open + c.fixed \in IF atRoot THEN RootArities ELSE Arities
            /\ toPush' = c
      BY <2>3 DEF Pop
    <3>2. c.open + c.fixed <= NumChildren
      BY <3>1
    <3>3. Size + (NumChildren - 1) <= MaxPieces
      BY <2>3 DEF Pop, Room
    <3>4. Size' = Size - 1 /\ Waiting' = c.open + c.fixed /\ Waiting = 0
      BY <2>3, <3>1 DEF Pop
    <3>5. Size' + Waiting' <= MaxPieces
      BY <3>2, <3>3, <3>4
    <3>6. open' \in Nat /\ numSubPrims' <= Size'
      BY <2>3 DEF Pop
    <3> HIDE DEF Children
    <3>7. TypeOK'
      BY <2>3, <3>1, <3>6 DEF Pop
    <3> HIDE DEF Size, Waiting, TypeOK
    <3> QED
      BY <2>3, <3>5, <3>6, <3>7 DEF Pop
  <2>4. CASE Push
    BY <2>4 DEF Push
  <2>5. CASE Pushed
    BY <2>5 DEF Pushed
  <2>6. CASE Emit
    BY <2>6 DEF Emit
  <2>7. CASE UNCHANGED vars
    BY <2>7 DEF vars, Room
  <2> QED
    BY <2>1, <2>2, <2>3, <2>4, <2>5, <2>6, <2>7 DEF Next
<1> QED
  BY <1>1, <1>2, PTL DEF Spec

(* openInstance never writes beyond its heap or beyond subPrims.            *)
THEOREM HeapFits == Spec => []CapacityKept
<1>1. IInv => CapacityKept
  BY OpenInstanceAssumption
     DEF IInv, TypeOK, Children, CapacityKept, Waiting, Size
<1> QED
  BY <1>1, HeapBounds, PTL

(* When the root of the instance has a valid child, the heap has a top      *)
(* whenever openInstance looks at it, and the instance is replaced by at    *)
(* least one node.                                                          *)
THEOREM NeverEmpty ==
  ASSUME 0 \notin RootArities
  PROVE  Spec => []TopExists
<1> DEFINE Some ==
      /\ Size + Waiting > 0
      /\ phase = "done" => numSubPrims = Size
<1>1. Init => Some
  BY DEF Init, NoChildren, Waiting, Size
<1>2. IInv /\ Some /\ [Next]_vars => Some'
  <2> SUFFICES ASSUME IInv, Some, [Next]_vars PROVE Some'
    OBVIOUS
  <2> USE OpenInstanceAssumption
          DEF IInv, TypeOK, Children, NoChildren, Waiting, Size
  <2>1. CASE Check
    BY <2>1 DEF Check
  <2>2. CASE NothingToOpen
    BY <2>2 DEF NothingToOpen
  <2>3. CASE Pop
    <3>1. PICK c \in Children :
            /\ c.open + c.fixed \in IF atRoot THEN RootArities ELSE Arities
            /\ toPush' = c
      BY <2>3 DEF Pop
    <3>2. c.open + c.fixed > 0
      BY <3>1
    <3> QED
      BY <2>3, <3>1, <3>2 DEF Pop
  <2>4. CASE Push
    BY <2>4 DEF Push
  <2>5. CASE Pushed
    BY <2>5 DEF Pushed
  <2>6. CASE Emit
    BY <2>6 DEF Emit
  <2>7. CASE UNCHANGED vars
    BY <2>7 DEF vars
  <2> QED
    BY <2>1, <2>2, <2>3, <2>4, <2>5, <2>6, <2>7 DEF Next
<1>3. IInv /\ Some => TopExists
  BY DEF IInv, TypeOK, NoChildren, TopExists, Waiting, Size
<1> QED
  BY <1>1, <1>2, <1>3, HeapBounds, PTL DEF Spec

(* Both together: the heap neither overflows nor runs empty.                *)
THEOREM HeapAlwaysSound ==
  ASSUME 0 \notin RootArities
  PROVE  Spec => []HeapSound
<1>1. CapacityKept /\ TopExists => HeapSound
  BY DEF HeapSound
<1> QED
  BY <1>1, HeapFits, NeverEmpty, PTL
------------------------------------------------------------------------------
(* Pre-splitting. The model's sums are those of SumTheorems, and its powers *)
(* are powers.                                                              *)
LEMMA TotalIs == \A f, S : Presplitting!Total(f, S) = SumFunctionOnSet(f, S)
  BY DEF Presplitting!Total, Presplitting!MapThenSumSet, Presplitting!MapThenFoldSet,
         SumFunctionOnSet, FoldFunctionOnSet, MapThenFoldSet

LEMMA PresplitPow2 == IsPow2(Presplitting!Pow2)
  <1>1. Presplitting!Pow2 = CHOOSE f : IsPow2(f)
    BY DEF Presplitting!Pow2, IsPow2, IsPow
  <1> QED
    BY <1>1, Pow2Exists

LEMMA MaxPresplits ==
  ASSUME Presplitting!PresplitAssumption
  PROVE  /\ Presplitting!MAX_PRESPLITS_PER_PRIMITIVE \in Nat \ {0}
         /\ \A n \in Nat : Presplitting!Pow2[n] \in Nat \ {0}
  BY PresplitPow2, Pow2Facts
  DEF Presplitting!MAX_PRESPLITS_PER_PRIMITIVE, Presplitting!PresplitAssumption

(* A primitive has at least one piece.                                      *)
LEMMA SplitPrimsType ==
  ASSUME Presplitting!PresplitAssumption, NEW p
  PROVE  Presplitting!SplitPrims(p) \in Nat \ {0}
  <1> DEFINE psum == Presplitting!Total(priority, Presplitting!Prims)
             share == budget * priority[p]
             S == {Presplitting!Pow2[k] : k \in {l \in 1 .. MaxLog : Presplitting!Pow2[l] * psum >= share}}
                    \union {Presplitting!MAX_PRESPLITS_PER_PRIMITIVE}
  <1>1. S \subseteq Nat \ {0} /\ S # {}
    <2> HIDE DEF psum, share
    <2>1. 1 .. MaxLog \subseteq Nat
      OBVIOUS
    <2> QED
      BY <2>1, MaxPresplits
  <1>2. Presplitting!SplitPrims(p) = 1 \/ Presplitting!SplitPrims(p) = Presplitting!Min(S)
    BY DEF Presplitting!SplitPrims
  <1> HIDE DEF S
  <1>3. Presplitting!Min(S) \in S
    <2>1. \E x \in S : \A y \in S : x <= y
      BY <1>1, SmallestNat
    <2> QED
      BY <2>1 DEF Presplitting!Min
  <1>4. Presplitting!Min(S) \in Nat \ {0}
    BY <1>1, <1>3
  <1> HIDE DEF psum, share
  <1> QED
    BY <1>2, <1>4

(* The further pieces of each item, and where those of item j begin when    *)
(* the items from c on are split.                                           *)
Fur(px, ix) == [i \in Presplitting!Prims |-> px[ix[i]] - 1]

Off(px, ix, c, j) == SumFunctionOnSet(Fur(px, ix), c .. j - 1)

(* Items are primitives, each once, with some pieces.                       *)
ItemsOK(px, ix) ==
  /\ ix \in [Presplitting!Prims -> Presplitting!Prims]
  /\ \A j, k \in Presplitting!Prims : ix[j] = ix[k] => j = k
  /\ \A p \in Presplitting!Prims : \E j \in Presplitting!Prims : ix[j] = p
  /\ px \in [Presplitting!Prims -> 1 .. Presplitting!MAX_PRESPLITS_PER_PRIMITIVE]

LEMMA FurType ==
  ASSUME Presplitting!PresplitAssumption, NEW px, NEW ix, ItemsOK(px, ix)
  PROVE  /\ NumPrims \in Nat \ {0} /\ Presplitting!Prims = 0 .. NumPrims - 1
         /\ \A j \in Presplitting!Prims :
              Fur(px, ix)[j] = px[ix[j]] - 1 /\ Fur(px, ix)[j] \in Nat
  <1>1. Presplitting!MAX_PRESPLITS_PER_PRIMITIVE \in Nat
    BY MaxPresplits
  <1>2. \A j \in Presplitting!Prims : px[ix[j]] \in 1 .. Presplitting!MAX_PRESPLITS_PER_PRIMITIVE
    BY DEF ItemsOK
  <1>3. \A j \in Presplitting!Prims : px[ix[j]] - 1 \in Nat
    BY <1>1, <1>2
  <1> QED
    BY <1>3 DEF Fur, Presplitting!PresplitAssumption, Presplitting!Prims

LEMMA OffFacts ==
  ASSUME Presplitting!PresplitAssumption, NEW px, NEW ix, ItemsOK(px, ix),
         NEW c \in 0 .. NumPrims
  PROVE  /\ Off(px, ix, c, c) = 0
         /\ \A j \in c .. NumPrims : Off(px, ix, c, j) \in Nat
         /\ \A j \in c .. NumPrims - 1 : Off(px, ix, c, j + 1) = Off(px, ix, c, j) + Fur(px, ix)[j]
         /\ \A j, k \in c .. NumPrims : j <= k => Off(px, ix, c, j) <= Off(px, ix, c, k)
  <1> DEFINE F == Fur(px, ix)
  <1>1. /\ NumPrims \in Nat \ {0} /\ Presplitting!Prims = 0 .. NumPrims - 1
        /\ \A j \in Presplitting!Prims : F[j] \in Nat
    BY FurType
  <1> HIDE DEF F
  <1>2. ASSUME NEW j \in c .. NumPrims
        PROVE  /\ IsFiniteSet(c .. j - 1) /\ c .. j - 1 \subseteq Presplitting!Prims
               /\ Off(px, ix, c, j) = SumFunctionOnSet(F, c .. j - 1)
               /\ Off(px, ix, c, j) \in Nat
    <2>1. c .. j - 1 \subseteq Presplitting!Prims
      BY <1>1
    <2>2. IsFiniteSet(c .. j - 1)
      <3>1. c \in Int /\ j - 1 \in Int
        BY <1>1
      <3> QED
        BY <3>1, FS_Interval
    <2>3. SumFunctionOnSet(F, c .. j - 1) \in Nat
      BY <1>1, <2>1, <2>2, SumNat
    <2> QED
      BY <2>1, <2>2, <2>3 DEF Off, F
  <1>3. Off(px, ix, c, c) = 0
    <2>1. c .. c - 1 = {}
      BY <1>1
    <2> QED
      BY <2>1, SumEmpty DEF Off
  <1>4. ASSUME NEW j \in c .. NumPrims - 1
        PROVE  Off(px, ix, c, j + 1) = Off(px, ix, c, j) + F[j]
    <2>1. j \in c .. NumPrims /\ j + 1 \in c .. NumPrims /\ j \in Presplitting!Prims
      BY <1>1
    <2>2. c .. (j + 1) - 1 = (c .. j - 1) \union {j} /\ j \notin c .. j - 1
      BY <1>1
    <2>3. /\ IsFiniteSet(c .. j - 1) /\ c .. j - 1 \subseteq Presplitting!Prims
          /\ Off(px, ix, c, j) = SumFunctionOnSet(F, c .. j - 1)
          /\ Off(px, ix, c, j) \in Nat
      BY <1>2, <2>1
    <2>4. Off(px, ix, c, j + 1) = SumFunctionOnSet(F, (c .. j - 1) \union {j})
      BY <1>2, <2>1, <2>2
    <2>5. F[j] \in Int /\ \A y \in c .. j - 1 : F[y] \in Int
      BY <1>1, <2>1, <2>3
    <2>6. SumFunctionOnSet(F, (c .. j - 1) \union {j}) = F[j] + SumFunctionOnSet(F, c .. j - 1)
      BY <2>2, <2>3, <2>5, SumAdd
    <2> QED
      BY <2>3, <2>4, <2>5, <2>6
  <1>5. ASSUME NEW j \in c .. NumPrims, NEW k \in c .. NumPrims, j <= k
        PROVE  Off(px, ix, c, j) <= Off(px, ix, c, k)
    <2>1. c .. j - 1 \in SUBSET (c .. k - 1)
      BY <1>1, <1>5
    <2>2. /\ IsFiniteSet(c .. k - 1) /\ \A y \in c .. k - 1 : F[y] \in Nat
          /\ Off(px, ix, c, j) = SumFunctionOnSet(F, c .. j - 1)
          /\ Off(px, ix, c, k) = SumFunctionOnSet(F, c .. k - 1)
      BY <1>1, <1>2
    <2> QED
      BY <2>1, <2>2, SumSubset
  <1> QED
    BY <1>2, <1>3, <1>4, <1>5 DEF F

(* Every further slot below the last offset belongs to one item.            *)
LEMMA Locate ==
  ASSUME Presplitting!PresplitAssumption, NEW px, NEW ix, ItemsOK(px, ix),
         NEW c \in 0 .. NumPrims, NEW n \in Nat, n < Off(px, ix, c, NumPrims)
  PROVE  \E j \in c .. NumPrims - 1 :
           \E i \in 1 .. Fur(px, ix)[j] : n = Off(px, ix, c, j) + i - 1
  <1> DEFINE o(j) == Off(px, ix, c, j)
             C == {j \in c .. NumPrims : n < o(j)}
  <1>1. /\ o(c) = 0 /\ \A j \in c .. NumPrims : o(j) \in Nat
        /\ \A j \in c .. NumPrims - 1 : o(j + 1) = o(j) + Fur(px, ix)[j]
    BY OffFacts
  <1>2. NumPrims \in Nat /\ c \in Nat /\ c <= NumPrims
    BY FurType
  <1>3. NumPrims \in C /\ C \subseteq Nat
    BY <1>2
  <1>4. PICK k \in C : \A m \in C : k <= m
    <2> HIDE DEF C
    <2> QED
      BY <1>3, SmallestNat
  <1> HIDE DEF o
  <1>5. k \in c .. NumPrims /\ n < o(k) /\ k # c
    BY <1>1, <1>4
  <1> DEFINE j == k - 1
  <1>6. j \in c .. NumPrims - 1 /\ j \in c .. NumPrims /\ j + 1 = k /\ j \notin C
    BY <1>2, <1>4, <1>5
  <1> HIDE DEF j
  <1>7. o(j) <= n /\ o(j) \in Nat /\ o(k) = o(j) + Fur(px, ix)[j]
    BY <1>1, <1>6
  <1>8. Fur(px, ix)[j] \in Nat
    BY <1>2, <1>6, FurType
  <1>9. n - o(j) + 1 \in 1 .. Fur(px, ix)[j] /\ n = o(j) + (n - o(j) + 1) - 1
    BY <1>5, <1>7, <1>8
  <1> QED
    BY <1>6, <1>9 DEF o

(* The items from f on are those to split, in the order of their pieces.    *)
Sorted(dt, ix, f) ==
  /\ f \in 0 .. NumPrims
  /\ \A j \in Presplitting!Prims : j < f <=> dt[ix[j]] <= 1
  /\ \A j \in f + 1 .. NumPrims - 1 : dt[ix[j - 1]] <= dt[ix[j]]

(* The array holds the pieces of the items in st, and the other primitives. *)
Placed(ps, bud, px, ix, c, st) ==
  /\ DOMAIN ps = 0 .. NumPrims + bud - 1
  /\ \A s \in Presplitting!Prims :
       ps[s] = IF \E j \in st : ix[j] = s THEN Presplitting!Piece(s, 1) ELSE Presplitting!Whole(s)
  /\ \A j \in st : \A i \in 1 .. Fur(px, ix)[j] :
       ps[NumPrims + Off(px, ix, c, j) + i - 1] = Presplitting!Piece(ix[j], i + 1)

(* What the phases have established.                                        *)
CountInv ==
  /\ stage \in {"weigh", "sort", "count", "shrink", "offsets"} => stored = {} /\ size = NumPrims
  /\ stage \in {"weigh", "sort"} => newCenter = 0 /\ sum = 0
  /\ stage \notin {"weigh", "sort"} => Sorted(data, index, first) /\ first <= center
  /\ stage \in {"count", "shrink"} => center = first
  /\ stage = "count" => sum = 0 /\ center < NumPrims

ShrinkInv ==
  /\ stage = "shrink" =>
       /\ Off(pieces, index, center, NumPrims) > budget
       /\ newCenter \in center - 1 .. NumPrims - 1
       /\ sum = Off(pieces, index, newCenter + 1, NumPrims) /\ sum <= budget
  /\ stage = "offsets" => Off(pieces, index, center, NumPrims) <= budget

StoreInv ==
  /\ stage \in {"store", "done"} =>
       /\ size = NumPrims + Off(pieces, index, center, NumPrims)
       /\ Off(pieces, index, center, NumPrims) <= budget
       /\ \A j \in center .. NumPrims - 1 : primOffset[j] = Off(pieces, index, center, j)
  /\ stage = "done" => stored = center .. NumPrims - 1

PresplitInv ==
  /\ budget \in Nat
  /\ stage \in {"weigh", "sort", "count", "shrink", "offsets", "store", "done"}
  /\ data \in [Presplitting!Prims -> Nat \ {0}]
  /\ ItemsOK(pieces, index)
  /\ center \in 0 .. NumPrims
  /\ stored \subseteq center .. NumPrims - 1
  /\ Placed(prims, budget, pieces, index, center, stored)
  /\ CountInv /\ ShrinkInv /\ StoreInv

LEMMA PlacedNone ==
  ASSUME NEW ps, NEW bud, NEW px, NEW ix, NEW c, NEW qx, NEW jx, NEW e,
         Placed(ps, bud, px, ix, c, {})
  PROVE  Placed(ps, bud, qx, jx, e, {})
  BY DEF Placed

LEMMA PresplitInit ==
  ASSUME Presplitting!PresplitAssumption, Presplitting!Init
  PROVE  PresplitInv
  <1>1. /\ budget \in Nat /\ stage = "weigh" /\ stored = {} /\ size = NumPrims
        /\ data = [p \in Presplitting!Prims |-> 1] /\ center = 0 /\ newCenter = 0 /\ sum = 0
        /\ index = [j \in Presplitting!Prims |-> j]
        /\ pieces = [p \in Presplitting!Prims |-> 1]
        /\ prims = [s \in Presplitting!Slots |->
                      IF s < NumPrims THEN Presplitting!Whole(s) ELSE Presplitting!Unset]
    BY DEF Presplitting!Init, Presplitting!PresplitAssumption
  <1>2. NumPrims \in Nat \ {0} /\ Presplitting!Prims = 0 .. NumPrims - 1
    BY DEF Presplitting!PresplitAssumption, Presplitting!Prims
  <1>3. 1 \in 1 .. Presplitting!MAX_PRESPLITS_PER_PRIMITIVE
    BY MaxPresplits
  <1>4. ItemsOK(pieces, index)
    BY <1>1, <1>3 DEF ItemsOK
  <1>5. Placed(prims, budget, pieces, index, center, stored)
    <2>1. DOMAIN prims = 0 .. NumPrims + budget - 1
      BY <1>1 DEF Presplitting!Slots
    <2>2. ASSUME NEW s \in Presplitting!Prims PROVE prims[s] = Presplitting!Whole(s)
      <3>1. s \in Presplitting!Slots /\ s < NumPrims
        BY <1>1, <1>2 DEF Presplitting!Slots
      <3> QED
        BY <1>1, <3>1
    <2> QED
      BY <1>1, <2>1, <2>2 DEF Placed
  <1>6. CountInv /\ ShrinkInv /\ StoreInv
    BY <1>1 DEF CountInv, ShrinkInv, StoreInv
  <1> QED
    BY <1>1, <1>2, <1>4, <1>5, <1>6 DEF PresplitInv

LEMMA PresplitWeigh ==
  ASSUME Presplitting!PresplitAssumption, PresplitInv, Presplitting!Weigh
  PROVE  PresplitInv'
  <1>1. /\ stage = "weigh" /\ stage' = "sort"
        /\ budget' = budget /\ index' = index /\ center' = center /\ pieces' = pieces
        /\ newCenter' = newCenter /\ sum' = sum /\ stored' = stored /\ prims' = prims /\ size' = size
        /\ data' = [p \in Presplitting!Prims |-> Presplitting!SplitPrims(p)]
    BY DEF Presplitting!Weigh
  <1>2. data' \in [Presplitting!Prims -> Nat \ {0}]
    BY <1>1, SplitPrimsType
  <1>3. CountInv' /\ ShrinkInv' /\ StoreInv'
    BY <1>1 DEF PresplitInv, CountInv, ShrinkInv, StoreInv
  <1> QED
    BY <1>1, <1>2, <1>3 DEF PresplitInv

LEMMA PresplitSort ==
  ASSUME Presplitting!PresplitAssumption, PresplitInv, Presplitting!Sort
  PROVE  PresplitInv'
  <1> DEFINE P == Presplitting!Prims
             W == {p \in P : data[p] <= 1}
             c == Presplitting!Cardinality(W)
  <1>1. /\ stage = "sort" /\ center' = c /\ first' = c
        /\ budget' = budget /\ data' = data /\ pieces' = pieces /\ newCenter' = newCenter
        /\ sum' = sum /\ stored' = stored /\ prims' = prims /\ size' = size /\ primOffset' = primOffset
    BY DEF Presplitting!Sort
  <1>2. /\ NumPrims \in Nat \ {0} /\ P = 0 .. NumPrims - 1
    BY DEF Presplitting!PresplitAssumption, Presplitting!Prims
  <1>3. stored = {} /\ size = NumPrims /\ sum = 0 /\ budget \in Nat
        /\ data \in [P -> Nat \ {0}] /\ ItemsOK(pieces, index)
    BY <1>1 DEF PresplitInv, CountInv
  <1>4. c = Cardinality(W)
    BY DEF Presplitting!Cardinality, Cardinality
  <1>5. IsFiniteSet(P) /\ Cardinality(P) = NumPrims
    <2>1. NumPrims - 1 \in Int
      BY <1>2
    <2>2. IsFiniteSet(0 .. NumPrims - 1)
          /\ Cardinality(0 .. NumPrims - 1) = IF 0 > NumPrims - 1 THEN 0 ELSE NumPrims - 1 - 0 + 1
      BY <2>1, FS_Interval
    <2> QED
      BY <1>2, <2>2
  <1>6. c \in 0 .. NumPrims /\ (c = NumPrims => W = P)
    <2>1. W \subseteq P
      OBVIOUS
    <2> HIDE DEF W, P, c
    <2>2. IsFiniteSet(W) /\ Cardinality(W) <= Cardinality(P) /\ (Cardinality(W) = Cardinality(P) => W = P)
      BY <1>5, <2>1, FS_Subset
    <2>3. Cardinality(W) \in Nat
      BY <2>2, FS_CardinalityType
    <2> QED
      BY <1>2, <1>4, <1>5, <2>2, <2>3
  <1>7. CASE c >= NumPrims
    <2>1. stage' = "done" /\ index' = index
      BY <1>7 DEF Presplitting!Sort
    <2>2. c = NumPrims /\ W = P
      <3> HIDE DEF c, W, P
      <3> QED
        BY <1>2, <1>6, <1>7
    <2>3. \A p \in P : data[p] <= 1
      BY <2>2
    <2> HIDE DEF c, W
    <2>4. Sorted(data, index, NumPrims)
      <3>1. \A j \in P : index[j] \in P
        BY <1>3 DEF ItemsOK
      <3> QED
        BY <1>2, <2>3, <3>1 DEF Sorted
    <2>5. Off(pieces, index, NumPrims, NumPrims) = 0
      <3>1. NumPrims \in 0 .. NumPrims
        BY <1>2
      <3> QED
        BY <1>3, <3>1, OffFacts
    <2>6. NumPrims .. NumPrims - 1 = {}
      BY <1>2
    <2>7. CountInv' /\ ShrinkInv' /\ StoreInv'
      BY <1>1, <1>2, <1>3, <2>1, <2>2, <2>4, <2>5, <2>6 DEF CountInv, ShrinkInv, StoreInv
    <2>8. Placed(prims, budget, pieces, index, NumPrims, {})
      BY <1>3, PlacedNone DEF PresplitInv
    <2> QED
      BY <1>1, <1>2, <1>3, <2>1, <2>2, <2>7, <2>8 DEF PresplitInv
  <1>8. CASE ~ (c >= NumPrims)
    <2>1. /\ stage' = "count"
          /\ index' \in {f \in Presplitting!Bijection(P, P) :
                           /\ \A j \in P : j < c <=> data[f[j]] <= 1
                           /\ \A j \in c + 1 .. NumPrims - 1 : Presplitting!Ascending(f, j)}
      BY <1>8 DEF Presplitting!Sort
    <2>2. /\ \A j \in P : j < c <=> data[index'[j]] <= 1
          /\ \A j \in c + 1 .. NumPrims - 1 : data[index'[j - 1]] <= data[index'[j]]
      BY <2>1 DEF Presplitting!Ascending
    <2>3. /\ index' \in [P -> P]
          /\ \A j, k \in P : index'[j] = index'[k] => j = k
          /\ \A p \in P : \E j \in P : index'[j] = p
      BY <2>1 DEF Presplitting!Bijection, Presplitting!Injection, Presplitting!Surjection,
                  Presplitting!IsInjective
    <2> HIDE DEF c
    <2>4. Sorted(data, index', c)
      BY <1>6, <2>2 DEF Sorted
    <2>5. ItemsOK(pieces, index')
      BY <1>3, <2>3 DEF ItemsOK
    <2>6. Placed(prims, budget, pieces, index', c, {})
      BY <1>3, PlacedNone DEF PresplitInv
    <2>7. CountInv' /\ ShrinkInv' /\ StoreInv'
      BY <1>1, <1>2, <1>3, <1>6, <1>8, <2>1, <2>4 DEF CountInv, ShrinkInv, StoreInv
    <2> QED
      BY <1>1, <1>3, <1>6, <2>1, <2>5, <2>6, <2>7 DEF PresplitInv
  <1> QED
    BY <1>7, <1>8

(* An item more in front.                                                   *)
LEMMA OffLeft ==
  ASSUME Presplitting!PresplitAssumption, NEW px, NEW ix, ItemsOK(px, ix),
         NEW c \in 0 .. NumPrims - 1
  PROVE  Off(px, ix, c, NumPrims) = Fur(px, ix)[c] + Off(px, ix, c + 1, NumPrims)
  <1> DEFINE F == Fur(px, ix)
             S == c + 1 .. NumPrims - 1
  <1>1. /\ NumPrims \in Nat \ {0} /\ Presplitting!Prims = 0 .. NumPrims - 1
        /\ \A j \in Presplitting!Prims : F[j] \in Nat
    BY FurType
  <1> HIDE DEF F
  <1>2. c .. NumPrims - 1 = S \union {c} /\ c \notin S /\ S \subseteq Presplitting!Prims
        /\ c \in Presplitting!Prims
    BY <1>1
  <1>3. IsFiniteSet(S)
    <2>1. c + 1 \in Int /\ NumPrims - 1 \in Int
      BY <1>1
    <2> QED
      BY <2>1, FS_Interval
  <1> HIDE DEF S
  <1>4. F[c] \in Int /\ \A y \in S : F[y] \in Int
    BY <1>1, <1>2
  <1>5. SumFunctionOnSet(F, S \union {c}) = F[c] + SumFunctionOnSet(F, S)
    BY <1>2, <1>3, <1>4, SumAdd
  <1> QED
    BY <1>2, <1>5 DEF Off, F, S

LEMMA PresplitCount ==
  ASSUME Presplitting!PresplitAssumption, PresplitInv, Presplitting!Count
  PROVE  PresplitInv'
  <1> DEFINE P == Presplitting!Prims
             S == center .. NumPrims - 1
             g == [j \in S |-> pieces'[index[j]] - 1]
  <1>1. /\ stage = "count" /\ budget' = budget /\ data' = data /\ index' = index
        /\ center' = center /\ sum' = sum /\ first' = first /\ stored' = stored
        /\ prims' = prims /\ size' = size
    BY DEF Presplitting!Count
  <1>2. PICK n \in [{index[j] : j \in Presplitting!ToSplit} ->
                      1 .. Presplitting!MAX_PRESPLITS_PER_PRIMITIVE] :
          pieces' = [p \in P |-> IF p \in DOMAIN n THEN n[p] ELSE 1]
    BY DEF Presplitting!Count
  <1>3. /\ budget \in Nat /\ ItemsOK(pieces, index) /\ center \in 0 .. NumPrims
        /\ stored = {} /\ size = NumPrims /\ Sorted(data, index, first) /\ center = first
        /\ center < NumPrims /\ sum = 0
    BY <1>1 DEF PresplitInv, CountInv
  <1>4. /\ NumPrims \in Nat \ {0} /\ P = 0 .. NumPrims - 1
    BY DEF Presplitting!PresplitAssumption, Presplitting!Prims
  <1>5. pieces' \in [P -> 1 .. Presplitting!MAX_PRESPLITS_PER_PRIMITIVE]
    <2>1. 1 \in 1 .. Presplitting!MAX_PRESPLITS_PER_PRIMITIVE
      BY MaxPresplits
    <2>2. \A p \in DOMAIN n : n[p] \in 1 .. Presplitting!MAX_PRESPLITS_PER_PRIMITIVE
      OBVIOUS
    <2> QED
      BY <1>2, <2>1, <2>2
  <1>6. ItemsOK(pieces', index)
    BY <1>3, <1>5 DEF ItemsOK
  <1>7. Presplitting!OverBudget <=> Off(pieces', index, center, NumPrims) > budget
    <2>1. Presplitting!OverBudget <=> SumFunctionOnSet(g, S) > budget
      BY TotalIs DEF Presplitting!OverBudget, Presplitting!ToSplit
    <2>2. /\ \A j \in P : Fur(pieces', index)[j] = pieces'[index[j]] - 1
          /\ \A j \in P : Fur(pieces', index)[j] \in Nat
      BY <1>6, FurType
    <2>3. \A j \in S : g[j] \in Int /\ g[j] = Fur(pieces', index)[j]
      BY <1>3, <1>4, <2>2
    <2>4. IsFiniteSet(S)
      <3>1. center \in Int /\ NumPrims - 1 \in Int
        BY <1>3, <1>4
      <3> QED
        BY <3>1, FS_Interval
    <2> HIDE DEF g, S
    <2>5. SumFunctionOnSet(g, S) = SumFunctionOnSet(Fur(pieces', index), S)
      BY <2>3, <2>4, SumSame
    <2> QED
      BY <2>1, <2>5 DEF Off, S
  <1>8. Placed(prims, budget, pieces', index, center, {})
    BY <1>3, PlacedNone DEF PresplitInv
  <1>9. Off(pieces', index, NumPrims, NumPrims) = 0 /\ Off(pieces', index, center, NumPrims) \in Nat
    <2>1. NumPrims \in 0 .. NumPrims /\ NumPrims \in center .. NumPrims
      BY <1>3, <1>4
    <2> QED
      BY <1>3, <1>6, <2>1, OffFacts
  <1> HIDE DEF P
  <1>10. CASE Presplitting!OverBudget
    <2>1. stage' = "shrink" /\ newCenter' = NumPrims - 1
      BY <1>10 DEF Presplitting!Count
    <2>2. newCenter' \in center - 1 .. NumPrims - 1 /\ newCenter' + 1 = NumPrims
      BY <1>3, <1>4, <2>1
    <2>3. CountInv' /\ ShrinkInv' /\ StoreInv'
      BY <1>1, <1>3, <1>7, <1>9, <1>10, <2>1, <2>2 DEF CountInv, ShrinkInv, StoreInv
    <2> QED
      BY <1>1, <1>3, <1>6, <1>8, <2>1, <2>3 DEF PresplitInv
  <1>11. CASE ~ Presplitting!OverBudget
    <2>1. stage' = "offsets"
      BY <1>11 DEF Presplitting!Count
    <2>2. Off(pieces', index, center, NumPrims) <= budget
      BY <1>3, <1>7, <1>9, <1>11
    <2>3. CountInv' /\ ShrinkInv' /\ StoreInv'
      BY <1>1, <1>3, <2>1, <2>2 DEF CountInv, ShrinkInv, StoreInv
    <2> QED
      BY <1>1, <1>3, <1>6, <1>8, <2>1, <2>3 DEF PresplitInv
  <1> QED
    BY <1>10, <1>11

LEMMA PresplitShrink ==
  ASSUME Presplitting!PresplitAssumption, PresplitInv, Presplitting!ShrinkOne
  PROVE  PresplitInv'
  <1> DEFINE f == pieces[index[newCenter]] - 1
             k == newCenter
  <1>1. /\ stage = "shrink" /\ budget' = budget /\ data' = data /\ index' = index
        /\ pieces' = pieces /\ first' = first /\ stored' = stored
        /\ prims' = prims /\ size' = size
    BY DEF Presplitting!ShrinkOne
  <1>2. /\ budget \in Nat /\ ItemsOK(pieces, index) /\ center \in 0 .. NumPrims
        /\ stored = {} /\ size = NumPrims /\ Sorted(data, index, first) /\ center = first
        /\ k \in center - 1 .. NumPrims - 1
        /\ sum = Off(pieces, index, k + 1, NumPrims) /\ sum <= budget
        /\ Off(pieces, index, center, NumPrims) > budget
    BY <1>1 DEF PresplitInv, CountInv, ShrinkInv
  <1>3. NumPrims \in Nat \ {0} /\ Presplitting!Prims = 0 .. NumPrims - 1
    BY DEF Presplitting!PresplitAssumption, Presplitting!Prims
  <1>4. Off(pieces, index, center, NumPrims) \in Nat
    <2>1. NumPrims \in center .. NumPrims
      BY <1>2, <1>3
    <2> QED
      BY <1>2, <2>1, OffFacts
  <1>5. k + 1 # center
    BY <1>2, <1>4
  <1>6. k \in center .. NumPrims - 1 /\ k \in 0 .. NumPrims - 1 /\ k + 1 \in 0 .. NumPrims
    BY <1>2, <1>3, <1>5
  <1>7. f \in Nat /\ Fur(pieces, index)[k] = f
    BY <1>2, <1>3, <1>6, FurType
  <1>8. Off(pieces, index, k, NumPrims) = f + sum /\ sum \in Nat
    <2>1. Off(pieces, index, k, NumPrims) = Fur(pieces, index)[k] + Off(pieces, index, k + 1, NumPrims)
      BY <1>2, <1>6, OffLeft
    <2>2. NumPrims \in k + 1 .. NumPrims
      BY <1>3, <1>6
    <2>3. Off(pieces, index, k + 1, NumPrims) \in Nat
      BY <1>2, <1>6, <2>2, OffFacts
    <2> QED
      BY <1>2, <1>7, <2>1, <2>3
  <1>9. CASE sum + Presplitting!Further(newCenter) >= budget
    <2>1. center' = k + 1 /\ stage' = "offsets"
      BY <1>9 DEF Presplitting!ShrinkOne
    <2>2. Placed(prims, budget, pieces, index, k + 1, {})
      BY <1>2, PlacedNone DEF PresplitInv
    <2>3. first <= k + 1
      BY <1>2, <1>3, <1>6
    <2> HIDE DEF k
    <2>4. CountInv' /\ ShrinkInv' /\ StoreInv'
      BY <1>1, <1>2, <2>1, <2>3 DEF CountInv, ShrinkInv, StoreInv
    <2> QED
      BY <1>1, <1>2, <1>6, <2>1, <2>2, <2>4 DEF PresplitInv
  <1>10. CASE ~ (sum + Presplitting!Further(newCenter) >= budget)
    <2>1. center' = center /\ stage' = stage /\ sum' = sum + f /\ newCenter' = k - 1
      BY <1>10 DEF Presplitting!ShrinkOne, Presplitting!Further
    <2>2. sum + f < budget
      BY <1>2, <1>7, <1>8, <1>10 DEF Presplitting!Further
    <2>3. newCenter' \in center - 1 .. NumPrims - 1 /\ newCenter' + 1 = k
      BY <1>2, <1>3, <1>6, <2>1
    <2>4. sum' = Off(pieces, index, newCenter' + 1, NumPrims) /\ sum' <= budget
      BY <1>2, <1>7, <1>8, <2>1, <2>2, <2>3
    <2> HIDE DEF k, f
    <2>5. CountInv' /\ ShrinkInv' /\ StoreInv'
      BY <1>1, <1>2, <2>1, <2>3, <2>4 DEF CountInv, ShrinkInv, StoreInv
    <2> QED
      BY <1>1, <1>2, <2>1, <2>5 DEF PresplitInv
  <1> QED
    BY <1>9, <1>10

LEMMA PresplitOffsets ==
  ASSUME Presplitting!PresplitAssumption, PresplitInv, Presplitting!Offsets
  PROVE  PresplitInv'
  <1>1. /\ stage = "offsets" /\ stage' = "store" /\ budget' = budget /\ data' = data
        /\ index' = index /\ center' = center /\ pieces' = pieces /\ newCenter' = newCenter
        /\ sum' = sum /\ first' = first /\ stored' = stored /\ prims' = prims
        /\ primOffset' = [j \in Presplitting!Prims |->
                            IF j \in Presplitting!ToSplit THEN Presplitting!Prefix(j) ELSE 0]
        /\ size' = NumPrims + Presplitting!Total([i \in Presplitting!Prims |-> Presplitting!Further(i)],
                                                 Presplitting!ToSplit)
    BY DEF Presplitting!Offsets
  <1>2. Fur(pieces, index) = [i \in Presplitting!Prims |-> Presplitting!Further(i)]
    BY DEF Fur, Presplitting!Further
  <1>3. \A j : Presplitting!Prefix(j) = Off(pieces, index, center, j)
    BY <1>2, TotalIs DEF Presplitting!Prefix, Off
  <1>4. size' = NumPrims + Off(pieces, index, center, NumPrims)
    BY <1>1, <1>2, TotalIs DEF Off, Presplitting!ToSplit
  <1>5. \A j \in center .. NumPrims - 1 : primOffset'[j] = Off(pieces, index, center, j)
    <2>1. \A j \in center .. NumPrims - 1 : j \in Presplitting!Prims /\ j \in Presplitting!ToSplit
      BY DEF PresplitInv, Presplitting!PresplitAssumption, Presplitting!Prims, Presplitting!ToSplit
    <2> QED
      BY <1>1, <1>3, <2>1
  <1>6. stored = {} /\ size = NumPrims
    BY <1>1 DEF PresplitInv, CountInv
  <1>7. CountInv' /\ ShrinkInv' /\ StoreInv'
    BY <1>1, <1>4, <1>5 DEF PresplitInv, CountInv, ShrinkInv, StoreInv
  <1> QED
    BY <1>1, <1>7 DEF PresplitInv

(* The further pieces of an item go behind the primitives, within the       *)
(* array, and those of different items to different slots.                  *)
LEMMA PlacesApart ==
  ASSUME Presplitting!PresplitAssumption, NEW px, NEW ix, ItemsOK(px, ix),
         NEW c \in 0 .. NumPrims, NEW j \in c .. NumPrims - 1, NEW i \in 1 .. Fur(px, ix)[j]
  PROVE  LET s == NumPrims + Off(px, ix, c, j) + i - 1
         IN /\ s \in NumPrims .. NumPrims + Off(px, ix, c, NumPrims) - 1
            /\ s \notin Presplitting!Prims
            /\ \A k \in c .. NumPrims - 1 : \A n \in 1 .. Fur(px, ix)[k] :
                 s = NumPrims + Off(px, ix, c, k) + n - 1 => k = j /\ n = i
  <1> DEFINE o(k) == Off(px, ix, c, k)
             F == Fur(px, ix)
  <1>1. /\ NumPrims \in Nat \ {0} /\ Presplitting!Prims = 0 .. NumPrims - 1
        /\ \A k \in Presplitting!Prims : F[k] \in Nat
    BY FurType
  <1>2. /\ \A k \in c .. NumPrims : o(k) \in Nat
        /\ \A k \in c .. NumPrims - 1 : o(k + 1) = o(k) + F[k]
        /\ \A k, m \in c .. NumPrims : k <= m => o(k) <= o(m)
    BY OffFacts
  <1> HIDE DEF o, F
  <1>3. ASSUME NEW k \in c .. NumPrims - 1
        PROVE  /\ k \in c .. NumPrims /\ k + 1 \in c .. NumPrims /\ k \in Presplitting!Prims
               /\ o(k) \in Nat /\ F[k] \in Nat /\ o(k + 1) = o(k) + F[k]
    <2>1. k \in c .. NumPrims /\ k + 1 \in c .. NumPrims /\ k \in Presplitting!Prims
      BY <1>1
    <2> QED
      BY <1>1, <1>2, <2>1
  <1>4. NumPrims \in c .. NumPrims /\ o(NumPrims) \in Nat
    <2>1. NumPrims \in c .. NumPrims
      BY <1>1
    <2> QED
      BY <1>2, <2>1
  <1>5. o(j + 1) <= o(NumPrims)
    <2>1. j + 1 \in c .. NumPrims /\ j + 1 <= NumPrims
      BY <1>1
    <2> QED
      BY <1>2, <1>4, <2>1
  <1>6. i \in Nat /\ 1 <= i /\ i <= F[j]
    BY <1>3 DEF F
  <1>7. ASSUME NEW k \in c .. NumPrims - 1, NEW n \in 1 .. F[k], o(j) + i = o(k) + n
        PROVE  k = j /\ n = i
    <2>1. CASE k < j
      <3>1. o(k + 1) <= o(j)
        <4>1. k + 1 <= j
          BY <1>1, <2>1
        <4> QED
          BY <1>2, <1>3, <4>1
      <3> QED
        BY <1>3, <1>6, <1>7, <3>1
    <2>2. CASE j < k
      <3>1. o(j + 1) <= o(k)
        <4>1. j + 1 <= k
          BY <1>1, <2>2
        <4> QED
          BY <1>2, <1>3, <4>1
      <3> QED
        BY <1>3, <1>6, <1>7, <3>1
    <2>3. CASE k = j
      BY <1>3, <1>6, <1>7, <2>3
    <2> QED
      BY <1>1, <2>1, <2>2, <2>3
  <1>8. ASSUME NEW k \in c .. NumPrims - 1, NEW n \in 1 .. F[k],
               NumPrims + o(j) + i - 1 = NumPrims + o(k) + n - 1
        PROVE  o(j) + i = o(k) + n
    <2>1. n \in Nat /\ o(k) \in Nat /\ o(j) \in Nat
      BY <1>3
    <2>2. NumPrims \in Nat /\ i \in Nat
      BY <1>1, <1>6
    <2> QED
      BY <1>8, <2>1, <2>2
  <1>9. NumPrims + o(j) + i - 1 \in NumPrims .. NumPrims + o(NumPrims) - 1
    BY <1>1, <1>3, <1>4, <1>5, <1>6
  <1>10. NumPrims + o(j) + i - 1 \notin Presplitting!Prims
    BY <1>1, <1>4, <1>9
  <1> QED
    BY <1>7, <1>8, <1>9, <1>10 DEF o, F

(* Storing the pieces of an item keeps those of the others.                 *)
LEMMA PlacedMore ==
  ASSUME Presplitting!PresplitAssumption, NEW ps, NEW bud \in Nat, NEW px, NEW ix, ItemsOK(px, ix),
         NEW c \in 0 .. NumPrims, NEW st \in SUBSET (c .. NumPrims - 1),
         Placed(ps, bud, px, ix, c, st), Off(px, ix, c, NumPrims) <= bud,
         NEW j \in c .. NumPrims - 1, j \notin st,
         NEW places, places = {NumPrims + Off(px, ix, c, j) + i - 1 : i \in 1 .. Fur(px, ix)[j]},
         NEW t, t = [s \in (0 .. NumPrims + bud - 1) \union places |->
                       IF s \in places
                       THEN Presplitting!Piece(ix[j], s - (NumPrims + Off(px, ix, c, j)) + 2)
                       ELSE IF s = ix[j] THEN Presplitting!Piece(ix[j], 1) ELSE ps[s]]
  PROVE  Placed(t, bud, px, ix, c, st \union {j})
  <1> DEFINE at(k, i) == NumPrims + Off(px, ix, c, k) + i - 1
             P == Presplitting!Prims
  <1>1. NumPrims \in Nat \ {0} /\ P = 0 .. NumPrims - 1 /\ c .. NumPrims - 1 \subseteq P
    BY DEF Presplitting!PresplitAssumption, Presplitting!Prims
  <1>2. \A k \in c .. NumPrims - 1 : Off(px, ix, c, k) \in Nat
    <2>1. \A k \in c .. NumPrims - 1 : k \in c .. NumPrims
      BY <1>1
    <2> QED
      BY <2>1, OffFacts
  <1>3. Off(px, ix, c, NumPrims) \in Nat
    <2>1. NumPrims \in c .. NumPrims
      BY <1>1
    <2> QED
      BY <2>1, OffFacts
  <1>4. ASSUME NEW k \in c .. NumPrims - 1, NEW i \in 1 .. Fur(px, ix)[k]
        PROVE  /\ at(k, i) \in NumPrims .. NumPrims + Off(px, ix, c, NumPrims) - 1
               /\ at(k, i) \notin P
               /\ \A n \in 1 .. Fur(px, ix)[j] : at(k, i) = at(j, n) => k = j /\ n = i
    BY PlacesApart
  <1>5. ASSUME NEW k \in c .. NumPrims - 1, NEW i \in 1 .. Fur(px, ix)[k]
        PROVE  at(k, i) \in 0 .. NumPrims + bud - 1
    <2>1. at(k, i) \in NumPrims .. NumPrims + Off(px, ix, c, NumPrims) - 1
      BY <1>4
    <2> HIDE DEF at
    <2> QED
      BY <1>1, <1>3, <2>1
  <1>6. places \subseteq 0 .. NumPrims + bud - 1 /\ places \intersect P = {}
    BY <1>4, <1>5
  <1>7. DOMAIN t = 0 .. NumPrims + bud - 1
    BY <1>6
  <1>8. ASSUME NEW s \in P
        PROVE  t[s] = IF \E k \in st \union {j} : ix[k] = s
                      THEN Presplitting!Piece(s, 1) ELSE Presplitting!Whole(s)
    <2>1. s \notin places /\ s \in 0 .. NumPrims + bud - 1
      BY <1>1, <1>6
    <2>2. t[s] = IF s = ix[j] THEN Presplitting!Piece(ix[j], 1) ELSE ps[s]
      BY <2>1
    <2>3. ps[s] = IF \E k \in st : ix[k] = s THEN Presplitting!Piece(s, 1) ELSE Presplitting!Whole(s)
      BY DEF Placed
    <2> QED
      BY <2>2, <2>3
  <1>9. ASSUME NEW k \in st \union {j}, NEW i \in 1 .. Fur(px, ix)[k]
        PROVE  t[at(k, i)] = Presplitting!Piece(ix[k], i + 1)
    <2>1. CASE k = j
      <3>1. at(j, i) \in places
        BY <2>1
      <3>2. t[at(j, i)] = Presplitting!Piece(ix[j], at(j, i) - (NumPrims + Off(px, ix, c, j)) + 2)
        BY <3>1
      <3>3. Off(px, ix, c, j) \in Nat /\ i \in Nat
        <4>1. Fur(px, ix)[j] \in Nat
          BY <1>1, FurType
        <4> QED
          BY <1>2, <2>1, <4>1
      <3>4. at(j, i) - (NumPrims + Off(px, ix, c, j)) + 2 = i + 1
        BY <1>1, <3>3
      <3> QED
        BY <2>1, <3>2, <3>4
    <2>2. CASE k # j
      <3>1. k \in st /\ k \in c .. NumPrims - 1 /\ k \in P
        BY <1>1, <2>2
      <3>2. at(k, i) \notin places /\ at(k, i) \in 0 .. NumPrims + bud - 1
        BY <1>4, <1>5, <2>2, <3>1
      <3>3. at(k, i) # ix[j]
        <4>1. ix[j] \in P
          BY <1>1 DEF ItemsOK
        <4>2. at(k, i) \notin P
          BY <1>4, <3>1
        <4> QED
          BY <4>1, <4>2
      <3>4. ps[at(k, i)] = Presplitting!Piece(ix[k], i + 1)
        BY <3>1 DEF Placed
      <3> HIDE DEF at
      <3> QED
        BY <3>2, <3>3, <3>4
    <2> QED
      BY <2>1, <2>2
  <1> QED
    BY <1>7, <1>8, <1>9 DEF Placed

LEMMA PresplitStore ==
  ASSUME Presplitting!PresplitAssumption, PresplitInv,
         NEW j \in Presplitting!Prims, Presplitting!Store(j)
  PROVE  PresplitInv'
  <1> DEFINE places == {Presplitting!Target(j, i) : i \in 1 .. Presplitting!Further(j)}
             at == {NumPrims + Off(pieces, index, center, j) + i - 1 : i \in 1 .. Fur(pieces, index)[j]}
  <1>1. /\ stage = "store" /\ budget' = budget /\ data' = data /\ stage' = stage
        /\ index' = index /\ center' = center /\ pieces' = pieces /\ newCenter' = newCenter
        /\ sum' = sum /\ first' = first /\ stored' = stored \union {j} /\ size' = size
        /\ primOffset' = primOffset /\ j \in Presplitting!ToSplit \ stored
        /\ prims' = [s \in Presplitting!Slots \union places |->
                       IF s \in places THEN Presplitting!Piece(index[j], s - Presplitting!Target(j, 1) + 2)
                       ELSE IF s = index[j] THEN Presplitting!Piece(index[j], 1)
                       ELSE prims[s]]
    BY DEF Presplitting!Store
  <1>2. /\ budget \in Nat /\ ItemsOK(pieces, index) /\ center \in 0 .. NumPrims
        /\ stored \subseteq center .. NumPrims - 1 /\ j \in center .. NumPrims - 1 /\ j \notin stored
        /\ Off(pieces, index, center, NumPrims) <= budget
        /\ primOffset[j] = Off(pieces, index, center, j)
        /\ Placed(prims, budget, pieces, index, center, stored)
    BY <1>1 DEF PresplitInv, StoreInv, Presplitting!ToSplit
  <1>3. Presplitting!Further(j) = Fur(pieces, index)[j]
    BY DEF Presplitting!Further, Fur
  <1>4. NumPrims \in Nat /\ Off(pieces, index, center, j) \in Nat
    <2>1. NumPrims \in Nat /\ j \in center .. NumPrims
      BY <1>2 DEF Presplitting!PresplitAssumption
    <2> QED
      BY <1>2, <2>1, OffFacts
  <1>5. Presplitting!Target(j, 1) = NumPrims + Off(pieces, index, center, j) /\ places = at
    BY <1>2, <1>3, <1>4 DEF Presplitting!Target
  <1> HIDE DEF places, at
  <1>6. prims' = [s \in (0 .. NumPrims + budget - 1) \union at |->
                    IF s \in at
                    THEN Presplitting!Piece(index[j], s - (NumPrims + Off(pieces, index, center, j)) + 2)
                    ELSE IF s = index[j] THEN Presplitting!Piece(index[j], 1) ELSE prims[s]]
    BY <1>1, <1>5 DEF Presplitting!Slots
  <1>7. Placed(prims', budget, pieces, index, center, stored \union {j})
    BY <1>2, <1>6, PlacedMore DEF at
  <1>8. CountInv' /\ ShrinkInv' /\ StoreInv'
    BY <1>1 DEF PresplitInv, CountInv, ShrinkInv, StoreInv
  <1> QED
    BY <1>1, <1>2, <1>7, <1>8 DEF PresplitInv

LEMMA PresplitFinish ==
  ASSUME Presplitting!PresplitAssumption, PresplitInv, Presplitting!Finish
  PROVE  PresplitInv'
  BY DEF Presplitting!Finish, Presplitting!ToSplit, PresplitInv, CountInv, ShrinkInv, StoreInv

LEMMA PresplitStays ==
  ASSUME PresplitInv, UNCHANGED ofPresplit
  PROVE  PresplitInv'
  BY DEF ofPresplit, PresplitInv, CountInv, ShrinkInv, StoreInv

(* What is in the slots of the array when all items from c on are stored.   *)
AllSlots(px, ix, c) == 0 .. NumPrims + Off(px, ix, c, NumPrims) - 1

HoldsFurther(ps, px, ix, c, s) ==
  \E j \in c .. NumPrims - 1 : \E i \in 1 .. Fur(px, ix)[j] :
    /\ s = NumPrims + Off(px, ix, c, j) + i - 1
    /\ ps[s] = Presplitting!Piece(ix[j], i + 1)

HoldsFirst(ps, ix, c, s) ==
  ps[s] = IF \E j \in c .. NumPrims - 1 : ix[j] = s
          THEN Presplitting!Piece(s, 1) ELSE Presplitting!Whole(s)

LEMMA PlacedSlots ==
  ASSUME Presplitting!PresplitAssumption, NEW ps, NEW bud \in Nat, NEW px, NEW ix, ItemsOK(px, ix),
         NEW c \in 0 .. NumPrims, Placed(ps, bud, px, ix, c, c .. NumPrims - 1)
  PROVE  /\ \A s \in AllSlots(px, ix, c) \ Presplitting!Prims : HoldsFurther(ps, px, ix, c, s)
         /\ \A s \in Presplitting!Prims : HoldsFirst(ps, ix, c, s)
         /\ Presplitting!Prims \subseteq AllSlots(px, ix, c)
  <1> DEFINE o == Off(px, ix, c, NumPrims)
  <1>1. NumPrims \in Nat \ {0} /\ Presplitting!Prims = 0 .. NumPrims - 1
    BY DEF Presplitting!PresplitAssumption, Presplitting!Prims
  <1>2. o \in Nat
    <2>1. NumPrims \in c .. NumPrims
      BY <1>1
    <2> QED
      BY <2>1, OffFacts
  <1>3. ASSUME NEW s \in (0 .. NumPrims + o - 1) \ Presplitting!Prims
        PROVE  HoldsFurther(ps, px, ix, c, s)
    <2> DEFINE n == s - NumPrims
    <2> HIDE DEF o
    <2>1. n \in Nat /\ n < o /\ s = NumPrims + n
      BY <1>1, <1>2
    <2> USE DEF o
    <2> HIDE DEF n
    <2>2. PICK j \in c .. NumPrims - 1 :
            \E i \in 1 .. Fur(px, ix)[j] : n = Off(px, ix, c, j) + i - 1
      BY <2>1, Locate
    <2>3. PICK i \in 1 .. Fur(px, ix)[j] : n = Off(px, ix, c, j) + i - 1
      BY <2>2
    <2>4. Off(px, ix, c, j) \in Nat /\ i \in Nat
      <3>1. j \in c .. NumPrims /\ j \in Presplitting!Prims
        BY <1>1
      <3>2. Off(px, ix, c, j) \in Nat
        BY <3>1, OffFacts
      <3>3. Fur(px, ix)[j] \in Nat
        BY <3>1, FurType
      <3> QED
        BY <3>2, <3>3
    <2>5. s = NumPrims + Off(px, ix, c, j) + i - 1
      <3>1. NumPrims \in Nat
        BY <1>1
      <3> QED
        BY <2>1, <2>3, <2>4, <3>1
    <2>6. ps[NumPrims + Off(px, ix, c, j) + i - 1] = Presplitting!Piece(ix[j], i + 1)
      BY DEF Placed
    <2> QED
      BY <2>5, <2>6 DEF HoldsFurther
  <1>4. Presplitting!Prims \subseteq 0 .. NumPrims + o - 1
    <2> HIDE DEF o
    <2> QED
      BY <1>1, <1>2
  <1>5. \A s \in Presplitting!Prims : HoldsFirst(ps, ix, c, s)
    BY DEF Placed, HoldsFirst
  <1> QED
    BY <1>3, <1>4, <1>5 DEF AllSlots

(* Two slots hold different things.                                         *)
LEMMA SlotsDiffer ==
  ASSUME Presplitting!PresplitAssumption, NEW ps, NEW bud \in Nat, NEW px, NEW ix, ItemsOK(px, ix),
         NEW c \in 0 .. NumPrims, Placed(ps, bud, px, ix, c, c .. NumPrims - 1),
         NEW s \in AllSlots(px, ix, c), NEW t \in AllSlots(px, ix, c),
         ps[s] = ps[t]
  PROVE  s = t
  <1> DEFINE st == c .. NumPrims - 1
             P == Presplitting!Prims
             all == AllSlots(px, ix, c)
  <1>1. /\ \A r \in all \ P : HoldsFurther(ps, px, ix, c, r)
        /\ \A r \in P : HoldsFirst(ps, ix, c, r)
    BY PlacedSlots
  <1>2. st \subseteq P /\ \A j \in P : Fur(px, ix)[j] \in Nat
    BY FurType
  <1>3. \A r \in P : ps[r].prim = r /\ ps[r].piece \in {0, 1}
    <2> SUFFICES ASSUME NEW r \in P PROVE ps[r].prim = r /\ ps[r].piece \in {0, 1}
      OBVIOUS
    <2>1. ps[r] = Presplitting!Piece(r, 1) \/ ps[r] = Presplitting!Whole(r)
      BY <1>1 DEF HoldsFirst
    <2> QED
      BY <2>1 DEF Presplitting!Piece, Presplitting!Whole
  <1>4. \A r \in all \ P :
          \E j \in st : \E i \in 1 .. Fur(px, ix)[j] :
            /\ r = NumPrims + Off(px, ix, c, j) + i - 1 /\ i \in Nat \ {0}
            /\ ps[r].prim = ix[j] /\ ps[r].piece = i + 1
    <2> SUFFICES ASSUME NEW r \in all \ P
                 PROVE  \E j \in st : \E i \in 1 .. Fur(px, ix)[j] :
                          /\ r = NumPrims + Off(px, ix, c, j) + i - 1 /\ i \in Nat \ {0}
                          /\ ps[r].prim = ix[j] /\ ps[r].piece = i + 1
      OBVIOUS
    <2>1. PICK j \in st : \E i \in 1 .. Fur(px, ix)[j] :
             r = NumPrims + Off(px, ix, c, j) + i - 1 /\ ps[r] = Presplitting!Piece(ix[j], i + 1)
      BY <1>1 DEF HoldsFurther
    <2>2. PICK i \in 1 .. Fur(px, ix)[j] :
             r = NumPrims + Off(px, ix, c, j) + i - 1 /\ ps[r] = Presplitting!Piece(ix[j], i + 1)
      BY <2>1
    <2>3. i \in Nat \ {0}
      BY <1>2
    <2>4. ps[r].prim = ix[j] /\ ps[r].piece = i + 1
      BY <2>2 DEF Presplitting!Piece
    <2> QED
      BY <2>2, <2>3, <2>4
  <1>5. CASE s \in P /\ t \in P
    BY <1>3, <1>5
  <1>6. CASE s \in P /\ t \notin P
    BY <1>3, <1>4, <1>6
  <1>7. CASE s \notin P /\ t \in P
    BY <1>3, <1>4, <1>7
  <1>8. CASE s \notin P /\ t \notin P
    <2>1. PICK j \in st : \E i \in 1 .. Fur(px, ix)[j] :
            /\ s = NumPrims + Off(px, ix, c, j) + i - 1 /\ i \in Nat \ {0}
            /\ ps[s].prim = ix[j] /\ ps[s].piece = i + 1
      BY <1>4, <1>8
    <2>2. PICK i \in 1 .. Fur(px, ix)[j] :
            /\ s = NumPrims + Off(px, ix, c, j) + i - 1 /\ i \in Nat \ {0}
            /\ ps[s].prim = ix[j] /\ ps[s].piece = i + 1
      BY <2>1
    <2>3. PICK k \in st : \E n \in 1 .. Fur(px, ix)[k] :
            /\ t = NumPrims + Off(px, ix, c, k) + n - 1 /\ n \in Nat \ {0}
            /\ ps[t].prim = ix[k] /\ ps[t].piece = n + 1
      BY <1>4, <1>8
    <2>4. PICK n \in 1 .. Fur(px, ix)[k] :
            /\ t = NumPrims + Off(px, ix, c, k) + n - 1 /\ n \in Nat \ {0}
            /\ ps[t].prim = ix[k] /\ ps[t].piece = n + 1
      BY <2>3
    <2>5. ix[j] = ix[k] /\ i = n
      BY <2>2, <2>4
    <2>6. j = k
      BY <1>2, <2>5 DEF ItemsOK
    <2> QED
      BY <2>2, <2>4, <2>5, <2>6
  <1> QED
    BY <1>5, <1>6, <1>7, <1>8

(* The slots of the result hold the primitives that stay whole and every    *)
(* piece of the others.                                                     *)
SplitFrom(ix, c) == {ix[j] : j \in c .. NumPrims - 1}

Held(ps, px, ix, c) == {ps[s] : s \in AllSlots(px, ix, c)}

Wanted(px, ones) ==
  {Presplitting!Whole(p) : p \in Presplitting!Prims \ ones}
    \union UNION {{Presplitting!Piece(p, i) : i \in 1 .. px[p]} : p \in ones}

LEMMA SlotsHold ==
  ASSUME Presplitting!PresplitAssumption, NEW ps, NEW bud \in Nat, NEW px, NEW ix, ItemsOK(px, ix),
         NEW c \in 0 .. NumPrims, Placed(ps, bud, px, ix, c, c .. NumPrims - 1)
  PROVE  Held(ps, px, ix, c) = Wanted(px, SplitFrom(ix, c))
  <1> DEFINE P == Presplitting!Prims
             all == AllSlots(px, ix, c)
             st == c .. NumPrims - 1
             ones == SplitFrom(ix, c)
  <1>1. /\ \A r \in all \ P : HoldsFurther(ps, px, ix, c, r)
        /\ \A r \in P : HoldsFirst(ps, ix, c, r)
        /\ P \subseteq all
    BY PlacedSlots
  <1>2. st \subseteq P /\ \A j \in P : Fur(px, ix)[j] = px[ix[j]] - 1 /\ Fur(px, ix)[j] \in Nat
    BY FurType
  <1>3. \A p \in P : px[p] \in Nat /\ px[p] >= 1
    <2>1. Presplitting!MAX_PRESPLITS_PER_PRIMITIVE \in Nat
      BY MaxPresplits
    <2> QED
      BY <2>1 DEF ItemsOK
  <1>4. ones \subseteq P /\ \A s : (\E j \in st : ix[j] = s) <=> s \in ones
    BY <1>2 DEF ItemsOK, SplitFrom
  <1> HIDE DEF ones
  <1>5. ASSUME NEW s \in all
        PROVE  ps[s] \in Wanted(px, ones)
    <2> USE DEF Wanted
    <2>1. CASE s \in P /\ s \in ones
      <3>1. ps[s] = Presplitting!Piece(s, 1)
        BY <1>1, <1>4, <2>1 DEF HoldsFirst
      <3>2. 1 \in 1 .. px[s]
        BY <1>3, <2>1
      <3> QED
        BY <2>1, <3>1, <3>2
    <2>2. CASE s \in P /\ s \notin ones
      <3>1. ps[s] = Presplitting!Whole(s)
        BY <1>1, <1>4, <2>2 DEF HoldsFirst
      <3> QED
        BY <2>2, <3>1
    <2>3. CASE s \notin P
      <3>1. PICK j \in st : \E i \in 1 .. Fur(px, ix)[j] : ps[s] = Presplitting!Piece(ix[j], i + 1)
        BY <1>1, <2>3 DEF HoldsFurther
      <3>2. PICK i \in 1 .. Fur(px, ix)[j] : ps[s] = Presplitting!Piece(ix[j], i + 1)
        BY <3>1
      <3>3. ix[j] \in ones /\ px[ix[j]] \in Nat /\ Fur(px, ix)[j] = px[ix[j]] - 1
        BY <1>2, <1>3, <1>4
      <3>4. i + 1 \in 1 .. px[ix[j]]
        BY <3>3
      <3> QED
        BY <3>2, <3>3, <3>4
    <2> QED
      BY <2>1, <2>2, <2>3
  <1>6. ASSUME NEW p \in P \ ones
        PROVE  \E s \in all : ps[s] = Presplitting!Whole(p)
    BY <1>1, <1>4 DEF HoldsFirst
  <1>7. ASSUME NEW p \in ones, NEW i \in 1 .. px[p]
        PROVE  \E s \in all : ps[s] = Presplitting!Piece(p, i)
    <2>1. p \in P /\ px[p] \in Nat
      BY <1>3, <1>4
    <2>2. CASE i = 1
      <3>1. ps[p] = Presplitting!Piece(p, 1)
        BY <1>1, <1>4, <2>1 DEF HoldsFirst
      <3> QED
        BY <1>1, <2>1, <2>2, <3>1
    <2>3. CASE i # 1
      <3>1. PICK j \in st : ix[j] = p
        BY <1>4
      <3>2. i - 1 \in 1 .. Fur(px, ix)[j]
        BY <1>2, <2>1, <2>3, <3>1
      <3> DEFINE n == i - 1
                 s == NumPrims + Off(px, ix, c, j) + n - 1
      <3>3. i = n + 1
        BY <2>1
      <3> HIDE DEF n
      <3>4. s \in NumPrims .. NumPrims + Off(px, ix, c, NumPrims) - 1
        BY <3>2, PlacesApart DEF n
      <3>5. s \in all
        <4>1. NumPrims \in Nat
          BY DEF Presplitting!PresplitAssumption
        <4> HIDE DEF s
        <4> QED
          BY <3>4, <4>1 DEF AllSlots
      <3>6. ps[s] = Presplitting!Piece(p, n + 1)
        BY <3>1, <3>2 DEF Placed, n
      <3> QED
        BY <3>3, <3>5, <3>6
    <2> QED
      BY <2>2, <2>3
  <1>8. Held(ps, px, ix, c) = Wanted(px, ones)
    BY <1>5, <1>6, <1>7 DEF Held, Wanted
  <1> QED
    BY <1>8 DEF ones

LEMMA PresplitResult ==
  ASSUME Presplitting!PresplitAssumption, PresplitInv
  PROVE  Presplitting!ResultExact
  <1> SUFFICES ASSUME stage = "done"
               PROVE  /\ {prims[s] : s \in 0 .. size - 1} = Presplitting!Expected
                      /\ Presplitting!Cardinality(Presplitting!Expected) = size
    BY DEF Presplitting!ResultExact
  <1> DEFINE o == Off(pieces, index, center, NumPrims)
             S == 0 .. size - 1
             E == Presplitting!Expected
  <1>1. /\ budget \in Nat /\ ItemsOK(pieces, index) /\ center \in 0 .. NumPrims
        /\ Placed(prims, budget, pieces, index, center, center .. NumPrims - 1)
        /\ size = NumPrims + o /\ stored = center .. NumPrims - 1
    BY DEF PresplitInv, StoreInv
  <1>2. NumPrims \in Nat /\ o \in Nat
    <2>1. NumPrims \in Nat /\ NumPrims \in center .. NumPrims
      BY <1>1 DEF Presplitting!PresplitAssumption
    <2> QED
      BY <1>1, <2>1, OffFacts
  <1>3. S = AllSlots(pieces, index, center)
    <2>1. size = NumPrims + o
      BY <1>1
    <2>2. AllSlots(pieces, index, center) = 0 .. NumPrims + o - 1
      BY DEF AllSlots
    <2> HIDE DEF o
    <2> QED
      BY <1>2, <2>1, <2>2
  <1> HIDE DEF o, S
  <1>4. {prims[s] : s \in S} = E
    <2>1. Presplitting!SplitOnes = SplitFrom(index, center)
      BY <1>1 DEF Presplitting!SplitOnes, SplitFrom
    <2>2. Held(prims, pieces, index, center) = Wanted(pieces, SplitFrom(index, center))
      <3>1. Presplitting!PresplitAssumption /\ budget \in Nat /\ center \in 0 .. NumPrims
        BY <1>1
      <3>2. ItemsOK(pieces, index) /\ Placed(prims, budget, pieces, index, center, center .. NumPrims - 1)
        BY <1>1
      <3> QED
        BY <3>1, <3>2, SlotsHold
    <2> QED
      BY <1>3, <2>1, <2>2 DEF Presplitting!Expected, Held, Wanted
  <1>5. \A s, t \in S : prims[s] = prims[t] => s = t
    BY <1>1, <1>3, SlotsDiffer
  <1>6. ExistsBijection(S, E)
    <2> DEFINE h == [s \in S |-> prims[s]]
    <2> HIDE DEF E
    <2>1. h \in [S -> E]
      BY <1>4
    <2>2. \A e \in E : \E s \in S : h[s] = e
      BY <1>4
    <2>3. \A s, t \in S : h[s] = h[t] => s = t
      BY <1>5
    <2> HIDE DEF h
    <2>4. h \in Bijection(S, E)
      BY <2>1, <2>2, <2>3 DEF Bijection, Injection, Surjection, IsInjective
    <2> QED
      BY <2>4 DEF ExistsBijection
  <1>7. IsFiniteSet(S) /\ Cardinality(S) = size
    <2>1. size \in Nat /\ size - 1 \in Int
      BY <1>1, <1>2
    <2>2. /\ IsFiniteSet(0 .. size - 1)
          /\ Cardinality(0 .. size - 1) = IF 0 > size - 1 THEN 0 ELSE size - 1 - 0 + 1
      BY <2>1, FS_Interval
    <2> QED
      BY <2>1, <2>2 DEF S
  <1> HIDE DEF E
  <1>8. Cardinality(E) = size
    BY <1>6, <1>7, FS_Bijection
  <1>9. Presplitting!Cardinality(E) = Cardinality(E)
    BY DEF Presplitting!Cardinality, Cardinality
  <1> QED
    BY <1>4, <1>8, <1>9 DEF E, S

(* Items further on have at least as many pieces.                           *)
LEMMA SortedUp ==
  ASSUME Presplitting!PresplitAssumption, NEW dt \in [Presplitting!Prims -> Nat \ {0}],
         NEW ix \in [Presplitting!Prims -> Presplitting!Prims],
         NEW f, Sorted(dt, ix, f), NEW k \in Presplitting!Prims, NEW j \in Presplitting!Prims, k <= j
  PROVE  dt[ix[k]] <= dt[ix[j]]
  <1> DEFINE C == {m \in k .. j : dt[ix[m]] < dt[ix[k]]}
  <1>1. NumPrims \in Nat \ {0} /\ Presplitting!Prims = 0 .. NumPrims - 1
    BY DEF Presplitting!PresplitAssumption, Presplitting!Prims
  <1>2. \A m \in Presplitting!Prims : dt[ix[m]] \in Nat \ {0}
    OBVIOUS
  <1>3. f \in 0 .. NumPrims
    BY DEF Sorted
  <1>4. CASE k < f
    <2>1. dt[ix[k]] <= 1
      BY <1>4 DEF Sorted
    <2> QED
      BY <1>2, <2>1
  <1>5. CASE ~ (k < f)
    <2> SUFFICES ASSUME C # {} PROVE FALSE
      <3>1. j \in k .. j
        BY <1>1
      <3>2. C = {} => ~ (dt[ix[j]] < dt[ix[k]])
        BY <3>1
      <3> QED
        BY <1>2, <3>2
    <2>1. PICK m \in C : \A n \in C : m <= n
      <3>1. C \in SUBSET Nat
        BY <1>1
      <3> HIDE DEF C
      <3> QED
        BY <3>1, SmallestNat
    <2>2. m \in k .. j /\ dt[ix[m]] < dt[ix[k]] /\ m # k
      BY <1>2, <2>1
    <2>3. m - 1 \in k .. j /\ m - 1 \notin C
      <3>1. m - 1 \in k .. j /\ ~ (m <= m - 1)
        BY <1>1, <2>2
      <3> QED
        BY <2>1, <3>1
    <2>4. m \in f + 1 .. NumPrims - 1
      BY <1>1, <1>3, <1>5, <2>2
    <2>5. dt[ix[m - 1]] <= dt[ix[m]]
      BY <2>4 DEF Sorted
    <2>6. m \in Presplitting!Prims /\ m - 1 \in Presplitting!Prims
      BY <1>1, <2>2, <2>3
    <2> QED
      BY <1>2, <2>2, <2>3, <2>5, <2>6
  <1> QED
    BY <1>4, <1>5

LEMMA PresplitWorthiest ==
  ASSUME Presplitting!PresplitAssumption, PresplitInv
  PROVE  Presplitting!WorthiestSplit
  <1> SUFFICES ASSUME stage = "done", NEW p \in Presplitting!SplitOnes,
                      NEW q \in Presplitting!Prims \ Presplitting!SplitOnes
               PROVE  data[q] <= data[p]
    BY DEF Presplitting!WorthiestSplit
  <1>1. /\ data \in [Presplitting!Prims -> Nat \ {0}] /\ ItemsOK(pieces, index)
        /\ stored = center .. NumPrims - 1 /\ center \in 0 .. NumPrims
        /\ Sorted(data, index, first)
    BY DEF PresplitInv, StoreInv, CountInv
  <1>2. NumPrims \in Nat /\ Presplitting!Prims = 0 .. NumPrims - 1
    BY DEF Presplitting!PresplitAssumption, Presplitting!Prims
  <1>3. PICK j \in center .. NumPrims - 1 : index[j] = p
    BY <1>1 DEF Presplitting!SplitOnes
  <1>4. PICK k \in Presplitting!Prims : index[k] = q
    BY <1>1 DEF ItemsOK
  <1>5. k \notin stored
    BY <1>4 DEF Presplitting!SplitOnes
  <1>6. j \in Presplitting!Prims /\ k <= j
    BY <1>1, <1>2, <1>5
  <1>7. index \in [Presplitting!Prims -> Presplitting!Prims]
    BY <1>1 DEF ItemsOK
  <1>8. data[index[k]] <= data[index[j]]
    BY <1>1, <1>6, <1>7, SortedUp
  <1> QED
    BY <1>3, <1>4, <1>8

LEMMA PresplitBudget ==
  ASSUME Presplitting!PresplitAssumption, PresplitInv
  PROVE  Presplitting!WithinBudget
  <1>1. DOMAIN prims = Presplitting!Slots
    BY DEF PresplitInv, Placed, Presplitting!Slots
  <1>2. ASSUME stage \in {"store", "done"}
        PROVE  size <= NumPrims + budget
    <2> DEFINE o == Off(pieces, index, center, NumPrims)
    <2>1. size = NumPrims + o /\ o <= budget /\ budget \in Nat
      BY <1>2 DEF PresplitInv, StoreInv
    <2>2. NumPrims \in Nat /\ o \in Nat
      <3>1. NumPrims \in Nat /\ NumPrims \in center .. NumPrims
        BY DEF Presplitting!PresplitAssumption, PresplitInv
      <3> QED
        BY <3>1, OffFacts DEF PresplitInv
    <2> HIDE DEF o
    <2> QED
      BY <2>1, <2>2
  <1> QED
    BY <1>1, <1>2 DEF Presplitting!WithinBudget
------------------------------------------------------------------------------
(* The grid of splitPrimitive. The highest bit in which two numbers differ  *)
(* separates them: rounding the larger one down at this bit gives a number  *)
(* between them.                                                            *)
LEMMA Division ==
  ASSUME NEW x \in Nat, NEW s \in Nat \ {0}
  PROVE  x \div s \in Nat /\ (x \div s) * s <= x /\ x < (x \div s) * s + s
  OBVIOUS

LEMMA Quotient ==
  ASSUME NEW x \in Nat, NEW s \in Nat \ {0}, NEW q \in Nat, q * s <= x, x < q * s + s
  PROVE  x \div s = q
  OBVIOUS

LEMMA Parity ==
  ASSUME NEW x \in Nat
  PROVE  x = 2 * (x \div 2) + (x % 2) /\ x % 2 \in {0, 1} /\ x \div 2 \in Nat
  OBVIOUS

LEMMA NextBit ==
  ASSUME NEW x \in Nat, NEW s \in Nat \ {0}
  PROVE  x \div (2 * s) = (x \div s) \div 2
  <1> DEFINE q == x \div s
             p == q \div 2
             r == q % 2
             A == p * s
  <1>1. q \in Nat /\ q * s <= x /\ x < q * s + s
    BY Division
  <1> HIDE DEF q
  <1>2. q = 2 * p + r /\ r \in {0, 1} /\ p \in Nat
    BY <1>1, Parity
  <1> HIDE DEF p, r
  <1>3. A \in Nat /\ (q * s = 2 * A \/ q * s = 2 * A + s)
    <2>1. CASE r = 0
      BY <1>2, <2>1
    <2>2. CASE r = 1
      BY <1>2, <2>2
    <2> QED
      BY <1>2, <2>1, <2>2
  <1>4. p * (2 * s) = 2 * A /\ 2 * s \in Nat \ {0}
    BY <1>2
  <1> HIDE DEF A
  <1>5. p * (2 * s) <= x /\ x < p * (2 * s) + 2 * s
    BY <1>1, <1>3, <1>4
  <1>6. x \div (2 * s) = p
    BY <1>2, <1>4, <1>5, Quotient
  <1> QED
    BY <1>6 DEF p, q

LEMMA HighestBit ==
  ASSUME NEW f, IsPow2(f), NEW u \in Nat, NEW v \in Nat, u <= v, NEW G \in Nat, v < f[G + 1],
         NEW l \in 0 .. G, (u \div f[l]) % 2 # (v \div f[l]) % 2,
         \A k \in l + 1 .. G : (u \div f[k]) % 2 = (v \div f[k]) % 2
  PROVE  u < (v \div f[l]) * f[l] /\ (v \div f[l]) * f[l] <= v
  <1>1. \A n \in Nat : f[n] \in Nat \ {0} /\ f[n + 1] = 2 * f[n]
    BY Pow2Facts
  <1>2. ASSUME NEW n \in Nat, NEW x \in Nat
        PROVE  /\ x \div f[n] \in Nat /\ (x \div f[n]) * f[n] <= x
               /\ x < (x \div f[n]) * f[n] + f[n]
    BY <1>1, Division
  <1>3. ASSUME NEW n \in Nat, NEW x \in Nat
        PROVE  /\ x \div f[n] = 2 * (x \div f[n + 1]) + ((x \div f[n]) % 2)
               /\ (x \div f[n]) % 2 \in {0, 1} /\ x \div f[n + 1] \in Nat
    <2>1. f[n] \in Nat \ {0} /\ f[n + 1] = 2 * f[n] /\ x \div f[n] \in Nat
      BY <1>1, <1>2
    <2>2. x \div f[n + 1] = (x \div f[n]) \div 2
      BY <2>1, NextBit
    <2> QED
      BY <2>1, <2>2, Parity
  <1> DEFINE C == {k \in l + 1 .. G + 1 : u \div f[k] # v \div f[k]}
  <1>4. C = {}
    <2> SUFFICES ASSUME C # {} PROVE FALSE
      OBVIOUS
    <2>1. C \in SUBSET Nat /\ IsFiniteSet(C)
      <3>1. l + 1 .. G + 1 \subseteq Nat
        OBVIOUS
      <3>2. IsFiniteSet(l + 1 .. G + 1)
        <4>1. l + 1 \in Int /\ G + 1 \in Int
          OBVIOUS
        <4> QED
          BY <4>1, FS_Interval
      <3>3. C \subseteq l + 1 .. G + 1
        OBVIOUS
      <3> HIDE DEF C
      <3>4. IsFiniteSet(C)
        BY <3>2, <3>3, FS_Subset
      <3> QED
        BY <3>1, <3>3, <3>4
    <2>2. PICK m \in C : \A n \in C : n <= m
      <3> HIDE DEF C
      <3> QED
        BY <2>1, LargestNat
    <2>3. m \in l + 1 .. G + 1 /\ m \in Nat /\ u \div f[m] # v \div f[m]
      BY <2>1, <2>2
    <2>4. m # G + 1
      <3>1. u < f[G + 1] /\ f[G + 1] \in Nat \ {0} /\ 0 * f[G + 1] = 0
        <4>1. f[G + 1] \in Nat \ {0}
          BY <1>1
        <4> QED
          BY <4>1
      <3>2. u \div f[G + 1] = 0 /\ v \div f[G + 1] = 0
        BY <3>1, Quotient
      <3> QED
        BY <2>3, <3>2
    <2>5. m \in l + 1 .. G /\ m + 1 \notin C /\ m + 1 \in l + 1 .. G + 1
      <3>1. m \in l + 1 .. G /\ m + 1 \in l + 1 .. G + 1 /\ ~ (m + 1 <= m)
        BY <2>3, <2>4
      <3> QED
        BY <2>2, <3>1
    <2>6. u \div f[m + 1] = v \div f[m + 1]
      BY <2>5
    <2>7. (u \div f[m]) % 2 = (v \div f[m]) % 2
      BY <2>5
    <2>8. u \div f[m] = 2 * (u \div f[m + 1]) + ((u \div f[m]) % 2)
      BY <1>3, <2>3
    <2>9. v \div f[m] = 2 * (v \div f[m + 1]) + ((v \div f[m]) % 2)
      BY <1>3, <2>3
    <2> QED
      BY <2>3, <2>6, <2>7, <2>8, <2>9
  <1>5. l \in Nat /\ u \div f[l + 1] = v \div f[l + 1]
    <2>1. l + 1 \in l + 1 .. G + 1 /\ l \in Nat
      OBVIOUS
    <2> QED
      BY <1>4, <2>1
  <1> DEFINE a == u \div f[l]
             b == v \div f[l]
             s == f[l]
  <1>6. a \in Nat /\ b \in Nat /\ s \in Nat \ {0} /\ b * s <= v
        /\ a * s <= u /\ u < a * s + s /\ v < b * s + s
    BY <1>1, <1>2, <1>5
  <1>7. b = a + 1 \/ a = b + 1
    <2>1. a = 2 * (u \div f[l + 1]) + (a % 2) /\ b = 2 * (v \div f[l + 1]) + (b % 2)
          /\ a % 2 \in {0, 1} /\ b % 2 \in {0, 1} /\ a % 2 # b % 2 /\ u \div f[l + 1] \in Nat
      BY <1>3, <1>5
    <2> HIDE DEF a, b
    <2> QED
      BY <1>5, <2>1
  <1> HIDE DEF a, b, s
  <1>8. CASE b = a + 1
    <2>1. b * s = a * s + s
      BY <1>6, <1>8
    <2> QED
      BY <1>6, <2>1 DEF a, b, s
  <1>9. CASE a = b + 1
    <2>1. a * s = b * s + s
      BY <1>6, <1>9
    <2>2. a * s \in Nat /\ b * s \in Nat
      BY <1>6
    <2> QED
      BY <1>6, <2>1, <2>2
  <1> QED
    BY <1>7, <1>8, <1>9

LEMMA GridPow2 == IsPow2(Splitting!Pow2)
  <1>1. Splitting!Pow2 = CHOOSE f : IsPow2(f)
    BY DEF Splitting!Pow2, IsPow2, IsPow
  <1> QED
    BY <1>1, Pow2Exists

(* A box within the grid.                                                   *)
BoxOK(b) ==
  /\ b \in [lower : [Splitting!Dims -> Int], upper : [Splitting!Dims -> Int]]
  /\ \A d \in Splitting!Dims :
       0 <= b.lower[d] /\ b.lower[d] <= b.upper[d] /\ b.upper[d] <= 10 * Splitting!Pow2[GridBits]

LEMMA CellsOK ==
  ASSUME Splitting!SplittingGridAssumption, NEW b, BoxOK(b), NEW d \in Splitting!Dims
  PROVE  LET u == Splitting!ilower(b, d)
             v == Splitting!iupper(b, d)
         IN /\ u \in Nat /\ v \in Nat /\ u <= v /\ v < Splitting!Pow2[GridBits + 1]
            /\ u # v => /\ \A K \in Nat : u < K => b.lower[d] + 2 < 10 * K
                        /\ \A K \in Nat : K <= v => 10 * K <= b.upper[d] - 2
  <1> DEFINE lo == b.lower[d]
             up == b.upper[d]
             P == Splitting!Pow2[GridBits]
             u == Splitting!ilower(b, d)
             v == Splitting!iupper(b, d)
  <1>1. lo \in Int /\ up \in Int /\ 0 <= lo /\ lo <= up /\ up <= 10 * P
    BY DEF BoxOK
  <1>2. P \in Nat \ {0} /\ Splitting!Pow2[GridBits + 1] = 2 * P
    <2>1. GridBits \in Nat
      BY DEF Splitting!SplittingGridAssumption
    <2> QED
      BY <2>1, GridPow2, Pow2Facts
  <1>3. u = (lo + 2) \div 10
    BY DEF Splitting!ilower, Splitting!glower
  <1>4. v = IF lo + 2 >= up - 2 THEN u ELSE (up - 2) \div 10
    BY DEF Splitting!iupper, Splitting!glower, Splitting!gupper
  <1> HIDE DEF lo, up, P, u, v
  <1>5. u \in Nat /\ 10 * u <= lo + 2 /\ lo + 2 < 10 * u + 10
    BY <1>1, <1>3
  <1>6. CASE lo + 2 >= up - 2
    <2>1. v = u
      BY <1>4, <1>6
    <2>2. u < 2 * P
      BY <1>1, <1>2, <1>5
    <2> QED
      BY <1>2, <1>5, <2>1, <2>2 DEF u, v
  <1>7. CASE ~ (lo + 2 >= up - 2)
    <2>1. v \in Nat /\ 10 * v <= up - 2 /\ up - 2 < 10 * v + 10
      BY <1>1, <1>4, <1>7
    <2>2. u <= v /\ v < 2 * P
      BY <1>1, <1>2, <1>5, <1>7, <2>1
    <2>3. \A K \in Nat : u < K => lo + 2 < 10 * K
      BY <1>1, <1>5
    <2>4. \A K \in Nat : K <= v => 10 * K <= up - 2
      BY <1>1, <2>1
    <2> QED
      BY <1>2, <1>5, <2>1, <2>2, <2>3, <2>4 DEF u, v, lo, up
  <1> QED
    BY <1>6, <1>7

(* Bit l of dimension d at place l * NumDims + d.                           *)
LEMMA Interleaved ==
  ASSUME Splitting!SplittingGridAssumption, NEW l \in 0 .. GridBits, NEW d \in Splitting!Dims
  PROVE  /\ l * NumDims + d \in 0 .. GridBits * NumDims + NumDims
         /\ GridBits * NumDims + NumDims \in Nat
         /\ (l * NumDims + d) \div NumDims = l
         /\ (l * NumDims + d) % NumDims = d
         /\ \A k \in l + 1 .. GridBits : l * NumDims + d < k * NumDims + d
  <1>1. NumDims \in Nat \ {0} /\ GridBits \in Nat /\ d \in Nat /\ d < NumDims /\ l \in Nat
    BY DEF Splitting!SplittingGridAssumption, Splitting!Dims
  <1>2. ASSUME NEW k \in Nat, NEW m \in Nat, m < k
        PROVE  m * NumDims \in Nat /\ k * NumDims \in Nat /\ m * NumDims < k * NumDims
    BY <1>1, <1>2
  <1>3. l * NumDims \in Nat /\ GridBits * NumDims \in Nat /\ l * NumDims <= GridBits * NumDims
    <2>1. l = GridBits \/ l < GridBits
      BY <1>1
    <2>2. CASE l = GridBits
      BY <1>1, <2>2
    <2>3. CASE l < GridBits
      BY <1>1, <1>2, <2>3
    <2> QED
      BY <2>1, <2>2, <2>3
  <1>4. (l * NumDims + d) \div NumDims = l /\ (l * NumDims + d) % NumDims = d
    <2>1. \A n, q, r : n \in Nat \ {0} /\ q \in Nat /\ r \in Nat /\ r < n =>
            (q * n + r) \div n = q /\ (q * n + r) % n = r
      OBVIOUS
    <2> QED
      BY <1>1, <2>1
  <1>5. \A k \in l + 1 .. GridBits : l * NumDims + d < k * NumDims + d
    <2> SUFFICES ASSUME NEW k \in l + 1 .. GridBits
                 PROVE  l * NumDims + d < k * NumDims + d
      OBVIOUS
    <2>1. k \in Nat /\ l < k
      BY <1>1
    <2>2. l * NumDims \in Nat /\ k * NumDims \in Nat /\ l * NumDims < k * NumDims
      BY <1>1, <1>2, <2>1
    <2> QED
      BY <1>1, <2>2
  <1> QED
    BY <1>1, <1>3, <1>4, <1>5

LEMMA DiffLargest ==
  ASSUME Splitting!SplittingGridAssumption, NEW b, Splitting!CanSplit(b)
  PROVE  LET diff == Splitting!Max(Splitting!DiffBits(b))
         IN /\ diff \in Splitting!DiffBits(b)
            /\ \A n \in Splitting!DiffBits(b) : n <= diff /\ n \in Nat
  <1> DEFINE D == Splitting!DiffBits(b)
             top == GridBits * NumDims + NumDims
  <1>1. D \subseteq 0 .. top
    BY Interleaved DEF Splitting!DiffBits
  <1>2. top \in Nat
    <2>1. 0 \in 0 .. GridBits /\ 0 \in Splitting!Dims
      BY DEF Splitting!SplittingGridAssumption, Splitting!Dims
    <2> QED
      BY <2>1, Interleaved
  <1>3. D # {}
    BY DEF Splitting!CanSplit
  <1> HIDE DEF D, top
  <1>4. IsFiniteSet(D)
    <2>1. IsFiniteSet(0 .. top)
      BY <1>2, FS_Interval
    <2> QED
      BY <1>1, <2>1, FS_Subset
  <1>5. D \in SUBSET Nat
    BY <1>1, <1>2
  <1>6. \E n \in D : \A m \in D : m <= n
    BY <1>3, <1>4, <1>5, LargestNat
  <1>7. Splitting!Max(D) \in D /\ \A m \in D : m <= Splitting!Max(D)
    BY <1>5, <1>6 DEF Splitting!Max
  <1> QED
    BY <1>5, <1>7 DEF D

(* The plane lies within the box, far enough from both ends.                *)
LEMMA PlaneInside ==
  ASSUME Splitting!SplittingGridAssumption, NEW b, BoxOK(b), Splitting!CanSplit(b)
  PROVE  LET plane == Splitting!split_pos(b)
         IN /\ plane[1] \in Splitting!Dims /\ plane[2] \in Int
            /\ plane = <<plane[1], plane[2]>>
            /\ b.lower[plane[1]] + 2 < plane[2] /\ plane[2] <= b.upper[plane[1]] - 2
  <1> DEFINE D == Splitting!DiffBits(b)
             diff == Splitting!Max(D)
  <1>1. diff \in D /\ \A n \in D : n <= diff /\ n \in Nat
    BY DiffLargest
  <1>2. PICK q \in (0 .. GridBits) \X Splitting!Dims :
          /\ diff = q[1] * NumDims + q[2]
          /\ Splitting!Bit(Splitting!ilower(b, q[2]), q[1]) # Splitting!Bit(Splitting!iupper(b, q[2]), q[1])
    BY <1>1 DEF Splitting!DiffBits
  <1> DEFINE l == q[1]
             d == q[2]
             u == Splitting!ilower(b, d)
             v == Splitting!iupper(b, d)
             f == Splitting!Pow2
  <1>3. l \in 0 .. GridBits /\ d \in Splitting!Dims
    BY <1>2
  <1>4. \A k \in 0 .. GridBits : Splitting!Bit(u, k) # Splitting!Bit(v, k) => k * NumDims + d \in D
    <2> SUFFICES ASSUME NEW k \in 0 .. GridBits, Splitting!Bit(u, k) # Splitting!Bit(v, k)
                 PROVE  k * NumDims + d \in D
      OBVIOUS
    <2> HIDE DEF d
    <2> DEFINE p == <<k, d>>
    <2>1. /\ p \in (0 .. GridBits) \X Splitting!Dims /\ p[1] = k /\ p[2] = d
          /\ Splitting!Bit(Splitting!ilower(b, p[2]), p[1]) # Splitting!Bit(Splitting!iupper(b, p[2]), p[1])
      BY <1>3
    <2> HIDE DEF p
    <2>2. p[1] * NumDims + p[2] \in D
      BY <2>1 DEF Splitting!DiffBits
    <2> QED
      BY <2>1, <2>2
  <1>5. /\ u \in Nat /\ v \in Nat /\ u <= v /\ v < f[GridBits + 1]
        /\ u # v => /\ \A K \in Nat : u < K => b.lower[d] + 2 < 10 * K
                    /\ \A K \in Nat : K <= v => 10 * K <= b.upper[d] - 2
    BY <1>3, CellsOK
  <1>6. GridBits \in Nat
    BY DEF Splitting!SplittingGridAssumption
  <1>7. diff \div NumDims = l /\ diff % NumDims = d
        /\ \A k \in l + 1 .. GridBits : diff < k * NumDims + d
    BY <1>2, <1>3, Interleaved
  <1>8. Splitting!split_pos(b) = <<d, 10 * ((v \div f[l]) * f[l])>>
    BY <1>7 DEF Splitting!split_pos
  <1>9. (u \div f[l]) % 2 # (v \div f[l]) % 2
    BY <1>2 DEF Splitting!Bit
  <1> HIDE DEF D, diff
  <1>10. \A k \in l + 1 .. GridBits : (u \div f[k]) % 2 = (v \div f[k]) % 2
    <2> SUFFICES ASSUME NEW k \in l + 1 .. GridBits, (u \div f[k]) % 2 # (v \div f[k]) % 2
                 PROVE  FALSE
      OBVIOUS
    <2>1. k \in 0 .. GridBits /\ diff < k * NumDims + d
      BY <1>3, <1>6, <1>7
    <2>2. k * NumDims + d \in D
      BY <1>4, <2>1 DEF Splitting!Bit
    <2>3. k * NumDims + d <= diff /\ k * NumDims + d \in Nat /\ diff \in Nat
      BY <1>1, <2>2
    <2> QED
      BY <2>1, <2>3
  <1> HIDE DEF l, d, u, v
  <1>11. IsPow2(f)
    BY GridPow2
  <1>12. f[l] \in Nat \ {0}
    BY <1>3, <1>11, Pow2Facts
  <1> HIDE DEF f
  <1> DEFINE K == (v \div f[l]) * f[l]
  <1>13. u < K /\ K <= v
    BY <1>3, <1>5, <1>6, <1>9, <1>10, <1>11, HighestBit
  <1>14. K \in Nat
    BY <1>5, <1>12, Division
  <1> HIDE DEF K
  <1>15. b.lower[d] + 2 < 10 * K /\ 10 * K <= b.upper[d] - 2
    BY <1>5, <1>13, <1>14
  <1>16. Splitting!split_pos(b) = <<d, 10 * K>>
    BY <1>8 DEF K
  <1> QED
    BY <1>3, <1>14, <1>15, <1>16

(* The calls of splitPrimitive, and those that are due: their primitives    *)
(* are in the grid, and the planes used on the way are not inside them.     *)
Boxlike == [lower : [Splitting!Dims -> Int], upper : [Splitting!Dims -> Int]]

Calls == [box : Boxlike, share : Nat \ {0}, planes : SUBSET (Splitting!Dims \X Int)]

CallOK(c) ==
  /\ c \in Calls /\ BoxOK(c.box)
  /\ \A p \in c.planes :
       p[2] <= c.box.lower[p[1]] + Rounding \/ p[2] >= c.box.upper[p[1]] - Rounding

SharesOf(t) == [i \in DOMAIN t |-> t[i].share]

ShareSum(t) == SumFunctionOnSet(SharesOf(t), DOMAIN t)

(* The fold of the model is a sum.                                          *)
IsShareFold(k, t) ==
  k = [s \in SUBSET DOMAIN t |-> IF s = {} THEN 0 ELSE t[Pick(s)].share + k[s \ {Pick(s)}]]

LEMMA ShareFoldIs ==
  ASSUME NEW t \in Seq(Calls)
  PROVE  Splitting!FoldSeq(LAMBDA c, n : c.share + n, 0, t) = ShareSum(t)
  <1> DEFINE G(k) == IsShareFold(k, t)
             g == SharesOf(t)
             S == DOMAIN t
  <1>1. Splitting!FoldSeq(LAMBDA c, n : c.share + n, 0, t) = (CHOOSE k : G(k))[S]
    BY DEF Splitting!FoldSeq, Splitting!FoldFunction, Splitting!FoldFunctionOnSet,
           Splitting!MapThenFoldSet, IsShareFold, Pick
  <1>2. \A s \in SUBSET S : s # {} => g[Pick(s)] = t[Pick(s)].share
    BY DEF Pick, SharesOf
  <1>3. ASSUME NEW k PROVE G(k) <=> IsSum(k, g, S)
    <2> HIDE DEF g
    <2> QED
      BY <1>2 DEF IsShareFold, IsSum
  <1> HIDE DEF g, G
  <1>4. IsFiniteSet(S)
    <2>1. S = 1 .. Len(t) /\ Len(t) \in Int
      OBVIOUS
    <2> QED
      BY <2>1, FS_Interval
  <1> HIDE DEF S
  <1>5. \E h : IsSum(h, g, S)
    BY <1>4, SumUnique
  <1>6. G(CHOOSE k : G(k))
    BY <1>3, <1>5
  <1>7. IsSum(CHOOSE k : G(k), g, S)
    BY <1>3, <1>6
  <1>8. IsSum(CHOOSE h : IsSum(h, g, S), g, S)
    BY <1>5
  <1>9. (CHOOSE k : G(k)) = CHOOSE h : IsSum(h, g, S)
    BY <1>4, <1>7, <1>8, SumUnique
  <1>10. SumFunctionOnSet(g, S) = (CHOOSE h : IsSum(h, g, S))[S]
    BY DEF SumFunctionOnSet, FoldFunctionOnSet, MapThenFoldSet, IsSum, Pick
  <1> QED
    BY <1>1, <1>9, <1>10 DEF ShareSum, g, S

LEMMA SharesFront ==
  ASSUME NEW s \in Seq(Calls), NEW t \in Seq(Calls), Len(s) = Len(t) + 1,
         \A i \in 1 .. Len(t) : t[i] = s[i + 1]
  PROVE  ShareSum(s) = s[1].share + ShareSum(t)
  <1> DEFINE n == Len(t)
             g == SharesOf(s)
             h == SharesOf(t)
  <1>1. n \in Nat /\ DOMAIN s = 1 .. n + 1 /\ DOMAIN t = 1 .. n
    OBVIOUS
  <1>2. ASSUME NEW i \in 1 .. n + 1 PROVE g[i] = s[i].share /\ g[i] \in Int
    <2>1. s[i] \in Calls
      BY <1>1
    <2> QED
      BY <1>1, <2>1 DEF SharesOf, Calls
  <1>3. ASSUME NEW i \in 1 .. n PROVE h[i] = g[i + 1]
    <2>1. i + 1 \in 1 .. n + 1 /\ t[i] = s[i + 1]
      BY <1>1
    <2> QED
      BY <1>1, <1>2, <2>1 DEF SharesOf
  <1>4. g[1] = s[1].share
    <2>1. 1 \in 1 .. n + 1
      BY <1>1
    <2> QED
      BY <1>2, <2>1
  <1> HIDE DEF n, g, h
  <1>5. SumFunctionOnSet(g, 1 .. n + 1) = g[1] + SumFunctionOnSet(h, 1 .. n)
    BY <1>1, <1>2, <1>3, SumShift
  <1> QED
    BY <1>1, <1>4, <1>5 DEF ShareSum, g, h

LEMMA SharesNat ==
  ASSUME NEW t \in Seq(Calls)
  PROVE  ShareSum(t) \in Nat /\ ShareSum(<<>>) = 0
  <1>1. DOMAIN t = 1 .. Len(t) /\ Len(t) \in Int
    OBVIOUS
  <1>2. IsFiniteSet(DOMAIN t)
    BY <1>1, FS_Interval
  <1>3. \A i \in DOMAIN t : SharesOf(t)[i] \in Nat
    <2> SUFFICES ASSUME NEW i \in DOMAIN t PROVE SharesOf(t)[i] \in Nat
      OBVIOUS
    <2>1. t[i] \in Calls
      OBVIOUS
    <2> QED
      BY <2>1 DEF SharesOf, Calls
  <1>4. ShareSum(t) \in Nat
    BY <1>2, <1>3, SumNat DEF ShareSum
  <1>5. DOMAIN <<>> = {}
    OBVIOUS
  <1> QED
    BY <1>4, <1>5, SumEmpty DEF ShareSum

(* Taking the first call, and putting two in its place.                     *)
LEMMA SharesNext ==
  ASSUME NEW t \in Seq(Calls), t # <<>>, NEW a \in Calls, NEW b \in Calls
  PROVE  /\ ShareSum(t) = Head(t).share + ShareSum(Tail(t))
         /\ ShareSum(<<a, b>> \o Tail(t)) = a.share + b.share + ShareSum(Tail(t))
         /\ Tail(t) \in Seq(Calls) /\ <<a, b>> \o Tail(t) \in Seq(Calls)
         /\ Head(t) = t[1] /\ 1 \in 1 .. Len(t)
         /\ \A i \in 1 .. Len(Tail(t)) : i + 1 \in 1 .. Len(t) /\ Tail(t)[i] = t[i + 1]
         /\ \A i \in 1 .. Len(<<a, b>> \o Tail(t)) :
              \/ (<<a, b>> \o Tail(t))[i] \in {a, b}
              \/ \E k \in 1 .. Len(t) : (<<a, b>> \o Tail(t))[i] = t[k]
  <1> DEFINE r == Tail(t)
             s == <<b>> \o r
             u == <<a, b>> \o r
  <1>1. /\ r \in Seq(Calls) /\ Len(t) = Len(r) + 1 /\ Head(t) = t[1] /\ Len(r) \in Nat
        /\ \A i \in 1 .. Len(r) : r[i] = t[i + 1]
    OBVIOUS
  <1> HIDE DEF r
  <1>2. s \in Seq(Calls) /\ Len(s) = Len(r) + 1 /\ s[1] = b /\ \A i \in 1 .. Len(r) : r[i] = s[i + 1]
    BY <1>1
  <1>3. u \in Seq(Calls) /\ Len(u) = Len(s) + 1 /\ u[1] = a /\ \A i \in 1 .. Len(s) : s[i] = u[i + 1]
    BY <1>1
  <1> HIDE DEF s, u
  <1>4. ShareSum(t) = t[1].share + ShareSum(r)
    BY <1>1, SharesFront
  <1>5. ShareSum(s) = b.share + ShareSum(r)
    BY <1>1, <1>2, SharesFront
  <1>6. ShareSum(u) = a.share + ShareSum(s)
    BY <1>2, <1>3, SharesFront
  <1>7. a.share \in Nat /\ b.share \in Nat /\ ShareSum(r) \in Nat
    BY <1>1, SharesNat DEF Calls
  <1>8. ShareSum(u) = a.share + b.share + ShareSum(r)
    BY <1>5, <1>6, <1>7
  <1>9. 1 \in 1 .. Len(t) /\ \A i \in 1 .. Len(r) : i + 1 \in 1 .. Len(t) /\ r[i] = t[i + 1]
    BY <1>1
  <1>10. ASSUME NEW i \in 1 .. Len(u)
         PROVE  u[i] \in {a, b} \/ \E k \in 1 .. Len(t) : u[i] = t[k]
    <2>1. CASE i = 1
      BY <1>3, <2>1
    <2>2. CASE i = 2
      <3>1. 1 \in 1 .. Len(s)
        BY <1>1, <1>2
      <3>2. u[2] = s[1]
        BY <1>3, <3>1
      <3> QED
        BY <1>2, <2>2, <3>2
    <2>3. CASE i # 1 /\ i # 2
      <3> DEFINE k == i - 2
      <3>1. k \in 1 .. Len(r) /\ k + 1 \in 1 .. Len(s) /\ i = (k + 1) + 1
        BY <1>1, <1>2, <1>3, <2>3
      <3> HIDE DEF k
      <3>2. u[i] = s[k + 1] /\ s[k + 1] = r[k]
        BY <1>2, <1>3, <3>1
      <3> QED
        BY <1>9, <3>1, <3>2
    <2> QED
      BY <2>1, <2>2, <2>3
  <1> QED
    BY <1>1, <1>3, <1>4, <1>8, <1>9, <1>10 DEF r, u

GridInv ==
  /\ asked \in Nat
  /\ todo \in Seq(Calls) /\ \A i \in 1 .. Len(todo) : CallOK(todo[i])
  /\ subPrims \in Seq(Boxlike) /\ \A i \in 1 .. Len(subPrims) : BoxOK(subPrims[i])
  /\ Len(subPrims) + ShareSum(todo) <= asked

LEMMA GridInit ==
  ASSUME Splitting!SplittingGridAssumption, Splitting!Init
  PROVE  GridInv
  <1>1. asked \in Nat \ {0} /\ subPrims = <<>>
    BY DEF Splitting!Init, Splitting!SplittingGridAssumption
  <1>2. PICK b \in Splitting!Boxes : todo = <<[box |-> b, share |-> asked, planes |-> {}]>>
    BY DEF Splitting!Init
  <1> DEFINE c == [box |-> b, share |-> asked, planes |-> {}]
  <1>3. PICK l \in [Splitting!Dims -> Corners], u \in [Splitting!Dims -> Corners] :
          b = [lower |-> l, upper |-> u] /\ \A d \in Splitting!Dims : b.lower[d] <= b.upper[d]
    BY DEF Splitting!Boxes, Splitting!Box
  <1>4. Splitting!Pow2[GridBits] \in Nat
    BY GridPow2, Pow2Facts DEF Splitting!SplittingGridAssumption
  <1>5. Corners \subseteq Int /\ \A x \in Corners : 0 <= x /\ x <= 10 * Splitting!Pow2[GridBits]
    BY <1>4 DEF Splitting!SplittingGridAssumption
  <1>6. BoxOK(b)
    <2>1. l \in [Splitting!Dims -> Int] /\ u \in [Splitting!Dims -> Int]
      BY <1>5
    <2>2. \A d \in Splitting!Dims : l[d] \in Corners /\ u[d] \in Corners
      OBVIOUS
    <2>3. b.lower = l /\ b.upper = u
      BY <1>3
    <2> QED
      BY <1>3, <1>5, <2>1, <2>2, <2>3 DEF BoxOK
  <1>7. c \in Calls
    BY <1>1, <1>6 DEF Calls, Boxlike, BoxOK
  <1>8. CallOK(c) /\ c.share = asked
    BY <1>6, <1>7 DEF CallOK
  <1> HIDE DEF c
  <1>9. todo = <<c>>
    BY <1>2 DEF c
  <1>10. todo \in Seq(Calls) /\ Len(todo) = 1 /\ todo[1] = c
    BY <1>7, <1>9
  <1>11. ShareSum(todo) = asked
    <2>1. <<>> \in Seq(Calls) /\ Len(<<>>) = 0
      OBVIOUS
    <2> DEFINE none == <<>>
    <2>2. Len(todo) = Len(none) + 1 /\ none \in Seq(Calls)
          /\ \A i \in 1 .. Len(none) : none[i] = todo[i + 1]
      BY <1>10, <2>1
    <2> HIDE DEF none
    <2>3. ShareSum(todo) = todo[1].share + ShareSum(none)
      BY <1>10, <2>2, SharesFront
    <2> QED
      BY <1>1, <1>8, <1>10, <2>1, <2>3, SharesNat DEF none
  <1>12. subPrims \in Seq(Boxlike) /\ Len(subPrims) = 0
    BY <1>1
  <1> QED
    BY <1>1, <1>8, <1>10, <1>11, <1>12 DEF GridInv

LEMMA GridEmit ==
  ASSUME Splitting!SplittingGridAssumption, GridInv, Splitting!Emit
  PROVE  GridInv'
  <1>1. /\ todo # <<>> /\ todo' = Tail(todo) /\ subPrims' = Append(subPrims, Head(todo).box)
        /\ asked' = asked
    BY DEF Splitting!Emit
  <1>2. /\ asked \in Nat /\ todo \in Seq(Calls) /\ \A i \in 1 .. Len(todo) : CallOK(todo[i])
        /\ subPrims \in Seq(Boxlike) /\ \A i \in 1 .. Len(subPrims) : BoxOK(subPrims[i])
        /\ Len(subPrims) + ShareSum(todo) <= asked
    BY DEF GridInv
  <1> DEFINE c == Head(todo)
  <1>3. PICK a \in Calls : a = todo[1]
    BY <1>1, <1>2
  <1>4. /\ ShareSum(todo) = Head(todo).share + ShareSum(Tail(todo)) /\ Tail(todo) \in Seq(Calls)
        /\ Head(todo) = todo[1] /\ 1 \in 1 .. Len(todo)
        /\ \A i \in 1 .. Len(Tail(todo)) : i + 1 \in 1 .. Len(todo) /\ Tail(todo)[i] = todo[i + 1]
    BY <1>1, <1>2, <1>3, SharesNext
  <1>5. CallOK(c) /\ c.share \in Nat \ {0} /\ c.box \in Boxlike /\ BoxOK(c.box)
    BY <1>2, <1>4 DEF CallOK, Calls
  <1> HIDE DEF c
  <1>6. subPrims' = Append(subPrims, c.box)
    BY <1>1 DEF c
  <1>7. /\ subPrims' \in Seq(Boxlike) /\ Len(subPrims') = Len(subPrims) + 1
        /\ Len(subPrims) \in Nat
        /\ \A i \in 1 .. Len(subPrims') : subPrims'[i] = c.box \/
             (i \in 1 .. Len(subPrims) /\ subPrims'[i] = subPrims[i])
    BY <1>2, <1>5, <1>6
  <1>8. \A i \in 1 .. Len(subPrims') : BoxOK(subPrims'[i])
    BY <1>2, <1>5, <1>7
  <1>9. todo' \in Seq(Calls) /\ \A i \in 1 .. Len(todo') : CallOK(todo'[i])
    BY <1>1, <1>2, <1>4
  <1>10. ShareSum(todo') \in Nat
    BY <1>9, SharesNat
  <1>11. ShareSum(todo) = c.share + ShareSum(todo')
    BY <1>1, <1>4 DEF c
  <1>12. Len(subPrims') + ShareSum(todo') <= asked
    BY <1>2, <1>5, <1>7, <1>10, <1>11
  <1> QED
    BY <1>1, <1>2, <1>7, <1>8, <1>9, <1>12 DEF GridInv

(* Both parts that a plane gives are within the box, and the plane is not   *)
(* inside of either.                                                        *)
LEMMA HalvesWithin ==
  ASSUME Splitting!SplittingGridAssumption, NEW b, BoxOK(b), NEW dim \in Splitting!Dims,
         NEW half \in {"all", "lower", "upper"}
  PROVE  LET h == Splitting!Half(b, dim, half)
         IN /\ h \in Boxlike /\ h = [lower |-> h.lower, upper |-> h.upper]
            /\ h.lower[dim] = b.lower[dim] /\ h.upper[dim] = b.upper[dim]
            /\ \A d \in Splitting!Dims :
                 b.lower[d] <= h.lower[d] /\ h.lower[d] <= h.upper[d] /\ h.upper[d] <= b.upper[d]
  <1> DEFINE D == Splitting!Dims
             m(d) == Splitting!Middle(b, d)
             h == Splitting!Half(b, dim, half)
  <1>1. \A d \in D : b.lower[d] \in Int /\ b.upper[d] \in Int /\ b.lower[d] <= b.upper[d]
    BY DEF BoxOK
  <1>2. \A d \in D : m(d) \in Int /\ b.lower[d] <= m(d) /\ m(d) <= b.upper[d]
    BY <1>1 DEF Splitting!Middle
  <1> HIDE DEF m
  <1>3. h = [lower |-> [d \in D |-> IF d # dim /\ half = "upper" THEN m(d) ELSE b.lower[d]],
             upper |-> [d \in D |-> IF d # dim /\ half = "lower" THEN m(d) ELSE b.upper[d]]]
    BY DEF Splitting!Half, Splitting!Box, m
  <1>4. /\ h.lower = [d \in D |-> IF d # dim /\ half = "upper" THEN m(d) ELSE b.lower[d]]
        /\ h.upper = [d \in D |-> IF d # dim /\ half = "lower" THEN m(d) ELSE b.upper[d]]
    BY <1>3
  <1>5. h.lower \in [D -> Int] /\ h.upper \in [D -> Int]
    BY <1>1, <1>2, <1>4
  <1>6. h.lower[dim] = b.lower[dim] /\ h.upper[dim] = b.upper[dim]
    BY <1>4
  <1>7. ASSUME NEW d \in D
        PROVE  b.lower[d] <= h.lower[d] /\ h.lower[d] <= h.upper[d] /\ h.upper[d] <= b.upper[d]
    <2>1. /\ h.lower[d] = IF d # dim /\ half = "upper" THEN m(d) ELSE b.lower[d]
          /\ h.upper[d] = IF d # dim /\ half = "lower" THEN m(d) ELSE b.upper[d]
      BY <1>4
    <2>2. /\ b.lower[d] \in Int /\ b.upper[d] \in Int /\ b.lower[d] <= b.upper[d]
          /\ m(d) \in Int /\ b.lower[d] <= m(d) /\ m(d) <= b.upper[d]
      BY <1>1, <1>2
    <2>3. CASE half = "lower"
      BY <2>1, <2>2, <2>3
    <2>4. CASE half = "upper"
      BY <2>1, <2>2, <2>4
    <2>5. CASE half = "all"
      BY <2>1, <2>2, <2>5
    <2> QED
      BY <2>3, <2>4, <2>5
  <1>8. h \in Boxlike /\ h = [lower |-> h.lower, upper |-> h.upper]
    BY <1>3, <1>5 DEF Boxlike
  <1> QED
    BY <1>6, <1>7, <1>8

(* A part as a call, given its corners.                                     *)
LEMMA PartOK ==
  ASSUME Splitting!SplittingGridAssumption, NEW c, CallOK(c), Splitting!CanSplit(c.box),
         NEW b, b \in Boxlike,
         \A d \in Splitting!Dims :
           /\ c.box.lower[d] <= b.lower[d] /\ b.lower[d] <= b.upper[d]
           /\ b.upper[d] <= c.box.upper[d],
         LET plane == Splitting!split_pos(c.box)
         IN \/ plane[2] <= b.lower[plane[1]] + Rounding
            \/ plane[2] >= b.upper[plane[1]] - Rounding,
         NEW n \in Nat \ {0},
         NEW k, k = [box |-> b, share |-> n, planes |-> c.planes \union {Splitting!split_pos(c.box)}]
  PROVE  CallOK(k)
  <1> DEFINE plane == Splitting!split_pos(c.box)
             D == Splitting!Dims
  <1>1. c \in Calls /\ BoxOK(c.box)
    BY DEF CallOK
  <1>2. plane[1] \in D /\ plane[2] \in Int /\ plane = <<plane[1], plane[2]>>
    BY <1>1, PlaneInside
  <1> HIDE DEF plane
  <1>3. plane \in D \X Int
    BY <1>2
  <1>4. k.box = b /\ k.planes = c.planes \union {plane} /\ k.share = n
    BY DEF plane
  <1>5. c.planes \union {plane} \subseteq D \X Int
    BY <1>1, <1>3 DEF Calls
  <1>6. k \in Calls
    BY <1>5 DEF Calls, plane
  <1>7. Rounding \in Int
    BY DEF Splitting!SplittingGridAssumption
  <1>8. \A d \in D : /\ c.box.lower[d] \in Int /\ c.box.upper[d] \in Int
                     /\ b.lower[d] \in Int /\ b.upper[d] \in Int
                     /\ 0 <= c.box.lower[d] /\ c.box.upper[d] <= 10 * Splitting!Pow2[GridBits]
    BY <1>1 DEF Boxlike, BoxOK
  <1>9. 10 * Splitting!Pow2[GridBits] \in Int
    BY GridPow2, Pow2Facts DEF Splitting!SplittingGridAssumption
  <1>10. BoxOK(b)
    <2>1. b \in [lower : [D -> Int], upper : [D -> Int]]
      BY DEF Boxlike
    <2>2. ASSUME NEW d \in D
          PROVE  0 <= b.lower[d] /\ b.lower[d] <= b.upper[d]
                 /\ b.upper[d] <= 10 * Splitting!Pow2[GridBits]
      BY <1>8, <1>9
    <2> QED
      BY <2>1, <2>2 DEF BoxOK
  <1>11. ASSUME NEW p \in c.planes
         PROVE  p[2] <= b.lower[p[1]] + Rounding \/ p[2] >= b.upper[p[1]] - Rounding
    <2>1. p[1] \in D /\ p[2] \in Int
      BY <1>1 DEF Calls
    <2>2. p[2] <= c.box.lower[p[1]] + Rounding \/ p[2] >= c.box.upper[p[1]] - Rounding
      BY DEF CallOK
    <2>3. c.box.lower[p[1]] <= b.lower[p[1]] /\ b.upper[p[1]] <= c.box.upper[p[1]]
      BY <2>1
    <2> QED
      BY <1>7, <1>8, <2>1, <2>2, <2>3
  <1>12. plane[2] <= b.lower[plane[1]] + Rounding \/ plane[2] >= b.upper[plane[1]] - Rounding
    BY DEF plane
  <1> QED
    BY <1>4, <1>6, <1>10, <1>11, <1>12 DEF CallOK

LEMMA GridSplit ==
  ASSUME Splitting!SplittingGridAssumption, GridInv, Splitting!Split
  PROVE  GridInv'
  <1> DEFINE c == Head(todo)
             b == c.box
             plane == Splitting!split_pos(b)
             dim == plane[1]
             pos == plane[2]
             D == Splitting!Dims
             Call(box, share) == [box |-> box, share |-> share, planes |-> c.planes \union {plane}]
  <1>1. /\ todo # <<>> /\ c.share # 1 /\ Splitting!CanSplit(b)
        /\ asked' = asked /\ subPrims' = subPrims
    BY DEF Splitting!Split
  <1>2. PICK h \in Splitting!Halves, error \in -Rounding .. Rounding :
          LET left == [Splitting!Half(b, dim, h[1]) EXCEPT !.upper[dim] = pos + error]
              right == [Splitting!Half(b, dim, h[2]) EXCEPT !.lower[dim] = pos + error]
          IN todo' = <<Call(left, c.share \div 2),
                       Call(right, c.share - c.share \div 2)>> \o Tail(todo)
    BY DEF Splitting!Split
  <1>3. /\ asked \in Nat /\ todo \in Seq(Calls) /\ \A i \in 1 .. Len(todo) : CallOK(todo[i])
        /\ subPrims \in Seq(Boxlike) /\ \A i \in 1 .. Len(subPrims) : BoxOK(subPrims[i])
        /\ Len(subPrims) + ShareSum(todo) <= asked
    BY DEF GridInv
  <1>4. CallOK(c) /\ c \in Calls
    <2>1. Head(todo) = todo[1] /\ 1 \in 1 .. Len(todo)
      BY <1>1, <1>3
    <2> QED
      BY <1>3, <2>1 DEF CallOK
  <1> DEFINE L == Splitting!Half(b, dim, h[1])
             R == Splitting!Half(b, dim, h[2])
             left == [L EXCEPT !.upper[dim] = pos + error]
             right == [R EXCEPT !.lower[dim] = pos + error]
             m == c.share \div 2
             k == Call(left, m)
             l == Call(right, c.share - m)
  <1>5. todo' = <<k, l>> \o Tail(todo)
    BY <1>2
  <1>6. BoxOK(b) /\ c.share \in Nat \ {0}
    BY <1>4 DEF CallOK, Calls
  <1>7. m \in Nat \ {0} /\ c.share - m \in Nat \ {0} /\ m + (c.share - m) = c.share
    BY <1>1, <1>6
  <1>8. dim \in D /\ pos \in Int /\ b.lower[dim] + 2 < pos /\ pos <= b.upper[dim] - 2
    BY <1>1, <1>6, PlaneInside
  <1>9. h[1] \in {"all", "lower", "upper"} /\ h[2] \in {"all", "lower", "upper"}
    BY DEF Splitting!Halves
  <1> HIDE DEF m, b, dim, pos
  <1>10. /\ L \in Boxlike /\ L = [lower |-> L.lower, upper |-> L.upper]
         /\ L.lower[dim] = b.lower[dim] /\ L.upper[dim] = b.upper[dim]
         /\ \A d \in D : b.lower[d] <= L.lower[d] /\ L.lower[d] <= L.upper[d] /\ L.upper[d] <= b.upper[d]
    BY <1>6, <1>8, <1>9, HalvesWithin
  <1>11. /\ R \in Boxlike /\ R = [lower |-> R.lower, upper |-> R.upper]
         /\ R.lower[dim] = b.lower[dim] /\ R.upper[dim] = b.upper[dim]
         /\ \A d \in D : b.lower[d] <= R.lower[d] /\ R.lower[d] <= R.upper[d] /\ R.upper[d] <= b.upper[d]
    BY <1>6, <1>8, <1>9, HalvesWithin
  <1> HIDE DEF L, R
  <1>12. Rounding \in {0, 1} /\ error \in Int /\ -Rounding <= error /\ error <= Rounding
    <2>1. Rounding \in {0, 1}
      BY DEF Splitting!SplittingGridAssumption
    <2> QED
      BY <2>1
  <1>13. b.lower[dim] \in Int /\ b.upper[dim] \in Int
    BY <1>6, <1>8 DEF BoxOK
  <1> DEFINE cut == pos + error
  <1>14. /\ cut \in Int /\ b.lower[dim] <= cut /\ cut <= b.upper[dim]
         /\ pos >= cut - Rounding /\ pos <= cut + Rounding
    BY <1>8, <1>12, <1>13
  <1>15. left.lower = L.lower /\ left.upper = [L.upper EXCEPT ![dim] = cut] /\ left \in Boxlike
    <2> HIDE DEF cut
    <2>1. L.lower \in [D -> Int] /\ L.upper \in [D -> Int]
      BY <1>10 DEF Boxlike
    <2>2. left = [lower |-> L.lower, upper |-> [L.upper EXCEPT ![dim] = cut]]
      BY <1>10 DEF cut
    <2>3. [L.upper EXCEPT ![dim] = cut] \in [D -> Int]
      BY <1>14, <2>1
    <2> HIDE DEF left
    <2> QED
      BY <2>1, <2>2, <2>3 DEF Boxlike
  <1>16. right.upper = R.upper /\ right.lower = [R.lower EXCEPT ![dim] = cut] /\ right \in Boxlike
    <2> HIDE DEF cut
    <2>1. R.lower \in [D -> Int] /\ R.upper \in [D -> Int]
      BY <1>11 DEF Boxlike
    <2>2. right = [lower |-> [R.lower EXCEPT ![dim] = cut], upper |-> R.upper]
      BY <1>11 DEF cut
    <2>3. [R.lower EXCEPT ![dim] = cut] \in [D -> Int]
      BY <1>14, <2>1
    <2> HIDE DEF right
    <2> QED
      BY <2>1, <2>2, <2>3 DEF Boxlike
  <1> HIDE DEF left, right, cut
  <1>17. ASSUME NEW d \in D
         PROVE  b.lower[d] <= left.lower[d] /\ left.lower[d] <= left.upper[d] /\ left.upper[d] <= b.upper[d]
    <2>1. L.upper \in [D -> Int]
      BY <1>10 DEF Boxlike
    <2>2. CASE d = dim
      BY <1>10, <1>13, <1>14, <1>15, <2>1, <2>2
    <2>3. CASE d # dim
      BY <1>10, <1>15, <2>1, <2>3
    <2> QED
      BY <2>2, <2>3
  <1>18. ASSUME NEW d \in D
         PROVE  b.lower[d] <= right.lower[d] /\ right.lower[d] <= right.upper[d]
                /\ right.upper[d] <= b.upper[d]
    <2>1. R.lower \in [D -> Int]
      BY <1>11 DEF Boxlike
    <2>2. CASE d = dim
      BY <1>11, <1>13, <1>14, <1>16, <2>1, <2>2
    <2>3. CASE d # dim
      BY <1>11, <1>16, <2>1, <2>3
    <2> QED
      BY <2>2, <2>3
  <1>19. left.upper[dim] = cut /\ right.lower[dim] = cut
    <2>1. L.upper \in [D -> Int] /\ R.lower \in [D -> Int]
      BY <1>10, <1>11 DEF Boxlike
    <2> QED
      BY <1>8, <1>15, <1>16, <2>1
  <1>20. CallOK(k)
    <2>1. \A d \in D : /\ c.box.lower[d] <= left.lower[d] /\ left.lower[d] <= left.upper[d]
                       /\ left.upper[d] <= c.box.upper[d]
      BY <1>17 DEF b
    <2>2. LET p == Splitting!split_pos(c.box)
          IN p[2] <= left.lower[p[1]] + Rounding \/ p[2] >= left.upper[p[1]] - Rounding
      BY <1>14, <1>19 DEF b, dim, pos
    <2>3. Splitting!CanSplit(c.box)
      BY <1>1 DEF b
    <2>4. k = [box |-> left, share |-> m, planes |-> c.planes \union {Splitting!split_pos(c.box)}]
      BY DEF b
    <2> HIDE DEF k
    <2> QED
      BY <1>4, <1>7, <1>15, <2>1, <2>2, <2>3, <2>4, PartOK
  <1>21. CallOK(l)
    <2> DEFINE n == c.share - m
    <2>1. \A d \in D : /\ c.box.lower[d] <= right.lower[d] /\ right.lower[d] <= right.upper[d]
                       /\ right.upper[d] <= c.box.upper[d]
      BY <1>18 DEF b
    <2>2. LET p == Splitting!split_pos(c.box)
          IN p[2] <= right.lower[p[1]] + Rounding \/ p[2] >= right.upper[p[1]] - Rounding
      BY <1>14, <1>19 DEF b, dim, pos
    <2>3. Splitting!CanSplit(c.box)
      BY <1>1 DEF b
    <2>4. l = [box |-> right, share |-> n, planes |-> c.planes \union {Splitting!split_pos(c.box)}]
      BY DEF b
    <2>5. n \in Nat \ {0}
      BY <1>7
    <2> HIDE DEF l, n
    <2> QED
      BY <1>4, <1>16, <2>1, <2>2, <2>3, <2>4, <2>5, PartOK
  <1>22. k.share = m /\ l.share = c.share - m
    OBVIOUS
  <1> HIDE DEF k, l
  <1>23. k \in Calls /\ l \in Calls
    BY <1>20, <1>21 DEF CallOK
  <1>24. /\ ShareSum(todo) = Head(todo).share + ShareSum(Tail(todo))
         /\ ShareSum(<<k, l>> \o Tail(todo)) = k.share + l.share + ShareSum(Tail(todo))
         /\ Tail(todo) \in Seq(Calls) /\ <<k, l>> \o Tail(todo) \in Seq(Calls)
         /\ \A i \in 1 .. Len(<<k, l>> \o Tail(todo)) :
              \/ (<<k, l>> \o Tail(todo))[i] \in {k, l}
              \/ \E n \in 1 .. Len(todo) : (<<k, l>> \o Tail(todo))[i] = todo[n]
    BY <1>1, <1>3, <1>23, SharesNext
  <1>25. ShareSum(todo') = ShareSum(todo)
    <2>1. ShareSum(Tail(todo)) \in Nat
      BY <1>24, SharesNat
    <2>2. ShareSum(todo) = c.share + ShareSum(Tail(todo))
      BY <1>24
    <2>3. ShareSum(todo') = m + (c.share - m) + ShareSum(Tail(todo))
      BY <1>5, <1>22, <1>24
    <2> HIDE DEF c
    <2> QED
      BY <1>7, <2>1, <2>2, <2>3
  <1>26. todo' \in Seq(Calls) /\ \A i \in 1 .. Len(todo') : CallOK(todo'[i])
    <2>1. \A i \in 1 .. Len(todo') : todo'[i] \in {k, l} \/ \E n \in 1 .. Len(todo) : todo'[i] = todo[n]
      BY <1>5, <1>24
    <2>2. todo' \in Seq(Calls)
      BY <1>5, <1>24
    <2> QED
      BY <1>3, <1>20, <1>21, <2>1, <2>2
  <1> QED
    BY <1>1, <1>3, <1>25, <1>26 DEF GridInv

LEMMA GridStays ==
  ASSUME GridInv, UNCHANGED ofSplit
  PROVE  GridInv'
  BY DEF GridInv, ofSplit

LEMMA GridCuts ==
  ASSUME Splitting!SplittingGridAssumption, GridInv
  PROVE  Splitting!PlanesCut
  <1>1. ASSUME NEW i \in DOMAIN todo, Splitting!CanSplit(todo[i].box)
        PROVE  LET b == todo[i].box
                   plane == Splitting!split_pos(b)
               IN /\ b.lower[plane[1]] + Rounding < plane[2]
                  /\ plane[2] < b.upper[plane[1]] - Rounding
                  /\ plane \notin todo[i].planes
    <2> DEFINE c == todo[i]
               b == c.box
               plane == Splitting!split_pos(b)
    <2>1. i \in 1 .. Len(todo)
      BY DEF GridInv
    <2>2. CallOK(c)
      BY <2>1 DEF GridInv
    <2> HIDE DEF c
    <2>3. BoxOK(b) /\ Splitting!CanSplit(b)
      BY <1>1, <2>2 DEF CallOK, c
    <2>4. /\ plane[1] \in Splitting!Dims /\ plane[2] \in Int
          /\ b.lower[plane[1]] + 2 < plane[2] /\ plane[2] <= b.upper[plane[1]] - 2
      BY <2>3, PlaneInside
    <2> HIDE DEF plane
    <2>5. b.lower[plane[1]] \in Int /\ b.upper[plane[1]] \in Int
      BY <2>3, <2>4 DEF BoxOK
    <2>6. Rounding \in {0, 1}
      BY DEF Splitting!SplittingGridAssumption
    <2>7. b.lower[plane[1]] + Rounding < plane[2] /\ plane[2] < b.upper[plane[1]] - Rounding
      BY <2>4, <2>5, <2>6
    <2>8. plane \notin c.planes
      BY <2>2, <2>4, <2>5, <2>6, <2>7 DEF CallOK
    <2> QED
      BY <2>7, <2>8 DEF plane, c
  <1>2. Len(subPrims) + Splitting!FoldSeq(LAMBDA c, n : c.share + n, 0, todo) <= asked
    <2>1. todo \in Seq(Calls) /\ Len(subPrims) + ShareSum(todo) <= asked
      BY DEF GridInv
    <2>2. Splitting!FoldSeq(LAMBDA c, n : c.share + n, 0, todo) = ShareSum(todo)
      BY <2>1, ShareFoldIs
    <2> QED
      BY <2>1, <2>2
  <1>3. \A i \in DOMAIN subPrims, d \in Splitting!Dims : subPrims[i].lower[d] <= subPrims[i].upper[d]
    <2>1. DOMAIN subPrims = 1 .. Len(subPrims) /\ \A i \in 1 .. Len(subPrims) : BoxOK(subPrims[i])
      BY DEF GridInv
    <2> QED
      BY <2>1 DEF BoxOK
  <1> QED
    BY <1>1, <1>2, <1>3 DEF Splitting!PlanesCut
------------------------------------------------------------------------------
(* Both runs together: each keeps its own invariant, and the other stays    *)
(* where it is.                                                             *)
SplittingInv ==
  /\ function = "presplit" => PresplitInv
  /\ function = "splitPrimitive" => GridInv

LEMMA SplittingStep ==
  ASSUME SplittingInv, [NextOfAny]_<<function, vars, ofPresplit, ofSplit>>
  PROVE  SplittingInv'
  <1>1. Presplitting!PresplitAssumption /\ Splitting!SplittingGridAssumption
    BY PresplittingAssumption, SplittingAssumption
  <1>2. CASE UNCHANGED <<function, ofPresplit, ofSplit>>
    BY <1>2, PresplitStays, GridStays DEF SplittingInv
  <1>3. CASE OpenCheck \/ OpenNothing \/ OpenPop \/ OpenPush \/ OpenPushed \/ OpenEmit \/ Ended
    BY <1>2, <1>3 DEF OpenCheck, OpenNothing, OpenPop, OpenPush, OpenPushed, OpenEmit, Ended,
                      KeepPresplit
  <1>4. CASE Weigh
    BY <1>1, <1>4, PresplitWeigh DEF Weigh, KeepOpening, SplittingInv
  <1>5. CASE Sort
    BY <1>1, <1>5, PresplitSort DEF Sort, KeepOpening, SplittingInv
  <1>6. CASE Count
    BY <1>1, <1>6, PresplitCount DEF Count, KeepOpening, SplittingInv
  <1>7. CASE ShrinkOne
    BY <1>1, <1>7, PresplitShrink DEF ShrinkOne, KeepOpening, SplittingInv
  <1>8. CASE Offsets
    BY <1>1, <1>8, PresplitOffsets DEF Offsets, KeepOpening, SplittingInv
  <1>9. CASE Store
    BY <1>1, <1>9, PresplitStore DEF Store, KeepOpening, SplittingInv
  <1>10. CASE Finish
    BY <1>1, <1>10, PresplitFinish DEF Finish, KeepOpening, SplittingInv
  <1>11. CASE EmitPiece
    BY <1>1, <1>11, GridEmit DEF EmitPiece, KeepOthers, SplittingInv
  <1>12. CASE SplitPiece
    BY <1>1, <1>12, GridSplit DEF SplitPiece, KeepOthers, SplittingInv
  <1> QED
    BY <1>2, <1>3, <1>4, <1>5, <1>6, <1>7, <1>8, <1>9, <1>10, <1>11, <1>12 DEF NextOfAny

(* The invariants of the parts hold whichever of them runs.                 *)
THEOREM SplittingKept == SpecOfAny => []SplittingInv
<1>1. InitOfAny => SplittingInv
  BY PresplitInit, GridInit, PresplittingAssumption, SplittingAssumption DEF InitOfAny, SplittingInv
<1>2. SplittingInv /\ [NextOfAny]_<<function, vars, ofPresplit, ofSplit>> => SplittingInv'
  BY SplittingStep
<1> QED
  BY <1>1, <1>2, PTL DEF SpecOfAny

(* Pre-splitting never stores a piece beyond the array of primitives, and   *)
(* what it reports as the number of primitives fits, however many pieces    *)
(* the splitter makes of each.                                              *)
THEOREM PiecesFit == SpecOfAny => []WithinBudget
<1>1. SplittingInv => WithinBudget
  BY PresplitBudget, PresplittingAssumption DEF SplittingInv, WithinBudget
<1> QED
  BY <1>1, SplittingKept, PTL

(* When pre-splitting ends, the array holds every primitive that stays      *)
(* whole once and every piece of the others once, without a gap: the tasks, *)
(* in whatever order they store, write to slots of their own, and the       *)
(* prefix sum counts exactly what they write.                               *)
THEOREM EveryPieceOnce == SpecOfAny => []PresplitExact
<1>1. SplittingInv => PresplitExact
  BY PresplitResult, PresplittingAssumption DEF SplittingInv, PresplitExact
<1> QED
  BY <1>1, SplittingKept, PTL

(* When the budget does not suffice for all, the primitives that are split  *)
(* are those worth most.                                                    *)
THEOREM WorthiestAreSplit == SpecOfAny => []WorthiestSplit
<1>1. SplittingInv => WorthiestSplit
  BY PresplitWorthiest, PresplittingAssumption DEF SplittingInv, WorthiestSplit
<1> QED
  BY <1>1, SplittingKept, PTL

(* Every plane that the grid names cuts the primitive for which it is used, *)
(* strictly inside, and was not used on the way to it, for every size of    *)
(* the grid and every number of dimensions; and splitPrimitive makes at     *)
(* most as many pieces as asked for.                                        *)
THEOREM PlanesAlwaysCut == SpecOfAny => []PlanesCut
<1>1. SplittingInv => PlanesCut
  BY GridCuts, SplittingAssumption DEF SplittingInv, PlanesCut
<1> QED
  BY <1>1, SplittingKept, PTL

------------------------------------------------------------------------------
(* Primitive j of geometry i, or the place after its last, is at position x.*)
StandsAt(gs, c, i, j, x) == i \in 0 .. c - 1 /\ j \in 0 .. gs[i] /\ Below(gs, i) + j = x

(* A task's loop over the positions from lo up to hi, counting marks of f.  *)
TaskAt(gs, c, lo, hi, tk, f) ==
  /\ tk.k \in lo .. hi
  /\ tk.N = Number(f, lo, tk.k)
  /\ tk.k < hi => StandsAt(gs, c, tk.i, tk.j, tk.k)

(* The end of the slice that comes next, in its geometry and as a position. *)
SliceStop(gs, tk, hi) ==
  IF gs[tk.i] < tk.j + hi - tk.k THEN gs[tk.i] ELSE tk.j + hi - tk.k

Reach(gs, tk, hi) == tk.k + SliceStop(gs, tk, hi) - tk.j

LEMMA SliceFacts ==
  ASSUME NEW gs, NEW c, GeometriesOK(gs, c), NEW lo \in Nat, NEW hi \in 0 .. Below(gs, c),
         NEW tk, NEW f, TaskAt(gs, c, lo, hi, tk, f), tk.k < hi
  PROVE  /\ tk.i \in 0 .. c - 1 /\ tk.j \in Nat /\ tk.k \in Nat /\ tk.k >= lo
         /\ SliceStop(gs, tk, hi) \in Nat /\ tk.j <= SliceStop(gs, tk, hi)
         /\ SliceStop(gs, tk, hi) <= gs[tk.i]
         /\ Reach(gs, tk, hi) \in tk.k .. hi
         /\ Reach(gs, tk, hi) < hi => Reach(gs, tk, hi) = Below(gs, tk.i + 1)
  <1>1. Below(gs, c) \in Nat /\ c \in Nat
    <2>1. c \in Nat
      BY DEF GeometriesOK
    <2>2. c \in 0 .. c
      BY <2>1
    <2> QED BY <2>1, <2>2, BelowFacts
  <1>2. tk.k \in lo .. hi /\ tk.i \in 0 .. c - 1 /\ tk.j \in 0 .. gs[tk.i] /\ Below(gs, tk.i) + tk.j = tk.k
    BY DEF TaskAt, StandsAt
  <1>3. /\ gs[tk.i] \in Nat /\ Below(gs, tk.i) \in Nat /\ hi \in Nat
        /\ Below(gs, tk.i + 1) = Below(gs, tk.i) + gs[tk.i]
    <2>1. tk.i \in 0 .. c
      BY <1>1, <1>2
    <2>2. Below(gs, tk.i) \in Nat /\ Below(gs, tk.i + 1) = Below(gs, tk.i) + gs[tk.i]
      BY <1>2, <2>1, BelowFacts
    <2>3. gs[tk.i] \in Nat
      BY <1>2 DEF GeometriesOK
    <2> QED BY <1>1, <2>2, <2>3
  <1> DEFINE j == tk.j
             k == tk.k
             s == gs[tk.i]
             b == Below(gs, tk.i)
             e == SliceStop(gs, tk, hi)
             r == Reach(gs, tk, hi)
  <1>4. /\ j \in 0 .. s /\ k \in lo .. hi /\ s \in Nat /\ b \in Nat /\ b + j = k /\ hi \in Nat
        /\ Below(gs, tk.i + 1) = b + s
    BY <1>2, <1>3
  <1>5. e = (IF s < j + hi - k THEN s ELSE j + hi - k) /\ r = k + e - j
    BY DEF SliceStop, Reach
  <1>6. k < hi
    OBVIOUS
  <1> HIDE DEF j, k, s, b, e, r
  <1>7. /\ j \in Nat /\ k \in Nat /\ k >= lo /\ e \in Nat /\ j <= e /\ e <= s
        /\ r \in k .. hi /\ (r < hi => r = b + s)
    BY <1>4, <1>5, <1>6
  <1> QED BY <1>2, <1>4, <1>7 DEF j, k, s, e, r

(* The slice's primitives are the items from there on.                      *)
LEMMA SliceItems ==
  ASSUME NEW gs, NEW c, GeometriesOK(gs, c), NEW lo \in Nat, NEW hi \in 0 .. Below(gs, c),
         NEW tk, NEW f, TaskAt(gs, c, lo, hi, tk, f), tk.k < hi
  PROVE  /\ \A p \in tk.j .. SliceStop(gs, tk, hi) - 1 :
              /\ p \in 0 .. gs[tk.i] - 1
              /\ Below(gs, tk.i) + p = tk.k + p - tk.j
              /\ tk.k + p - tk.j \in tk.k .. Reach(gs, tk, hi) - 1
              /\ Item(gs, c, tk.k + p - tk.j) = <<tk.i, p>>
         /\ \A x \in tk.k .. Reach(gs, tk, hi) - 1 :
              /\ x - tk.k + tk.j \in tk.j .. SliceStop(gs, tk, hi) - 1
              /\ Item(gs, c, x) = <<tk.i, x - tk.k + tk.j>>
         /\ \A x \in 0 .. Below(gs, c) - 1 :
              Item(gs, c, x)[1] = tk.i /\ Item(gs, c, x)[2] \in tk.j .. SliceStop(gs, tk, hi) - 1
                => x \in tk.k .. Reach(gs, tk, hi) - 1
  <1>1. /\ tk.i \in 0 .. c - 1 /\ tk.j \in Nat /\ tk.k \in Nat
        /\ SliceStop(gs, tk, hi) \in Nat /\ SliceStop(gs, tk, hi) <= gs[tk.i]
    BY SliceFacts
  <1>2. Below(gs, tk.i) + tk.j = tk.k /\ gs[tk.i] \in Nat /\ Below(gs, tk.i) \in Nat
    <2>1. Below(gs, tk.i) + tk.j = tk.k
      BY DEF TaskAt, StandsAt
    <2>2. c \in Nat /\ gs[tk.i] \in Nat
      BY <1>1 DEF GeometriesOK
    <2>3. tk.i \in 0 .. c
      BY <1>1, <2>2
    <2> QED BY <2>1, <2>2, <2>3, BelowFacts
  <1>3. ASSUME NEW p \in tk.j .. SliceStop(gs, tk, hi) - 1
        PROVE  /\ p \in 0 .. gs[tk.i] - 1
               /\ Below(gs, tk.i) + p = tk.k + p - tk.j
               /\ tk.k + p - tk.j \in tk.k .. Reach(gs, tk, hi) - 1
               /\ Item(gs, c, tk.k + p - tk.j) = <<tk.i, p>>
    <2>1. p \in 0 .. gs[tk.i] - 1 /\ Below(gs, tk.i) + p = tk.k + p - tk.j
      BY <1>1, <1>2
    <2>2. Item(gs, c, Below(gs, tk.i) + p) = <<tk.i, p>>
      BY <1>1, <2>1, ItemAt
    <2>3. tk.k + p - tk.j \in tk.k .. Reach(gs, tk, hi) - 1
      BY <1>1, <1>2 DEF Reach
    <2> QED BY <2>1, <2>2, <2>3
  <1>4. ASSUME NEW x \in tk.k .. Reach(gs, tk, hi) - 1
        PROVE  /\ x - tk.k + tk.j \in tk.j .. SliceStop(gs, tk, hi) - 1
               /\ Item(gs, c, x) = <<tk.i, x - tk.k + tk.j>>
    <2> DEFINE p == x - tk.k + tk.j
    <2>1. p \in tk.j .. SliceStop(gs, tk, hi) - 1 /\ tk.k + p - tk.j = x
      BY <1>1, <1>2 DEF Reach
    <2> HIDE DEF p
    <2>2. Item(gs, c, x) = <<tk.i, p>>
      BY <1>3, <2>1
    <2> QED BY <2>1, <2>2 DEF p
  <1>5. ASSUME NEW x \in 0 .. Below(gs, c) - 1,
               Item(gs, c, x)[1] = tk.i, Item(gs, c, x)[2] \in tk.j .. SliceStop(gs, tk, hi) - 1
        PROVE  x \in tk.k .. Reach(gs, tk, hi) - 1
    <2>1. Below(gs, Item(gs, c, x)[1]) + Item(gs, c, x)[2] = x
      BY ItemThere
    <2> DEFINE p == Item(gs, c, x)[2]
    <2>2. p \in tk.j .. SliceStop(gs, tk, hi) - 1 /\ Below(gs, tk.i) + p = x
      BY <1>5, <2>1
    <2> HIDE DEF p
    <2> QED BY <1>3, <2>2
  <1> QED BY <1>3, <1>4, <1>5

(* Past the slice, at the next geometry or at the end of the range.         *)
LEMMA TaskAdvances ==
  ASSUME NEW gs, NEW c, GeometriesOK(gs, c), NEW lo \in Nat, NEW hi \in 0 .. Below(gs, c),
         NEW tk, NEW f, TaskAt(gs, c, lo, hi, tk, f), tk.k < hi,
         NEW g, Agree(f, g, lo, tk.k), NEW x, x = Number(g, tk.k, Reach(gs, tk, hi)),
         NEW tl, tl = [i |-> tk.i + 1, j |-> 0, k |-> Reach(gs, tk, hi), N |-> tk.N + x]
  PROVE  TaskAt(gs, c, lo, hi, tl, g)
  <1>1. /\ tk.i \in 0 .. c - 1 /\ tk.k \in Nat /\ tk.k >= lo
        /\ Reach(gs, tk, hi) \in tk.k .. hi
        /\ Reach(gs, tk, hi) < hi => Reach(gs, tk, hi) = Below(gs, tk.i + 1)
    BY SliceFacts
  <1>2. c \in Nat /\ hi \in Nat /\ Reach(gs, tk, hi) \in Nat
    <2>1. c \in Nat
      BY DEF GeometriesOK
    <2>2. c \in 0 .. c
      BY <2>1
    <2>3. Below(gs, c) \in Nat
      BY <2>2, BelowFacts
    <2> QED BY <1>1, <2>1, <2>3
  <1>3. tl.k \in lo .. hi
    BY <1>1, <1>2
  <1>4. tl.N = Number(g, lo, tl.k)
    <2>1. Number(g, lo, Reach(gs, tk, hi)) = Number(g, lo, tk.k) + Number(g, tk.k, Reach(gs, tk, hi))
      BY <1>1, <1>2, NumberSplit
    <2>2. Number(g, lo, tk.k) = tk.N
      BY NumberSame DEF TaskAt
    <2> QED BY <2>1, <2>2
  <1>5. ASSUME tl.k < hi PROVE StandsAt(gs, c, tl.i, tl.j, tl.k)
    <2>1. Reach(gs, tk, hi) = Below(gs, tk.i + 1) /\ Reach(gs, tk, hi) < hi
      BY <1>1, <1>5
    <2>2. tk.i + 1 # c
      <3>1. Below(gs, c) >= hi
        OBVIOUS
      <3> QED BY <1>2, <2>1, <3>1
    <2>3. tk.i + 1 \in 0 .. c - 1
      BY <1>1, <1>2, <2>2
    <2>4. gs[tk.i + 1] \in Nat
      BY <2>3 DEF GeometriesOK
    <2>5. Below(gs, tk.i + 1) + 0 = Reach(gs, tk, hi)
      BY <1>2, <2>1
    <2>6. 0 \in 0 .. gs[tk.i + 1]
      BY <2>4
    <2>7. tl.i = tk.i + 1 /\ tl.j = 0 /\ tl.k = Reach(gs, tk, hi)
      OBVIOUS
    <2> QED BY <2>3, <2>5, <2>6, <2>7 DEF StandsAt
  <1> QED BY <1>3, <1>4, <1>5 DEF TaskAt

------------------------------------------------------------------------------
(* Pass 0. Of a slice from j up to e, those that are not the second of one  *)
(* of the pairs in m.                                                       *)
Alone(m, j, e) == {q \in j .. e - 1 : \A p \in m : p[2] # q}

Pair(m, q) == CHOOSE p \in m : p[1] = q

LEMMA RefsCardinality == \A S : PrimRefs!Cardinality(S) = Cardinality(S)
  BY DEF PrimRefs!Cardinality, Cardinality

LEMMA PairsLeave ==
  ASSUME NEW j \in Nat, NEW e \in Nat, NEW m, m \in PrimRefs!Pairings(j .. e - 1)
  PROVE  /\ Cardinality(Alone(m, j, e)) = Cardinality(j .. e - 1) - Cardinality(m)
         /\ \A q \in j .. e - 1 : (\E p \in m : p[1] = q) => Pair(m, q)[2] - q \in 1 .. 31
  <1> DEFINE r == j .. e - 1
             S == r \ Alone(m, j, e)
  <1>1. /\ \A p \in m : p \in r \X r /\ p[1] < p[2] /\ p[2] - p[1] <= 31
        /\ \A p, q \in m : p # q => {p[1], p[2]} \intersect {q[1], q[2]} = {}
    BY DEF PrimRefs!Pairings, PrimRefs!QUADIFIER_MAX_DISTANCE
  <1>2. \A p \in m : p[1] \in r /\ p[2] \in r
    BY <1>1
  <1>3. IsFiniteSet(r)
    <2>1. j \in Int /\ e - 1 \in Int
      OBVIOUS
    <2> QED BY <2>1, FS_Interval
  <1>4. IsFiniteSet(m)
    <2> HIDE DEF r
    <2>1. m \in SUBSET (r \X r)
      BY <1>1
    <2>2. IsFiniteSet(r \X r)
      BY <1>3, FS_Product
    <2> QED BY <2>1, <2>2, FS_Subset
  <1>5. ExistsBijection(m, S)
    <2> DEFINE h == [p \in m |-> p[2]]
    <2>1. h \in [m -> S]
      BY <1>2 DEF Alone
    <2>2. ASSUME NEW p \in m, NEW q \in m, h[p] = h[q] PROVE p = q
      <3>1. p[2] = q[2]
        BY <2>2
      <3>2. p[2] \in {p[1], p[2]} \intersect {q[1], q[2]}
        BY <3>1
      <3> QED BY <1>1, <3>2
    <2>3. \A q \in S : \E p \in m : h[p] = q
      BY DEF Alone
    <2> HIDE DEF h, S
    <2>4. h \in Bijection(m, S)
      BY <2>1, <2>2, <2>3 DEF Bijection, Injection, Surjection, IsInjective
    <2> QED BY <2>4 DEF ExistsBijection
  <1>6. IsFiniteSet(S) /\ Cardinality(S) = Cardinality(m)
    <2> HIDE DEF S
    <2> QED BY <1>4, <1>5, FS_Bijection
  <1>7. Cardinality(Alone(m, j, e)) = Cardinality(r) - Cardinality(S)
    <2>1. r \ S = Alone(m, j, e) /\ r \intersect S = S
      BY DEF Alone
    <2> HIDE DEF r, S
    <2>2. Cardinality(r \ S) = Cardinality(r) - Cardinality(r \intersect S)
      BY <1>3, FS_Difference
    <2> QED BY <2>1, <2>2
  <1>8. ASSUME NEW q \in r, \E p \in m : p[1] = q
        PROVE  Pair(m, q)[2] - q \in 1 .. 31
    <2> DEFINE p == Pair(m, q)
    <2>1. p \in m /\ p[1] = q
      BY <1>8 DEF Pair
    <2> HIDE DEF p
    <2>2. p[1] < p[2] /\ p[2] - p[1] <= 31 /\ p[1] \in Int /\ p[2] \in Int
      BY <1>1, <1>2, <2>1
    <2> DEFINE u == p[1]
               v == p[2]
    <2>3. u < v /\ v - u <= 31 /\ u \in Int /\ v \in Int
      BY <2>2
    <2>4. u = q
      BY <2>1
    <2> HIDE DEF u, v
    <2>5. v - u \in 1 .. 31
      BY <2>3
    <2> QED BY <2>4, <2>5 DEF p, v
  <1> QED BY <1>6, <1>7, <1>8

(* The items that are not the second of a quad, and of them the stored ones.*)
Single(qd, q) == qd[q] # PrimRefs!QUADIFIER_PAIRED

Sound(qd, vl, q) == q \in vl /\ <<q[1], q[2] + qd[q]>> \in vl

SinglesOf(gs, c, qd) ==
  [x \in 0 .. Below(gs, c) - 1 |-> IF Single(qd, Item(gs, c, x)) THEN 1 ELSE 0]

KeepersOf(gs, c, qd, vl) ==
  [x \in 0 .. Below(gs, c) - 1 |->
     IF Single(qd, Item(gs, c, x)) /\ Sound(qd, vl, Item(gs, c, x)) THEN 1 ELSE 0]

(* What pair_triangles stores for the pairs m of a slice of geometry i.     *)
Paired(P, qd, i, j, e, m) ==
  [q \in P |->
     IF q[1] # i \/ q[2] \notin j .. e - 1 THEN qd[q]
     ELSE IF \E p \in m : p[2] = q[2] THEN PrimRefs!QUADIFIER_PAIRED
     ELSE IF \E p \in m : p[1] = q[2] THEN Pair(m, q[2])[2] - q[2]
     ELSE 0]

LEMMA DistanceNotPaired == ASSUME NEW y, y \in 1 .. 31 \/ y = 0 PROVE y # PrimRefs!QUADIFIER_PAIRED
  BY DEF PrimRefs!QUADIFIER_PAIRED

ItemsIn(gs, c, P) == \A x \in 0 .. Below(gs, c) - 1 : Item(gs, c, x) \in P

(* The pairing changes the marks of the slice only, and leaves as many as   *)
(* are counted.                                                             *)
LEMMA PairingMarks ==
  ASSUME NEW gs, NEW c, GeometriesOK(gs, c), NEW lo \in Nat, NEW hi \in 0 .. Below(gs, c),
         NEW tk, NEW f, TaskAt(gs, c, lo, hi, tk, f), tk.k < hi,
         NEW P, ItemsIn(gs, c, P), NEW qd, NEW m, m \in PrimRefs!Pairings(tk.j .. SliceStop(gs, tk, hi) - 1),
         NEW qe, qe = Paired(P, qd, tk.i, tk.j, SliceStop(gs, tk, hi), m)
  PROVE  /\ \A x \in 0 .. Below(gs, c) - 1 : x \notin tk.k .. Reach(gs, tk, hi) - 1 =>
              SinglesOf(gs, c, qe)[x] = SinglesOf(gs, c, qd)[x]
         /\ Number(SinglesOf(gs, c, qe), tk.k, Reach(gs, tk, hi))
              = Cardinality(tk.j .. SliceStop(gs, tk, hi) - 1) - Cardinality(m)
  <1> DEFINE n == Below(gs, c)
             j == tk.j
             k == tk.k
             e == SliceStop(gs, tk, hi)
             b == Reach(gs, tk, hi)
             g == SinglesOf(gs, c, qe)
  <1>1. j \in Nat /\ k \in Nat /\ e \in Nat /\ j <= e /\ b \in k .. hi /\ b = k + e - j
    BY SliceFacts DEF Reach
  <1>2. n \in Nat /\ hi <= n
    <2>1. c \in 0 .. c
      BY DEF GeometriesOK
    <2> QED BY <2>1, BelowFacts
  <1>3. \A x \in k .. b - 1 : x - k + j \in j .. e - 1 /\ Item(gs, c, x) = <<tk.i, x - k + j>>
    BY SliceItems
  <1>4. \A x \in 0 .. n - 1 :
          Item(gs, c, x)[1] = tk.i /\ Item(gs, c, x)[2] \in j .. e - 1 => x \in k .. b - 1
    BY SliceItems
  <1>5. /\ Cardinality(Alone(m, j, e)) = Cardinality(j .. e - 1) - Cardinality(m)
        /\ \A q \in j .. e - 1 : (\E p \in m : p[1] = q) => Pair(m, q)[2] - q \in 1 .. 31
    <2>1. j \in Nat /\ e \in Nat /\ m \in PrimRefs!Pairings(j .. e - 1)
      BY <1>1
    <2> HIDE DEF j, e
    <2> QED BY <2>1, PairsLeave
  <1>6. \A x \in 0 .. n - 1 :
          /\ g[x] = IF qe[Item(gs, c, x)] # PrimRefs!QUADIFIER_PAIRED THEN 1 ELSE 0
          /\ SinglesOf(gs, c, qd)[x] = IF qd[Item(gs, c, x)] # PrimRefs!QUADIFIER_PAIRED THEN 1 ELSE 0
    BY DEF SinglesOf, Single
  <1>7. qe = Paired(P, qd, tk.i, j, e, m) /\ \A x \in 0 .. n - 1 : Item(gs, c, x) \in P
    BY DEF ItemsIn
  <1> HIDE DEF n, j, k, e, b, g
  <1>8. ASSUME NEW x \in 0 .. n - 1, x \notin k .. b - 1
        PROVE  g[x] = SinglesOf(gs, c, qd)[x]
    <2>1. Item(gs, c, x)[1] # tk.i \/ Item(gs, c, x)[2] \notin j .. e - 1
      BY <1>4, <1>8
    <2>2. qe[Item(gs, c, x)] = qd[Item(gs, c, x)]
      BY <1>7, <2>1 DEF Paired
    <2> QED BY <1>6, <2>2
  <1>9. ASSUME NEW x \in k .. b - 1 PROVE g[x] = 1 <=> x - k + j \in Alone(m, j, e)
    <2> DEFINE p == x - k + j
               q == Item(gs, c, x)
    <2>1. p \in j .. e - 1 /\ q = <<tk.i, p>>
      BY <1>3
    <2>2. x \in 0 .. n - 1
      BY <1>1, <1>2
    <2>3. q \in P
      BY <1>7, <2>2
    <2>4. g[x] = IF qe[q] # PrimRefs!QUADIFIER_PAIRED THEN 1 ELSE 0
      BY <1>6, <2>2
    <2> HIDE DEF p, q
    <2>5. q[1] = tk.i /\ q[2] = p
      BY <2>1
    <2>6. qe[q] = IF \E o \in m : o[2] = p THEN PrimRefs!QUADIFIER_PAIRED
                  ELSE IF \E o \in m : o[1] = p THEN Pair(m, p)[2] - p
                  ELSE 0
      BY <1>7, <2>1, <2>3, <2>5 DEF Paired
    <2>7. (\E o \in m : o[1] = p) => Pair(m, p)[2] - p \in 1 .. 31
      BY <1>5, <2>1
    <2>8. qe[q] = PrimRefs!QUADIFIER_PAIRED <=> \E o \in m : o[2] = p
      <3>1. CASE \E o \in m : o[2] = p
        BY <2>6, <3>1
      <3>2. CASE ~ \E o \in m : o[2] = p
        <4>1. qe[q] \in 1 .. 31 \/ qe[q] = 0
          BY <2>6, <2>7, <3>2
        <4>2. qe[q] # PrimRefs!QUADIFIER_PAIRED
          BY <4>1, DistanceNotPaired
        <4> QED BY <3>2, <4>2
      <3> QED BY <3>1, <3>2
    <2>9. g[x] = 1 <=> p \in Alone(m, j, e)
      BY <2>1, <2>4, <2>8 DEF Alone
    <2> QED BY <2>9 DEF p
  <1>10. Number(g, k, b) = Cardinality(Alone(m, j, e))
    <2>1. Alone(m, j, e) \in SUBSET (j .. j + b - k - 1)
      BY <1>1 DEF Alone
    <2>2. b \in Nat /\ k <= b /\ k \in Nat /\ j \in Nat
      BY <1>1
    <2>3. ShiftedTo(g, k, b, j, Alone(m, j, e))
      BY <1>9, <2>1 DEF ShiftedTo
    <2> QED BY <2>2, <2>3, NumberShifted
  <1> QED BY <1>5, <1>8, <1>10 DEF n, j, k, e, b, g

------------------------------------------------------------------------------
(* The later passes. g marks what is stored, of what f marks; of a range    *)
(* that begins at lo, the item at x goes to this place.                     *)
Place(f, g, lo, x) == Number(f, 0, lo) + Number(g, lo, x)

LEMMA NumberBound == ASSUME NEW f, NEW n \in Nat PROVE Number(f, 0, n) <= n
  <1>1. IsFiniteSet(0 .. n - 1) /\ Cardinality(0 .. n - 1) = n
    <2>1. 0 \in Int /\ n - 1 \in Int
      OBVIOUS
    <2> QED BY <2>1, FS_Interval
  <1>2. Marked(f, 0, n) \in SUBSET (0 .. n - 1)
    BY DEF Marked
  <1> DEFINE A == 0 .. n - 1
  <1>3. IsFiniteSet(A) /\ Marked(f, 0, n) \in SUBSET A /\ Cardinality(A) = n
    BY <1>1, <1>2
  <1> HIDE DEF A
  <1>4. Cardinality(Marked(f, 0, n)) <= Cardinality(A)
    BY <1>3, FS_Subset
  <1> QED BY <1>3, <1>4 DEF Number

LEMMA WithinPart ==
  ASSUME NEW f, NEW g, NEW n \in Nat, MarksWithin(g, f, 0, n), NEW lo \in Nat, NEW hi \in 0 .. n
  PROVE  MarksWithin(g, f, lo, hi)
  BY DEF MarksWithin

LEMMA PlaceBounds ==
  ASSUME NEW f, NEW g, NEW lo \in Nat, NEW hi \in Nat, MarksWithin(g, f, lo, hi),
         NEW x \in lo .. hi - 1, g[x] = 1
  PROVE  /\ Place(f, g, lo, x) \in Nat /\ Number(f, 0, lo) \in Nat /\ Number(f, 0, hi) \in Nat
         /\ Number(f, 0, lo) <= Place(f, g, lo, x)
         /\ Place(f, g, lo, x) < Number(f, 0, hi)
  <1>1. x \in Nat /\ lo <= x /\ x < hi /\ lo <= hi /\ 0 \in Nat /\ 0 <= lo
    OBVIOUS
  <1>2. Number(g, lo, x) \in Nat /\ Number(g, lo, hi) \in Nat /\ Number(g, lo, x) < Number(g, lo, hi)
    BY <1>1, NumberGrows
  <1>3. Number(g, lo, hi) <= Number(f, lo, hi)
    BY NumberWithin
  <1>4. /\ Number(f, 0, lo) \in Nat /\ Number(f, 0, hi) \in Nat /\ Number(f, lo, hi) \in Nat
        /\ Number(f, 0, hi) = Number(f, 0, lo) + Number(f, lo, hi)
    <2>1. Number(f, 0, lo) \in Nat /\ Number(f, 0, hi) \in Nat /\ Number(f, lo, hi) \in Nat
      BY <1>1, MarkedFinite
    <2>2. Number(f, 0, hi) = Number(f, 0, lo) + Number(f, lo, hi)
      BY <1>1, NumberSplit
    <2> QED BY <2>1, <2>2
  <1> QED BY <1>2, <1>3, <1>4 DEF Place

(* Items keep their order, also across tasks.                               *)
LEMMA PlacesOrdered ==
  ASSUME NEW n \in Nat, NEW k \in Nat \ {0}, NEW f, NEW g, MarksWithin(g, f, 0, n),
         NEW t \in 0 .. k - 1, NEW u \in 0 .. k - 1,
         NEW x \in Segment(t, n, k), NEW y \in Segment(u, n, k), g[x] = 1, g[y] = 1, x < y
  PROVE  Place(f, g, Cut(t, n, k), x) < Place(f, g, Cut(u, n, k), y)
  <1> DEFINE a == Cut(t, n, k)
             b == Cut(t + 1, n, k)
             c == Cut(u, n, k)
             d == Cut(u + 1, n, k)
  <1>1. a \in 0 .. n /\ b \in 0 .. n /\ c \in 0 .. n /\ d \in 0 .. n
    <2>1. t \in 0 .. k /\ t + 1 \in 0 .. k /\ u \in 0 .. k /\ u + 1 \in 0 .. k
      OBVIOUS
    <2> QED BY <2>1, CutFacts
  <1>2. (t < u => b <= c) /\ (u < t => d <= a)
    <2>1. t \in Nat /\ u \in Nat /\ t + 1 \in Nat /\ u + 1 \in Nat
          /\ (t < u => t + 1 <= u) /\ (u < t => u + 1 <= t)
      OBVIOUS
    <2> QED BY <2>1, CutFacts
  <1>3. x \in a .. b - 1 /\ y \in c .. d - 1
    BY DEF Segment
  <1>4. t = u => a = c
    OBVIOUS
  <1>5. a \in Nat /\ b \in Nat /\ c \in Nat /\ d \in Nat
    BY <1>1
  <1>6. MarksWithin(g, f, a, b) /\ MarksWithin(g, f, c, d)
    <2> HIDE DEF a, b, c, d
    <2> QED BY <1>1, <1>5, WithinPart
  <1> HIDE DEF a, b, c, d
  <1>7. CASE t = u
    <2>1. x \in Nat /\ y \in Nat /\ a <= x /\ x <= y
      BY <1>3, <1>4, <1>5, <1>7
    <2>2. Number(g, a, x) < Number(g, a, y) /\ Number(g, a, x) \in Nat /\ Number(g, a, y) \in Nat
      BY <1>5, <2>1, NumberGrows
    <2>3. Number(f, 0, a) \in Nat
      BY <1>5, MarkedFinite
    <2>4. Place(f, g, a, x) < Place(f, g, a, y)
      BY <2>2, <2>3 DEF Place
    <2> QED BY <1>4, <1>7, <2>4 DEF a, c
  <1>8. CASE t < u
    <2>1. /\ Place(f, g, a, x) \in Nat /\ Number(f, 0, b) \in Nat /\ Place(f, g, a, x) < Number(f, 0, b)
      BY <1>3, <1>5, <1>6, PlaceBounds
    <2>2. /\ Place(f, g, c, y) \in Nat /\ Number(f, 0, c) \in Nat /\ Number(f, 0, c) <= Place(f, g, c, y)
      BY <1>3, <1>5, <1>6, PlaceBounds
    <2>3. 0 \in Nat /\ 0 <= b /\ b <= c
      BY <1>2, <1>5, <1>8
    <2>4. Number(f, 0, b) <= Number(f, 0, c)
      BY <1>5, <2>3, NumberGrows
    <2>5. Place(f, g, a, x) < Place(f, g, c, y)
      BY <2>1, <2>2, <2>4
    <2> QED BY <2>5 DEF a, c
  <1>9. CASE u < t
    BY <1>2, <1>3, <1>5, <1>9
  <1> QED BY <1>7, <1>8, <1>9

LEMMA StoredApart ==
  ASSUME NEW n \in Nat, NEW k \in Nat \ {0}, NEW f, NEW g, MarksWithin(g, f, 0, n),
         NEW t \in 0 .. k - 1, NEW u \in 0 .. k - 1,
         NEW x \in Segment(t, n, k), NEW y \in Segment(u, n, k), g[x] = 1, g[y] = 1,
         Place(f, g, Cut(t, n, k), x) = Place(f, g, Cut(u, n, k), y)
  PROVE  t = u /\ x = y
  <1>1. x \in Int /\ y \in Int
    BY DEF Segment
  <1>2. Place(f, g, Cut(t, n, k), x) \in Nat /\ Place(f, g, Cut(u, n, k), y) \in Nat
    <2>1. /\ Cut(t, n, k) \in 0 .. n /\ Cut(t + 1, n, k) \in 0 .. n
          /\ Cut(u, n, k) \in 0 .. n /\ Cut(u + 1, n, k) \in 0 .. n
      <3>1. t \in 0 .. k /\ t + 1 \in 0 .. k /\ u \in 0 .. k /\ u + 1 \in 0 .. k
        OBVIOUS
      <3> QED BY <3>1, CutFacts
    <2>2. x \in Nat /\ y \in Nat
      BY <2>1 DEF Segment
    <2>3. Number(f, 0, Cut(t, n, k)) \in Nat /\ Number(g, Cut(t, n, k), x) \in Nat
      BY <2>1, <2>2, MarkedFinite
    <2>4. Number(f, 0, Cut(u, n, k)) \in Nat /\ Number(g, Cut(u, n, k), y) \in Nat
      BY <2>1, <2>2, MarkedFinite
    <2> QED BY <2>3, <2>4 DEF Place
  <1>3. ~(x < y)
    <2> SUFFICES ASSUME x < y PROVE FALSE
      OBVIOUS
    <2>1. Place(f, g, Cut(t, n, k), x) < Place(f, g, Cut(u, n, k), y)
      BY PlacesOrdered
    <2> QED BY <1>2, <2>1
  <1>4. ~(y < x)
    <2> SUFFICES ASSUME y < x PROVE FALSE
      OBVIOUS
    <2>1. Place(f, g, Cut(u, n, k), y) < Place(f, g, Cut(t, n, k), x)
      BY PlacesOrdered
    <2> QED BY <1>2, <2>1
  <1>5. x = y
    BY <1>1, <1>3, <1>4
  <1>6. x \in Cut(t, n, k) .. Cut(t + 1, n, k) - 1 /\ x \in Cut(u, n, k) .. Cut(u + 1, n, k) - 1
    BY <1>5 DEF Segment
  <1>7. t = u
    BY <1>6, CutApart
  <1> QED BY <1>5, <1>7

LEMMA KeepersWithin ==
  ASSUME NEW gs, NEW c, NEW qd, NEW vl
  PROVE  MarksWithin(KeepersOf(gs, c, qd, vl), SinglesOf(gs, c, qd), 0, Below(gs, c))
  BY DEF MarksWithin, KeepersOf, SinglesOf

(* What is stored of a slice, and of that what comes before p.              *)
KeptOf(gs, tk, hi, qd, vl) ==
  {p \in tk.j .. SliceStop(gs, tk, hi) - 1 : Single(qd, <<tk.i, p>>) /\ Sound(qd, vl, <<tk.i, p>>)}

UpTo(Q, p) == {o \in Q : o < p}

LEMMA KeptMarks ==
  ASSUME NEW gs, NEW c, GeometriesOK(gs, c), NEW lo \in Nat, NEW hi \in 0 .. Below(gs, c),
         NEW tk, NEW f, TaskAt(gs, c, lo, hi, tk, f), tk.k < hi, NEW qd, NEW vl,
         NEW g, g = KeepersOf(gs, c, qd, vl), NEW Q, Q = KeptOf(gs, tk, hi, qd, vl)
  PROVE  /\ Number(g, tk.k, Reach(gs, tk, hi)) = Cardinality(Q)
         /\ \A p \in tk.j .. SliceStop(gs, tk, hi) - 1 :
              Number(g, tk.k, tk.k + p - tk.j) = Cardinality(UpTo(Q, p))
         /\ \A p \in tk.j .. SliceStop(gs, tk, hi) - 1 : p \in Q <=> g[tk.k + p - tk.j] = 1
         /\ \A x \in tk.k .. Reach(gs, tk, hi) - 1 : g[x] = 1 <=> x - tk.k + tk.j \in Q
  <1> DEFINE n == Below(gs, c)
             j == tk.j
             k == tk.k
             e == SliceStop(gs, tk, hi)
             b == Reach(gs, tk, hi)
  <1>1. j \in Nat /\ k \in Nat /\ e \in Nat /\ j <= e /\ b \in k .. hi /\ b = k + e - j
    BY SliceFacts DEF Reach
  <1>2. n \in Nat /\ hi <= n
    <2>1. c \in 0 .. c
      BY DEF GeometriesOK
    <2> QED BY <2>1, BelowFacts
  <1>3. \A x \in k .. b - 1 : x - k + j \in j .. e - 1 /\ Item(gs, c, x) = <<tk.i, x - k + j>>
    BY SliceItems
  <1>4. Q = {p \in j .. e - 1 : Single(qd, <<tk.i, p>>) /\ Sound(qd, vl, <<tk.i, p>>)}
    BY DEF KeptOf
  <1>5. \A x \in 0 .. n - 1 :
          g[x] = IF Single(qd, Item(gs, c, x)) /\ Sound(qd, vl, Item(gs, c, x)) THEN 1 ELSE 0
    BY DEF KeepersOf
  <1> HIDE DEF n, j, k, e, b
  <1>6. ASSUME NEW x \in k .. b - 1 PROVE g[x] = 1 <=> x - k + j \in Q
    <2>1. x \in 0 .. n - 1
      BY <1>1, <1>2
    <2> DEFINE p == x - k + j
    <2>2. p \in j .. e - 1 /\ Item(gs, c, x) = <<tk.i, p>>
      BY <1>3
    <2> HIDE DEF p
    <2>3. g[x] = 1 <=> p \in Q
      BY <1>4, <1>5, <2>1, <2>2
    <2> QED BY <2>3 DEF p
  <1>7. Q \in SUBSET (j .. e - 1)
    BY <1>4
  <1>8. Number(g, k, b) = Cardinality(Q)
    <2>1. e - 1 = j + b - k - 1 /\ k <= b /\ b \in Nat
      BY <1>1
    <2>2. ShiftedTo(g, k, b, j, Q)
      BY <1>6, <1>7, <2>1 DEF ShiftedTo
    <2> QED BY <1>1, <2>1, <2>2, NumberShifted
  <1>9. ASSUME NEW p \in j .. e - 1
        PROVE  Number(g, k, k + p - j) = Cardinality(UpTo(Q, p)) /\ (p \in Q <=> g[k + p - j] = 1)
    <2> DEFINE x == k + p - j
    <2>1. x \in k .. b - 1 /\ x - k + j = p /\ p \in Nat
      BY <1>1
    <2>2. \A y \in k .. x - 1 : y \in k .. b - 1 /\ y - k + j \in Int /\ y - k + j < p
      BY <1>1, <2>1
    <2>3. x \in Nat /\ k <= x /\ j + x - k - 1 = p - 1
      BY <1>1, <2>1
    <2>6. \A o \in j .. e - 1 : o < p => o \in j .. p - 1
      BY <1>1, <2>1
    <2> HIDE DEF x
    <2>4. ShiftedTo(g, k, x, j, UpTo(Q, p))
      <3>1. \A y \in k .. x - 1 : g[y] = 1 <=> y - k + j \in UpTo(Q, p)
        BY <1>6, <2>2 DEF UpTo
      <3>2. UpTo(Q, p) \in SUBSET (j .. j + x - k - 1)
        BY <1>7, <2>3, <2>6 DEF UpTo
      <3> QED BY <3>1, <3>2 DEF ShiftedTo
    <2>5. Number(g, k, x) = Cardinality(UpTo(Q, p))
      BY <1>1, <2>3, <2>4, NumberShifted
    <2> QED BY <1>6, <2>1, <2>5 DEF x
  <1> QED BY <1>6, <1>8, <1>9 DEF j, k, e, b

LEMMA StoredPlaces ==
  ASSUME NEW gs, NEW c, GeometriesOK(gs, c), NEW lo \in Nat, NEW hi \in 0 .. Below(gs, c),
         NEW qd, NEW vl, NEW g, g = KeepersOf(gs, c, qd, vl),
         NEW tk, TaskAt(gs, c, lo, hi, tk, g), tk.k < hi,
         NEW Q, Q = KeptOf(gs, tk, hi, qd, vl), NEW f,
         NEW p \in tk.j .. SliceStop(gs, tk, hi) - 1
  PROVE  (Number(f, 0, lo) + tk.N) + Cardinality(UpTo(Q, p)) = Place(f, g, lo, tk.k + p - tk.j)
  <1>1. /\ tk.j \in Nat /\ tk.k \in Nat /\ tk.k >= lo
    BY SliceFacts
  <1>2. tk.N = Number(g, lo, tk.k)
    BY DEF TaskAt
  <1>3. Number(g, tk.k, tk.k + p - tk.j) = Cardinality(UpTo(Q, p))
    BY KeptMarks
  <1> DEFINE x == tk.k + p - tk.j
             k == tk.k
  <1>4. x \in Nat /\ lo <= k /\ k <= x /\ k \in Nat
    BY <1>1
  <1> HIDE DEF x
  <1>5. Number(g, lo, x) = Number(g, lo, k) + Number(g, k, x)
    BY <1>4, NumberSplit
  <1>6. Number(f, 0, lo) \in Nat /\ Number(g, lo, k) \in Nat /\ Number(g, k, x) \in Nat
    BY <1>4, MarkedFinite
  <1>7. Number(g, k, x) = Cardinality(UpTo(Q, p))
    BY <1>3 DEF x
  <1> HIDE DEF k
  <1>8. (Number(f, 0, lo) + Number(g, lo, k)) + Number(g, k, x) = Place(f, g, lo, x)
    BY <1>5, <1>6 DEF Place
  <1> QED BY <1>2, <1>7, <1>8 DEF x, k

------------------------------------------------------------------------------
(* The loops of all k tasks over n positions, counting marks of f.          *)
LoopsOK(gs, c, n, k, tks, f) ==
  /\ tks = [t \in 0 .. k - 1 |-> tks[t]]
  /\ \A t \in 0 .. k - 1 : TaskAt(gs, c, Cut(t, n, k), Cut(t + 1, n, k), tks[t], f)

(* What they have stored: each task its part of the items that g marks, in  *)
(* the slots counted for it by f.                                           *)
StoresOK(gs, c, n, k, tks, f, g, sm, pr, wr) ==
  /\ \A t \in 0 .. k - 1 : sm[t] = Number(f, 0, Cut(t, n, k))
  /\ \A t \in 0 .. k - 1 : \A x \in Cut(t, n, k) .. tks[t].k - 1 :
       g[x] = 1 => pr[Place(f, g, Cut(t, n, k), x)] = Item(gs, c, x)
  /\ \A s \in PrimRefs!Slots : \A t \in wr[s] :
       t \in 0 .. k - 1 /\ Number(f, 0, Cut(t, n, k)) <= s /\ s < Number(f, 0, Cut(t + 1, n, k))

(* The step of task t's loop that counts x items.                           *)
Stepped(gs, n, k, tks, t, x) ==
  [tks EXCEPT ![t] =
     [i |-> tks[t].i + 1, j |-> 0, k |-> Reach(gs, tks[t], Cut(t + 1, n, k)), N |-> tks[t].N + x]]

LEMMA TaskAtAgree ==
  ASSUME NEW gs, NEW c, NEW lo, NEW hi, NEW tk, NEW f, TaskAt(gs, c, lo, hi, tk, f),
         NEW g, Agree(f, g, lo, tk.k)
  PROVE  TaskAt(gs, c, lo, hi, tk, g)
  BY NumberSame DEF TaskAt

LEMMA LoopsStep ==
  ASSUME NEW gs, NEW c, GeometriesOK(gs, c), NEW n, n = Below(gs, c), NEW k \in Nat \ {0},
         NEW tks, NEW f, LoopsOK(gs, c, n, k, tks, f),
         NEW t \in 0 .. k - 1, tks[t].k < Cut(t + 1, n, k),
         NEW g, \A x \in 0 .. n - 1 : x \notin tks[t].k .. Reach(gs, tks[t], Cut(t + 1, n, k)) - 1
                  => f[x] = g[x],
         NEW x, x = Number(g, tks[t].k, Reach(gs, tks[t], Cut(t + 1, n, k)))
  PROVE  LoopsOK(gs, c, n, k, Stepped(gs, n, k, tks, t, x), g)
  <1> DEFINE tke == Stepped(gs, n, k, tks, t, x)
             tk == tks[t]
             lo == Cut(t, n, k)
             hi == Cut(t + 1, n, k)
             b == Reach(gs, tk, hi)
  <1>1. n \in Nat
    <2>1. c \in 0 .. c
      BY DEF GeometriesOK
    <2> QED BY <2>1, BelowFacts
  <1>2. \A u \in 0 .. k - 1 : /\ Cut(u, n, k) \in 0 .. n /\ Cut(u + 1, n, k) \in 0 .. n
                              /\ Cut(u, n, k) \in Nat /\ Cut(u, n, k) <= Cut(u + 1, n, k)
    BY <1>1, ShareFacts
  <1>3. TaskAt(gs, c, lo, hi, tk, f) /\ tk.k < hi /\ lo \in Nat /\ hi \in 0 .. Below(gs, c)
    BY <1>2 DEF LoopsOK
  <1>4. tk.k \in Nat /\ tk.k >= lo /\ b \in tk.k .. hi
    <2> HIDE DEF tk, lo, hi
    <2> QED BY <1>3, SliceFacts
  <1>5. tke = [tks EXCEPT ![t] = [i |-> tk.i + 1, j |-> 0, k |-> b, N |-> tk.N + x]]
    BY DEF Stepped
  <1>6. tks = [u \in 0 .. k - 1 |-> tks[u]]
    BY DEF LoopsOK
  <1>7. tke = [u \in 0 .. k - 1 |-> tke[u]] /\ \A u \in 0 .. k - 1 : u # t => tke[u] = tks[u]
    <2> HIDE DEF tke
    <2> QED BY <1>5, <1>6
  <1>8. tke[t] = [i |-> tk.i + 1, j |-> 0, k |-> b, N |-> tk.N + x]
    <2>1. t \in DOMAIN tks
      BY <1>6
    <2> HIDE DEF tke, tk, b
    <2> QED BY <1>5, <2>1
  <1>9. TaskAt(gs, c, lo, hi, tke[t], g)
    <2>1. Agree(f, g, lo, tk.k)
      <3> SUFFICES ASSUME NEW y \in lo .. tk.k - 1 PROVE f[y] = g[y]
        BY DEF Agree
      <3>1. y \in 0 .. n - 1 /\ y \notin tk.k .. b - 1
        BY <1>1, <1>3, <1>4
      <3> QED BY <3>1
    <2>2. x = Number(g, tk.k, b)
      OBVIOUS
    <2>3. GeometriesOK(gs, c)
      OBVIOUS
    <2> HIDE DEF tke, tk, lo, hi
    <2> QED BY <1>3, <1>8, <2>1, <2>2, <2>3, TaskAdvances
  <1>10. ASSUME NEW u \in 0 .. k - 1, u # t
         PROVE  TaskAt(gs, c, Cut(u, n, k), Cut(u + 1, n, k), tks[u], g)
    <2>1. TaskAt(gs, c, Cut(u, n, k), Cut(u + 1, n, k), tks[u], f)
      BY DEF LoopsOK
    <2>2. Agree(f, g, Cut(u, n, k), tks[u].k)
      <3> SUFFICES ASSUME NEW y \in Cut(u, n, k) .. tks[u].k - 1 PROVE f[y] = g[y]
        BY DEF Agree
      <3>1. tks[u].k \in Cut(u, n, k) .. Cut(u + 1, n, k)
        BY <2>1 DEF TaskAt
      <3>2. Cut(u, n, k) \in Nat /\ Cut(u + 1, n, k) \in 0 .. n
        BY <1>2
      <3>3. y \in Cut(u, n, k) .. Cut(u + 1, n, k) - 1 /\ y \in 0 .. n - 1
        BY <1>1, <3>1, <3>2
      <3>4. y \notin lo .. hi - 1
        BY <1>1, <1>10, <3>3, CutApart
      <3>5. y \notin tk.k .. b - 1
        BY <1>3, <1>4, <3>3, <3>4
      <3> QED BY <3>3, <3>5
    <2> QED BY <2>1, <2>2, TaskAtAgree
  <1>11. \A u \in 0 .. k - 1 : TaskAt(gs, c, Cut(u, n, k), Cut(u + 1, n, k), tke[u], g)
    <2> HIDE DEF tke
    <2> QED BY <1>7, <1>9, <1>10
  <1> HIDE DEF tke
  <1>12. LoopsOK(gs, c, n, k, tke, g)
    BY <1>7, <1>11 DEF LoopsOK
  <1> QED BY <1>12 DEF tke

LEMMA LoopsQuadify ==
  ASSUME NEW gs, NEW c, GeometriesOK(gs, c), NEW n, n = Below(gs, c), NEW k \in Nat \ {0},
         NEW qd, NEW tks, LoopsOK(gs, c, n, k, tks, SinglesOf(gs, c, qd)),
         NEW t \in 0 .. k - 1, tks[t].k < Cut(t + 1, n, k),
         NEW P, ItemsIn(gs, c, P), NEW e, e = SliceStop(gs, tks[t], Cut(t + 1, n, k)),
         NEW m, m \in PrimRefs!Pairings(tks[t].j .. e - 1),
         NEW qe, qe = Paired(P, qd, tks[t].i, tks[t].j, e, m)
  PROVE  LoopsOK(gs, c, n, k,
                 Stepped(gs, n, k, tks, t, Cardinality(tks[t].j .. e - 1) - Cardinality(m)),
                 SinglesOf(gs, c, qe))
  <1> DEFINE tk == tks[t]
             lo == Cut(t, n, k)
             hi == Cut(t + 1, n, k)
             f == SinglesOf(gs, c, qd)
             g == SinglesOf(gs, c, qe)
             x == Cardinality(tk.j .. e - 1) - Cardinality(m)
  <1>1. n \in Nat
    <2>1. c \in 0 .. c
      BY DEF GeometriesOK
    <2> QED BY <2>1, BelowFacts
  <1>2. lo \in Nat /\ hi \in 0 .. n
    BY <1>1, ShareFacts
  <1>3. TaskAt(gs, c, lo, hi, tk, f)
    BY DEF LoopsOK
  <1>4. /\ hi \in 0 .. Below(gs, c) /\ tk.k < hi /\ e = SliceStop(gs, tk, hi)
        /\ m \in PrimRefs!Pairings(tk.j .. e - 1) /\ qe = Paired(P, qd, tk.i, tk.j, e, m)
    BY <1>2
  <1>5. /\ \A y \in 0 .. Below(gs, c) - 1 : y \notin tk.k .. Reach(gs, tk, hi) - 1 => g[y] = f[y]
        /\ Number(g, tk.k, Reach(gs, tk, hi)) = x
    <2> HIDE DEF tk, lo, hi
    <2> QED BY <1>2, <1>3, <1>4, PairingMarks
  <1>6. \A y \in 0 .. n - 1 : y \notin tk.k .. Reach(gs, tk, hi) - 1 => f[y] = g[y]
    BY <1>5
  <1>7. LoopsOK(gs, c, n, k, tks, f) /\ tk.k < hi /\ x = Number(g, tk.k, Reach(gs, tk, hi))
    BY <1>4, <1>5
  <1> HIDE DEF x, f, g
  <1>8. LoopsOK(gs, c, n, k, Stepped(gs, n, k, tks, t, x), g)
    BY <1>6, <1>7, LoopsStep
  <1> QED BY <1>8 DEF x, g

(* The slots a slice is written to: Q is stored from slot a on.             *)
Into(Q, a, s) == {p \in Q : a + Cardinality(UpTo(Q, p)) = s}

SomeOf(S) == CHOOSE p \in S : TRUE

Written(Q, a, i, pr) ==
  [s \in PrimRefs!Slots |-> IF Into(Q, a, s) = {} THEN pr[s] ELSE <<i, SomeOf(Into(Q, a, s))>>]

Signed(Q, a, t, wr) ==
  [s \in PrimRefs!Slots |-> IF Into(Q, a, s) = {} THEN wr[s] ELSE wr[s] \union {t}]

LEMMA StoresStep ==
  ASSUME NEW gs, NEW c, GeometriesOK(gs, c), NEW n \in Nat, n = Below(gs, c), NEW k \in Nat \ {0},
         MaxPrimitives \in Nat, n <= MaxPrimitives, NEW qd, NEW vl,
         NEW g, g = KeepersOf(gs, c, qd, vl), NEW f, MarksWithin(g, f, 0, n),
         NEW tks, LoopsOK(gs, c, n, k, tks, g),
         NEW sm, NEW pr, NEW wr, StoresOK(gs, c, n, k, tks, f, g, sm, pr, wr),
         NEW t \in 0 .. k - 1, tks[t].k < Cut(t + 1, n, k),
         NEW Q, Q = KeptOf(gs, tks[t], Cut(t + 1, n, k), qd, vl),
         NEW a, a = sm[t] + tks[t].N
  PROVE  /\ LoopsOK(gs, c, n, k, Stepped(gs, n, k, tks, t, Cardinality(Q)), g)
         /\ StoresOK(gs, c, n, k, Stepped(gs, n, k, tks, t, Cardinality(Q)), f, g, sm,
                     Written(Q, a, tks[t].i, pr), Signed(Q, a, t, wr))
  <1> DEFINE tk == tks[t]
             lo == Cut(t, n, k)
             hi == Cut(t + 1, n, k)
             b == Reach(gs, tk, hi)
             e == SliceStop(gs, tk, hi)
             tke == Stepped(gs, n, k, tks, t, Cardinality(Q))
             new == Written(Q, a, tk.i, pr)
             sgn == Signed(Q, a, t, wr)
  <1>1. /\ lo \in Nat /\ hi \in 0 .. Below(gs, c) /\ lo \in 0 .. n /\ hi \in 0 .. n
        /\ TaskAt(gs, c, lo, hi, tk, g) /\ tk.k < hi
    BY ShareFacts DEF LoopsOK
  <1>2. /\ tk.k \in Nat /\ tk.k >= lo /\ b \in tk.k .. hi /\ tk.j \in Nat /\ e \in Nat
        /\ b = tk.k + e - tk.j
    <2>1. b = tk.k + e - tk.j
      BY DEF Reach
    <2> HIDE DEF tk, lo, hi
    <2> QED BY <1>1, <2>1, SliceFacts
  <1>3. /\ Number(g, tk.k, b) = Cardinality(Q)
        /\ \A x \in tk.k .. b - 1 : g[x] = 1 <=> x - tk.k + tk.j \in Q
        /\ \A p \in tk.j .. e - 1 : p \in Q <=> g[tk.k + p - tk.j] = 1
    <2>1. Q = KeptOf(gs, tk, hi, qd, vl)
      OBVIOUS
    <2> HIDE DEF tk, lo, hi
    <2> QED BY <1>1, <2>1, KeptMarks
  <1>4. \A x \in tk.k .. b - 1 : x - tk.k + tk.j \in tk.j .. e - 1 /\ Item(gs, c, x) = <<tk.i, x - tk.k + tk.j>>
    <2> HIDE DEF tk, lo, hi
    <2> QED BY <1>1, SliceItems
  <1>5. LoopsOK(gs, c, n, k, tke, g)
    <2>1. Cardinality(Q) = Number(g, tks[t].k, Reach(gs, tks[t], Cut(t + 1, n, k)))
      BY <1>3
    <2>2. \A x \in 0 .. n - 1 : x \notin tks[t].k .. Reach(gs, tks[t], Cut(t + 1, n, k)) - 1 => g[x] = g[x]
      OBVIOUS
    <2> QED BY <2>1, <2>2, LoopsStep
  <1>6. /\ tke = [u \in 0 .. k - 1 |-> tke[u]] /\ tke[t].k = b
        /\ \A u \in 0 .. k - 1 : u # t => tke[u] = tks[u]
    <2>1. tks = [u \in 0 .. k - 1 |-> tks[u]]
      BY DEF LoopsOK
    <2>2. tke = [tks EXCEPT ![t] = [i |-> tk.i + 1, j |-> 0, k |-> b, N |-> tk.N + Cardinality(Q)]]
      BY DEF Stepped
    <2>3. t \in DOMAIN tks
      BY <2>1
    <2> HIDE DEF tke, tk, b
    <2> QED BY <2>1, <2>2, <2>3
  <1>7. Q \in SUBSET (tk.j .. e - 1)
    BY DEF KeptOf
  <1>8. ASSUME NEW p \in Q PROVE a + Cardinality(UpTo(Q, p)) = Place(f, g, lo, tk.k + p - tk.j)
    <2>1. a = Number(f, 0, lo) + tk.N
      BY DEF StoresOK
    <2>2. p \in tk.j .. e - 1
      BY <1>7
    <2>3. Q = KeptOf(gs, tk, hi, qd, vl) /\ g = KeepersOf(gs, c, qd, vl) /\ GeometriesOK(gs, c)
      OBVIOUS
    <2> HIDE DEF tk, lo, hi
    <2>4. (Number(f, 0, lo) + tk.N) + Cardinality(UpTo(Q, p)) = Place(f, g, lo, tk.k + p - tk.j)
      BY <1>1, <2>2, <2>3, StoredPlaces DEF e
    <2> QED BY <2>1, <2>4
  <1>9. ASSUME NEW p \in Q
        PROVE  tk.k + p - tk.j \in tk.k .. b - 1 /\ g[tk.k + p - tk.j] = 1 /\ (tk.k + p - tk.j) - tk.k + tk.j = p
    <2>1. p \in tk.j .. e - 1
      BY <1>7
    <2>2. g[tk.k + p - tk.j] = 1
      BY <1>3, <2>1
    <2>3. tk.k + p - tk.j \in tk.k .. b - 1 /\ (tk.k + p - tk.j) - tk.k + tk.j = p
      BY <1>2, <2>1
    <2> QED BY <2>2, <2>3
  (* Slots of marked items: inside of the array, and apart. *)
  <1>10. ASSUME NEW u \in 0 .. k - 1, NEW x \in Segment(u, n, k), g[x] = 1
         PROVE  /\ Place(f, g, Cut(u, n, k), x) \in PrimRefs!Slots
                /\ Number(f, 0, Cut(u, n, k)) <= Place(f, g, Cut(u, n, k), x)
                /\ Place(f, g, Cut(u, n, k), x) < Number(f, 0, Cut(u + 1, n, k))
    <2> DEFINE l == Cut(u, n, k)
               h == Cut(u + 1, n, k)
    <2>1. l \in Nat /\ h \in Nat /\ h \in 0 .. n
      BY ShareFacts
    <2>2. x \in l .. h - 1
      BY DEF Segment
    <2>3. MarksWithin(g, f, l, h)
      <3> HIDE DEF l, h
      <3> QED BY <2>1, WithinPart
    <2> HIDE DEF l, h
    <2>4. /\ Place(f, g, l, x) \in Nat /\ Number(f, 0, l) <= Place(f, g, l, x)
          /\ Place(f, g, l, x) < Number(f, 0, h) /\ Number(f, 0, h) \in Nat
      BY <1>10, <2>1, <2>2, <2>3, PlaceBounds
    <2>5. Number(f, 0, h) <= h
      BY <2>1, NumberBound
    <2>6. Place(f, g, l, x) \in 0 .. MaxPrimitives - 1
      BY <2>1, <2>4, <2>5
    <2> QED BY <2>4, <2>6 DEF PrimRefs!Slots, l, h
  <1>11. \A x \in tk.k .. b - 1 : x \in Segment(t, n, k)
    BY <1>1, <1>2 DEF Segment
  <1>12. ASSUME NEW x \in tk.k .. b - 1, g[x] = 1
         PROVE  new[Place(f, g, lo, x)] = Item(gs, c, x)
    <2> DEFINE s == Place(f, g, lo, x)
               p == x - tk.k + tk.j
    <2>1. p \in Q
      BY <1>3, <1>12
    <2>2. tk.k + p - tk.j = x
      BY <1>2, <1>4
    <2>3. p \in Into(Q, a, s)
      BY <1>8, <2>1, <2>2 DEF Into
    <2>4. ASSUME NEW q \in Into(Q, a, s) PROVE q = p
      <3>1. q \in Q /\ Place(f, g, lo, tk.k + q - tk.j) = s
        BY <1>8 DEF Into
      <3> DEFINE y == tk.k + q - tk.j
      <3>2. y \in Segment(t, n, k) /\ g[y] = 1 /\ y - tk.k + tk.j = q
        BY <1>9, <1>11, <3>1
      <3>3. x \in Segment(t, n, k) /\ Place(f, g, Cut(t, n, k), y) = Place(f, g, Cut(t, n, k), x)
        BY <1>11, <3>1
      <3> HIDE DEF y
      <3>4. x = y
        BY <1>12, <3>2, <3>3, StoredApart
      <3> QED BY <3>2, <3>4
    <2>5. s \in PrimRefs!Slots
      BY <1>10, <1>11, <1>12
    <2>6. Item(gs, c, x) = <<tk.i, p>>
      BY <1>4
    <2> HIDE DEF s, p
    <2>7. SomeOf(Into(Q, a, s)) = p
      <3>1. SomeOf(Into(Q, a, s)) \in Into(Q, a, s)
        BY <2>3 DEF SomeOf
      <3> QED BY <2>4, <3>1
    <2>8. new[s] = <<tk.i, p>>
      BY <2>3, <2>5, <2>7 DEF Written
    <2> QED BY <2>6, <2>8 DEF s
  <1>13. ASSUME NEW u \in 0 .. k - 1, NEW x \in Segment(u, n, k), g[x] = 1, x \notin tk.k .. b - 1
         PROVE  new[Place(f, g, Cut(u, n, k), x)] = pr[Place(f, g, Cut(u, n, k), x)]
    <2> DEFINE s == Place(f, g, Cut(u, n, k), x)
    <2>1. s \in PrimRefs!Slots
      BY <1>10, <1>13
    <2>2. ASSUME NEW q \in Into(Q, a, s) PROVE FALSE
      <3>1. q \in Q /\ Place(f, g, lo, tk.k + q - tk.j) = s
        BY <1>8 DEF Into
      <3> DEFINE y == tk.k + q - tk.j
      <3>2. y \in Segment(t, n, k) /\ g[y] = 1 /\ y \in tk.k .. b - 1
        BY <1>9, <1>11, <3>1
      <3>3. Place(f, g, Cut(t, n, k), y) = Place(f, g, Cut(u, n, k), x)
        BY <3>1
      <3> HIDE DEF y
      <3>4. y = x
        BY <1>13, <3>2, <3>3, StoredApart
      <3> QED BY <1>13, <3>2, <3>4
    <2> HIDE DEF s
    <2>3. Into(Q, a, s) = {}
      BY <2>2
    <2>4. new[s] = pr[s]
      BY <2>1, <2>3 DEF Written
    <2> QED BY <2>4 DEF s
  <1>14. ASSUME NEW u \in 0 .. k - 1, NEW x \in Cut(u, n, k) .. tke[u].k - 1, g[x] = 1
         PROVE  new[Place(f, g, Cut(u, n, k), x)] = Item(gs, c, x)
    <2>1. CASE u = t /\ x \in tk.k .. b - 1
      BY <1>12, <1>14, <2>1
    <2>2. CASE ~ (u = t /\ x \in tk.k .. b - 1)
      <3>1. x \in Cut(u, n, k) .. tks[u].k - 1
        <4>1. CASE u = t
          <5>1. tke[t].k = b
            BY <1>6
          <5> HIDE DEF tke, b
          <5>2. x \in lo .. b - 1 /\ x \notin tk.k .. b - 1
            BY <2>2, <4>1, <5>1
          <5>3. tk.k \in Nat /\ lo \in Nat /\ b \in Nat
            BY <1>1, <1>2
          <5>4. x \in lo .. tk.k - 1
            BY <5>2, <5>3
          <5> QED BY <4>1, <5>4
        <4>2. CASE u # t
          <5>1. tke[u] = tks[u]
            BY <1>6, <4>2
          <5> HIDE DEF tke
          <5> QED BY <5>1
        <4> QED BY <4>1, <4>2
      <3>2. x \in Segment(u, n, k)
        <4>1. tks[u].k \in Cut(u, n, k) .. Cut(u + 1, n, k)
          BY DEF LoopsOK, TaskAt
        <4>2. Cut(u, n, k) \in Nat /\ Cut(u + 1, n, k) \in Nat
          BY ShareFacts
        <4> QED BY <3>1, <4>1, <4>2 DEF Segment
      <3>3. x \notin tk.k .. b - 1
        <4>1. CASE u = t
          BY <2>2, <4>1
        <4>2. CASE u # t
          <5> SUFFICES ASSUME x \in tk.k .. b - 1 PROVE FALSE
            OBVIOUS
          <5>1. x \in Segment(t, n, k)
            BY <1>11
          <5>2. u = t
            BY <3>2, <5>1, CutApart DEF Segment
          <5> QED BY <4>2, <5>2
        <4> QED BY <4>1, <4>2
      <3>4. pr[Place(f, g, Cut(u, n, k), x)] = Item(gs, c, x)
        BY <1>14, <3>1 DEF StoresOK
      <3> QED BY <1>13, <1>14, <3>2, <3>3, <3>4
    <2> QED BY <2>1, <2>2
  <1>15. ASSUME NEW s \in PrimRefs!Slots, NEW u \in sgn[s]
         PROVE  /\ u \in 0 .. k - 1 /\ Number(f, 0, Cut(u, n, k)) <= s
                /\ s < Number(f, 0, Cut(u + 1, n, k))
    <2>1. CASE u \in wr[s]
      BY <2>1 DEF StoresOK
    <2>2. CASE u \notin wr[s]
      <3>1. Into(Q, a, s) # {} /\ u = t
        BY <2>2 DEF Signed
      <3>2. PICK q : q \in Into(Q, a, s)
        BY <3>1
      <3>3. q \in Q /\ Place(f, g, lo, tk.k + q - tk.j) = s
        BY <1>8, <3>2 DEF Into
      <3> DEFINE y == tk.k + q - tk.j
      <3>4. y \in Segment(t, n, k) /\ g[y] = 1
        BY <1>9, <1>11, <3>3
      <3>5. Place(f, g, Cut(t, n, k), y) = s
        BY <3>3
      <3> HIDE DEF y
      <3> QED BY <1>10, <3>1, <3>4, <3>5
    <2> QED BY <2>1, <2>2
  <1>16. \A u \in 0 .. k - 1 : sm[u] = Number(f, 0, Cut(u, n, k))
    BY DEF StoresOK
  <1> HIDE DEF tke, new, sgn
  <1>17. StoresOK(gs, c, n, k, tke, f, g, sm, new, sgn)
    BY <1>14, <1>15, <1>16 DEF StoresOK
  <1> QED BY <1>5, <1>17 DEF tke, new, sgn

------------------------------------------------------------------------------
(* The split. The cursor has not passed the start of the next task, and the *)
(* first m tasks know where they start.                                     *)
CursorOK(gs, c, n, k, cu) ==
  /\ cu = [i |-> cu.i, j |-> cu.j, k |-> cu.k, taskIndex |-> cu.taskIndex, k0 |-> cu.k0]
  /\ cu.taskIndex \in 1 .. k
  /\ cu.k0 = Cut(cu.taskIndex, n, k)
  /\ cu.taskIndex < k => StandsAt(gs, c, cu.i, cu.j, cu.k) /\ cu.k <= cu.k0

StartsOK(gs, c, n, k, m, ib, jb) ==
  /\ ib = [t \in 0 .. k - 1 |-> ib[t]] /\ jb = [t \in 0 .. k - 1 |-> jb[t]]
  /\ \A t \in 0 .. m - 1 : StandsAt(gs, c, ib[t], jb[t], Cut(t, n, k))

AtNextTask(cu, n, k) ==
  [cu EXCEPT !.j = @ + cu.k0 - cu.k, !.k = cu.k0, !.taskIndex = @ + 1,
             !.k0 = Cut(cu.taskIndex + 1, n, k)]

AtNextGeometry(gs, cu) == [cu EXCEPT !.i = @ + 1, !.j = 0, !.k = @ + gs[cu.i] - cu.j]

FirstGeometries(ib, cu) == [ib EXCEPT ![cu.taskIndex] = cu.i]

FirstItems(jb, cu) == [jb EXCEPT ![cu.taskIndex] = cu.j + cu.k0 - cu.k]

(* Whether the next task begins in the geometry the cursor is at.           *)
StartsIn(gs, cu) == cu.j < gs[cu.i] /\ cu.k + gs[cu.i] - cu.j >= cu.k0

LEMMA CutBefore ==
  ASSUME NEW n \in Nat \ {0}, NEW k \in Nat \ {0}, NEW t \in 0 .. k - 1
  PROVE  Cut(t, n, k) < n
  <1>1. t * n \in Nat /\ t * n < k * n
    OBVIOUS
  <1>2. \A a \in Nat : a < k * n => a \div k < n
    OBVIOUS
  <1> QED BY <1>1, <1>2 DEF Cut

LEMMA CursorStarts ==
  ASSUME NEW gs, NEW c, GeometriesOK(gs, c), NEW n, n = Below(gs, c), NEW k \in Nat \ {0},
         NEW cu, CursorOK(gs, c, n, k, cu), cu.taskIndex < k, StartsIn(gs, cu),
         NEW ib, NEW jb, StartsOK(gs, c, n, k, cu.taskIndex, ib, jb),
         NEW cv, cv = AtNextTask(cu, n, k),
         NEW ic, ic = FirstGeometries(ib, cu), NEW jc, jc = FirstItems(jb, cu)
  PROVE  CursorOK(gs, c, n, k, cv) /\ StartsOK(gs, c, n, k, cv.taskIndex, ic, jc)
  <1> DEFINE m == cu.taskIndex
  <1>1. n \in Nat
    <2>1. c \in 0 .. c
      BY DEF GeometriesOK
    <2> QED BY <2>1, BelowFacts
  <1>2. m \in 1 .. k /\ m < k /\ cu.k0 = Cut(m, n, k)
    BY DEF CursorOK
  <1>3. cu.k0 \in Nat /\ Cut(m + 1, n, k) \in Nat /\ cu.k0 <= Cut(m + 1, n, k)
    <2>1. m \in 0 .. k - 1
      BY <1>2
    <2> HIDE DEF m
    <2> QED BY <1>1, <1>2, <2>1, ShareFacts
  <1>4. cu.i \in 0 .. c - 1 /\ cu.j \in 0 .. gs[cu.i] /\ Below(gs, cu.i) + cu.j = cu.k /\ cu.k <= cu.k0
    BY <1>2 DEF CursorOK, StandsAt
  <1>5. gs[cu.i] \in Nat /\ Below(gs, cu.i) \in Nat
    <2>1. gs[cu.i] \in Nat
      BY <1>4 DEF GeometriesOK
    <2>2. cu.i \in 0 .. c
      BY <1>4 DEF GeometriesOK
    <2> QED BY <2>1, <2>2, BelowFacts
  <1>6. cv = [i |-> cu.i, j |-> cu.j + cu.k0 - cu.k, k |-> cu.k0, taskIndex |-> m + 1,
              k0 |-> Cut(m + 1, n, k)]
    <2>1. cu = [i |-> cu.i, j |-> cu.j, k |-> cu.k, taskIndex |-> cu.taskIndex, k0 |-> cu.k0]
      BY DEF CursorOK
    <2> QED BY <2>1 DEF AtNextTask
  <1>7. cu.k + gs[cu.i] - cu.j >= cu.k0
    BY DEF StartsIn
  <1>8. StandsAt(gs, c, cu.i, cu.j + cu.k0 - cu.k, cu.k0)
    <2> DEFINE s == gs[cu.i]
               j == cu.j
               x == cu.k
               y == cu.k0
               b == Below(gs, cu.i)
    <2>1. s \in Nat /\ b \in Nat /\ j \in 0 .. s /\ b + j = x /\ x <= y /\ y \in Nat /\ x + s - j >= y
      BY <1>3, <1>4, <1>5, <1>7
    <2> HIDE DEF s, j, x, y, b
    <2>2. j + y - x \in 0 .. s /\ b + (j + y - x) = y
      BY <2>1
    <2> QED BY <1>4, <2>2 DEF StandsAt, s, j, x, y, b
  <1>9. CursorOK(gs, c, n, k, cv)
    <2>1. /\ cv.i = cu.i /\ cv.j = cu.j + cu.k0 - cu.k /\ cv.k = cu.k0 /\ cv.taskIndex = m + 1
          /\ cv.k0 = Cut(m + 1, n, k)
          /\ cv = [i |-> cv.i, j |-> cv.j, k |-> cv.k, taskIndex |-> cv.taskIndex, k0 |-> cv.k0]
      BY <1>6
    <2>2. m + 1 \in 1 .. k
      BY <1>2
    <2> HIDE DEF m
    <2> QED BY <1>3, <1>8, <2>1, <2>2 DEF CursorOK
  <1>10. StartsOK(gs, c, n, k, cv.taskIndex, ic, jc)
    <2>1. /\ ib = [t \in 0 .. k - 1 |-> ib[t]] /\ jb = [t \in 0 .. k - 1 |-> jb[t]]
          /\ \A t \in 0 .. m - 1 : StandsAt(gs, c, ib[t], jb[t], Cut(t, n, k))
      BY DEF StartsOK
    <2>2. m \in 0 .. k - 1 /\ cv.taskIndex = m + 1
      BY <1>2, <1>6
    <2>3. /\ ic = [t \in 0 .. k - 1 |-> ic[t]] /\ jc = [t \in 0 .. k - 1 |-> jc[t]]
          /\ ic[m] = cu.i /\ jc[m] = cu.j + cu.k0 - cu.k
          /\ \A t \in 0 .. k - 1 : t # m => ic[t] = ib[t] /\ jc[t] = jb[t]
      BY <2>1, <2>2 DEF FirstGeometries, FirstItems
    <2>4. ASSUME NEW t \in 0 .. (m + 1) - 1 PROVE StandsAt(gs, c, ic[t], jc[t], Cut(t, n, k))
      <3>1. CASE t = m
        BY <1>2, <1>8, <2>3, <3>1
      <3>2. CASE t # m
        <4>1. t \in 0 .. m - 1 /\ t \in 0 .. k - 1
          BY <2>2, <3>2
        <4>2. ic[t] = ib[t] /\ jc[t] = jb[t]
          BY <2>3, <3>2, <4>1
        <4> QED BY <2>1, <4>1, <4>2
      <3> QED BY <3>1, <3>2
    <2> HIDE DEF m
    <2> QED BY <2>2, <2>3, <2>4 DEF StartsOK
  <1> QED BY <1>9, <1>10

LEMMA CursorMoves ==
  ASSUME NEW gs, NEW c, GeometriesOK(gs, c), NEW n, n = Below(gs, c), NEW k \in Nat \ {0},
         k > 1 => n > 0,
         NEW cu, CursorOK(gs, c, n, k, cu), cu.taskIndex < k, ~ StartsIn(gs, cu),
         NEW cv, cv = AtNextGeometry(gs, cu)
  PROVE  CursorOK(gs, c, n, k, cv) /\ cv.taskIndex = cu.taskIndex
  <1> DEFINE m == cu.taskIndex
  <1>1. n \in Nat /\ c \in Nat
    <2>1. c \in 0 .. c /\ c \in Nat
      BY DEF GeometriesOK
    <2> QED BY <2>1, BelowFacts
  <1>2. m \in 1 .. k /\ m < k /\ cu.k0 = Cut(m, n, k)
    BY DEF CursorOK
  <1>3. cu.k0 \in Nat /\ cu.k0 < n
    <2>1. m \in 0 .. k - 1 /\ n \in Nat \ {0}
      BY <1>1, <1>2
    <2> HIDE DEF m
    <2> QED BY <1>1, <1>2, <2>1, ShareFacts, CutBefore
  <1>4. cu.i \in 0 .. c - 1 /\ cu.j \in 0 .. gs[cu.i] /\ Below(gs, cu.i) + cu.j = cu.k /\ cu.k <= cu.k0
    BY <1>2 DEF CursorOK, StandsAt
  <1>5. /\ gs[cu.i] \in Nat /\ Below(gs, cu.i) \in Nat
        /\ Below(gs, cu.i + 1) = Below(gs, cu.i) + gs[cu.i]
    <2>1. gs[cu.i] \in Nat
      BY <1>4 DEF GeometriesOK
    <2>2. cu.i \in 0 .. c
      BY <1>1, <1>4
    <2> QED BY <1>4, <2>1, <2>2, BelowFacts
  <1>6. cv = [i |-> cu.i + 1, j |-> 0, k |-> cu.k + gs[cu.i] - cu.j, taskIndex |-> m, k0 |-> cu.k0]
    <2>1. cu = [i |-> cu.i, j |-> cu.j, k |-> cu.k, taskIndex |-> cu.taskIndex, k0 |-> cu.k0]
      BY DEF CursorOK
    <2> QED BY <2>1 DEF AtNextGeometry
  <1>7. cu.k + gs[cu.i] - cu.j = Below(gs, cu.i + 1) /\ Below(gs, cu.i + 1) <= cu.k0
    <2> DEFINE s == gs[cu.i]
               j == cu.j
               x == cu.k
               y == cu.k0
               b == Below(gs, cu.i)
    <2>1. /\ s \in Nat /\ b \in Nat /\ j \in 0 .. s /\ b + j = x /\ x <= y /\ y \in Nat
          /\ Below(gs, cu.i + 1) = b + s
      BY <1>3, <1>4, <1>5
    <2>2. ~ (j < s /\ x + s - j >= y)
      BY DEF StartsIn
    <2> HIDE DEF s, j, x, y, b
    <2>3. x + s - j = b + s /\ b + s <= y
      BY <2>1, <2>2
    <2> QED BY <2>1, <2>3 DEF s, j, x, y, b
  <1>8. cu.i + 1 # c
    BY <1>1, <1>3, <1>5, <1>7
  <1>9. StandsAt(gs, c, cu.i + 1, 0, Below(gs, cu.i + 1))
    <2>1. cu.i + 1 \in 0 .. c - 1
      BY <1>1, <1>4, <1>8
    <2>2. gs[cu.i + 1] \in Nat
      BY <2>1 DEF GeometriesOK
    <2>3. Below(gs, cu.i + 1) \in Nat
      BY <1>5
    <2> QED BY <2>1, <2>2, <2>3 DEF StandsAt
  <1>10. /\ cv.i = cu.i + 1 /\ cv.j = 0 /\ cv.k = Below(gs, cu.i + 1) /\ cv.taskIndex = m
         /\ cv.k0 = cu.k0
         /\ cv = [i |-> cv.i, j |-> cv.j, k |-> cv.k, taskIndex |-> cv.taskIndex, k0 |-> cv.k0]
    BY <1>6, <1>7
  <1>11. CursorOK(gs, c, n, k, cv)
    <2> HIDE DEF m
    <2> QED BY <1>2, <1>7, <1>9, <1>10 DEF CursorOK
  <1> QED BY <1>10, <1>11

(* The loops before a pass.                                                 *)
LEMMA LoopsFresh ==
  ASSUME NEW gs, NEW c, NEW n \in Nat, NEW k \in Nat \ {0}, NEW ib, NEW jb, StartsOK(gs, c, n, k, k, ib, jb),
         NEW tks, tks = [t \in 0 .. k - 1 |-> [i |-> ib[t], j |-> jb[t], k |-> Cut(t, n, k), N |-> 0]],
         NEW f
  PROVE  LoopsOK(gs, c, n, k, tks, f)
  <1>1. ASSUME NEW t \in 0 .. k - 1 PROVE TaskAt(gs, c, Cut(t, n, k), Cut(t + 1, n, k), tks[t], f)
    <2> DEFINE tk == tks[t]
    <2>1. tk.i = ib[t] /\ tk.j = jb[t] /\ tk.k = Cut(t, n, k) /\ tk.N = 0
      OBVIOUS
    <2>2. /\ Cut(t, n, k) \in Nat /\ Cut(t + 1, n, k) \in Nat
          /\ Cut(t, n, k) \in Cut(t, n, k) .. Cut(t + 1, n, k)
      <3>1. Cut(t, n, k) \in Nat /\ Cut(t + 1, n, k) \in Nat /\ Cut(t, n, k) <= Cut(t + 1, n, k)
        BY ShareFacts
      <3> QED BY <3>1
    <2>3. Number(f, Cut(t, n, k), Cut(t, n, k)) = 0
      BY <2>2, NumberFacts
    <2>4. StandsAt(gs, c, ib[t], jb[t], Cut(t, n, k))
      BY DEF StartsOK
    <2> HIDE DEF tk
    <2>5. TaskAt(gs, c, Cut(t, n, k), Cut(t + 1, n, k), tk, f)
      BY <2>1, <2>2, <2>3, <2>4 DEF TaskAt
    <2> QED BY <2>5 DEF tk
  <1>2. tks = [t \in 0 .. k - 1 |-> tks[t]]
    OBVIOUS
  <1> QED BY <1>1, <1>2 DEF LoopsOK

(* When no loop is left running.                                            *)
LEMMA LoopsEnded ==
  ASSUME NEW gs, NEW c, NEW n \in Nat, NEW k \in Nat \ {0}, NEW tks, NEW f, LoopsOK(gs, c, n, k, tks, f),
         \A t \in 0 .. k - 1 : ~ (tks[t].k < Cut(t + 1, n, k))
  PROVE  \A t \in 0 .. k - 1 :
           /\ tks[t].k = Cut(t + 1, n, k)
           /\ tks[t].N = Number(f, Cut(t, n, k), Cut(t + 1, n, k))
  <1> TAKE t \in 0 .. k - 1
  <1>1. tks[t].k \in Cut(t, n, k) .. Cut(t + 1, n, k) /\ tks[t].N = Number(f, Cut(t, n, k), tks[t].k)
    BY DEF LoopsOK, TaskAt
  <1>2. Cut(t, n, k) \in Nat /\ Cut(t + 1, n, k) \in Nat
    BY ShareFacts
  <1>3. tks[t].k = Cut(t + 1, n, k)
    BY <1>1, <1>2
  <1> QED BY <1>1, <1>3

Numbers(h, f, n, k) == \A t \in 0 .. k - 1 : h[t] = Number(f, Cut(t, n, k), Cut(t + 1, n, k))

LEMMA RefsNumbers ==
  ASSUME NEW n \in Nat, NEW k \in Nat \ {0}, NEW f, NEW h, Numbers(h, f, n, k)
  PROVE  /\ \A t \in 0 .. k - 1 : SumFunctionOnSet(h, 0 .. t - 1) = Number(f, 0, Cut(t, n, k))
         /\ SumFunctionOnSet(h, 0 .. k - 1) = Number(f, 0, n)
  <1>1. \A s \in 0 .. k : SumFunctionOnSet(h, 0 .. s - 1) = Number(f, 0, Cut(s, n, k))
    <2>1. \A t \in 0 .. k - 1 : h[t] = Number(f, Cut(t, n, k), Cut(t + 1, n, k))
      BY DEF Numbers
    <2> QED BY <2>1, NumberOfTasks
  <1>2. k \in 0 .. k /\ \A t \in 0 .. k - 1 : t \in 0 .. k
    OBVIOUS
  <1>3. Cut(k, n, k) = n
    BY CutFacts
  <1> QED BY <1>1, <1>2, <1>3

------------------------------------------------------------------------------
(* The state. Names of the model in the terms of the lemmas.                *)
PositionsN == Below(getSize, NumGeometries)

RefTaskCount(n, tc) ==
  PrimRefs!Max({1, PrimRefs!Min({tc, (n + MinStepSize - 1) \div MinStepSize, MaxTasks})})

RefTasks == RefTaskCount(PositionsN, threadCount)

SinglesNow == SinglesOf(getSize, NumGeometries, quadification)

KeepersNow == KeepersOf(getSize, NumGeometries, quadification, valid)

LEMMA RefsNames ==
  /\ PrimRefs!SizeN = PositionsN
  /\ PrimRefs!taskCount = RefTasks
  /\ PrimRefs!Tasks = 0 .. RefTasks - 1
  /\ \A t : PrimRefs!First(t) = Cut(t, PositionsN, RefTasks)
  <1>1. PrimRefs!SizeN = PositionsN
    BY DEF PrimRefs!SizeN, PrimRefs!Geometries, PositionsN, Below, PrimRefs!MapThenSumSet,
           PrimRefs!MapThenFoldSet, SumFunctionOnSet, FoldFunctionOnSet, MapThenFoldSet
  <1>2. PrimRefs!taskCount = RefTasks
    BY <1>1 DEF PrimRefs!taskCount, RefTasks, RefTaskCount
  <1>3. PrimRefs!Tasks = 0 .. RefTasks - 1
    BY <1>2 DEF PrimRefs!Tasks
  <1>4. \A t : PrimRefs!First(t) = Cut(t, PositionsN, RefTasks)
    BY <1>1, <1>2 DEF PrimRefs!First, Cut
  <1> QED BY <1>1, <1>2, <1>3, <1>4

LEMMA RefsMin ==
  ASSUME NEW S, \E x \in S : \A y \in S : x <= y
  PROVE  PrimRefs!Min(S) \in S /\ \A y \in S : PrimRefs!Min(S) <= y
  BY DEF PrimRefs!Min

LEMMA RefsMax == ASSUME NEW m \in Nat PROVE PrimRefs!Max({1, m}) = IF m > 1 THEN m ELSE 1
  <1>1. PrimRefs!Max({1, m}) = CHOOSE x \in {1, m} : \A y \in {1, m} : x >= y
    BY DEF PrimRefs!Max
  <1>2. \E x \in {1, m} : \A y \in {1, m} : x >= y
    <2>1. m >= 1 \/ 1 >= m
      OBVIOUS
    <2> QED BY <2>1
  <1>3. PrimRefs!Max({1, m}) \in {1, m} /\ \A y \in {1, m} : PrimRefs!Max({1, m}) >= y
    BY <1>1, <1>2
  <1> QED BY <1>3

LEMMA RefsTaskCount ==
  ASSUME PrimRefs!SizesAssumption, NEW n \in Nat, NEW tc \in Nat \ {0}
  PROVE  RefTaskCount(n, tc) \in Nat \ {0} /\ (RefTaskCount(n, tc) > 1 => n > 0)
  <1> DEFINE d == (n + MinStepSize - 1) \div MinStepSize
             S == {tc, d, MaxTasks}
             m == PrimRefs!Min(S)
  <1>1. MinStepSize \in Nat \ {0} /\ MaxTasks \in Nat \ {0}
    BY DEF PrimRefs!SizesAssumption
  <1>2. d \in Nat /\ (n = 0 => d = 0)
    <2>1. n + MinStepSize - 1 \in Nat
      BY <1>1
    <2>2. \A x, y \in Nat : y # 0 => x \div y \in Nat /\ (x < y => x \div y = 0)
      OBVIOUS
    <2> QED BY <1>1, <2>1, <2>2
  <1> HIDE DEF d
  <1>3. S \in SUBSET Nat /\ S # {} /\ d \in S
    BY <1>1, <1>2
  <1>4. RefTaskCount(n, tc) = PrimRefs!Max({1, m})
    BY DEF RefTaskCount, d
  <1> HIDE DEF S, m
  <1>5. \E x \in S : \A y \in S : x <= y
    BY <1>3, SmallestNat
  <1>6. m \in S /\ \A y \in S : m <= y
    BY <1>5, RefsMin DEF m
  <1>7. m \in Nat /\ m <= d
    BY <1>3, <1>6
  <1>8. PrimRefs!Max({1, m}) = IF m > 1 THEN m ELSE 1
    BY <1>7, RefsMax
  <1> QED BY <1>2, <1>4, <1>7, <1>8

(* The counts of the tasks, added up.                                       *)
IsTaskSum(h, S) ==
  h = [s \in SUBSET S |-> IF s = {} THEN 0 ELSE task[Pick(s)].N + h[s \ {Pick(s)}]]

TaskSumOf(S) == (CHOOSE h : IsTaskSum(h, S))[S]

LEMMA TaskSumIs ==
  ASSUME NEW S, IsFiniteSet(S), NEW g, \A t \in S : g[t] = task[t].N
  PROVE  TaskSumOf(S) = SumFunctionOnSet(g, S)
  <1>2. SumFunctionOnSet(g, S) = (CHOOSE h : IsSum(h, g, S))[S]
    BY DEF SumFunctionOnSet, FoldFunctionOnSet, MapThenFoldSet, IsSum, Pick
  <1>3. ASSUME NEW h PROVE IsTaskSum(h, S) <=> IsSum(h, g, S)
    <2>1. \A s \in SUBSET S : s # {} => g[Pick(s)] = task[Pick(s)].N
      BY DEF Pick
    <2> QED BY <2>1 DEF IsTaskSum, IsSum
  <1>4. (CHOOSE h : IsTaskSum(h, S)) = (CHOOSE h : IsSum(h, g, S))
    <2>1. PICK h : IsSum(h, g, S) /\ \A k : IsSum(k, g, S) => k = h
      BY SumUnique
    <2> QED BY <1>3, <2>1
  <1> QED BY <1>2, <1>4 DEF TaskSumOf

LEMMA CountedIs ==
  /\ PrimRefs!Counted = TaskSumOf(0 .. RefTasks - 1)
  /\ PrimRefs!PrefixSums = [t \in 0 .. RefTasks - 1 |-> TaskSumOf(0 .. t - 1)]
  <1>1. PrimRefs!Counted = TaskSumOf(PrimRefs!Tasks)
    BY DEF PrimRefs!Counted, PrimRefs!MapThenSumSet, PrimRefs!MapThenFoldSet, TaskSumOf, IsTaskSum, Pick
  <1>2. PrimRefs!PrefixSums = [t \in PrimRefs!Tasks |-> TaskSumOf(0 .. t - 1)]
    BY DEF PrimRefs!PrefixSums, PrimRefs!MapThenSumSet, PrimRefs!MapThenFoldSet, TaskSumOf, IsTaskSum,
           Pick
  <1> QED BY <1>1, <1>2, RefsNames

(* What the tasks counted when all have ended.                              *)
TasksCount(tks, f, n, k) ==
  \A t \in 0 .. k - 1 : tks[t].N = Number(f, Cut(t, n, k), Cut(t + 1, n, k))

LEMMA RefsCounted ==
  ASSUME NEW n \in Nat, NEW k \in Nat \ {0}, k = RefTasks, NEW f,
         TasksCount(task, f, n, k)
  PROVE  /\ PrimRefs!Counted = Number(f, 0, n)
         /\ PrimRefs!PrefixSums = [t \in 0 .. k - 1 |-> PrimRefs!PrefixSums[t]]
         /\ \A t \in 0 .. k - 1 : PrimRefs!PrefixSums[t] = Number(f, 0, Cut(t, n, k))
  <1> DEFINE g == [t \in 0 .. k - 1 |-> task[t].N]
  <1>1. \A t \in 0 .. k - 1 : g[t] = Number(f, Cut(t, n, k), Cut(t + 1, n, k)) /\ g[t] = task[t].N
    BY DEF TasksCount
  <1>2. \A t \in 0 .. k - 1 : IsFiniteSet(0 .. t - 1) /\ 0 .. t - 1 \in SUBSET (0 .. k - 1)
    BY FS_Interval
  <1>3. IsFiniteSet(0 .. k - 1)
    BY FS_Interval
  <1> HIDE DEF g
  <1>4. /\ \A t \in 0 .. k - 1 : SumFunctionOnSet(g, 0 .. t - 1) = Number(f, 0, Cut(t, n, k))
        /\ SumFunctionOnSet(g, 0 .. k - 1) = Number(f, 0, n)
    <2>1. Numbers(g, f, n, k)
      BY <1>1 DEF Numbers
    <2> QED BY <2>1, RefsNumbers
  <1>5. TaskSumOf(0 .. k - 1) = SumFunctionOnSet(g, 0 .. k - 1)
    <2> DEFINE S == 0 .. k - 1
    <2>1. IsFiniteSet(S) /\ \A t \in S : g[t] = task[t].N
      BY <1>1, <1>3
    <2> HIDE DEF S
    <2>2. TaskSumOf(S) = SumFunctionOnSet(g, S)
      BY <2>1, TaskSumIs
    <2> QED BY <2>2 DEF S
  <1>6. ASSUME NEW t \in 0 .. k - 1 PROVE TaskSumOf(0 .. t - 1) = SumFunctionOnSet(g, 0 .. t - 1)
    <2> DEFINE S == 0 .. t - 1
    <2>1. IsFiniteSet(S) /\ \A u \in S : g[u] = task[u].N
      BY <1>1, <1>2
    <2> HIDE DEF S
    <2>2. TaskSumOf(S) = SumFunctionOnSet(g, S)
      BY <2>1, TaskSumIs
    <2> QED BY <2>2 DEF S
  <1> QED BY <1>4, <1>5, <1>6, CountedIs

------------------------------------------------------------------------------
(* The invariant. In pass 1 the slots are counted by what is single, in     *)
(* pass 2 by what is stored.                                                *)
Latest(ps, sg, kp) == IF ps = 1 THEN sg ELSE kp

PassOK(gs, c, n, k, ps, tks, sg, kp, sm, cnt, pr, wr) ==
  /\ ps \in 0 .. 2
  /\ ps = 0 => LoopsOK(gs, c, n, k, tks, sg)
  /\ ps > 0 => /\ LoopsOK(gs, c, n, k, tks, kp)
               /\ cnt = Number(Latest(ps, sg, kp), 0, n)
               /\ StoresOK(gs, c, n, k, tks, Latest(ps, sg, kp), kp, sm, pr, wr)

FilledWith(gs, c, n, g, pr) == \A x \in 0 .. n - 1 : g[x] = 1 => pr[Number(g, 0, x)] = Item(gs, c, x)

DoneOK(gs, c, n, k, tks, kp, cnt, pr) ==
  /\ TasksCount(tks, kp, n, k)
  /\ cnt = Number(kp, 0, n)
  /\ FilledWith(gs, c, n, kp, pr)

RefsInput(gs, tc) ==
  /\ GeometriesOK(gs, NumGeometries)
  /\ \A g \in 0 .. NumGeometries - 1 : gs[g] <= MaxPrimitives
  /\ Below(gs, NumGeometries) <= MaxPrimitives
  /\ tc \in Nat \ {0}

RefsInv ==
  /\ RefsInput(getSize, threadCount)
  /\ progress \in {"split", "pass", "done"}
  /\ progress = "split" =>
       /\ pass = 0
       /\ CursorOK(getSize, NumGeometries, PositionsN, RefTasks, cursor)
       /\ StartsOK(getSize, NumGeometries, PositionsN, RefTasks, cursor.taskIndex, i0, j0)
  /\ progress # "split" => StartsOK(getSize, NumGeometries, PositionsN, RefTasks, RefTasks, i0, j0)
  /\ progress = "pass" =>
       PassOK(getSize, NumGeometries, PositionsN, RefTasks, pass, task, SinglesNow, KeepersNow, sums,
              numPrimitives, primRefs, writers)
  /\ progress = "done" =>
       DoneOK(getSize, NumGeometries, PositionsN, RefTasks, task, KeepersNow, numPrimitives, primRefs)

LEMMA RefsBasics ==
  ASSUME PrimRefs!SizesAssumption, RefsInput(getSize, threadCount)
  PROVE  /\ NumGeometries \in Nat \ {0} /\ MaxPrimitives \in Nat
         /\ PositionsN \in Nat /\ PositionsN <= MaxPrimitives
         /\ RefTasks \in Nat \ {0} /\ (RefTasks > 1 => PositionsN > 0)
         /\ ItemsIn(getSize, NumGeometries, PrimRefs!Primitives)
         /\ MarksWithin(KeepersNow, SinglesNow, 0, PositionsN)
  <1>1. NumGeometries \in Nat \ {0} /\ MaxPrimitives \in Nat
    BY DEF PrimRefs!SizesAssumption
  <1>2. GeometriesOK(getSize, NumGeometries) /\ threadCount \in Nat \ {0} /\ PositionsN <= MaxPrimitives
    BY DEF RefsInput, PositionsN
  <1>3. PositionsN \in Nat
    <2>1. NumGeometries \in 0 .. NumGeometries
      BY <1>1
    <2> QED BY <1>2, <2>1, BelowFacts DEF PositionsN
  <1>4. RefTasks \in Nat \ {0} /\ (RefTasks > 1 => PositionsN > 0)
    BY <1>2, <1>3, RefsTaskCount DEF RefTasks
  <1>5. ItemsIn(getSize, NumGeometries, PrimRefs!Primitives)
    <2> SUFFICES ASSUME NEW x \in 0 .. Below(getSize, NumGeometries) - 1
                 PROVE  Item(getSize, NumGeometries, x) \in PrimRefs!Primitives
      BY DEF ItemsIn
    <2> DEFINE q == Item(getSize, NumGeometries, x)
    <2>1. IsItem(getSize, NumGeometries, q)
      BY <1>2, ItemThere
    <2> HIDE DEF q
    <2>2. q \in (0 .. NumGeometries - 1) \X Nat /\ q[2] < getSize[q[1]]
      BY <2>1 DEF IsItem
    <2>3. q[1] \in 0 .. NumGeometries - 1 /\ q[2] \in Nat /\ q = <<q[1], q[2]>>
      BY <2>2
    <2>4. getSize[q[1]] <= MaxPrimitives /\ getSize[q[1]] \in Nat
      BY <1>2, <2>3 DEF RefsInput, GeometriesOK
    <2>5. q[2] \in 0 .. MaxPrimitives
      BY <1>1, <2>2, <2>3, <2>4
    <2>6. q \in (0 .. NumGeometries - 1) \X (0 .. MaxPrimitives)
      BY <2>3, <2>5
    <2>7. q \in PrimRefs!Primitives
      BY <2>2, <2>6 DEF PrimRefs!Primitives, PrimRefs!Geometries
    <2> QED BY <2>7 DEF q
  <1>6. MarksWithin(KeepersNow, SinglesNow, 0, PositionsN)
    BY KeepersWithin DEF KeepersNow, SinglesNow, PositionsN
  <1> QED BY <1>1, <1>2, <1>3, <1>4, <1>5, <1>6

LEMMA RefsInit ==
  ASSUME PrimRefs!SizesAssumption, PrimRefs!Init
  PROVE  RefsInv
  <1>1. /\ getSize \in [0 .. NumGeometries - 1 -> 0 .. MaxPrimitives] /\ PrimRefs!SizeN <= MaxPrimitives
        /\ threadCount \in 1 .. MaxThreads
    <2>1. getSize \in {s \in [PrimRefs!Geometries -> 0 .. MaxPrimitives] :
                         PrimRefs!MapThenSumSet(LAMBDA g : s[g], PrimRefs!Geometries) <= MaxPrimitives}
      BY DEF PrimRefs!Init
    <2>2. threadCount \in 1 .. MaxThreads
      BY DEF PrimRefs!Init
    <2> QED BY <2>1, <2>2 DEF PrimRefs!SizeN, PrimRefs!Geometries
  <1>2. RefsInput(getSize, threadCount)
    <2>1. NumGeometries \in Nat \ {0} /\ MaxPrimitives \in Nat /\ MaxThreads \in Nat \ {0}
      BY DEF PrimRefs!SizesAssumption
    <2>2. GeometriesOK(getSize, NumGeometries)
      BY <1>1, <2>1 DEF GeometriesOK
    <2>3. \A g \in 0 .. NumGeometries - 1 : getSize[g] <= MaxPrimitives
      BY <1>1, <2>1
    <2>4. Below(getSize, NumGeometries) <= MaxPrimitives
      BY <1>1, RefsNames DEF PositionsN
    <2>5. threadCount \in Nat \ {0}
      BY <1>1, <2>1
    <2> QED BY <2>2, <2>3, <2>4, <2>5 DEF RefsInput
  <1>3. RefTasks \in Nat \ {0} /\ NumGeometries \in Nat \ {0} /\ PositionsN \in Nat
    BY <1>2, RefsBasics
  <1>4. /\ progress = "split" /\ pass = 0
        /\ i0 = [t \in 0 .. RefTasks - 1 |-> 0] /\ j0 = [t \in 0 .. RefTasks - 1 |-> 0]
        /\ cursor = [i |-> 0, j |-> 0, k |-> 0, taskIndex |-> 1, k0 |-> Cut(1, PositionsN, RefTasks)]
    BY RefsNames DEF PrimRefs!Init
  <1>5. StandsAt(getSize, NumGeometries, 0, 0, 0)
    <2>1. GeometriesOK(getSize, NumGeometries)
      BY <1>2 DEF RefsInput
    <2>2. Below(getSize, 0) = 0
      BY <2>1, BelowFacts
    <2>3. 0 \in 0 .. NumGeometries - 1 /\ getSize[0] \in Nat
      BY <1>3, <2>1 DEF GeometriesOK
    <2> QED BY <2>2, <2>3 DEF StandsAt
  <1>6. CursorOK(getSize, NumGeometries, PositionsN, RefTasks, cursor)
    <2>1. cursor.i = 0 /\ cursor.j = 0 /\ cursor.k = 0 /\ cursor.taskIndex = 1
          /\ cursor.k0 = Cut(1, PositionsN, RefTasks)
          /\ cursor = [i |-> cursor.i, j |-> cursor.j, k |-> cursor.k, taskIndex |-> cursor.taskIndex,
                       k0 |-> cursor.k0]
      BY <1>4
    <2>2. Cut(1, PositionsN, RefTasks) \in Nat /\ 1 \in 1 .. RefTasks
      BY <1>3, CutFacts
    <2>3. 0 <= Cut(1, PositionsN, RefTasks)
      BY <2>2
    <2> QED BY <1>5, <2>1, <2>2, <2>3 DEF CursorOK
  <1>7. StartsOK(getSize, NumGeometries, PositionsN, RefTasks, cursor.taskIndex, i0, j0)
    <2>1. cursor.taskIndex = 1 /\ Cut(0, PositionsN, RefTasks) = 0
      BY <1>3, <1>4, CutFacts
    <2>2. 0 .. 1 - 1 = {0} /\ 0 \in 0 .. RefTasks - 1
      BY <1>3
    <2>3. i0[0] = 0 /\ j0[0] = 0
      BY <1>4, <2>2
    <2> QED BY <1>4, <1>5, <2>1, <2>2, <2>3 DEF StartsOK
  <1> QED BY <1>2, <1>4, <1>6, <1>7 DEF RefsInv

(* What a step that keeps the input keeps.                                  *)
LEMMA RefsKept ==
  ASSUME UNCHANGED <<getSize, valid, threadCount>>
  PROVE  /\ PositionsN' = PositionsN /\ RefTasks' = RefTasks
         /\ (UNCHANGED quadification => SinglesNow' = SinglesNow /\ KeepersNow' = KeepersNow)
  BY DEF PositionsN, RefTasks, SinglesNow, KeepersNow

LEMMA RefsSplitTask ==
  ASSUME PrimRefs!SizesAssumption, RefsInv, PrimRefs!SplitTask
  PROVE  RefsInv'
  <1>1. /\ progress = "split" /\ cursor.taskIndex < RefTasks /\ StartsIn(getSize, cursor)
        /\ i0' = [i0 EXCEPT ![cursor.taskIndex] = cursor.i]
        /\ j0' = [j0 EXCEPT ![cursor.taskIndex] = cursor.j + cursor.k0 - cursor.k]
        /\ cursor' = [cursor EXCEPT !.j = @ + cursor.k0 - cursor.k, !.k = cursor.k0, !.taskIndex = @ + 1,
                                    !.k0 = Cut(cursor.taskIndex + 1, PositionsN, RefTasks)]
        /\ UNCHANGED <<getSize, valid, threadCount>> /\ UNCHANGED <<progress, pass>>
    BY RefsNames DEF PrimRefs!SplitTask, PrimRefs!StartsHere, StartsIn, PrimRefs!inputs
  <1>2. RefsInput(getSize, threadCount) /\ GeometriesOK(getSize, NumGeometries)
    BY DEF RefsInv, RefsInput
  <1>3. RefTasks \in Nat \ {0}
    BY <1>2, RefsBasics
  <1>4. /\ pass = 0 /\ CursorOK(getSize, NumGeometries, PositionsN, RefTasks, cursor)
        /\ StartsOK(getSize, NumGeometries, PositionsN, RefTasks, cursor.taskIndex, i0, j0)
    BY <1>1 DEF RefsInv
  <1>5. /\ CursorOK(getSize, NumGeometries, PositionsN, RefTasks, cursor')
        /\ StartsOK(getSize, NumGeometries, PositionsN, RefTasks, cursor'.taskIndex, i0', j0')
    <2>1. PositionsN = Below(getSize, NumGeometries)
      BY DEF PositionsN
    <2>2. /\ cursor' = AtNextTask(cursor, PositionsN, RefTasks)
          /\ i0' = FirstGeometries(i0, cursor) /\ j0' = FirstItems(j0, cursor)
      BY <1>1 DEF AtNextTask, FirstGeometries, FirstItems
    <2>3. cursor.taskIndex < RefTasks /\ StartsIn(getSize, cursor)
      BY <1>1
    <2> QED BY <1>2, <1>3, <1>4, <2>1, <2>2, <2>3, CursorStarts
  <1>6. PositionsN' = PositionsN /\ RefTasks' = RefTasks
    BY <1>1, RefsKept
  <1> QED BY <1>1, <1>2, <1>4, <1>5, <1>6 DEF RefsInv

LEMMA RefsSplitGeometry ==
  ASSUME PrimRefs!SizesAssumption, RefsInv, PrimRefs!SplitGeometry
  PROVE  RefsInv'
  <1>1. /\ progress = "split" /\ cursor.taskIndex < RefTasks /\ ~ StartsIn(getSize, cursor)
        /\ cursor' = [cursor EXCEPT !.i = @ + 1, !.j = 0, !.k = @ + getSize[cursor.i] - cursor.j]
        /\ UNCHANGED <<getSize, valid, threadCount>> /\ UNCHANGED <<progress, pass, i0, j0>>
    BY RefsNames DEF PrimRefs!SplitGeometry, PrimRefs!StartsHere, StartsIn, PrimRefs!inputs
  <1>2. RefsInput(getSize, threadCount) /\ GeometriesOK(getSize, NumGeometries)
    BY DEF RefsInv, RefsInput
  <1>3. RefTasks \in Nat \ {0} /\ (RefTasks > 1 => PositionsN > 0)
    BY <1>2, RefsBasics
  <1>4. /\ pass = 0 /\ CursorOK(getSize, NumGeometries, PositionsN, RefTasks, cursor)
        /\ StartsOK(getSize, NumGeometries, PositionsN, RefTasks, cursor.taskIndex, i0, j0)
    BY <1>1 DEF RefsInv
  <1>5. /\ CursorOK(getSize, NumGeometries, PositionsN, RefTasks, cursor')
        /\ cursor'.taskIndex = cursor.taskIndex
    <2>1. PositionsN = Below(getSize, NumGeometries)
      BY DEF PositionsN
    <2>2. cursor' = AtNextGeometry(getSize, cursor)
      BY <1>1 DEF AtNextGeometry
    <2> QED BY <1>1, <1>2, <1>3, <1>4, <2>1, <2>2, CursorMoves
  <1>6. PositionsN' = PositionsN /\ RefTasks' = RefTasks
    BY <1>1, RefsKept
  <1> QED BY <1>1, <1>2, <1>4, <1>5, <1>6 DEF RefsInv

LEMMA RefsSplitDone ==
  ASSUME PrimRefs!SizesAssumption, RefsInv, PrimRefs!SplitDone
  PROVE  RefsInv'
  <1> DEFINE tks == [t \in 0 .. RefTasks - 1 |-> [i |-> i0[t], j |-> j0[t], k |-> Cut(t, PositionsN, RefTasks), N |-> 0]]
  <1>1. /\ progress = "split" /\ cursor.taskIndex = RefTasks /\ progress' = "pass"
        /\ UNCHANGED <<getSize, valid, threadCount>> /\ UNCHANGED <<pass, i0, j0, quadification>>
    BY RefsNames DEF PrimRefs!SplitDone, PrimRefs!inputs
  <1>2. task' = tks
    BY RefsNames DEF PrimRefs!SplitDone, PrimRefs!Fresh
  <1>3. RefsInput(getSize, threadCount)
    BY DEF RefsInv
  <1>4. RefTasks \in Nat \ {0} /\ PositionsN \in Nat
    BY <1>3, RefsBasics
  <1>5. /\ pass = 0
        /\ StartsOK(getSize, NumGeometries, PositionsN, RefTasks, RefTasks, i0, j0)
    BY <1>1 DEF RefsInv
  <1>6. LoopsOK(getSize, NumGeometries, PositionsN, RefTasks, tks, SinglesNow)
    BY <1>4, <1>5, LoopsFresh
  <1> HIDE DEF tks
  <1>7. PositionsN' = PositionsN /\ RefTasks' = RefTasks /\ SinglesNow' = SinglesNow
    BY <1>1, RefsKept
  <1>8. PassOK(getSize, NumGeometries, PositionsN, RefTasks, pass, tks, SinglesNow, KeepersNow', sums',
               numPrimitives', primRefs', writers')
    BY <1>5, <1>6 DEF PassOK
  <1> QED BY <1>1, <1>2, <1>3, <1>5, <1>7, <1>8 DEF RefsInv

(* The model's slices are those of the lemmas.                              *)
LEMMA RefsSlice ==
  ASSUME NEW t
  PROVE  /\ PrimRefs!Running(t) <=> progress = "pass" /\ task[t].k < Cut(t + 1, PositionsN, RefTasks)
         /\ PrimRefs!SliceEnd(t) = SliceStop(getSize, task[t], Cut(t + 1, PositionsN, RefTasks))
         /\ PrimRefs!Slice(t) =
              task[t].j .. SliceStop(getSize, task[t], Cut(t + 1, PositionsN, RefTasks)) - 1
  <1>1. PrimRefs!First(t + 1) = Cut(t + 1, PositionsN, RefTasks)
    BY RefsNames
  <1>2. PrimRefs!Running(t) <=> progress = "pass" /\ task[t].k < Cut(t + 1, PositionsN, RefTasks)
    BY <1>1 DEF PrimRefs!Running
  <1>3. PrimRefs!SliceEnd(t) = SliceStop(getSize, task[t], Cut(t + 1, PositionsN, RefTasks))
    BY <1>1 DEF PrimRefs!SliceEnd, PrimRefs!Least, SliceStop
  <1> QED BY <1>2, <1>3 DEF PrimRefs!Slice

LEMMA RefsAdvance ==
  ASSUME NEW t, NEW x, PrimRefs!Advance(t, x), task = [u \in 0 .. RefTasks - 1 |-> task[u]],
         t \in 0 .. RefTasks - 1
  PROVE  task' = Stepped(getSize, PositionsN, RefTasks, task, t, x)
  <1>1. PrimRefs!SliceEnd(t) = SliceStop(getSize, task[t], Cut(t + 1, PositionsN, RefTasks))
    BY RefsSlice
  <1> QED BY <1>1 DEF PrimRefs!Advance, Stepped, Reach

LEMMA RefsQuadify ==
  ASSUME PrimRefs!SizesAssumption, RefsInv, NEW t \in PrimRefs!Tasks, PrimRefs!Quadify(t)
  PROVE  RefsInv'
  <1> DEFINE n == PositionsN
             k == RefTasks
             e == SliceStop(getSize, task[t], Cut(t + 1, n, k))
  <1>1. RefsInput(getSize, threadCount) /\ GeometriesOK(getSize, NumGeometries)
    BY DEF RefsInv, RefsInput
  <1>2. n \in Nat /\ k \in Nat \ {0} /\ ItemsIn(getSize, NumGeometries, PrimRefs!Primitives)
    BY <1>1, RefsBasics
  <1>3. t \in 0 .. k - 1
    BY RefsNames
  <1>4. /\ progress = "pass" /\ pass = 0 /\ task[t].k < Cut(t + 1, n, k)
        /\ UNCHANGED <<getSize, valid, threadCount>>
        /\ UNCHANGED <<progress, pass, i0, j0>>
    BY RefsSlice DEF PrimRefs!Quadify, PrimRefs!inputs
  <1>5. /\ StartsOK(getSize, NumGeometries, n, k, k, i0, j0)
        /\ LoopsOK(getSize, NumGeometries, n, k, task, SinglesNow)
    BY <1>4 DEF RefsInv, PassOK
  <1>6. PICK m \in PrimRefs!Pairings(PrimRefs!Slice(t)) :
          /\ quadification' = [q \in PrimRefs!Primitives |->
               IF q[1] # task[t].i \/ q[2] \notin PrimRefs!Slice(t) THEN quadification[q]
               ELSE IF \E p \in m : p[2] = q[2] THEN PrimRefs!QUADIFIER_PAIRED
               ELSE IF \E p \in m : p[1] = q[2]
               THEN (CHOOSE p \in m : p[1] = q[2])[2] - q[2]
               ELSE PrimRefs!QUADIFIER_TRIANGLE]
          /\ PrimRefs!Advance(t, PrimRefs!Cardinality(PrimRefs!Slice(t)) - PrimRefs!Cardinality(m))
    BY DEF PrimRefs!Quadify
  <1>7. PrimRefs!Slice(t) = task[t].j .. e - 1
    BY RefsSlice
  <1>8. m \in PrimRefs!Pairings(task[t].j .. e - 1)
    BY <1>7
  <1>9. quadification' = Paired(PrimRefs!Primitives, quadification, task[t].i, task[t].j, e, m)
    BY <1>6, <1>7 DEF Paired, Pair, PrimRefs!QUADIFIER_TRIANGLE
  <1>10. task' = Stepped(getSize, n, k, task, t, Cardinality(task[t].j .. e - 1) - Cardinality(m))
    <2>1. PrimRefs!Advance(t, Cardinality(task[t].j .. e - 1) - Cardinality(m))
      BY <1>6, <1>7, RefsCardinality
    <2>2. task = [u \in 0 .. k - 1 |-> task[u]]
      BY <1>5 DEF LoopsOK
    <2> HIDE DEF e
    <2> QED BY <1>3, <2>1, <2>2, RefsAdvance
  <1>11. LoopsOK(getSize, NumGeometries, n, k, task', SinglesOf(getSize, NumGeometries, quadification'))
    <2>1. n = Below(getSize, NumGeometries)
      BY DEF PositionsN
    <2>2. LoopsOK(getSize, NumGeometries, n, k, task, SinglesOf(getSize, NumGeometries, quadification))
      BY <1>5 DEF SinglesNow
    <2>3. e = SliceStop(getSize, task[t], Cut(t + 1, n, k))
      OBVIOUS
    <2> HIDE DEF n, k, e
    <2> QED BY <1>1, <1>2, <1>3, <1>4, <1>8, <1>9, <1>10, <2>1, <2>2, <2>3, LoopsQuadify
  <1>12. PositionsN' = PositionsN /\ RefTasks' = RefTasks
    BY <1>4, RefsKept
  <1>13. SinglesNow' = SinglesOf(getSize, NumGeometries, quadification')
    BY <1>4 DEF SinglesNow
  <1>14. PassOK(getSize, NumGeometries, n, k, pass, task', SinglesNow', KeepersNow', sums',
                numPrimitives', primRefs', writers')
    BY <1>4, <1>11, <1>13 DEF PassOK
  <1> QED BY <1>1, <1>4, <1>5, <1>12, <1>14 DEF RefsInv

GoingInto(t, s) == {p \in PrimRefs!Kept(t) : PrimRefs!SlotOf(t, p) = s}

LEMMA RefsStore ==
  ASSUME PrimRefs!SizesAssumption, RefsInv, NEW t \in PrimRefs!Tasks, PrimRefs!Store(t)
  PROVE  RefsInv'
  <1> DEFINE n == PositionsN
             k == RefTasks
             hi == Cut(t + 1, n, k)
             Q == KeptOf(getSize, task[t], hi, quadification, valid)
             a == sums[t] + task[t].N
             f == Latest(pass, SinglesNow, KeepersNow)
  <1>1. RefsInput(getSize, threadCount) /\ GeometriesOK(getSize, NumGeometries)
    BY DEF RefsInv, RefsInput
  <1>2. /\ n \in Nat /\ k \in Nat \ {0} /\ MaxPrimitives \in Nat /\ n <= MaxPrimitives
        /\ MarksWithin(KeepersNow, SinglesNow, 0, n)
    BY <1>1, RefsBasics
  <1>3. t \in 0 .. k - 1
    BY RefsNames
  <1>4. /\ progress = "pass" /\ pass > 0 /\ task[t].k < hi
        /\ UNCHANGED <<getSize, valid, threadCount>>
        /\ UNCHANGED <<progress, pass, i0, j0, sums, quadification, numPrimitives>>
    BY RefsSlice DEF PrimRefs!Store, PrimRefs!inputs
  <1>5. /\ StartsOK(getSize, NumGeometries, n, k, k, i0, j0) /\ pass \in 0 .. 2
        /\ LoopsOK(getSize, NumGeometries, n, k, task, KeepersNow)
        /\ numPrimitives = Number(f, 0, n)
        /\ StoresOK(getSize, NumGeometries, n, k, task, f, KeepersNow, sums, primRefs, writers)
    BY <1>4 DEF RefsInv, PassOK
  <1>6. PrimRefs!Kept(t) = Q
    <2>1. \A p : PrimRefs!Stored(task[t].i, p) <=>
                   Single(quadification, <<task[t].i, p>>) /\ Sound(quadification, valid, <<task[t].i, p>>)
      BY DEF PrimRefs!Stored, Single, Sound
    <2> QED BY <2>1, RefsSlice DEF PrimRefs!Kept, KeptOf
  <1>7. \A s : {p \in PrimRefs!Kept(t) : PrimRefs!SlotOf(t, p) = s} = Into(Q, a, s)
    <2>1. ASSUME NEW p PROVE PrimRefs!SlotOf(t, p) = a + Cardinality(UpTo(Q, p))
      <3> HIDE DEF Q
      <3> QED BY <1>6, RefsCardinality DEF PrimRefs!SlotOf, PrimRefs!Base, UpTo
    <2> HIDE DEF Q, a
    <2> QED BY <1>6, <2>1 DEF Into
  <1>8. primRefs' = Written(Q, a, task[t].i, primRefs) /\ writers' = Signed(Q, a, t, writers)
    <2>1. primRefs' = [s \in PrimRefs!Slots |->
             IF GoingInto(t, s) = {} THEN primRefs[s] ELSE <<task[t].i, SomeOf(GoingInto(t, s))>>]
      BY DEF PrimRefs!Store, GoingInto, SomeOf
    <2>2. writers' = [s \in PrimRefs!Slots |->
             IF GoingInto(t, s) = {} THEN writers[s] ELSE writers[s] \union {t}]
      BY DEF PrimRefs!Store, GoingInto
    <2> HIDE DEF Q, a
    <2>3. \A s : GoingInto(t, s) = Into(Q, a, s)
      BY <1>7 DEF GoingInto
    <2> QED BY <2>1, <2>2, <2>3 DEF Written, Signed
  <1>9. task' = Stepped(getSize, n, k, task, t, Cardinality(Q))
    <2>1. PrimRefs!Advance(t, Cardinality(Q))
      <3> HIDE DEF Q
      <3> QED BY <1>6, RefsCardinality DEF PrimRefs!Store
    <2>2. task = [u \in 0 .. k - 1 |-> task[u]]
      BY <1>5 DEF LoopsOK
    <2> HIDE DEF Q
    <2> QED BY <1>3, <2>1, <2>2, RefsAdvance
  <1>10. MarksWithin(KeepersNow, f, 0, n)
    BY <1>2 DEF Latest, MarksWithin
  <1>11. /\ LoopsOK(getSize, NumGeometries, n, k, task', KeepersNow)
         /\ StoresOK(getSize, NumGeometries, n, k, task', f, KeepersNow, sums, primRefs', writers')
    <2>1. n = Below(getSize, NumGeometries)
      BY DEF PositionsN
    <2>2. KeepersNow = KeepersOf(getSize, NumGeometries, quadification, valid)
      BY DEF KeepersNow
    <2>3. Q = KeptOf(getSize, task[t], Cut(t + 1, n, k), quadification, valid) /\ a = sums[t] + task[t].N
      OBVIOUS
    <2>4. task[t].k < Cut(t + 1, n, k)
      BY <1>4
    <2> HIDE DEF n, k, Q, a, f, hi
    <2> QED BY <1>1, <1>2, <1>3, <1>5, <1>8, <1>9, <1>10, <2>1, <2>2, <2>3, <2>4, StoresStep
  <1>12. /\ PositionsN' = PositionsN /\ RefTasks' = RefTasks
         /\ SinglesNow' = SinglesNow /\ KeepersNow' = KeepersNow
    BY <1>4, RefsKept
  <1>13. PassOK(getSize, NumGeometries, n, k, pass, task', SinglesNow, KeepersNow, sums,
                numPrimitives, primRefs', writers')
    BY <1>4, <1>5, <1>11 DEF PassOK
  <1> HIDE DEF Q, a, f, hi
  <1> QED BY <1>1, <1>4, <1>5, <1>12, <1>13 DEF RefsInv

(* When all tasks have returned.                                            *)
LEMMA RefsBarrier ==
  ASSUME PrimRefs!SizesAssumption, RefsInv, PrimRefs!Barrier, NEW f,
         f = IF pass = 0 THEN SinglesNow ELSE KeepersNow
  PROVE  /\ \A t \in 0 .. RefTasks - 1 :
              task[t].k = Cut(t + 1, PositionsN, RefTasks)
         /\ TasksCount(task, f, PositionsN, RefTasks)
         /\ PrimRefs!Counted = Number(f, 0, PositionsN)
         /\ PrimRefs!PrefixSums = [t \in 0 .. RefTasks - 1 |-> PrimRefs!PrefixSums[t]]
         /\ \A t \in 0 .. RefTasks - 1 :
              PrimRefs!PrefixSums[t] = Number(f, 0, Cut(t, PositionsN, RefTasks))
  <1> DEFINE n == PositionsN
             k == RefTasks
  <1>1. RefsInput(getSize, threadCount)
    BY DEF RefsInv
  <1>2. n \in Nat /\ k \in Nat \ {0} /\ k = RefTasks
    BY <1>1, RefsBasics
  <1>3. progress = "pass" /\ \A t \in 0 .. k - 1 : ~ PrimRefs!Running(t)
    BY RefsNames DEF PrimRefs!Barrier
  <1>4. \A t \in 0 .. k - 1 : ~ (task[t].k < Cut(t + 1, n, k))
    BY <1>3, RefsSlice
  <1>5. PassOK(getSize, NumGeometries, n, k, pass, task, SinglesNow, KeepersNow, sums,
               numPrimitives, primRefs, writers)
    BY <1>3 DEF RefsInv
  <1>6. LoopsOK(getSize, NumGeometries, n, k, task, f)
    <2>1. pass = 0 \/ pass > 0
      BY <1>5 DEF PassOK
    <2> QED BY <1>5, <2>1 DEF PassOK
  <1> HIDE DEF n, k
  <1>7. \A t \in 0 .. k - 1 :
           /\ task[t].k = Cut(t + 1, n, k)
           /\ task[t].N = Number(f, Cut(t, n, k), Cut(t + 1, n, k))
    BY <1>2, <1>4, <1>6, LoopsEnded
  <1>8. TasksCount(task, f, n, k)
    BY <1>7 DEF TasksCount
  <1>9. /\ PrimRefs!Counted = Number(f, 0, n)
        /\ PrimRefs!PrefixSums = [t \in 0 .. k - 1 |-> PrimRefs!PrefixSums[t]]
        /\ \A t \in 0 .. k - 1 : PrimRefs!PrefixSums[t] = Number(f, 0, Cut(t, n, k))
    BY <1>2, <1>8, RefsCounted
  <1> QED BY <1>7, <1>8, <1>9 DEF n, k

(* Nothing is stored before a pass.                                         *)
LEMMA StoresFresh ==
  ASSUME NEW gs, NEW c, NEW n \in Nat, NEW k \in Nat \ {0},
         NEW tks, \A t \in 0 .. k - 1 : tks[t].k = Cut(t, n, k),
         NEW f, NEW g, NEW sm, \A t \in 0 .. k - 1 : sm[t] = Number(f, 0, Cut(t, n, k)),
         NEW pr, NEW wr, wr = [s \in PrimRefs!Slots |-> {}]
  PROVE  StoresOK(gs, c, n, k, tks, f, g, sm, pr, wr)
  <1>1. ASSUME NEW t \in 0 .. k - 1 PROVE Cut(t, n, k) .. tks[t].k - 1 = {}
    <2>1. Cut(t, n, k) \in Nat
      BY ShareFacts
    <2> QED BY <2>1
  <1> QED BY <1>1 DEF StoresOK

LEMMA RefsNextPass ==
  ASSUME PrimRefs!SizesAssumption, RefsInv, PrimRefs!NextPass
  PROVE  RefsInv'
  <1> DEFINE n == PositionsN
             k == RefTasks
             f == IF pass = 0 THEN SinglesNow ELSE KeepersNow
             tks == [t \in 0 .. RefTasks - 1 |-> [i |-> i0[t], j |-> j0[t], k |-> Cut(t, PositionsN, RefTasks), N |-> 0]]
  <1>1. /\ PrimRefs!Barrier /\ progress = "pass" /\ pass \in {0, 1} /\ pass' = pass + 1
        /\ sums' = PrimRefs!PrefixSums /\ numPrimitives' = PrimRefs!Counted
        /\ writers' = [s \in PrimRefs!Slots |-> {}]
        /\ UNCHANGED <<getSize, valid, threadCount>>
        /\ UNCHANGED <<progress, i0, j0, quadification>>
    BY DEF PrimRefs!NextPass, PrimRefs!inputs, PrimRefs!Barrier
  <1>2. task' = tks
    BY RefsNames DEF PrimRefs!NextPass, PrimRefs!Fresh
  <1>3. RefsInput(getSize, threadCount) /\ StartsOK(getSize, NumGeometries, n, k, k, i0, j0)
    BY <1>1 DEF RefsInv
  <1>4. n \in Nat /\ k \in Nat \ {0}
    BY <1>3, RefsBasics
  <1>5. /\ numPrimitives' = Number(f, 0, n)
        /\ \A t \in 0 .. k - 1 : sums'[t] = Number(f, 0, Cut(t, n, k))
    BY <1>1, RefsBarrier
  <1>6. \A t \in 0 .. k - 1 : tks[t].k = Cut(t, n, k)
    OBVIOUS
  <1>7. LoopsOK(getSize, NumGeometries, n, k, tks, KeepersNow)
    BY <1>3, <1>4, LoopsFresh
  <1> HIDE DEF tks
  <1>8. StoresOK(getSize, NumGeometries, n, k, tks, f, KeepersNow, sums', primRefs', writers')
    <2> HIDE DEF n, k, f
    <2> QED BY <1>1, <1>4, <1>5, <1>6, StoresFresh
  <1>9. f = Latest(pass', SinglesNow, KeepersNow) /\ pass' \in 0 .. 2 /\ pass' > 0
    BY <1>1 DEF Latest
  <1> HIDE DEF f
  <1>10. PassOK(getSize, NumGeometries, n, k, pass', tks, SinglesNow, KeepersNow, sums',
                numPrimitives', primRefs', writers')
    BY <1>5, <1>7, <1>8, <1>9 DEF PassOK
  <1>11. /\ PositionsN' = PositionsN /\ RefTasks' = RefTasks
         /\ SinglesNow' = SinglesNow /\ KeepersNow' = KeepersNow
    BY <1>1, RefsKept
  <1> QED BY <1>1, <1>2, <1>3, <1>10, <1>11 DEF RefsInv

(* What is stored when the last pass had no holes to leave.                 *)
LEMMA StoresDone ==
  ASSUME NEW gs, NEW c, NEW n \in Nat, NEW k \in Nat \ {0}, NEW tks,
         \A t \in 0 .. k - 1 : tks[t].k = Cut(t + 1, n, k),
         NEW f, NEW g, MarksWithin(g, f, 0, n), Number(f, 0, n) = Number(g, 0, n),
         NEW sm, NEW pr, NEW wr, StoresOK(gs, c, n, k, tks, f, g, sm, pr, wr)
  PROVE  \A x \in 0 .. n - 1 : g[x] = 1 => pr[Number(g, 0, x)] = Item(gs, c, x)
  <1> SUFFICES ASSUME NEW x \in 0 .. n - 1, g[x] = 1
               PROVE  pr[Number(g, 0, x)] = Item(gs, c, x)
    OBVIOUS
  <1>1. PICK t \in 0 .. k - 1 : x \in Cut(t, n, k) .. Cut(t + 1, n, k) - 1
    BY CutTiles
  <1>2. pr[Place(f, g, Cut(t, n, k), x)] = Item(gs, c, x)
    BY <1>1 DEF StoresOK
  <1>3. Cut(t, n, k) \in Nat /\ Cut(t, n, k) \in 0 .. n /\ x \in Nat /\ Cut(t, n, k) <= x
    <2>1. Cut(t, n, k) \in Nat /\ Cut(t, n, k) \in 0 .. n /\ Cut(t + 1, n, k) \in Nat
      BY ShareFacts
    <2> QED BY <1>1, <2>1
  <1>4. MarksWithin(f, g, 0, n)
    <2>1. 0 \in Nat
      OBVIOUS
    <2> QED BY <2>1, NumberWithin
  <1>5. MarksWithin(f, g, 0, Cut(t, n, k)) /\ MarksWithin(g, f, 0, Cut(t, n, k))
    BY <1>3, <1>4 DEF MarksWithin
  <1>6. Number(f, 0, Cut(t, n, k)) = Number(g, 0, Cut(t, n, k))
    BY <1>3, <1>5, NumberWithin
  <1>7. Number(g, 0, x) = Number(g, 0, Cut(t, n, k)) + Number(g, Cut(t, n, k), x)
    <2>1. 0 \in Nat /\ 0 <= Cut(t, n, k)
      BY <1>3
    <2> QED BY <1>3, <2>1, NumberSplit
  <1> QED BY <1>2, <1>6, <1>7 DEF Place

(* The answer, when the array is filled.                                    *)
WantedOf(P, qd, vl) == {q \in P : Single(qd, q) /\ Sound(qd, vl, q)}

LEMMA FilledExactly ==
  ASSUME NEW gs, NEW c, GeometriesOK(gs, c), NEW n \in Nat, n = Below(gs, c), NEW qd, NEW vl,
         NEW g, g = KeepersOf(gs, c, qd, vl), NEW pr, FilledWith(gs, c, n, g, pr),
         NEW P, ItemsIn(gs, c, P), \A q \in P : IsItem(gs, c, q),
         NEW m, m = Number(g, 0, n)
  PROVE  /\ {pr[s] : s \in 0 .. m - 1} = WantedOf(P, qd, vl)
         /\ \A s, r \in 0 .. m - 1 : s < r => PrimRefs!Precedes(pr[s], pr[r])
  <1>1. ASSUME NEW s \in 0 .. m - 1
        PROVE  \E x \in 0 .. n - 1 : g[x] = 1 /\ Number(g, 0, x) = s /\ pr[s] = Item(gs, c, x)
    <2>1. PICK x \in 0 .. n - 1 : g[x] = 1 /\ Number(g, 0, x) = s
      BY NumberReached
    <2> QED BY <2>1 DEF FilledWith
  <1>2. \A x \in 0 .. n - 1 : g[x] = 1 <=> Single(qd, Item(gs, c, x)) /\ Sound(qd, vl, Item(gs, c, x))
    BY DEF KeepersOf
  <1>3. ASSUME NEW s \in 0 .. m - 1 PROVE pr[s] \in WantedOf(P, qd, vl)
    <2>1. PICK x \in 0 .. n - 1 : g[x] = 1 /\ pr[s] = Item(gs, c, x)
      BY <1>1
    <2>2. Item(gs, c, x) \in P
      BY DEF ItemsIn
    <2> QED BY <1>2, <2>1, <2>2 DEF WantedOf
  <1>4. ASSUME NEW q \in WantedOf(P, qd, vl) PROVE \E s \in 0 .. m - 1 : pr[s] = q
    <2>1. q \in P /\ Single(qd, q) /\ Sound(qd, vl, q) /\ IsItem(gs, c, q)
      BY DEF WantedOf
    <2>2. q[1] \in 0 .. c - 1 /\ q[2] \in Nat /\ q = <<q[1], q[2]>> /\ q[2] < gs[q[1]]
      BY <2>1 DEF IsItem
    <2>3. q[2] \in 0 .. gs[q[1]] - 1
      <3>1. gs[q[1]] \in Nat
        BY <2>2 DEF GeometriesOK
      <3> QED BY <2>2, <3>1
    <2> DEFINE x == Below(gs, q[1]) + q[2]
    <2>4. Item(gs, c, x) = q /\ x \in 0 .. n - 1
      BY <2>2, <2>3, ItemAt
    <2> HIDE DEF x
    <2>5. g[x] = 1
      BY <1>2, <2>1, <2>4
    <2>6. pr[Number(g, 0, x)] = q
      BY <2>4, <2>5 DEF FilledWith
    <2>7. Number(g, 0, x) \in Nat /\ m \in Nat /\ Number(g, 0, x) < m
      <3>1. x \in Nat /\ n \in Nat /\ 0 \in Nat /\ 0 <= x /\ x < n /\ x <= n
        BY <2>4
      <3> QED BY <2>5, <3>1, NumberGrows
    <2>8. Number(g, 0, x) \in 0 .. m - 1
      BY <2>7
    <2> QED BY <2>6, <2>8
  <1>5. {pr[s] : s \in 0 .. m - 1} = WantedOf(P, qd, vl)
    <2> DEFINE W == WantedOf(P, qd, vl)
    <2>1. \A q \in W : \E s \in 0 .. m - 1 : pr[s] = q
      BY <1>4
    <2>2. \A s \in 0 .. m - 1 : pr[s] \in W
      BY <1>3
    <2> HIDE DEF W
    <2>3. {pr[s] : s \in 0 .. m - 1} = W
      BY <2>1, <2>2
    <2> QED BY <2>3 DEF W
  <1>6. ASSUME NEW s \in 0 .. m - 1, NEW r \in 0 .. m - 1, s < r
        PROVE  PrimRefs!Precedes(pr[s], pr[r])
    <2>1. PICK x \in 0 .. n - 1 : Number(g, 0, x) = s /\ pr[s] = Item(gs, c, x)
      BY <1>1
    <2>2. PICK y \in 0 .. n - 1 : Number(g, 0, y) = r /\ pr[r] = Item(gs, c, y)
      BY <1>1
    <2>3. x < y
      <3>1. x \in Nat /\ y \in Nat /\ 0 \in Nat /\ 0 <= y
        OBVIOUS
      <3>2. CASE y <= x
        <4>1. Number(g, 0, y) <= Number(g, 0, x) /\ Number(g, 0, y) \in Nat /\ Number(g, 0, x) \in Nat
          BY <3>1, <3>2, NumberGrows
        <4>2. r <= s /\ r \in Nat /\ s \in Nat
          BY <2>1, <2>2, <4>1
        <4>3. ~ (s < r)
          BY <4>2
        <4> QED BY <1>6, <4>3
      <3> QED BY <3>1, <3>2
    <2> DEFINE q == Item(gs, c, x)
               o == Item(gs, c, y)
    <2>4. /\ IsItem(gs, c, q) /\ Below(gs, q[1]) + q[2] = x
          /\ IsItem(gs, c, o) /\ Below(gs, o[1]) + o[2] = y
      BY ItemThere
    <2> HIDE DEF q, o
    <2>5. q[1] \in 0 .. c - 1 /\ q[2] \in 0 .. gs[q[1]] - 1
      <3>1. q[1] \in 0 .. c - 1 /\ q[2] \in Nat /\ q[2] < gs[q[1]]
        BY <2>4 DEF IsItem
      <3>2. gs[q[1]] \in Nat
        BY <3>1 DEF GeometriesOK
      <3> QED BY <3>1, <3>2
    <2>6. o[1] \in 0 .. c - 1 /\ o[2] \in 0 .. gs[o[1]] - 1
      <3>1. o[1] \in 0 .. c - 1 /\ o[2] \in Nat /\ o[2] < gs[o[1]]
        BY <2>4 DEF IsItem
      <3>2. gs[o[1]] \in Nat
        BY <3>1 DEF GeometriesOK
      <3> QED BY <3>1, <3>2
    <2>7. q[1] < o[1] \/ (q[1] = o[1] /\ q[2] < o[2])
      BY <2>3, <2>4, <2>5, <2>6, PositionsApart
    <2>8. PrimRefs!Precedes(q, o)
      BY <2>7 DEF PrimRefs!Precedes
    <2> QED BY <2>1, <2>2, <2>8 DEF q, o
  <1> QED BY <1>5, <1>6

LEMMA RefsFinish ==
  ASSUME PrimRefs!SizesAssumption, RefsInv, PrimRefs!Finish
  PROVE  RefsInv'
  <1> DEFINE n == PositionsN
             k == RefTasks
             f == Latest(pass, SinglesNow, KeepersNow)
             g == KeepersNow
  <1>1. /\ PrimRefs!Barrier /\ progress = "pass" /\ progress' = "done"
        /\ pass = 2 \/ (pass = 1 /\ PrimRefs!Counted = numPrimitives)
        /\ UNCHANGED <<getSize, valid, threadCount>>
        /\ UNCHANGED <<pass, i0, j0, quadification, task, numPrimitives, primRefs>>
    BY DEF PrimRefs!Finish, PrimRefs!inputs, PrimRefs!Barrier
  <1>2. /\ RefsInput(getSize, threadCount) /\ StartsOK(getSize, NumGeometries, n, k, k, i0, j0)
        /\ PassOK(getSize, NumGeometries, n, k, pass, task, SinglesNow, KeepersNow, sums,
                  numPrimitives, primRefs, writers)
    BY <1>1 DEF RefsInv
  <1>3. n \in Nat /\ k \in Nat \ {0} /\ MarksWithin(KeepersNow, SinglesNow, 0, n)
    BY <1>2, RefsBasics
  <1>4. pass > 0 /\ pass # 0
    BY <1>1
  <1>5. /\ \A t \in 0 .. k - 1 : task[t].k = Cut(t + 1, n, k)
        /\ TasksCount(task, g, n, k)
        /\ PrimRefs!Counted = Number(g, 0, n)
    BY <1>1, <1>4, RefsBarrier
  <1>6. /\ numPrimitives = Number(f, 0, n)
        /\ StoresOK(getSize, NumGeometries, n, k, task, f, g, sums, primRefs, writers)
    BY <1>2, <1>4 DEF PassOK
  <1>7. MarksWithin(g, f, 0, n) /\ Number(f, 0, n) = Number(g, 0, n)
    <2>1. CASE pass = 2
      BY <2>1 DEF Latest, MarksWithin
    <2>2. CASE pass = 1 /\ PrimRefs!Counted = numPrimitives
      BY <1>3, <1>5, <1>6, <2>2 DEF Latest
    <2> QED BY <1>1, <2>1, <2>2
  <1>8. FilledWith(getSize, NumGeometries, n, g, primRefs)
    <2>1. \A t \in 0 .. k - 1 : task[t].k = Cut(t + 1, n, k)
      BY <1>5
    <2> HIDE DEF n, k, f, g
    <2>2. \A x \in 0 .. n - 1 : g[x] = 1 => primRefs[Number(g, 0, x)] = Item(getSize, NumGeometries, x)
      BY <1>3, <1>6, <1>7, <2>1, StoresDone
    <2> QED BY <2>2 DEF FilledWith
  <1>9. DoneOK(getSize, NumGeometries, n, k, task, g, numPrimitives, primRefs)
    <2> HIDE DEF n, k, f, g
    <2> QED BY <1>5, <1>6, <1>7, <1>8 DEF DoneOK
  <1>10. /\ PositionsN' = PositionsN /\ RefTasks' = RefTasks
         /\ SinglesNow' = SinglesNow /\ KeepersNow' = KeepersNow
    BY <1>1, RefsKept
  <1> HIDE DEF f
  <1> QED BY <1>1, <1>2, <1>9, <1>10 DEF RefsInv

(* What the invariant says to the property.                                 *)
LEMMA RefsAnswer ==
  ASSUME PrimRefs!SizesAssumption, RefsInv
  PROVE  PrimRefs!OwnSlots /\ PrimRefs!ResultExact
  <1> DEFINE n == PositionsN
             k == RefTasks
             g == KeepersNow
  <1>1. RefsInput(getSize, threadCount) /\ GeometriesOK(getSize, NumGeometries)
    BY DEF RefsInv, RefsInput
  <1>2. n \in Nat /\ k \in Nat \ {0} /\ ItemsIn(getSize, NumGeometries, PrimRefs!Primitives)
    BY <1>1, RefsBasics
  <1>3. PrimRefs!OwnSlots
    <2> SUFFICES ASSUME pass > 0, progress = "pass", NEW s \in PrimRefs!Slots, NEW t \in writers[s]
                 PROVE  /\ sums[t] <= s
                        /\ s < IF t + 1 \in PrimRefs!Tasks THEN sums[t + 1] ELSE numPrimitives
      BY DEF PrimRefs!OwnSlots
    <2> DEFINE f == Latest(pass, SinglesNow, KeepersNow)
    <2>1. /\ numPrimitives = Number(f, 0, n)
          /\ StoresOK(getSize, NumGeometries, n, k, task, f, g, sums, primRefs, writers)
      BY DEF RefsInv, PassOK
    <2> HIDE DEF n, k, f, g
    <2>2. t \in 0 .. k - 1 /\ Number(f, 0, Cut(t, n, k)) <= s /\ s < Number(f, 0, Cut(t + 1, n, k))
      BY <2>1 DEF StoresOK
    <2>3. \A u \in 0 .. k - 1 : sums[u] = Number(f, 0, Cut(u, n, k))
      BY <2>1 DEF StoresOK
    <2>4. PrimRefs!Tasks = 0 .. k - 1
      BY RefsNames DEF k
    <2>5. CASE t + 1 \in 0 .. k - 1
      <3>1. sums[t + 1] = Number(f, 0, Cut(t + 1, n, k))
        BY <2>3, <2>5
      <3> QED BY <2>2, <2>3, <2>4, <2>5, <3>1
    <2>6. CASE t + 1 \notin 0 .. k - 1
      <3>1. t + 1 = k
        BY <1>2, <2>2, <2>6
      <3>2. Cut(k, n, k) = n
        BY <1>2, CutFacts
      <3>3. numPrimitives = Number(f, 0, Cut(t + 1, n, k))
        BY <2>1, <3>1, <3>2
      <3> QED BY <2>2, <2>3, <2>4, <2>6, <3>3
    <2> QED BY <2>5, <2>6
  <1>4. PrimRefs!ResultExact
    <2> SUFFICES ASSUME progress = "done" PROVE PrimRefs!ResultExact
      BY DEF PrimRefs!ResultExact
    <2> DEFINE m == PrimRefs!Counted
    <2>1. DoneOK(getSize, NumGeometries, n, k, task, g, numPrimitives, primRefs)
      BY DEF RefsInv
    <2>2. TasksCount(task, g, n, k) /\ numPrimitives = Number(g, 0, n)
          /\ FilledWith(getSize, NumGeometries, n, g, primRefs)
      BY <2>1 DEF DoneOK
    <2>3. m = Number(g, 0, n)
      <3>1. k = RefTasks
        OBVIOUS
      <3> HIDE DEF n, k, g
      <3> QED BY <1>2, <2>2, <3>1, RefsCounted
    <2>4. \A q \in PrimRefs!Primitives : IsItem(getSize, NumGeometries, q)
      <3>1. MaxPrimitives \in Nat
        BY DEF PrimRefs!SizesAssumption
      <3> QED BY <3>1 DEF PrimRefs!Primitives, PrimRefs!Geometries, IsItem
    <2>5. n = Below(getSize, NumGeometries)
      BY DEF PositionsN
    <2>6. g = KeepersOf(getSize, NumGeometries, quadification, valid)
      BY DEF KeepersNow
    <2> HIDE DEF n, k, g, m
    <2>7. /\ {primRefs[s] : s \in 0 .. m - 1} = WantedOf(PrimRefs!Primitives, quadification, valid)
          /\ \A s, r \in 0 .. m - 1 : s < r => PrimRefs!Precedes(primRefs[s], primRefs[r])
      BY <1>1, <1>2, <2>2, <2>3, <2>4, <2>5, <2>6, FilledExactly
    <2>8. WantedOf(PrimRefs!Primitives, quadification, valid)
            = {q \in PrimRefs!Primitives :
                 quadification[q] # PrimRefs!QUADIFIER_PAIRED
                 /\ {q, <<q[1], q[2] + quadification[q]>>} \subseteq valid}
      BY DEF WantedOf, Single, Sound
    <2>9. m = numPrimitives
      BY <2>2, <2>3
    <2> QED BY <2>7, <2>8, <2>9 DEF PrimRefs!ResultExact, m
  <1> QED BY <1>3, <1>4

RefsStep ==
  \/ PrimRefs!SplitTask \/ PrimRefs!SplitGeometry \/ PrimRefs!SplitDone
  \/ \E t \in PrimRefs!Tasks : PrimRefs!Quadify(t) \/ PrimRefs!Store(t)
  \/ PrimRefs!NextPass \/ PrimRefs!Finish

LEMMA RefsInvStep ==
  ASSUME PrimRefs!SizesAssumption, RefsInv, RefsStep
  PROVE  RefsInv'
  <1>1. CASE PrimRefs!SplitTask
    BY <1>1, RefsSplitTask
  <1>2. CASE PrimRefs!SplitGeometry
    BY <1>2, RefsSplitGeometry
  <1>3. CASE PrimRefs!SplitDone
    BY <1>3, RefsSplitDone
  <1>4. CASE \E t \in PrimRefs!Tasks : PrimRefs!Quadify(t)
    BY <1>4, RefsQuadify
  <1>5. CASE \E t \in PrimRefs!Tasks : PrimRefs!Store(t)
    BY <1>5, RefsStore
  <1>6. CASE PrimRefs!NextPass
    BY <1>6, RefsNextPass
  <1>7. CASE PrimRefs!Finish
    BY <1>7, RefsFinish
  <1> QED BY <1>1, <1>2, <1>3, <1>4, <1>5, <1>6, <1>7 DEF RefsStep

LEMMA AlgorithmStays ==
  ASSUME NextOfPasses \/ UNCHANGED passesVars
  PROVE  algorithm' = algorithm
  BY DEF NextOfPasses, SplitTask, SplitGeometry, SplitDone, Quadify, StoreRefs, NextPass, FinishRefs,
         Serial, Begin, Reduce, RunTask, SequentialSort, StartSort, CountDigits, CopyItems,
         SegmentStep, FindMisplaced, SwapStep, Return, PassesEnded, passesVars,
         KeepPrimRefs, KeepPrefixSum, KeepSort, KeepPartition

RefsInvariant == algorithm = "primrefs" => RefsInv

LEMMA RefsInvNext ==
  ASSUME PassesAssumption, RefsInvariant, NextOfPasses \/ UNCHANGED passesVars
  PROVE  RefsInvariant'
  <1>1. algorithm' = algorithm
    BY AlgorithmStays
  <1>2. CASE algorithm # "primrefs"
    BY <1>1, <1>2 DEF RefsInvariant
  <1>3. CASE algorithm = "primrefs"
    <2>0. PrimRefs!SizesAssumption /\ RefsInv
      BY <1>3 DEF PassesAssumption, RefsInvariant
    <2>1. RefsStep \/ UNCHANGED passesVars
      BY <1>3 DEF NextOfPasses, SplitTask, SplitGeometry, SplitDone, Quadify, StoreRefs, NextPass,
         FinishRefs, Serial, Begin, Reduce, RunTask, SequentialSort, StartSort, CountDigits,
         CopyItems, SegmentStep, FindMisplaced, SwapStep, Return, PassesEnded, RefsStep
    <2>2. CASE RefsStep
      <3>1. RefsInv'
        BY <2>0, <2>2, RefsInvStep
      <3> QED BY <3>1 DEF RefsInvariant
    <2>3. CASE UNCHANGED passesVars
      <3>1. /\ UNCHANGED <<getSize, valid, threadCount>>
            /\ UNCHANGED <<progress, pass, i0, j0, cursor, task, sums>>
            /\ UNCHANGED <<quadification, numPrimitives, primRefs, writers>>
        BY <2>3 DEF passesVars, ofPrimRefs
      <3>2. /\ PositionsN' = PositionsN /\ RefTasks' = RefTasks
            /\ SinglesNow' = SinglesNow /\ KeepersNow' = KeepersNow
        BY <3>1, RefsKept
      <3>3. RefsInv'
        BY <2>0, <3>1, <3>2 DEF RefsInv
      <3> QED BY <3>3 DEF RefsInvariant
    <2> QED BY <2>1, <2>2, <2>3
  <1> QED BY <1>2, <1>3

(* Every task of the passes over the primitives writes only to the slots    *)
(* counted for it, and at the end the array holds each valid triangle,      *)
(* or pair of triangles, once, in the order of the input and without a      *)
(* hole: for all geometries, pairings, invalid triangles, threads, task     *)
(* limits and orders of the tasks.                                          *)
THEOREM PrimRefsAreExact == SpecOfPasses => []PrimRefsExact
  <1>1. InitOfPasses => RefsInvariant
    <2> SUFFICES ASSUME InitOfPasses, algorithm = "primrefs" PROVE RefsInv
      BY DEF RefsInvariant
    <2>1. PrimRefs!Init
      BY DEF InitOfPasses, InitSort, InitPrimRefs, InitPrefixSum, InitPartition
    <2>2. PrimRefs!SizesAssumption
      BY PassesAssumption DEF PassesAssumption
    <2> QED BY <2>1, <2>2, RefsInit
  <1>2. RefsInvariant /\ [NextOfPasses]_passesVars => RefsInvariant'
    BY PassesAssumption, RefsInvNext
  <1>3. RefsInvariant => PrimRefsExact
    BY PassesAssumption, RefsAnswer DEF PassesAssumption, RefsInvariant, PrimRefsExact
  <1> QED BY <1>1, <1>2, <1>3, PTL DEF SpecOfPasses
==============================================================================
