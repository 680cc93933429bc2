---------------------------- MODULE SplittingGrid ----------------------------
(***************************************************************************)
(* How a primitive is split in pre-splitting: splitPrimitive, and           *)
(* SplittingGrid::split_pos, which it asks for the plane (rtbuild/builders/ *)
(* primrefgen_presplit.h). Planes come from a grid over the scene, so that  *)
(* neighbours are split at the same places: the highest bit in which the    *)
(* Morton codes of a box's corners differ names dimension and level.        *)
(*                                                                          *)
(* Coordinates are in tenths of a grid cell. The splitter computes where    *)
(* the edges of a primitive cross the plane in floating point, so that the  *)
(* two pieces may end up to Rounding beside it. Definitions named Mut...    *)
(* are faulty versions of the definition that follows them.                 *)
(***************************************************************************)
EXTENDS Integers, Sequences, FiniteSetsExt, SequencesExt

CONSTANTS
  NumDims,  \* Dimensions, 3 in the code.
  GridBits, \* GRID_SIZE is 2^GridBits.
  Corners,  \* The coordinates of the corners of primitives, in tenths.
  Shares,   \* The numbers of pieces asked for.
  Rounding  \* The largest error of the splitter, in tenths.

(* 1 << n.                                                                  *)
Pow2[n \in Nat] == IF n = 0 THEN 1 ELSE 2 * Pow2[n - 1]

SplittingGridAssumption ==
  /\ NumDims \in Nat \ {0} /\ GridBits \in Nat
  /\ Corners \subseteq 0 .. 10 * Pow2[GridBits]
  /\ Shares \subseteq Nat \ {0}
  /\ Rounding \in {0, 1}

Dims == 0 .. NumDims - 1

VARIABLES
  asked,    \* splitprims of the whole primitive.
  todo,     \* The calls of splitPrimitive that are due, the next one first.
  subPrims  \* The pieces.

vars == <<asked, todo, subPrims>>

(* A call: the box of the primitive, its share of the pieces, and, as a     *)
(* history, the planes that were used on the way to it.                     *)
Box(lower, upper) == [lower |-> lower, upper |-> upper]

Boxes ==
  {b \in {Box(l, u) : l \in [Dims -> Corners], u \in [Dims -> Corners]} :
     \A d \in Dims : b.lower[d] <= b.upper[d]}

Init ==
  /\ asked \in Shares
  /\ \E b \in Boxes : todo = <<[box |-> b, share |-> asked, planes |-> {}]>>
  /\ subPrims = <<>>

------------------------------------------------------------------------------
(* The cells of the corners. The box is narrowed by 0.2 of a cell at both   *)
(* ends; where nothing is left the dimension counts as empty.               *)
glower(b, d) == b.lower[d] + 2

MutUpper(b, d) == b.upper[d]

gupper(b, d) == b.upper[d] - 2

ilower(b, d) == glower(b, d) \div 10

iupper(b, d) == IF glower(b, d) >= gupper(b, d) THEN ilower(b, d) ELSE gupper(b, d) \div 10

Bit(n, l) == (n \div Pow2[l]) % 2

(* The bits of lower_code^upper_code; bitInterleave puts bit l of dimension *)
(* d at place l * NumDims + d.                                              *)
DiffBits(b) ==
  {p[1] * NumDims + p[2] : p \in
     {q \in (0 .. GridBits) \X Dims : Bit(ilower(b, q[2]), q[1]) # Bit(iupper(b, q[2]), q[1])}}

CanSplit(b) == DiffBits(b) # {}

(* Dimension and place of the plane: iupper without the bits below level.   *)
split_pos(b) ==
  LET diff == Max(DiffBits(b))
      dim == diff % NumDims
      size == Pow2[diff \div NumDims]
  IN <<dim, 10 * ((iupper(b, dim) \div size) * size)>>

------------------------------------------------------------------------------
(* splitPrimitive: a call that makes one piece ...                          *)
Emit ==
  /\ todo # <<>>
  /\ Head(todo).share = 1 \/ ~CanSplit(Head(todo).box)
  /\ subPrims' = Append(subPrims, Head(todo).box)
  /\ todo' = Tail(todo)
  /\ UNCHANGED asked

(* What the splitter gives: along dim the parts on both sides of the plane, *)
(* across it all of the box, or, when the primitive runs along a diagonal,  *)
(* its lower half in one part and its upper half in the other.              *)
Middle(b, d) == (b.lower[d] + b.upper[d]) \div 2

Half(b, dim, half) ==
  Box([d \in Dims |-> IF d # dim /\ half = "upper" THEN Middle(b, d) ELSE b.lower[d]],
      [d \in Dims |-> IF d # dim /\ half = "lower" THEN Middle(b, d) ELSE b.upper[d]])

Halves == {<<"all", "all">>, <<"lower", "upper">>, <<"upper", "lower">>}

(* ... or splits the primitive and its share in two.                        *)
Split ==
  /\ todo # <<>>
  /\ LET call == Head(todo)
         b == call.box
         dim == split_pos(b)[1]
         pos == split_pos(b)[2]
         Call(box, share) ==
           [box |-> box, share |-> share, planes |-> call.planes \union {split_pos(b)}]
     IN /\ call.share # 1 /\ CanSplit(b)
        /\ \E h \in Halves, error \in -Rounding .. Rounding :
             LET left == [Half(b, dim, h[1]) EXCEPT !.upper[dim] = pos + error]
                 right == [Half(b, dim, h[2]) EXCEPT !.lower[dim] = pos + error]
             IN todo' = <<Call(left, call.share \div 2),
                          Call(right, call.share - call.share \div 2)>> \o Tail(todo)
  /\ UNCHANGED <<asked, subPrims>>

Next == Emit \/ Split

Spec == Init /\ [][Next]_vars

------------------------------------------------------------------------------
(* Every plane cuts the primitive it is for: the asserts that the plane is  *)
(* inside and that neither part is empty. No plane is used for a primitive  *)
(* that it made already, although the parts may end a little beside it; and *)
(* there are never more pieces than asked for.                              *)
PlanesCut ==
  /\ \A i \in DOMAIN todo :
       LET b == todo[i].box
           plane == split_pos(b)
       IN CanSplit(b) =>
            /\ b.lower[plane[1]] + Rounding < plane[2]
            /\ plane[2] < b.upper[plane[1]] - Rounding
            /\ plane \notin todo[i].planes
  /\ Len(subPrims) + FoldSeq(LAMBDA c, n : c.share + n, 0, todo) <= asked
  /\ \A i \in DOMAIN subPrims, d \in Dims : subPrims[i].lower[d] <= subPrims[i].upper[d]
==============================================================================
