---------------------------- MODULE QuantisedNode ----------------------------
(***************************************************************************)
(* The boxes in an internal node (rtbuild/qnode.h): setNodeBounds chooses a *)
(* grid for the box of the node, setChildBounds stores the box of a child   *)
(* in cells of that grid, dequantize_bounds reads it. Each operation of     *)
(* floating-point numbers rounds, and this module rounds as it does, with   *)
(* fewer bits: a number has Mantissa bits in place of 24, the grid 2^Grid   *)
(* cells in place of 2^8. The integers here count a unit that is small      *)
(* enough for every number that occurs; denormal numbers do not occur.      *)
(*                                                                          *)
(* One axis is modelled, and of the two others what they add: boxes are     *)
(* enlarged relative to the largest coordinate of all three. Definitions    *)
(* named Mut... are faulty versions of the definition that follows them.    *)
(***************************************************************************)
EXTENDS Integers, FiniteSetsExt

CONSTANTS
  Mantissa, \* Bits of the mantissa, with the leading one.
  Grid,     \* Bits of a coordinate in the grid.
  MinExp,   \* The smallest exponent of a grid.
  Floats,   \* The coordinates of boxes.
  Others    \* The largest coordinates on the other axes.

Pow2[n \in Nat] == IF n = 0 THEN 1 ELSE 2 * Pow2[n - 1]

Abs(n) == IF n < 0 THEN -n ELSE n

(* The least e with |n| < 2^e, as of frexp: how often n can be halved.       *)
Bits[n \in Nat] == IF n = 0 THEN 0 ELSE 1 + Bits[n \div 2]

Exponent(n) == Bits[Abs(n)]

(* Rounding to the nearest number, and to the even one of two.              *)
Round(n) ==
  IF Exponent(n) <= Mantissa THEN n
  ELSE LET step == Pow2[Exponent(n) - Mantissa]
           q == Abs(n) \div step
           r == 2 * (Abs(n) % step)
           up == r > step \/ (r = step /\ q % 2 = 1)
           m == step * (IF up THEN q + 1 ELSE q)
       IN IF n < 0 THEN -m ELSE m

(* Multiplied by epsilon of the numbers, which is exact.                    *)
TimesUlp(n) == n \div Pow2[Mantissa - 1]

(* Numbers have more bits than the grid (24 and 8), and the unit is small:  *)
(* the cells of the smallest grid are numbers of more bits than a mantissa. *)
QuantisedNodeAssumption ==
  /\ {Mantissa, Grid, MinExp} \subseteq Nat \ {0} /\ Grid < Mantissa /\ Grid + Mantissa + 2 <= MinExp
  /\ Floats \subseteq Int /\ Others \subseteq Nat
  /\ \A f \in Floats \union Others : Round(f) = f /\ f % Pow2[2 * Mantissa + 2] = 0

MaxCell == Pow2[Grid] - 1

Boxes == {b \in [lower : Floats, upper : Floats] : b.lower <= b.upper}

VARIABLES
  box,      \* The box of the node, which is the union of its children's.
  child,    \* The box of a child.
  far,      \* The largest coordinates of both on the other axes.
  lower,    \* The node's fields: where the grid begins,
  exp,      \* and the exponent of its size.
  qbounds,  \* The bounds of the child in cells.
  stage     \* "new", "node" after setNodeBounds, "child" after setChildBounds.

vars == <<box, child, far, lower, exp, qbounds, stage>>

(* The constructor marks all children invalid.                              *)
Invalid == [lower |-> Pow2[Grid - 1], upper |-> 0]

Init ==
  /\ box \in Boxes
  /\ child \in {b \in Boxes : box.lower <= b.lower /\ b.upper <= box.upper}
  /\ far \in {f \in [node : Others, child : Others] : f.child <= f.node}
  /\ lower = 0 /\ exp = 0 /\ qbounds = Invalid
  /\ stage = "new"

conservativeBox(b, other) ==
  LET err == TimesUlp(Max({Abs(b.lower), Abs(b.upper), other}))
  IN [lower |-> Round(b.lower - err), upper |-> Round(b.upper + err)]

MutExpOf(len) == Max({MinExp, Exponent(len)})

(* A size that uses more than all cells but one of a grid gets the next     *)
(* grid. A size of zero, of a box at the origin alone, has exponent 0 in    *)
(* the code and MinExp here; its cells are 0 with any.                      *)
ExpOf(len) ==
  LET e == Exponent(len)
  IN Max({MinExp, IF len * Pow2[Grid] > MaxCell * Pow2[e] THEN e + 1 ELSE e})

setNodeBounds ==
  /\ stage = "new"
  /\ LET b == conservativeBox(box, far.node)
         size == Round(b.upper - b.lower)
     IN /\ lower' = b.lower
        /\ exp' = ExpOf(Round(size + TimesUlp(size)))
  /\ stage' = "node"
  /\ UNCHANGED <<box, child, far, qbounds>>

Cell == Pow2[exp - Grid]

Clamp(q) == Max({0, Min({MaxCell, q})})

(* floor and ceil.                                                          *)
Below(n) == n \div Cell
Above(n) == -((-n) \div Cell)

quantize_bounds(b) ==
  [lower |-> Clamp(Below(Round(b.lower - lower))), upper |-> Clamp(Above(Round(b.upper - lower)))]

dequantize_bounds(q) ==
  [lower |-> Round(lower + q.lower * Cell), upper |-> Round(lower + q.upper * Cell)]

setChildBounds ==
  /\ stage = "node"
  /\ qbounds' = quantize_bounds(conservativeBox(child, far.child))
  /\ stage' = "child"
  /\ UNCHANGED <<box, child, far, lower, exp>>

Next == setNodeBounds \/ setChildBounds

Spec == Init /\ [][Next]_vars

------------------------------------------------------------------------------
(* valid tests the topmost bits.                                            *)
TopBit(q) == q >= Pow2[Grid - 1]
valid == ~TopBit(qbounds.lower) \/ TopBit(qbounds.upper)

(* The rounding that the code's comparison allows for.                      *)
Slack == 2 * TimesUlp(Round(Abs(lower) + MaxCell * Cell))

(* A child is valid exactly from setChildBounds on. Then its cells lie in   *)
(* the grid, none of them because it was clamped, and the box that is read  *)
(* holds the enlarged box of the child, so far as positions relative to the *)
(* node can tell: the assertions of quantize_bounds and setChildBounds.     *)
BoundsConservative ==
  /\ valid <=> stage = "child"
  /\ stage = "child" =>
       LET b == conservativeBox(child, far.child)
           d == dequantize_bounds(qbounds)
       IN /\ 0 <= Round(b.lower - lower) /\ Round(b.upper - lower) <= MaxCell * Cell
          /\ Round(d.lower - Slack) <= b.lower /\ b.upper <= Round(d.upper + Slack)
==============================================================================
