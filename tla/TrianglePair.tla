----------------------------- MODULE TrianglePair -----------------------------
(***************************************************************************)
(* Whether two triangles share an edge, and the leaf a primitive becomes:   *)
(* pair_triangles of two index triples (rtbuild/quadifier.h),               *)
(* createQuadLeaf (rtbuild/qbvh6_builder_sah.h) and QuadLeaf                *)
(* (rtbuild/leaf.h). A leaf stores four vertices, the first three those of  *)
(* the first triangle, for each corner of the second triangle the number of *)
(* a vertex, and how far behind the first triangle the second is, in five   *)
(* bits. Definitions named Mut... are faulty versions of the definition     *)
(* that follows them.                                                       *)
(***************************************************************************)
EXTENDS Integers, Sequences, FiniteSets, FiniteSetsExt

CONSTANTS
  Vertices,     \* The vertices of the mesh; a corner names one.
  DeltaBits,    \* The width of primIndex1Delta, 5.
  PairDistances \* Between the triangles of a pair, up to QUADIFIER_MAX_DISTANCE.

Pow2[n \in Nat] == IF n = 0 THEN 1 ELSE 2 * Pow2[n - 1]

TrianglePairAssumption ==
  DeltaBits \in Nat /\ PairDistances \subseteq 1 .. Pow2[DeltaBits] - 1

VARIABLES
  corners, \* Input: the indices of two triangles, or the four of a quad.
  second,  \* The distance of the second triangle, 0 when there is none.
  stage,   \* "paired?" before pair_triangles, "quad?" for a quad, "pair?"
           \* for two triangles that became one primitive, "leaf".
  leaf     \* The leaf.

vars == <<corners, second, stage, leaf>>

tri0 == SubSeq(corners, 1, 3)
tri1 == SubSeq(corners, 4, 6)

(* bsf of the comparison mask: the first corner of a that is the vertex v,  *)
(* or 3, the lane that is always set.                                       *)
Lane(a, v) == Min({c \in 1 .. 3 : a[c] = v} \union {4}) - 1

Lanes(a, b) == [c \in 1 .. 3 |-> Lane(a, b[c])]

MutPairable(a, b) == Cardinality({c \in 1 .. 3 : Lanes(a, b)[c] = 3}) <= 2

Pairable(a, b) == Cardinality({c \in 1 .. 3 : Lanes(a, b)[c] = 3}) <= 1

NoLeaf == [v |-> <<>>, j |-> <<0, 0, 0>>, delta |-> 0]

QuadLeaf(v, j, delta) == [v |-> v, j |-> j, delta |-> delta % Pow2[DeltaBits]]

Init ==
  /\ \/ stage = "paired?" /\ corners \in [1 .. 6 -> Vertices]
     \/ stage = "quad?" /\ corners \in [1 .. 4 -> Vertices]
  /\ second = 0
  /\ leaf = NoLeaf

(* merge_triangle_window pairs two triangles of which the second may be any *)
(* distance behind the first, or leaves the first a triangle.               *)
Reject ==
  /\ stage = "paired?" /\ ~Pairable(tri0, tri1)
  /\ stage' = "pair?"
  /\ UNCHANGED <<corners, second, leaf>>

Pair ==
  /\ stage = "paired?" /\ Pairable(tri0, tri1)
  /\ stage' = "pair?"
  /\ second' \in PairDistances
  /\ UNCHANGED <<corners, leaf>>

(* getTriangleInternal lays out the pair; of several corners without a      *)
(* vertex the last assignment to p3 stays. A single triangle has no j.      *)
createTriangles ==
  /\ stage = "pair?"
  /\ stage' = "leaf"
  /\ LET open == {c \in 1 .. 3 : Lanes(tri0, tri1)[c] = 3}
         p3 == IF second = 0 \/ open = {} THEN tri0[3] ELSE tri1[Max(open)]
     IN leaf' = QuadLeaf(Append(tri0, p3), IF second = 0 THEN <<0, 0, 0>> ELSE Lanes(tri0, tri1),
                         second)
  /\ UNCHANGED <<corners, second>>

(* A quad of the application; its last two vertices are exchanged.          *)
createQuad ==
  /\ stage = "quad?"
  /\ stage' = "leaf"
  /\ leaf' = QuadLeaf(<<corners[1], corners[2], corners[4], corners[3]>>, <<3, 2, 1>>, 0)
  /\ UNCHANGED <<corners, second>>

Next == Reject \/ Pair \/ createTriangles \/ createQuad

Spec == Init /\ [][Next]_vars

------------------------------------------------------------------------------
(* QuadLeaf::valid2 and primIndex, as the traversal reads a leaf.           *)
valid2 == leaf.j # <<0, 0, 0>>

Triangle(i) ==
  IF i = 0 THEN SubSeq(leaf.v, 1, 3) ELSE [c \in 1 .. 3 |-> leaf.v[leaf.j[c] + 1]]

primIndexDelta(i) == i * leaf.delta

(* Two triangles that were paired are read back from the leaf, corner by    *)
(* corner and with their distance, also when corners of either coincide;    *)
(* only a second triangle that is a point, the first corner three times,    *)
(* may be missing, and a second triangle is never made up. A quad v0 v1 v2  *)
(* v3 is read as the triangles v0 v1 v3 and v2 v3 v1                        *)
(* (level_zero/ze_api.h:8581-8582).                                         *)
QuadDecodes ==
  stage = "leaf" =>
    IF Len(corners) = 6
    THEN /\ Triangle(0) = tri0
         /\ primIndexDelta(1) = second
         /\ valid2 <=> second # 0 /\ tri1 # <<tri0[1], tri0[1], tri0[1]>>
         /\ valid2 => Triangle(1) = tri1
    ELSE /\ Triangle(0) = <<corners[1], corners[2], corners[4]>>
         /\ valid2 /\ Triangle(1) = <<corners[3], corners[4], corners[2]>>
==============================================================================
