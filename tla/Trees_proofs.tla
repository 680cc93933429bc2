----------------------------- MODULE Trees_proofs -----------------------------
(***************************************************************************)
(* Trees and their sizes, for scenes of any size and every value of the      *)
(* constants: no tree of one type of primitives outgrows                    *)
(* worst_case_bvh_bytes; a client that follows the answers of failed builds *)
(* gets through; and a tree has the shape that the format and the traversal *)
(* want, however bad the splits of the SAH are.                             *)
(*                                                                          *)
(* The invariants speak of sums, over the geometries of a scene and over    *)
(* the children of a node; what is used of sums is in SumTheorems. The      *)
(* children that a node has so far are a bag of records, and an invariant   *)
(* bounds what this bag weighs: in records, in primitives, in types, and in *)
(* splits that are still needed.                                            *)
(***************************************************************************)
EXTENDS MCTrees, SumTheorems

------------------------------------------------------------------------------
(* Bytes. Induction over the build shows that five slots are paid for by    *)
(* six primitives: a full node takes six slots and turns one record into    *)
(* six, and a node whose splits end early has at least seven primitives for *)
(* at most five slots.                                                      *)

(* Blocks per primitive.                                                    *)
Weight == IF type = "INSTANCE" THEN 2 ELSE 1

BytesTypeOK ==
  /\ stats \in [GeometryTypes -> Nat]
  /\ type \in GeometryTypes
  /\ total \in Nat
  /\ records \in Nat
  /\ pending \in Nat
  /\ slots \in Nat
  /\ leafData \in Nat

(* There are as many primitives as the scene has.                           *)
TotalBounded == total <= (IF type = "INSTANCE" THEN stats[type] ELSE StatsSize(stats))

BytesInv ==
  /\ BytesTypeOK
  /\ TotalBounded
  /\ pending <= total
  /\ records <= pending
  /\ SlotsBounded
  /\ leafData <= Weight * (total - pending)

LEMMA StatsSizeNat == ASSUME NEW s \in [GeometryTypes -> Nat] PROVE StatsSize(s) \in Nat
  BY DEF StatsSize, GeometryTypes

LEMMA LeafBlocksBound ==
  ASSUME type \in GeometryTypes, NEW n \in Nat, NEW b \in LeafBlocks(n)
  PROVE  b \in Nat /\ b <= Weight * n
  <1>1. CASE type = "INSTANCE"
    BY <1>1 DEF LeafBlocks, Weight
  <1>2. CASE type = "PROCEDURAL"
    BY <1>2 DEF LeafBlocks, Weight
  <1>3. CASE type \notin {"INSTANCE", "PROCEDURAL"}
    BY <1>3 DEF LeafBlocks, Weight
  <1> QED BY <1>1, <1>2, <1>3

LEMMA BytesInit ==
  ASSUME TreeBytesAssumption, Init
  PROVE  BytesInv
  <1>1. stats \in [GeometryTypes -> Nat]
    BY DEF Init, TreeBytesAssumption
  <1>2. StatsSize(stats) \in Nat
    BY <1>1, StatsSizeNat
  <1>3. stats["INSTANCE"] \in Nat
    BY <1>1 DEF GeometryTypes
  <1>4. total \in Nat /\ TotalBounded
    BY <1>2, <1>3 DEF Init, TotalBounded
  <1>5. leafData <= Weight * (total - pending)
    BY <1>4 DEF Init, Weight
  <1> QED
    BY <1>1, <1>4, <1>5 DEF Init, BytesInv, BytesTypeOK, SlotsBounded

LEMMA BytesStep == BytesInv /\ [Next]_vars => BytesInv'
  <1> SUFFICES ASSUME BytesInv, [Next]_vars PROVE BytesInv'
    OBVIOUS
  <1>u. CASE UNCHANGED vars
    BY <1>u DEF vars, BytesInv, BytesTypeOK, TotalBounded, SlotsBounded, Weight
  <1> SUFFICES ASSUME Next PROVE BytesInv'
    BY <1>u
  <1>1. ASSUME NEW n \in 1 .. pending, FatLeaf(n) PROVE BytesInv'
    <2>1. PICK b \in LeafBlocks(n) : leafData' = leafData + b
      BY <1>1 DEF FatLeaf
    <2>2. b \in Nat /\ b <= Weight * n
      BY <2>1, LeafBlocksBound DEF BytesInv, BytesTypeOK
    <2>3. Weight \in {1, 2} /\ Weight' = Weight
      BY <1>1 DEF Weight, FatLeaf, Keep
    <2>4. leafData' \in Nat /\ leafData' <= Weight' * (total - pending)'
      BY <1>1, <2>1, <2>2, <2>3 DEF BytesInv, BytesTypeOK, FatLeaf, Keep
    <2>5. BytesTypeOK'
      BY <1>1, <2>4 DEF BytesInv, BytesTypeOK, FatLeaf, Keep, IsNext
    <2> QED
      BY <1>1, <2>4, <2>5
      DEF BytesInv, BytesTypeOK, TotalBounded, SlotsBounded, FatLeaf, Keep, IsNext
  <1>2. ASSUME NEW n \in 1 .. pending, FullNode(n) PROVE BytesInv'
    BY <1>2 DEF BytesInv, BytesTypeOK, TotalBounded, SlotsBounded, Weight,
                FullNode, Keep, IsNext, maxLeafSizeUnknown, BVH_WIDTH
  <1>3. ASSUME NEW n \in 1 .. pending, NEW c \in 1 .. BVH_WIDTH - 1, LastNode(n, c)
        PROVE  BytesInv'
    <2>1. PICK b \in LeafBlocks(n) : leafData' = leafData + b
      BY <1>3 DEF LastNode
    <2>2. b \in Nat /\ b <= Weight * n
      BY <2>1, LeafBlocksBound DEF BytesInv, BytesTypeOK
    <2>3. Weight \in {1, 2} /\ Weight' = Weight
      BY <1>3 DEF Weight, LastNode, Keep
    <2>4. leafData' \in Nat /\ leafData' <= Weight' * (total - pending)'
      BY <1>3, <2>1, <2>2, <2>3 DEF BytesInv, BytesTypeOK, LastNode, Keep
    <2>5. n \in Nat /\ n >= 7 /\ c \in Nat /\ c <= 5
      BY <1>3 DEF LastNode, maxLeafSizeUnknown, BVH_WIDTH
    <2>6. BytesTypeOK'
      BY <1>3, <2>4, <2>5 DEF BytesInv, BytesTypeOK, LastNode, Keep, IsNext
    <2> QED
      BY <1>3, <2>4, <2>5, <2>6
      DEF BytesInv, BytesTypeOK, TotalBounded, SlotsBounded, LastNode, Keep, IsNext
  <1> QED
    BY <1>1, <1>2, <1>3 DEF Next

(* The arithmetic of the estimate: with six slots for five primitives, 64   *)
(* bytes for each of them and 128 for instances, ten percent are enough.    *)
LEMMA PaddedCovers ==
  ASSUME NEW b \in Nat, NEW x \in Nat, 10 * x < 11 * b - 9
  PROVE  x + Waste < Padded(b)
  <1> DEFINE z == (b * 11) \div 10
  <1>1. z \in Nat /\ x < z
    OBVIOUS
  <1>2. ASSUME NEW y \in Nat
        PROVE  /\ ((y + 127) \div 128) * 128 \in Nat
               /\ y <= ((y + 127) \div 128) * 128
    OBVIOUS
  <1>3. Padded(b) = ((Waste + z + 127) \div 128) * 128
    BY DEF Padded
  <1> HIDE DEF z
  <1>4. Waste + z \in Nat /\ x + Waste < Waste + z
    BY <1>1 DEF Waste
  <1>5. Padded(b) \in Nat /\ Waste + z <= Padded(b)
    BY <1>2, <1>3, <1>4
  <1>6. x + Waste \in Nat
    BY DEF Waste
  <1> QED
    BY <1>4, <1>5, <1>6

LEMMA BytesInvCovers == BytesInv => WorstCaseCovers
  <1> SUFFICES ASSUME BytesInv PROVE WorstCaseCovers
    OBVIOUS
  <1> DEFINE N == StatsSize(stats)
             I == stats["INSTANCE"]
             b == 128 + 64 * (1 + Blocks(stats) + N) + 64 * stats["TRIANGLE"] + 64 * stats["QUAD"]
                  + 64 * stats["PROCEDURAL"] + 128 * I
  <1>1. /\ N \in Nat /\ I \in Nat /\ I <= N
        /\ stats["TRIANGLE"] \in Nat /\ stats["QUAD"] \in Nat /\ stats["PROCEDURAL"] \in Nat
        /\ stats["TRIANGLE"] + stats["QUAD"] + stats["PROCEDURAL"] + I = N
    BY DEF BytesInv, BytesTypeOK, StatsSize, GeometryTypes
  <1>2. Blocks(stats) \in Nat
    BY <1>1 DEF Blocks
  <1>3. b \in Nat /\ b >= 192 + 128 * N + 64 * I
    <2> HIDE DEF N
    <2> QED BY <1>1, <1>2
  <1>4. 5 * slots <= 6 * total
    BY DEF BytesInv, BytesTypeOK, SlotsBounded
  <1>5. Bytes \in Nat /\ 10 * Bytes < 11 * b - 9
    <2>1. CASE type = "INSTANCE"
      <3>1. total <= I /\ leafData <= 2 * total
        BY <2>1 DEF BytesInv, BytesTypeOK, TotalBounded, Weight
      <3> HIDE DEF N, I, b
      <3> QED BY <1>1, <1>3, <1>4, <3>1 DEF BytesInv, BytesTypeOK, Bytes
    <2>2. CASE type # "INSTANCE"
      <3>1. total <= N /\ leafData <= total
        BY <2>2 DEF BytesInv, BytesTypeOK, TotalBounded, Weight
      <3> HIDE DEF N, I, b
      <3> QED BY <1>1, <1>3, <1>4, <3>1 DEF BytesInv, BytesTypeOK, Bytes
    <2> QED BY <2>1, <2>2
  <1>6. WorstCaseBvhBytes(stats) = Padded(b)
    BY DEF WorstCaseBvhBytes
  <1>7. Bytes + Waste < Padded(b)
    <2> HIDE DEF b
    <2> QED BY <1>3, <1>5, PaddedCovers
  <1> QED
    BY <1>6, <1>7 DEF WorstCaseCovers

------------------------------------------------------------------------------
(* The sizes that the API answers, and the client that retries.             *)
SceneOK(sc) == sc \in Seq([type : Retry!GeometryTypes, prims : Nat])

StatsSet == [Retry!GeometryTypes -> Nat]

(* Sums are the same in both modules.                                       *)
LEMMA RetrySum == \A g, S : Retry!SumFunctionOnSet(g, S) = SumFunctionOnSet(g, S)
  BY DEF Retry!SumFunctionOnSet, Retry!FoldFunctionOnSet, Retry!MapThenFoldSet,
         SumFunctionOnSet, FoldFunctionOnSet, MapThenFoldSet

(* Counts of the primitives of a scene.                                     *)
LEMMA PrimsNat ==
  ASSUME NEW sc, SceneOK(sc)
  PROVE  /\ DOMAIN sc = 1 .. Len(sc) /\ Len(sc) \in Nat /\ IsFiniteSet(DOMAIN sc)
         /\ \A i \in DOMAIN sc : sc[i].type \in Retry!GeometryTypes /\ sc[i].prims \in Nat
         /\ \A i \in DOMAIN sc : Retry!Prims(sc)[i] = sc[i].prims
         /\ \A i \in DOMAIN sc : \A t :
              Retry!PrimsOf(sc, t)[i] = IF sc[i].type = t THEN sc[i].prims ELSE 0
         /\ \A t : DOMAIN Retry!PrimsOf(sc, t) = DOMAIN sc
  <1>1. DOMAIN sc = 1 .. Len(sc) /\ Len(sc) \in Nat
    BY DEF SceneOK
  <1>2. IsFiniteSet(1 .. Len(sc))
    BY <1>1, FS_Interval
  <1>3. \A i \in DOMAIN sc : sc[i] \in [type : Retry!GeometryTypes, prims : Nat]
    <2> DEFINE G == [type : Retry!GeometryTypes, prims : Nat]
    <2>1. sc \in Seq(G)
      BY DEF SceneOK
    <2> HIDE DEF G
    <2>2. \A i \in 1 .. Len(sc) : sc[i] \in G
      BY <2>1
    <2> QED
      BY <1>1, <2>2 DEF G
  <1> QED
    BY <1>1, <1>2, <1>3 DEF Retry!Prims, Retry!PrimsOf

LEMMA SceneStatsNat ==
  ASSUME NEW sc, SceneOK(sc)
  PROVE  /\ Retry!SceneStats(sc) \in StatsSet
         /\ \A t \in Retry!GeometryTypes :
              Retry!SceneStats(sc)[t] = SumFunctionOnSet(Retry!PrimsOf(sc, t), DOMAIN sc)
  <1>1. ASSUME NEW t \in Retry!GeometryTypes
        PROVE  Retry!SumFunction(Retry!PrimsOf(sc, t)) = SumFunctionOnSet(Retry!PrimsOf(sc, t), DOMAIN sc)
    BY PrimsNat, RetrySum DEF Retry!SumFunction
  <1>2. ASSUME NEW t \in Retry!GeometryTypes
        PROVE  SumFunctionOnSet(Retry!PrimsOf(sc, t), DOMAIN sc) \in Nat
    <2>1. IsFiniteSet(DOMAIN sc) /\ \A i \in DOMAIN sc : Retry!PrimsOf(sc, t)[i] \in Nat
      BY PrimsNat
    <2> QED
      BY <2>1, SumNat
  <1> QED
    BY <1>1, <1>2 DEF Retry!SceneStats, StatsSet

(* Every primitive is of one type.                                          *)
LEMMA StatsAddUp ==
  ASSUME NEW sc, SceneOK(sc)
  PROVE  /\ Retry!StatsSize(Retry!SceneStats(sc)) = Retry!Total(sc, Len(sc))
         /\ Retry!Total(sc, Len(sc)) \in Nat
  <1> DEFINE D == DOMAIN sc
             f(t) == Retry!PrimsOf(sc, t)
             g == [i \in D |-> f("TRIANGLE")[i] + f("QUAD")[i]]
             h == [i \in D |-> f("PROCEDURAL")[i] + f("INSTANCE")[i]]
             all == Retry!Prims(sc)
  <1>1. IsFiniteSet(D) /\ D = 1 .. Len(sc)
    BY PrimsNat
  <1>2. \A i \in D : \A t \in Retry!GeometryTypes : f(t)[i] \in Int
    BY PrimsNat
  <1>3. \A i \in D : /\ g[i] \in Int /\ g[i] = f("TRIANGLE")[i] + f("QUAD")[i]
                     /\ h[i] \in Int /\ h[i] = f("PROCEDURAL")[i] + f("INSTANCE")[i]
    BY <1>2 DEF Retry!GeometryTypes
  <1>4. \A i \in D : all[i] = g[i] + h[i]
    <2> SUFFICES ASSUME NEW i \in D PROVE all[i] = g[i] + h[i]
      OBVIOUS
    <2>1. sc[i].type \in Retry!GeometryTypes /\ sc[i].prims \in Nat /\ all[i] = sc[i].prims
      BY PrimsNat
    <2>2. \A t \in Retry!GeometryTypes : f(t)[i] = IF sc[i].type = t THEN sc[i].prims ELSE 0
      BY PrimsNat
    <2> HIDE DEF f, g, h, all, D
    <2> QED
      BY <1>3, <2>1, <2>2 DEF Retry!GeometryTypes
  <1>5. \A i \in D : all[i] \in Nat
    BY PrimsNat
  <1> HIDE DEF D, g, h, all
  <1>6. /\ SumFunctionOnSet(g, D) = SumFunctionOnSet(f("TRIANGLE"), D) + SumFunctionOnSet(f("QUAD"), D)
        /\ SumFunctionOnSet(h, D)
             = SumFunctionOnSet(f("PROCEDURAL"), D) + SumFunctionOnSet(f("INSTANCE"), D)
        /\ SumFunctionOnSet(all, D) = SumFunctionOnSet(g, D) + SumFunctionOnSet(h, D)
    <2>1. \A i \in D : f("TRIANGLE")[i] \in Int /\ f("QUAD")[i] \in Int
                       /\ f("PROCEDURAL")[i] \in Int /\ f("INSTANCE")[i] \in Int
      BY <1>2 DEF Retry!GeometryTypes
    <2> HIDE DEF f
    <2>2. SumFunctionOnSet(g, D) = SumFunctionOnSet(f("TRIANGLE"), D) + SumFunctionOnSet(f("QUAD"), D)
      BY <1>1, <1>3, <2>1, SumPlus
    <2>3. SumFunctionOnSet(h, D)
             = SumFunctionOnSet(f("PROCEDURAL"), D) + SumFunctionOnSet(f("INSTANCE"), D)
      BY <1>1, <1>3, <2>1, SumPlus
    <2>4. SumFunctionOnSet(all, D) = SumFunctionOnSet(g, D) + SumFunctionOnSet(h, D)
      BY <1>1, <1>3, <1>4, SumPlus
    <2> QED
      BY <2>2, <2>3, <2>4
  <1>7. \A t \in Retry!GeometryTypes : /\ Retry!SceneStats(sc)[t] = SumFunctionOnSet(f(t), D)
                                 /\ Retry!SceneStats(sc)[t] \in Nat
    BY SceneStatsNat DEF D, StatsSet
  <1>8. SumFunctionOnSet(all, D) \in Nat
    BY <1>1, <1>5, SumNat
  <1>9. Retry!Total(sc, Len(sc)) = SumFunctionOnSet(all, D)
    BY <1>1, RetrySum DEF Retry!Total, all
  <1> HIDE DEF f
  <1> QED
    BY <1>6, <1>7, <1>8, <1>9 DEF Retry!StatsSize, Retry!GeometryTypes

(* What build counts is not less than what estimateSize counts.             *)
LEMMA BuildCountsMore ==
  ASSUME NEW sc, SceneOK(sc)
  PROVE  /\ Retry!BuildStats(sc) \in StatsSet
         /\ \A t \in Retry!GeometryTypes : Retry!SceneStats(sc)[t] <= Retry!BuildStats(sc)[t]
  <1> DEFINE D == DOMAIN sc
             f == Retry!PrimsOf(sc, "TRIANGLE")
             g == [i \in D |-> IF sc[i].type = "TRIANGLE" /\ sc[i].prims > 0
                               THEN Retry!Total(sc, i) ELSE 0]
  <1>1. IsFiniteSet(D) /\ D = 1 .. Len(sc) /\ Len(sc) \in Nat
    BY PrimsNat
  <1>2. ASSUME NEW i \in D
        PROVE  Retry!Total(sc, i) \in Nat /\ sc[i].prims <= Retry!Total(sc, i)
    <2> DEFINE p == Retry!Prims(sc)
               S == 1 .. i
               T == S \ {i}
    <2>1. i \in Nat /\ S \subseteq D /\ i \in S
      BY <1>1
    <2>2. IsFiniteSet(S) /\ IsFiniteSet(T)
      BY <1>1, <2>1, FS_Subset
    <2>3. \A j \in S : p[j] \in Nat
      BY <2>1, PrimsNat
    <2>4. p[i] = sc[i].prims
      BY PrimsNat
    <2>5. T \subseteq S
      OBVIOUS
    <2> HIDE DEF p, S
    <2>6. SumFunctionOnSet(p, S) = p[i] + SumFunctionOnSet(p, T)
      BY <2>1, <2>2, <2>3, SumRemoves
    <2>7. SumFunctionOnSet(p, T) \in Nat
      <3>1. \A j \in T : p[j] \in Nat
        BY <2>3
      <3> HIDE DEF T
      <3> QED BY <2>2, <3>1, SumNat
    <2>8. Retry!Total(sc, i) = SumFunctionOnSet(p, S)
      BY RetrySum DEF Retry!Total, p, S
    <2>9. p[i] \in Nat
      BY <2>1, <2>3
    <2> HIDE DEF T
    <2> QED
      BY <2>4, <2>6, <2>7, <2>8, <2>9
  <1>3. \A i \in D : f[i] \in Int /\ g[i] \in Nat /\ f[i] <= g[i]
    BY <1>2, PrimsNat
  <1>4. Retry!BuildStats(sc) = [Retry!SceneStats(sc) EXCEPT !["TRIANGLE"] = SumFunctionOnSet(g, D)]
    BY RetrySum DEF Retry!BuildStats, Retry!SumFunction
  <1> HIDE DEF D, f, g
  <1>5. SumFunctionOnSet(f, D) <= SumFunctionOnSet(g, D)
    <2>1. \A i \in D : f[i] \in Int /\ g[i] \in Int /\ f[i] <= g[i]
      BY <1>3
    <2> QED
      BY <1>1, <2>1, SumMonotone
  <1>6. SumFunctionOnSet(g, D) \in Nat
    BY <1>1, <1>3, SumNat
  <1>7. Retry!SceneStats(sc)["TRIANGLE"] = SumFunctionOnSet(f, D)
    BY SceneStatsNat DEF f, D, Retry!GeometryTypes
  <1>8. "TRIANGLE" \in Retry!GeometryTypes /\ Retry!SceneStats(sc) \in StatsSet
    BY SceneStatsNat DEF Retry!GeometryTypes
  <1> QED
    BY <1>4, <1>5, <1>6, <1>7, <1>8 DEF StatsSet

(* More primitives take more bytes.                                         *)
LEMMA PaddedMonotone ==
  ASSUME NEW b \in Nat, NEW c \in Nat, b <= c
  PROVE  Retry!Padded(b) \in Nat /\ Retry!Padded(b) <= Retry!Padded(c)
  <1> DEFINE x == Retry!Waste + (b * 11) \div 10 + 127
             y == Retry!Waste + (c * 11) \div 10 + 127
  <1>1. x \in Nat /\ y \in Nat /\ x <= y
    BY DEF Retry!Waste
  <1>2. Retry!Padded(b) = (x \div 128) * 128 /\ Retry!Padded(c) = (y \div 128) * 128
    BY DEF Retry!Padded
  <1> HIDE DEF x, y
  <1> QED
    BY <1>1, <1>2

LEMMA WorstCaseMonotone ==
  ASSUME NEW r \in StatsSet, NEW s \in StatsSet, \A t \in Retry!GeometryTypes : r[t] <= s[t]
  PROVE  /\ Retry!WorstCaseBvhBytes(r) \in Nat
         /\ Retry!WorstCaseBvhBytes(r) <= Retry!WorstCaseBvhBytes(s)
  <1> DEFINE b(u) == 128 + 64 * (1 + Retry!Blocks(u) + Retry!StatsSize(u)) + 64 * u["TRIANGLE"]
                     + 64 * u["QUAD"] + 64 * u["PROCEDURAL"] + 128 * u["INSTANCE"]
  <1>1. /\ Retry!StatsSize(r) \in Nat /\ Retry!StatsSize(s) \in Nat /\ Retry!StatsSize(r) <= Retry!StatsSize(s)
    BY DEF Retry!StatsSize, StatsSet, Retry!GeometryTypes
  <1>2. /\ Retry!Blocks(r) \in Nat /\ Retry!Blocks(s) \in Nat /\ Retry!Blocks(r) <= Retry!Blocks(s)
    BY <1>1 DEF Retry!Blocks
  <1>3. b(r) \in Nat /\ b(s) \in Nat /\ b(r) <= b(s)
    BY <1>1, <1>2 DEF StatsSet, Retry!GeometryTypes
  <1>4. \A u : Retry!WorstCaseBvhBytes(u) = Retry!Padded(b(u))
    BY DEF Retry!WorstCaseBvhBytes
  <1> HIDE DEF b
  <1> QED
    BY <1>3, <1>4, PaddedMonotone

LEMMA PresplitsNat ==
  ASSUME NEW r \in StatsSet
  PROVE  Retry!EstimatePresplits(r) \in StatsSet
  <1>1. \A t \in Retry!GeometryTypes : (r[t] * 12) \div 10 \in Nat
    BY DEF StatsSet
  <1> QED
    BY <1>1 DEF Retry!EstimatePresplits, StatsSet

LEMMA PresplitsMore ==
  ASSUME NEW r \in StatsSet, NEW s \in StatsSet, \A t \in Retry!GeometryTypes : r[t] <= s[t]
  PROVE  /\ \A t \in Retry!GeometryTypes : r[t] <= Retry!EstimatePresplits(r)[t]
         /\ \A t \in Retry!GeometryTypes : Retry!EstimatePresplits(r)[t] <= Retry!EstimatePresplits(s)[t]
  <1>1. ASSUME NEW t \in Retry!GeometryTypes
        PROVE  /\ (r[t] * 12) \div 10 \in Nat /\ r[t] <= (r[t] * 12) \div 10
               /\ (r[t] * 12) \div 10 <= (s[t] * 12) \div 10
    BY DEF StatsSet
  <1> QED
    BY <1>1 DEF Retry!EstimatePresplits, StatsSet

LEMMA BuildWorstCaseNat ==
  ASSUME NEW sc, SceneOK(sc)
  PROVE  Retry!BuildWorstCase(sc) \in Nat
  <1> DEFINE s == Retry!EstimatePresplits(Retry!BuildStats(sc))
  <1>1. s \in StatsSet
    BY BuildCountsMore, PresplitsNat
  <1>2. \A t \in Retry!GeometryTypes : s[t] <= s[t]
    BY <1>1 DEF StatsSet
  <1>3. Retry!BuildWorstCase(sc) = Retry!WorstCaseBvhBytes(s)
    BY DEF Retry!BuildWorstCase
  <1> HIDE DEF s
  <1> QED
    BY <1>1, <1>2, <1>3, WorstCaseMonotone

(* The worst case with which build bounds its hints is no less than the     *)
(* promise of GetBuildProperties.                                           *)
LEMMA PromiseKept ==
  ASSUME NEW sc, SceneOK(sc), NEW sp \in BOOLEAN
  PROVE  /\ Retry!EstimatedStats(sc, sp) \in StatsSet
         /\ \A t \in Retry!GeometryTypes : Retry!SceneStats(sc)[t] <= Retry!EstimatedStats(sc, sp)[t]
         /\ Retry!WorstCaseBvhBytes(Retry!EstimatedStats(sc, sp)) <= Retry!BuildWorstCase(sc)
  <1> DEFINE r == Retry!SceneStats(sc)
             s == Retry!BuildStats(sc)
             e == Retry!EstimatedStats(sc, sp)
  <1>1. /\ r \in StatsSet /\ s \in StatsSet /\ \A t \in Retry!GeometryTypes : r[t] <= s[t]
    BY SceneStatsNat, BuildCountsMore
  <1>2. e = IF sp THEN Retry!EstimatePresplits(r) ELSE r
    BY DEF Retry!EstimatedStats
  <1>3. Retry!BuildWorstCase(sc) = Retry!WorstCaseBvhBytes(Retry!EstimatePresplits(s))
    BY DEF Retry!BuildWorstCase
  <1> HIDE DEF r, s, e
  <1>4. /\ Retry!EstimatePresplits(r) \in StatsSet
        /\ \A t \in Retry!GeometryTypes : r[t] <= Retry!EstimatePresplits(r)[t]
        /\ \A t \in Retry!GeometryTypes : Retry!EstimatePresplits(r)[t] <= Retry!EstimatePresplits(s)[t]
    BY <1>1, PresplitsMore, PresplitsNat
  <1>5. Retry!EstimatePresplits(s) \in StatsSet
    BY <1>1, PresplitsNat
  <1>6. /\ e \in StatsSet
        /\ \A t \in Retry!GeometryTypes : r[t] <= e[t]
        /\ \A t \in Retry!GeometryTypes : e[t] <= Retry!EstimatePresplits(s)[t]
    BY <1>1, <1>2, <1>4, <1>5 DEF StatsSet
  <1>7. Retry!WorstCaseBvhBytes(e) <= Retry!WorstCaseBvhBytes(Retry!EstimatePresplits(s))
    BY <1>5, <1>6, WorstCaseMonotone
  <1> QED
    BY <1>3, <1>6, <1>7 DEF r, e

(* The promise is less than seven times what is expected.                   *)
LEMMA PaddedBounds ==
  ASSUME NEW b \in Nat
  PROVE  /\ Retry!Padded(b) \in Nat
         /\ 10 * Retry!Padded(b) <= 11 * b + 83190
         /\ 10 * Retry!Padded(b) >= 11 * b + 81911
  <1> DEFINE z == (b * 11) \div 10
  <1>1. z \in Nat /\ 10 * z <= 11 * b /\ 10 * z >= 11 * b - 9
    OBVIOUS
  <1>2. ASSUME NEW y \in Nat
        PROVE  /\ ((y + 127) \div 128) * 128 \in Nat
               /\ y <= ((y + 127) \div 128) * 128
               /\ ((y + 127) \div 128) * 128 <= y + 127
    OBVIOUS
  <1>3. Retry!Padded(b) = ((8192 + z + 127) \div 128) * 128
    BY DEF Retry!Padded, Retry!Waste
  <1> HIDE DEF z
  <1>4. 8192 + z \in Nat
    BY <1>1
  <1>5. /\ Retry!Padded(b) \in Nat
        /\ 8192 + z <= Retry!Padded(b) /\ Retry!Padded(b) <= 8192 + z + 127
    BY <1>2, <1>3, <1>4
  <1> QED
    BY <1>1, <1>5

LEMMA QuadificationNat ==
  ASSUME NEW s \in StatsSet
  PROVE  LET e == Retry!EstimateQuadification(s)
         IN /\ e \in StatsSet
            /\ e["TRIANGLE"] = 0
            /\ e["PROCEDURAL"] = s["PROCEDURAL"] /\ e["INSTANCE"] = s["INSTANCE"]
            /\ 2 * (e["QUAD"] - s["QUAD"]) >= s["TRIANGLE"]
  <1> DEFINE n == s["QUAD"] + (s["TRIANGLE"] + 1) \div 2 + s["TRIANGLE"] \div 8
             T == Retry!GeometryTypes
  <1>1. n \in Nat /\ 2 * (n - s["QUAD"]) >= s["TRIANGLE"]
    <2>1. s["QUAD"] \in Nat /\ s["TRIANGLE"] \in Nat
      BY DEF StatsSet, Retry!GeometryTypes
    <2>2. /\ (s["TRIANGLE"] + 1) \div 2 \in Nat /\ s["TRIANGLE"] \div 8 \in Nat
          /\ 2 * ((s["TRIANGLE"] + 1) \div 2) >= s["TRIANGLE"]
      BY <2>1
    <2> QED
      BY <2>1, <2>2
  <1>2. Retry!EstimateQuadification(s) = [[s EXCEPT !["QUAD"] = n] EXCEPT !["TRIANGLE"] = 0]
    BY DEF Retry!EstimateQuadification
  <1> HIDE DEF n
  <1> QED
    BY <1>1, <1>2 DEF StatsSet, Retry!GeometryTypes

LEMMA SixTimes ==
  ASSUME NEW t \in Nat, NEW p \in Nat, NEW i \in Nat, NEW k \in Nat, NEW l \in Nat,
         2 * (l - k) >= t,
         NEW n \in Nat, NEW m \in Nat, NEW h \in Nat,
         6 * n <= t + k + p + i + 5, l + p + i <= 6 * m, 3 * m - 1 <= 2 * h
  PROVE  192 + 64 * (n + t + k + p + i) + 64 * t + 64 * k + 64 * p + 128 * i
           <= 6 * (192 + 64 * h + 64 * l + 8 * p + 128 * i)
  OBVIOUS

LEMMA PromiseBounded ==
  ASSUME NEW s \in StatsSet
  PROVE  LET e == Retry!ExpectedBvhBytes(Retry!EstimateQuadification(s))
         IN e \in Nat /\ e >= 8192 /\ Retry!WorstCaseBvhBytes(s) < 7 * e
  <1> DEFINE q == Retry!EstimateQuadification(s)
             b == 128 + 64 * (1 + (3 * Retry!Blocks(q)) \div 2) + 64 * q["TRIANGLE"]
                  + 64 * q["QUAD"] + 8 * q["PROCEDURAL"] + 128 * q["INSTANCE"]
             c == 128 + 64 * (1 + Retry!Blocks(s) + Retry!StatsSize(s)) + 64 * s["TRIANGLE"]
                  + 64 * s["QUAD"] + 64 * s["PROCEDURAL"] + 128 * s["INSTANCE"]
  <1>1. /\ q["TRIANGLE"] = 0 /\ q["PROCEDURAL"] = s["PROCEDURAL"]
        /\ q["INSTANCE"] = s["INSTANCE"] /\ 2 * (q["QUAD"] - s["QUAD"]) >= s["TRIANGLE"]
        /\ q["QUAD"] \in Nat
        /\ s["TRIANGLE"] \in Nat /\ s["QUAD"] \in Nat
        /\ s["PROCEDURAL"] \in Nat /\ s["INSTANCE"] \in Nat
    BY QuadificationNat DEF StatsSet, Retry!GeometryTypes
  <1>2. /\ Retry!ExpectedBvhBytes(q) = Retry!Padded(b)
        /\ Retry!WorstCaseBvhBytes(s) = Retry!Padded(c)
    BY DEF Retry!ExpectedBvhBytes, Retry!WorstCaseBvhBytes
  <1>3. /\ Retry!StatsSize(s) = s["TRIANGLE"] + s["QUAD"] + s["PROCEDURAL"] + s["INSTANCE"]
        /\ Retry!StatsSize(q) = q["QUAD"] + q["PROCEDURAL"] + q["INSTANCE"]
    BY <1>1 DEF Retry!StatsSize
  <1>4. ASSUME NEW n \in Nat
        PROVE  (n + 5) \div 6 \in Nat /\ n <= 6 * ((n + 5) \div 6) /\ 6 * ((n + 5) \div 6) <= n + 5
    OBVIOUS
  <1>5. ASSUME NEW n \in Nat
        PROVE  (3 * n) \div 2 \in Nat /\ 3 * n - 1 <= 2 * ((3 * n) \div 2)
    OBVIOUS
  <1> HIDE DEF q
  <1>6. /\ Retry!Blocks(s) \in Nat /\ Retry!Blocks(q) \in Nat
        /\ 6 * Retry!Blocks(s) <= Retry!StatsSize(s) + 5
        /\ Retry!StatsSize(q) <= 6 * Retry!Blocks(q)
    <2>1. Retry!StatsSize(s) \in Nat /\ Retry!StatsSize(q) \in Nat
      BY <1>1, <1>3
    <2> QED
      BY <1>4, <2>1 DEF Retry!Blocks
  <1>7. /\ (3 * Retry!Blocks(q)) \div 2 \in Nat
        /\ 3 * Retry!Blocks(q) - 1 <= 2 * ((3 * Retry!Blocks(q)) \div 2)
    BY <1>5, <1>6
  <1> DEFINE m == (3 * Retry!Blocks(q)) \div 2
  <1>8. m \in Nat /\ 3 * Retry!Blocks(q) - 1 <= 2 * m /\ b = 192 + 64 * m + 64 * q["TRIANGLE"]
                  + 64 * q["QUAD"] + 8 * q["PROCEDURAL"] + 128 * q["INSTANCE"]
    BY <1>1, <1>7
  <1> HIDE DEF m, b, c
  <1>9. b \in Nat
    BY <1>1, <1>8
  <1>10. c \in Nat /\ c <= 6 * b
    <2> DEFINE t == s["TRIANGLE"]  k == s["QUAD"]  p == s["PROCEDURAL"]  i == s["INSTANCE"]
               l == q["QUAD"]  n == Retry!Blocks(s)  w == Retry!Blocks(q)
    <2>1. c = 128 + 64 * (1 + n + Retry!StatsSize(s)) + 64 * t + 64 * k + 64 * p + 128 * i
      BY DEF c
    <2>2. Retry!StatsSize(s) = t + k + p + i
      BY <1>3
    <2>3. /\ t \in Nat /\ p \in Nat /\ i \in Nat /\ k \in Nat /\ l \in Nat
          /\ n \in Nat /\ w \in Nat /\ m \in Nat
      BY <1>1, <1>6, <1>8
    <2>4. /\ 2 * (l - k) >= t /\ 6 * n <= t + k + p + i + 5
          /\ l + p + i <= 6 * w /\ 3 * w - 1 <= 2 * m
      BY <1>1, <1>3, <1>6, <1>8
    <2>5. b = 192 + 64 * m + 64 * l + 8 * p + 128 * i
      BY <1>1, <1>8
    <2> HIDE DEF t, k, p, i, l, n, w
    <2>6. c = 192 + 64 * (n + t + k + p + i) + 64 * t + 64 * k + 64 * p + 128 * i
      BY <2>1, <2>2, <2>3
    <2>7. 192 + 64 * (n + t + k + p + i) + 64 * t + 64 * k + 64 * p + 128 * i
            <= 6 * (192 + 64 * m + 64 * l + 8 * p + 128 * i)
      BY <2>3, <2>4, SixTimes
    <2>8. 192 + 64 * (n + t + k + p + i) + 64 * t + 64 * k + 64 * p + 128 * i \in Nat
      BY <2>3
    <2> QED
      BY <2>5, <2>6, <2>7, <2>8
  <1>12. /\ Retry!Padded(b) \in Nat /\ 10 * Retry!Padded(b) >= 11 * b + 81911
         /\ Retry!Padded(c) \in Nat /\ 10 * Retry!Padded(c) <= 11 * c + 83190
    BY <1>9, <1>10, PaddedBounds
  <1> QED
    BY <1>2, <1>9, <1>10, <1>12 DEF q

(* A lower bound of the size of every try, in percent of the first: each    *)
(* one has at least 15 percent more than the one before, and the last one   *)
(* would have more than was promised to suffice.                            *)
Growth == <<100, 115, 132, 151, 173, 198, 227, 261, 300, 345, 396, 455, 523, 601, 691, 794>>

LEMMA GrowthGrows ==
  /\ \A k \in 1 .. 16 : Growth[k] \in Nat
  /\ \A k \in 1 .. 15 : 100 * Growth[k + 1] <= 115 * Growth[k]
  /\ Growth[1] = 100 /\ Growth[16] = 794
  <1>1. 1 .. 16 = {1, 2, 3, 4, 5, 6, 7, 8, 9, 10, 11, 12, 13, 14, 15, 16}
    OBVIOUS
  <1>2. 1 .. 15 = {1, 2, 3, 4, 5, 6, 7, 8, 9, 10, 11, 12, 13, 14, 15}
    OBVIOUS
  <1>3. /\ Growth[1] = 100 /\ Growth[2] = 115 /\ Growth[3] = 132 /\ Growth[4] = 151
        /\ Growth[5] = 173 /\ Growth[6] = 198 /\ Growth[7] = 227 /\ Growth[8] = 261
        /\ Growth[9] = 300 /\ Growth[10] = 345 /\ Growth[11] = 396 /\ Growth[12] = 455
        /\ Growth[13] = 523 /\ Growth[14] = 601 /\ Growth[15] = 691 /\ Growth[16] = 794
    BY DEF Growth
  <1> HIDE DEF Growth
  <1>4. \A k \in 1 .. 16 : Growth[k] \in Nat
    BY <1>1, <1>3
  <1>5. /\ 1 + 1 = 2 /\ 2 + 1 = 3 /\ 3 + 1 = 4 /\ 4 + 1 = 5 /\ 5 + 1 = 6 /\ 6 + 1 = 7
        /\ 7 + 1 = 8 /\ 8 + 1 = 9 /\ 9 + 1 = 10 /\ 10 + 1 = 11 /\ 11 + 1 = 12
        /\ 12 + 1 = 13 /\ 13 + 1 = 14 /\ 14 + 1 = 15 /\ 15 + 1 = 16
    OBVIOUS
  <1>6. \A k \in 1 .. 15 : 100 * Growth[k + 1] <= 115 * Growth[k]
    BY <1>2, <1>3, <1>5
  <1> QED
    BY <1>3, <1>4, <1>6

LEMMA TimesKeepsOrder ==
  ASSUME NEW e \in Nat, NEW g \in Nat, NEW h \in Nat, 100 * h <= 115 * g
  PROVE  g * e \in Nat /\ h * e \in Nat /\ 100 * (h * e) <= 115 * (g * e)
  <1>1. (100 * h) * e <= (115 * g) * e
    BY SMTT(30)
  <1>2. (100 * h) * e = 100 * (h * e) /\ (115 * g) * e = 115 * (g * e)
    OBVIOUS
  <1> QED
    BY <1>1, <1>2

(* A failed try is followed by one with enough or with 15 percent more.     *)
LEMMA HintGrows ==
  ASSUME NEW sc, SceneOK(sc), NEW b \in Nat, 8192 <= b,
         NEW most \in Nat, b < most, most <= Retry!BuildWorstCase(sc)
  PROVE  /\ Retry!Hint(b, sc) \in Nat /\ b < Retry!Hint(b, sc)
         /\ Retry!Hint(b, sc) >= most \/ 115 * b <= 100 * Retry!Hint(b, sc)
  <1> DEFINE w == Retry!BuildWorstCase(sc)
             x == (b * 12) \div 10
             y == IF b + 64 < x THEN x ELSE b + 64
  <1>1. w \in Nat
    BY BuildWorstCaseNat
  <1>2. x \in Nat /\ 10 * x >= 12 * b - 9
    OBVIOUS
  <1>3. Retry!Hint(b, sc) = IF y < w THEN y ELSE w
    BY DEF Retry!Hint, Retry!Smaller, Retry!Larger
  <1> HIDE DEF w, x
  <1>4. y \in Nat /\ y > b /\ 100 * y >= 115 * b
    BY <1>2
  <1> HIDE DEF y
  <1> QED
    BY <1>1, <1>3, <1>4 DEF w

RetryInv ==
  /\ SceneOK(scene) /\ split \in BOOLEAN /\ misaligned \in 0 .. 63
  /\ tries \in Nat
  /\ result \in {"none", "properties", "retry", "success"}
  /\ result \in {"none", "properties"} => tries = 0
  /\ result # "none" => props = Retry!EstimateSize(scene, split)
  /\ result = "properties" => bytes = props.expected
  /\ result = "retry" =>
       /\ tries \in 1 .. 16 /\ bytes \in Nat /\ bytesOut \in Nat
       /\ bytes < bytesOut /\ bytes < props.maxRequired
       /\ Growth[tries] * props.expected <= 100 * bytes
       /\ \/ bytesOut >= props.maxRequired
          \/ tries < 16 /\ Growth[tries + 1] * props.expected <= 100 * bytesOut

(* What GetBuildProperties answers.                                         *)
LEMMA PropertiesOK ==
  ASSUME NEW sc, SceneOK(sc), NEW sp \in BOOLEAN
  PROVE  LET p == Retry!EstimateSize(sc, sp)
         IN /\ p.expected \in Nat /\ p.expected >= 8192
            /\ p.maxRequired \in Nat /\ p.maxRequired < 7 * p.expected
            /\ p.maxRequired <= Retry!BuildWorstCase(sc)
            /\ p.scratch \in Nat /\ p.scratch >= 32 * Retry!Total(sc, Len(sc)) + 64
  <1> DEFINE s == Retry!EstimatedStats(sc, sp)
             p == Retry!EstimateSize(sc, sp)
  <1>1. /\ p.expected = Retry!ExpectedBvhBytes(Retry!EstimateQuadification(s))
        /\ p.maxRequired = Retry!WorstCaseBvhBytes(s)
        /\ p.scratch = Retry!StatsSize(s) * 32 + 64
    BY DEF Retry!EstimateSize, Retry!ScratchSpaceBytes, Retry!SizeofPrimRef
  <1>2. /\ s \in StatsSet /\ Retry!WorstCaseBvhBytes(s) <= Retry!BuildWorstCase(sc)
        /\ \A t \in Retry!GeometryTypes : Retry!SceneStats(sc)[t] <= s[t]
    BY PromiseKept
  <1>3. Retry!StatsSize(s) \in Nat /\ Retry!Total(sc, Len(sc)) <= Retry!StatsSize(s)
    <2> DEFINE r == Retry!SceneStats(sc)
    <2>1. r \in StatsSet /\ Retry!StatsSize(r) = Retry!Total(sc, Len(sc))
      BY SceneStatsNat, StatsAddUp
    <2>2. \A t \in Retry!GeometryTypes : r[t] <= s[t]
      BY <1>2
    <2> HIDE DEF r, s
    <2> QED
      BY <1>2, <2>1, <2>2 DEF Retry!StatsSize, StatsSet, Retry!GeometryTypes
  <1> HIDE DEF s
  <1>4. LET e == Retry!ExpectedBvhBytes(Retry!EstimateQuadification(s))
        IN e \in Nat /\ e >= 8192 /\ Retry!WorstCaseBvhBytes(s) < 7 * e
    BY <1>2, PromiseBounded
  <1>5. Retry!WorstCaseBvhBytes(s) \in Nat
    <2>1. \A t \in Retry!GeometryTypes : s[t] <= s[t]
      BY <1>2 DEF StatsSet
    <2> QED BY <1>2, <2>1, WorstCaseMonotone
  <1>6. Retry!Total(sc, Len(sc)) \in Nat
    BY StatsAddUp
  <1> HIDE DEF p
  <1> QED
    BY <1>1, <1>2, <1>3, <1>4, <1>5, <1>6 DEF p

LEMMA RetryInit ==
  ASSUME Retry!BuildRetryAssumption, Retry!Init
  PROVE  RetryInv
  <1>1. SceneOK(scene)
    BY DEF Retry!Init, Retry!BuildRetryAssumption, SceneOK
  <1>2. split \in BOOLEAN /\ misaligned \in 0 .. 63
    BY DEF Retry!Init, Retry!BuildRetryAssumption
  <1> QED
    BY <1>1, <1>2 DEF Retry!Init, RetryInv

(* The primitive references fit.                                            *)
LEMMA CapacityEnough ==
  ASSUME RetryInv, result # "none"
  PROVE  ~ (Retry!Capacity < Retry!Total(scene, Len(scene)))
  <1> DEFINE n == Retry!Total(scene, Len(scene))
             a == props.scratch - misaligned
  <1>1. n \in Nat
    BY StatsAddUp DEF RetryInv
  <1>2. props.scratch \in Nat /\ props.scratch >= 32 * n + 64
    BY PropertiesOK DEF RetryInv
  <1>3. misaligned \in 0 .. 63
    BY DEF RetryInv
  <1>4. Retry!Capacity = a \div 32
    BY DEF Retry!Capacity, Retry!SizeofPrimRef
  <1> HIDE DEF n
  <1>5. a \in Nat /\ a >= 32 * n + 1
    BY <1>1, <1>2, <1>3
  <1> HIDE DEF a
  <1>6. n <= a \div 32 /\ a \div 32 \in Nat
    BY <1>1, <1>5
  <1> QED
    BY <1>1, <1>4, <1>6 DEF n

LEMMA RetryStep ==
  ASSUME RetryInv, Retry!GetBuildProperties \/ Retry!Build
  PROVE  RetryInv'
  <1>1. CASE Retry!GetBuildProperties
    BY <1>1 DEF Retry!GetBuildProperties, RetryInv, SceneOK
  <1>2. CASE Retry!Build
    <2> DEFINE e == props.expected
               most == props.maxRequired
               b == Retry!BuildBytes
    <2>1. /\ result \in {"properties", "retry"} /\ tries < 16 /\ tries' = tries + 1
          /\ bytes' = b /\ result' \in Retry!Outcomes(b)
          /\ UNCHANGED <<scene, split, misaligned, props>>
      BY <1>2 DEF Retry!Build, Retry!MaxTries
    <2>2. /\ e \in Nat /\ e >= 8192 /\ most \in Nat /\ most < 7 * e
          /\ most <= Retry!BuildWorstCase(scene)
      BY <2>1, PropertiesOK DEF RetryInv
    <2>3. /\ Retry!Outcomes(b) \subseteq {"success", "retry"}
          /\ result' = "retry" => b < most
      BY <2>1, CapacityEnough DEF Retry!Outcomes
    <2>4. /\ b \in Nat /\ tries \in 0 .. 15
          /\ b >= most \/ Growth[tries + 1] * e <= 100 * b
      <3>1. CASE result = "properties"
        <4>1. tries = 0 /\ b = e
          BY <3>1 DEF RetryInv, Retry!BuildBytes
        <4>2. Growth[0 + 1] = 100
          BY GrowthGrows
        <4> HIDE DEF e, b
        <4> QED
          BY <4>1, <4>2, <2>2
      <3>2. CASE result = "retry"
        BY <3>2, <2>1 DEF RetryInv, Retry!BuildBytes
      <3> QED
        BY <2>1, <3>1, <3>2
    <2>5. ASSUME result' = "retry"
          PROVE  /\ bytesOut' \in Nat /\ b < bytesOut'
                 /\ \/ bytesOut' >= most
                    \/ tries + 1 < 16 /\ Growth[tries + 2] * e <= 100 * bytesOut'
                 /\ Growth[tries + 1] * e <= 100 * b
      <3>1. bytesOut' = Retry!Hint(b, scene)
        BY <1>2, <2>5 DEF Retry!Build
      <3> DEFINE k == tries + 1
                 g == Growth[k]
      <3>2. k \in 1 .. 16 /\ g \in Nat /\ g >= 100 /\ b < most /\ g * e <= 100 * b
        <4>1. k \in 1 .. 16 /\ b < most /\ g * e <= 100 * b
          BY <2>2, <2>3, <2>4, <2>5
        <4>2. Growth[k] \in Nat /\ Growth[k] >= 100
          <5>1. \A j \in 1 .. 16 : Growth[j] >= 100
            BY DEF Growth
          <5> HIDE DEF k
          <5> QED
            BY <4>1, <5>1, GrowthGrows
        <4> QED
          BY <4>1, <4>2
      <3>3. e <= b
        <4>1. 100 * e <= g * e
          BY <2>2, <3>2
        <4> DEFINE ge == g * e
        <4>2. ge \in Nat
          BY <2>2, <3>2
        <4> HIDE DEF ge, e, b
        <4> QED
          BY <2>2, <2>4, <3>2, <4>1, <4>2 DEF ge
      <3>4. CASE k < 16
        <4> DEFINE h == Growth[k + 1]
        <4>1. h \in Nat /\ 100 * h <= 115 * g
          BY <3>2, <3>4, GrowthGrows
        <4>2. SceneOK(scene)
          BY DEF RetryInv
        <4>3. k + 1 = tries + 2 /\ k = tries + 1
          BY <2>4
        <4> HIDE DEF e, most, b, g, h, k
        <4>4. /\ e \in Nat /\ e >= 8192 /\ b \in Nat /\ e <= b /\ most \in Nat /\ b < most
              /\ most <= Retry!BuildWorstCase(scene) /\ g \in Nat /\ g * e <= 100 * b
          BY <2>2, <2>4, <3>2, <3>3
        <4> DEFINE ge == g * e  he == h * e
        <4>7. ge \in Nat /\ he \in Nat /\ 100 * he <= 115 * ge
          BY <4>1, <4>4, TimesKeepsOrder
        <4>8. ge <= 100 * b
          BY <4>4
        <4> HIDE DEF ge, he
        <4>9. 8192 <= b
          BY <4>4
        <4>10. /\ Retry!Hint(b, scene) \in Nat /\ b < Retry!Hint(b, scene)
               /\ Retry!Hint(b, scene) >= most \/ 115 * b <= 100 * Retry!Hint(b, scene)
          BY <4>2, <4>4, <4>9, HintGrows
        <4>6. /\ Retry!Hint(b, scene) \in Nat /\ b < Retry!Hint(b, scene)
              /\ Retry!Hint(b, scene) >= most \/ he <= 100 * Retry!Hint(b, scene)
          BY <4>4, <4>7, <4>8, <4>10
        <4>5. h = Growth[tries + 2] /\ g = Growth[tries + 1]
          BY <4>3 DEF h, g
        <4> QED
          BY <3>1, <3>2, <3>4, <4>3, <4>5, <4>6 DEF he
      <3>5. CASE k = 16
        <4>1. Growth[16] = 794
          BY GrowthGrows
        <4> HIDE DEF e, most, b
        <4>2. 794 * e <= 100 * b
          BY <3>2, <3>5, <4>1
        <4> QED
          BY <2>2, <2>4, <3>2, <4>2
      <3> QED
        BY <3>2, <3>4, <3>5
    <2>6. SceneOK(scene') /\ split' \in BOOLEAN /\ misaligned' \in 0 .. 63
      BY <2>1 DEF RetryInv
    <2>7. props' = Retry!EstimateSize(scene', split')
      BY <2>1 DEF RetryInv
    <2> HIDE DEF b
    <2>8. tries' \in 1 .. 16 /\ tries' + 1 = tries + 2
      BY <2>1, <2>4
    <2> QED
      BY <2>1, <2>3, <2>4, <2>5, <2>6, <2>7, <2>8 DEF RetryInv
  <1> QED
    BY <1>1, <1>2

LEMMA RetryInvSuffices ==
  ASSUME RetryInv
  PROVE  Retry!RetriesSuffice /\ Retry!ScratchSuffices
  <1>1. ASSUME result = "retry" PROVE tries < 16
    <2> SUFFICES ASSUME tries = 16 PROVE FALSE
      BY <1>1 DEF RetryInv
    <2> DEFINE e == props.expected  most == props.maxRequired
    <2>1. e \in Nat /\ e >= 8192 /\ most \in Nat /\ most < 7 * e
      BY <1>1, PropertiesOK DEF RetryInv
    <2>2. bytes \in Nat /\ bytes < most /\ Growth[16] * e <= 100 * bytes
      BY <1>1 DEF RetryInv
    <2>3. Growth[16] = 794
      BY GrowthGrows
    <2> HIDE DEF e, most
    <2> QED
      BY <2>1, <2>2, <2>3
  <1> QED
    BY <1>1 DEF RetryInv, Retry!RetriesSuffice, Retry!ScratchSuffices, Retry!MaxTries

------------------------------------------------------------------------------
(* Bags of records and what they weigh. A bag with a weight for each of its *)
(* elements: the number of children, the primitives or the types they hold. *)
BagOK(B) == IsFiniteSet(DOMAIN B) /\ B \in [DOMAIN B -> Nat \ {0}]

Weighed(B, w) == [r \in DOMAIN B |-> B[r] * w[r]]

Weigh(B, w) == SumFunctionOnSet(Weighed(B, w), DOMAIN B)

With(B, a) == B (+) SetToBag({a})

Less(B, a) == B (-) SetToBag({a})

LEMMA WeighNat ==
  ASSUME NEW B, BagOK(B), NEW w, \A r \in DOMAIN B : w[r] \in Nat
  PROVE  /\ Weigh(B, w) \in Nat
         /\ \A r \in DOMAIN B : Weighed(B, w)[r] = B[r] * w[r] /\ Weighed(B, w)[r] \in Nat
  <1>1. \A r \in DOMAIN B : Weighed(B, w)[r] = B[r] * w[r] /\ Weighed(B, w)[r] \in Nat
    <2> SUFFICES ASSUME NEW r \in DOMAIN B
                 PROVE  Weighed(B, w)[r] = B[r] * w[r] /\ Weighed(B, w)[r] \in Nat
      OBVIOUS
    <2>1. B[r] \in Nat /\ w[r] \in Nat
      BY DEF BagOK
    <2>2. Weighed(B, w)[r] = B[r] * w[r]
      BY DEF Weighed
    <2> QED
      BY <2>1, <2>2
  <1>2. IsFiniteSet(DOMAIN B)
    BY DEF BagOK
  <1> QED
    BY <1>1, <1>2, SumNat DEF Weigh

LEMMA WithWeighs ==
  ASSUME NEW B, BagOK(B), NEW a, NEW w, w[a] \in Nat, \A r \in DOMAIN B : w[r] \in Nat
  PROVE  /\ BagOK(With(B, a))
         /\ DOMAIN With(B, a) = DOMAIN B \union {a}
         /\ Weigh(With(B, a), w) = Weigh(B, w) + w[a]
  <1> DEFINE C == With(B, a)
             rest == DOMAIN B \ {a}
             g == Weighed(B, w)
             h == Weighed(C, w)
  <1>1. /\ DOMAIN C = DOMAIN B \union {a}
        /\ \A r \in rest : C[r] = B[r]
        /\ C[a] = (IF a \in DOMAIN B THEN B[a] ELSE 0) + 1
    <2>1. C = [r \in DOMAIN B \union {a} |->
                 (IF r \in DOMAIN B THEN B[r] ELSE 0) + (IF r \in {a} THEN 1 ELSE 0)]
      BY DEF With, SetToBag, (+)
    <2>2. \A r \in DOMAIN B : B[r] \in Nat \ {0}
      BY DEF BagOK
    <2> HIDE DEF C
    <2> QED
      BY <2>1, <2>2
  <1>2. BagOK(C)
    <2>1. IsFiniteSet(DOMAIN C)
      BY <1>1, FS_AddElement DEF BagOK
    <2>2. \A r \in DOMAIN C : C[r] \in Nat \ {0}
      BY <1>1 DEF BagOK
    <2>3. C = [r \in DOMAIN C |-> C[r]]
      BY DEF With, (+)
    <2> HIDE DEF C
    <2> QED
      BY <2>1, <2>2, <2>3 DEF BagOK
  <1> HIDE DEF C
  <1>3. IsFiniteSet(rest) /\ IsFiniteSet(DOMAIN C) /\ IsFiniteSet(DOMAIN B)
    BY <1>2, FS_Subset DEF BagOK
  <1>4. /\ \A r \in DOMAIN B : g[r] = B[r] * w[r] /\ g[r] \in Nat
        /\ Weigh(B, w) \in Nat
    BY WeighNat
  <1>5. \A r \in DOMAIN C : h[r] = C[r] * w[r] /\ h[r] \in Nat
    BY <1>1, <1>2, WeighNat
  <1>6. Weigh(B, w) = SumFunctionOnSet(g, DOMAIN B) /\ Weigh(C, w) = SumFunctionOnSet(h, DOMAIN C)
    BY DEF Weigh
  <1> HIDE DEF g, h
  <1>7. SumFunctionOnSet(h, DOMAIN C) = h[a] + SumFunctionOnSet(h, rest)
    <2>1. a \in DOMAIN C /\ DOMAIN C \ {a} = rest
      BY <1>1
    <2>2. \A r \in DOMAIN C : h[r] \in Int
      BY <1>5
    <2> HIDE DEF rest
    <2>3. SumFunctionOnSet(h, DOMAIN C) = h[a] + SumFunctionOnSet(h, DOMAIN C \ {a})
      BY <1>3, <2>1, <2>2, SumRemoves
    <2> QED
      BY <2>1, <2>3
  <1>8. SumFunctionOnSet(h, rest) = SumFunctionOnSet(g, rest) /\ SumFunctionOnSet(g, rest) \in Nat
    <2>1. \A r \in rest : h[r] \in Int /\ h[r] = g[r] /\ g[r] \in Nat
      BY <1>1, <1>4, <1>5
    <2> HIDE DEF rest
    <2> QED
      BY <1>3, <2>1, SumSame, SumNat
  <1>9. CASE a \in DOMAIN B
    <2>1. SumFunctionOnSet(g, DOMAIN B) = g[a] + SumFunctionOnSet(g, rest)
      BY <1>3, <1>4, <1>9, SumRemoves
    <2>2. B[a] \in Nat /\ C[a] = B[a] + 1
      BY <1>1, <1>9 DEF BagOK
    <2>3. (B[a] + 1) * w[a] = B[a] * w[a] + w[a]
      BY <2>2
    <2>4. h[a] = g[a] + w[a]
      BY <1>1, <1>4, <1>5, <1>9, <2>2, <2>3
    <2>5. g[a] \in Nat
      BY <1>4, <1>9
    <2> QED
      BY <1>1, <1>2, <1>6, <1>7, <1>8, <2>1, <2>4, <2>5 DEF C
  <1>10. CASE a \notin DOMAIN B
    <2>1. rest = DOMAIN B
      BY <1>10
    <2>2. h[a] = w[a]
      BY <1>1, <1>5, <1>10
    <2> QED
      BY <1>1, <1>2, <1>6, <1>7, <1>8, <2>1, <2>2 DEF C
  <1> QED
    BY <1>9, <1>10

(* To take an element out is the inverse of putting one in.                 *)
LEMMA LessWeighs ==
  ASSUME NEW B, BagOK(B), NEW a \in DOMAIN B
  PROVE  /\ BagOK(Less(B, a))
         /\ DOMAIN Less(B, a) \subseteq DOMAIN B
         /\ With(Less(B, a), a) = B
  <1> DEFINE C == Less(B, a)
             D == {r \in DOMAIN B : r # a \/ B[r] > 1}
  <1>1. \A r \in DOMAIN B : B[r] \in Nat \ {0}
    BY DEF BagOK
  <1>2. C = [r \in D |-> IF r = a THEN B[r] - 1 ELSE B[r]]
    <2>1. C = [r \in {d \in DOMAIN B : (IF d \in {a} THEN B[d] - 1 ELSE B[d]) > 0} |->
                 IF r \in {a} THEN B[r] - 1 ELSE B[r]]
      BY DEF Less, SetToBag, (-)
    <2>2. {d \in DOMAIN B : (IF d \in {a} THEN B[d] - 1 ELSE B[d]) > 0} = D
      BY <1>1
    <2> HIDE DEF C, D
    <2> QED
      BY <2>1, <2>2
  <1> HIDE DEF C
  <1>3. DOMAIN C = D /\ D \subseteq DOMAIN B /\ IsFiniteSet(D)
    BY <1>2, FS_Subset DEF BagOK
  <1>4. \A r \in D : C[r] \in Nat \ {0}
    BY <1>1, <1>2
  <1>5. BagOK(C)
    <2> HIDE DEF D
    <2> QED
      BY <1>2, <1>3, <1>4 DEF BagOK
  <1>6. With(C, a) = B
    <2> DEFINE E == [r \in DOMAIN C \union {a} |->
                       (IF r \in DOMAIN C THEN C[r] ELSE 0) + (IF r \in {a} THEN 1 ELSE 0)]
    <2>1. With(C, a) = E
      BY DEF With, SetToBag, (+)
    <2>2. DOMAIN C \union {a} = DOMAIN B
      BY <1>1, <1>3
    <2>3. ASSUME NEW r \in DOMAIN B PROVE E[r] = B[r]
      BY <1>1, <1>2, <1>3, <2>2
    <2>4. B = [r \in DOMAIN B |-> B[r]]
      BY DEF BagOK
    <2>5. E = [r \in DOMAIN B |-> E[r]]
      BY <2>2
    <2> HIDE DEF E
    <2> QED
      BY <2>1, <2>3, <2>4, <2>5
  <1> QED
    BY <1>3, <1>5, <1>6 DEF C

LEMMA OneWeighs ==
  ASSUME NEW a, NEW w, w[a] \in Nat
  PROVE  /\ BagOK(SetToBag({a})) /\ DOMAIN SetToBag({a}) = {a}
         /\ Weigh(SetToBag({a}), w) = w[a]
  <1> DEFINE E == SetToBag({})
  <1>1. BagOK(E) /\ DOMAIN E = {}
    BY FS_EmptySet DEF BagOK, SetToBag
  <1>2. With(E, a) = SetToBag({a})
    <2>1. With(E, a) = [r \in {} \union {a} |-> (IF r \in {} THEN 1 ELSE 0) + (IF r \in {a} THEN 1 ELSE 0)]
      BY DEF With, SetToBag, (+)
    <2>2. SetToBag({a}) = [r \in {a} |-> 1]
      BY DEF SetToBag
    <2> QED
      BY <2>1, <2>2
  <1>3. Weigh(E, w) = 0
    BY <1>1, SumEmpty DEF Weigh
  <1> HIDE DEF E
  <1>4. /\ BagOK(With(E, a)) /\ DOMAIN With(E, a) = DOMAIN E \union {a}
        /\ Weigh(With(E, a), w) = Weigh(E, w) + w[a]
    BY <1>1, WithWeighs
  <1> QED
    BY <1>1, <1>2, <1>3, <1>4

(* Greater weights, of which one is known.                                  *)
LEMMA HeavierBag ==
  ASSUME NEW B, BagOK(B), NEW v, NEW w, NEW a \in DOMAIN B,
         \A r \in DOMAIN B : v[r] \in Nat /\ w[r] \in Nat /\ v[r] <= w[r]
  PROVE  Weigh(B, v) + (w[a] - v[a]) <= Weigh(B, w)
  <1> DEFINE C == Less(B, a)
  <1>1. BagOK(C) /\ DOMAIN C \subseteq DOMAIN B /\ With(C, a) = B
    BY LessWeighs
  <1> HIDE DEF C
  <1>2. \A r \in DOMAIN C : v[r] \in Nat /\ w[r] \in Nat /\ v[r] <= w[r]
    BY <1>1
  <1>3. Weigh(B, v) = Weigh(C, v) + v[a] /\ Weigh(B, w) = Weigh(C, w) + w[a]
    BY <1>1, <1>2, WithWeighs
  <1>4. Weigh(C, v) <= Weigh(C, w)
    <2> DEFINE g == Weighed(C, v)
               h == Weighed(C, w)
    <2>1. ASSUME NEW r \in DOMAIN C PROVE g[r] \in Int /\ h[r] \in Int /\ g[r] <= h[r]
      <3>1. C[r] \in Nat /\ v[r] \in Nat /\ w[r] \in Nat /\ v[r] <= w[r]
        BY <1>1, <1>2 DEF BagOK
      <3>2. g[r] = C[r] * v[r] /\ h[r] = C[r] * w[r]
        BY DEF Weighed
      <3>3. C[r] * v[r] \in Int /\ C[r] * w[r] \in Int /\ C[r] * v[r] <= C[r] * w[r]
        BY <3>1
      <3> QED
        BY <3>2, <3>3
    <2> HIDE DEF g, h
    <2> QED
      BY <1>1, <2>1, SumMonotone DEF BagOK, Weigh, g, h
  <1>5. Weigh(C, v) \in Nat /\ Weigh(C, w) \in Nat
    BY <1>1, <1>2, WeighNat
  <1> QED
    BY <1>1, <1>2, <1>3, <1>4, <1>5

(* Weights that are sums.                                                   *)
LEMMA WeighPlus ==
  ASSUME NEW B, BagOK(B), NEW u, NEW v, NEW w,
         \A r \in DOMAIN B : u[r] \in Nat /\ v[r] \in Nat /\ w[r] = u[r] + v[r]
  PROVE  Weigh(B, w) = Weigh(B, u) + Weigh(B, v)
  <1> DEFINE f == Weighed(B, u)
             g == Weighed(B, v)
             h == Weighed(B, w)
  <1>1. ASSUME NEW r \in DOMAIN B PROVE f[r] \in Int /\ g[r] \in Int /\ h[r] = f[r] + g[r]
    <2>1. B[r] \in Nat /\ u[r] \in Nat /\ v[r] \in Nat /\ w[r] = u[r] + v[r]
      BY DEF BagOK
    <2>2. f[r] = B[r] * u[r] /\ g[r] = B[r] * v[r] /\ h[r] = B[r] * w[r]
      BY DEF Weighed
    <2>3. B[r] * (u[r] + v[r]) = B[r] * u[r] + B[r] * v[r]
      BY <2>1
    <2>4. B[r] * u[r] \in Int /\ B[r] * v[r] \in Int
      BY <2>1
    <2> QED
      BY <2>1, <2>2, <2>3, <2>4
  <1> HIDE DEF f, g, h
  <1> QED
    BY <1>1, SumPlus DEF BagOK, Weigh, f, g, h

------------------------------------------------------------------------------
(* The shape of a tree.                                                     *)
Recs == [n : [Types -> Nat], type : Types \union {UNKNOWN}]

(* Power is what its definition says.                                       *)
IsPower(f, k) == f = [i \in 0 .. k |-> IF i = 0 THEN 1 ELSE FanIn * f[i - 1]]

LEMMA PowerExists ==
  ASSUME NEW k \in Nat
  PROVE  \E f : IsPower(f, k)
  <1> DEFINE C == {l \in Nat : ~ \E f : IsPower(f, l)}
  <1>1. SUFFICES ASSUME C # {} PROVE FALSE
    OBVIOUS
  <1>2. PICK l \in C : \A m \in C : l <= m
    <2> C \in SUBSET Nat
      OBVIOUS
    <2> HIDE DEF C
    <2> QED
      BY <1>1, SmallestNat
  <1>3. CASE l = 0
    <2> DEFINE f == [i \in 0 .. 0 |-> 1]
    <2>1. IsPower(f, 0)
      BY DEF IsPower
    <2> QED
      BY <1>2, <1>3, <2>1
  <1>4. CASE l # 0
    <2>1. l - 1 \in Nat /\ l - 1 \notin C
      BY <1>2, <1>4
    <2>2. PICK f : IsPower(f, l - 1)
      BY <2>1
    <2> DEFINE g == [i \in 0 .. l |-> IF i = l THEN FanIn * f[l - 1] ELSE f[i]]
    <2>3. ASSUME NEW i \in 0 .. l
          PROVE  g[i] = IF i = 0 THEN 1 ELSE FanIn * g[i - 1]
      <3>1. f = [j \in 0 .. l - 1 |-> IF j = 0 THEN 1 ELSE FanIn * f[j - 1]]
        BY <2>2 DEF IsPower
      <3>2. CASE i = l
        BY <1>4, <2>1, <3>2
      <3>3. CASE i # l
        <4>1. i \in 0 .. l - 1
          BY <2>1, <3>3
        <4>2. f[i] = IF i = 0 THEN 1 ELSE FanIn * f[i - 1]
          BY <3>1, <4>1
        <4>3. i # 0 => i - 1 \in 0 .. l /\ i - 1 # l
          BY <4>1
        <4> QED
          BY <3>3, <4>2, <4>3
      <3> QED
        BY <3>2, <3>3
    <2>4. IsPower(g, l)
      <3> DEFINE h == [i \in 0 .. l |-> IF i = 0 THEN 1 ELSE FanIn * g[i - 1]]
      <3>1. \A i \in 0 .. l : g[i] = h[i]
        <4> HIDE DEF g
        <4> QED
          BY <2>3
      <3>2. g = [i \in 0 .. l |-> g[i]] /\ h = [i \in 0 .. l |-> h[i]]
        OBVIOUS
      <3>3. g = h
        <4> HIDE DEF g, h
        <4> QED
          BY <3>1, <3>2
      <3> HIDE DEF g
      <3> QED
        BY <3>3 DEF IsPower
    <2> HIDE DEF g
    <2> QED
      BY <1>2, <2>4
  <1> QED
    BY <1>3, <1>4

LEMMA PowerUnique ==
  ASSUME NEW k \in Nat, NEW l \in Nat, NEW f, NEW g, IsPower(f, k), IsPower(g, l),
         NEW i \in Nat, i <= k, i <= l
  PROVE  f[i] = g[i]
  <1> DEFINE C == {j \in 0 .. i : f[j] # g[j]}
  <1>1. SUFFICES ASSUME C # {} PROVE FALSE
    <2>1. i \in 0 .. i
      OBVIOUS
    <2> QED
      BY <2>1
  <1>2. PICK j \in C : \A m \in C : j <= m
    <2> C \in SUBSET Nat
      OBVIOUS
    <2> HIDE DEF C
    <2> QED
      BY <1>1, SmallestNat
  <1>3. /\ j \in 0 .. k /\ j \in 0 .. l /\ f[j] # g[j]
    OBVIOUS
  <1>4. /\ f[j] = IF j = 0 THEN 1 ELSE FanIn * f[j - 1]
        /\ g[j] = IF j = 0 THEN 1 ELSE FanIn * g[j - 1]
    <2>1. f = [m \in 0 .. k |-> IF m = 0 THEN 1 ELSE FanIn * f[m - 1]]
      BY DEF IsPower
    <2>2. g = [m \in 0 .. l |-> IF m = 0 THEN 1 ELSE FanIn * g[m - 1]]
      BY DEF IsPower
    <2> QED
      BY <1>3, <2>1, <2>2
  <1>5. j # 0
    BY <1>3, <1>4
  <1>6. j - 1 \in 0 .. i /\ j - 1 \notin C
    BY <1>2, <1>5
  <1> QED
    BY <1>3, <1>4, <1>5, <1>6

LEMMA PowerSteps ==
  ASSUME FanIn \in Nat \ {0}
  PROVE  /\ Tree!Power[0] = 1
         /\ \A k \in Nat : /\ Tree!Power[k] \in Nat \ {0}
                          /\ Tree!Power[k + 1] = FanIn * Tree!Power[k]
  <1> DEFINE F(k) == CHOOSE f : IsPower(f, k)
             G == [k \in Nat |-> F(k)[k]]
             P == Tree!Power
  <1>1. \A k \in Nat : IsPower(F(k), k)
    BY PowerExists
  <1> HIDE DEF F
  <1>2. ASSUME NEW k \in Nat
        PROVE  G[k] = IF k = 0 THEN 1 ELSE FanIn * G[k - 1]
    <2>1. F(k) = [i \in 0 .. k |-> IF i = 0 THEN 1 ELSE FanIn * F(k)[i - 1]]
      BY <1>1 DEF IsPower
    <2>2. F(k)[k] = IF k = 0 THEN 1 ELSE FanIn * F(k)[k - 1]
      <3>1. k \in 0 .. k
        OBVIOUS
      <3> QED
        BY <2>1, <3>1
    <2>3. ASSUME k # 0 PROVE F(k)[k - 1] = F(k - 1)[k - 1]
      <3>1. k - 1 \in Nat /\ k - 1 <= k /\ k - 1 <= k - 1
        BY <2>3
      <3> QED
        BY <1>1, <3>1, PowerUnique
    <2> QED
      BY <2>2, <2>3
  <1>3. G = [k \in Nat |-> IF k = 0 THEN 1 ELSE FanIn * G[k - 1]]
    <2> DEFINE H == [k \in Nat |-> IF k = 0 THEN 1 ELSE FanIn * G[k - 1]]
    <2>1. \A k \in Nat : G[k] = H[k]
      <3> HIDE DEF G
      <3> QED
        BY <1>2
    <2>2. G = [k \in Nat |-> G[k]] /\ H = [k \in Nat |-> H[k]]
      OBVIOUS
    <2> HIDE DEF G, H
    <2>3. G = H
      BY <2>1, <2>2
    <2> QED
      BY <2>3 DEF H
  <1> HIDE DEF G
  <1>4. P = [k \in Nat |-> IF k = 0 THEN 1 ELSE FanIn * P[k - 1]]
    BY <1>3 DEF Tree!Power
  <1> HIDE DEF P
  <1>5. P[0] = 1
    BY <1>4
  <1>6. ASSUME NEW k \in Nat PROVE P[k + 1] = FanIn * P[k]
    <2>1. k + 1 \in Nat /\ k + 1 # 0 /\ (k + 1) - 1 = k
      OBVIOUS
    <2>2. P[k + 1] = IF k + 1 = 0 THEN 1 ELSE FanIn * P[(k + 1) - 1]
      BY <1>4, <2>1
    <2> QED
      BY <2>1, <2>2
  <1>7. \A k \in Nat : P[k] \in Nat \ {0}
    <2> DEFINE C == {l \in Nat : P[l] \notin Nat \ {0}}
    <2>1. SUFFICES ASSUME C # {} PROVE FALSE
      OBVIOUS
    <2>2. PICK l \in C : \A m \in C : l <= m
      <3> C \in SUBSET Nat
        OBVIOUS
      <3> HIDE DEF C
      <3> QED
        BY <2>1, SmallestNat
    <2>3. l # 0
      BY <1>5, <2>2
    <2>4. l - 1 \in Nat /\ l - 1 \notin C
      BY <2>2, <2>3
    <2>5. P[l] = FanIn * P[l - 1]
      BY <1>4, <2>3
    <2>6. P[l - 1] \in Nat \ {0}
      BY <2>4
    <2>7. FanIn * P[l - 1] \in Nat \ {0}
      BY <2>6
    <2> QED
      BY <2>2, <2>5, <2>7
  <1> QED
    BY <1>5, <1>6, <1>7 DEF P

(* Sizes.                                                                   *)
LEMMA TreeSum == \A g, S : Tree!SumFunctionOnSet(g, S) = SumFunctionOnSet(g, S)
  BY DEF Tree!SumFunctionOnSet, Tree!FoldFunctionOnSet, Tree!MapThenFoldSet,
         SumFunctionOnSet, FoldFunctionOnSet, MapThenFoldSet

LEMMA TreeSets ==
  ASSUME NEW S
  PROVE  /\ Tree!IsFiniteSet(S) <=> IsFiniteSet(S)
         /\ Tree!Cardinality(S) = Cardinality(S)
  BY DEF Tree!IsFiniteSet, Tree!Cardinality, IsFiniteSet, Cardinality

LEMMA TypesFinite ==
  ASSUME Tree!TreeShapeAssumption
  PROVE  /\ IsFiniteSet(Types) /\ UNKNOWN \notin Types
         /\ Width \in Nat \ {0, 1} /\ Cardinality(Types) <= Width
         /\ Cardinality(Types) \in Nat
         /\ leafSize \in [Types \union {UNKNOWN} -> Nat \ {0}]
  BY TreeSets, FS_CardinalityType DEF Tree!TreeShapeAssumption

LEMMA SizeNat ==
  ASSUME Tree!TreeShapeAssumption, NEW r \in Recs
  PROVE  /\ Tree!SizeOf(r) = SumFunctionOnSet(r.n, Types)
         /\ Tree!SizeOf(r) \in Nat
         /\ \A t \in Types : r.n[t] \in Nat /\ r.n[t] <= Tree!SizeOf(r)
         /\ Tree!SizeOf(r) > 0 <=> \E t \in Types : r.n[t] > 0
         /\ Tree!SizeOf(r) > 0 <=> Tree!TypesIn(r) # {}
  <1> DEFINE n == r.n
             N == Tree!SizeOf(r)
  <1>1. IsFiniteSet(Types) /\ \A t \in Types : n[t] \in Nat
    BY TypesFinite DEF Recs
  <1>2. N = SumFunctionOnSet(n, Types)
    BY TreeSum DEF Tree!SizeOf
  <1> HIDE DEF n, N
  <1>3. N \in Nat
    BY <1>1, <1>2, SumNat
  <1>4. ASSUME NEW t \in Types
        PROVE  n[t] <= N
    <2> DEFINE T == Types \ {t}
    <2>1. IsFiniteSet(T) /\ \A u \in T : n[u] \in Nat
      BY <1>1, FS_Subset
    <2>2. SumFunctionOnSet(n, Types) = n[t] + SumFunctionOnSet(n, T)
      <3>1. \A u \in Types : n[u] \in Int
        BY <1>1
      <3> QED
        BY <1>1, <3>1, SumRemoves
    <2> HIDE DEF T
    <2>3. SumFunctionOnSet(n, T) \in Nat
      BY <2>1, SumNat
    <2> QED
      BY <1>1, <1>2, <1>3, <2>2, <2>3
  <1>5. ASSUME \A t \in Types : n[t] = 0
        PROVE  N = 0
    <2>1. SumFunctionOnSet(n, Types) = SumFunctionOnSet(n, Types) + SumFunctionOnSet(n, Types)
      <3>1. \A t \in Types : n[t] \in Int /\ n[t] = n[t] + n[t]
        BY <1>5
      <3> QED
        BY <1>1, <3>1, SumPlus
    <2>2. ASSUME NEW x \in Int, x = x + x PROVE x = 0
      BY <2>2
    <2>3. SumFunctionOnSet(n, Types) \in Int
      BY <1>2, <1>3
    <2> QED
      BY <1>2, <2>1, <2>2, <2>3
  <1>6. N > 0 <=> \E t \in Types : n[t] > 0
    <2>1. ASSUME N > 0 PROVE \E t \in Types : n[t] > 0
      BY <1>1, <1>3, <1>5, <2>1
    <2>2. ASSUME NEW t \in Types, n[t] > 0 PROVE N > 0
      BY <1>1, <1>3, <1>4, <2>2
    <2> QED
      BY <2>1, <2>2
  <1>7. Tree!TypesIn(r) # {} <=> \E t \in Types : n[t] > 0
    BY DEF Tree!TypesIn, n
  <1> QED
    BY <1>1, <1>2, <1>3, <1>4, <1>6, <1>7 DEF n, N

(* Only one type.                                                           *)
LEMMA SingleTypeSize ==
  ASSUME Tree!TreeShapeAssumption, NEW r \in Recs, NEW t \in Types,
         \A u \in Types : u # t => r.n[u] = 0
  PROVE  Tree!SizeOf(r) = r.n[t]
  <1> DEFINE n == r.n
             T == Types \ {t}
  <1>1. IsFiniteSet(Types) /\ (\A u \in Types : n[u] \in Nat) /\ IsFiniteSet(T)
    <2>1. IsFiniteSet(T)
      BY TypesFinite, FS_Subset
    <2>2. \A u \in Types : n[u] \in Nat
      BY DEF Recs
    <2> QED
      BY <2>1, <2>2, TypesFinite
  <1>2. Tree!SizeOf(r) = SumFunctionOnSet(n, Types)
    BY TreeSum DEF Tree!SizeOf
  <1>3. \A u \in T : n[u] \in Int /\ n[u] = n[u] + n[u]
    OBVIOUS
  <1>4. \A u \in Types : n[u] \in Int
    BY <1>1
  <1> HIDE DEF n
  <1>5. SumFunctionOnSet(n, Types) = n[t] + SumFunctionOnSet(n, T)
    BY <1>1, <1>4, SumRemoves
  <1> HIDE DEF T
  <1>6. SumFunctionOnSet(n, T) = SumFunctionOnSet(n, T) + SumFunctionOnSet(n, T)
    BY <1>1, <1>3, SumPlus
  <1>7. SumFunctionOnSet(n, T) \in Int
    BY <1>1, <1>3, SumType
  <1>8. ASSUME NEW x \in Int, x = x + x PROVE x = 0
    BY <1>8
  <1>9. SumFunctionOnSet(n, T) = 0
    BY <1>6, <1>7, <1>8
  <1>10. n[t] \in Int
    BY <1>1
  <1> QED
    BY <1>2, <1>5, <1>9, <1>10 DEF n

(* A record that is cut into two parts.                                     *)
LEMMA PartSizes ==
  ASSUME Tree!TreeShapeAssumption, NEW r \in Recs, NEW n \in [Types -> Nat],
         \A t \in Types : n[t] <= r.n[t],
         NEW x \in Types \union {UNKNOWN}, NEW y \in Types \union {UNKNOWN}
  PROVE  LET a == Tree!Record(n, x)
             b == Tree!Record(Tree!Without(r, n), y)
         IN /\ a \in Recs /\ a.n = n /\ a.type = x
            /\ b \in Recs /\ b.n = Tree!Without(r, n) /\ b.type = y
            /\ Tree!SizeOf(a) + Tree!SizeOf(b) = Tree!SizeOf(r)
            /\ \A t \in Types : b.n[t] = r.n[t] - n[t]
  <1> DEFINE a == Tree!Record(n, x)
             b == Tree!Record(Tree!Without(r, n), y)
             m == Tree!Without(r, n)
             k == r.n
  <1>1. k \in [Types -> Nat]
    BY DEF Recs
  <1>2. \A t \in Types : m[t] = k[t] - n[t] /\ m[t] \in Nat
    BY <1>1 DEF Tree!Without
  <1>3. m \in [Types -> Nat]
    BY <1>2 DEF Tree!Without
  <1>4. a \in Recs /\ a.n = n /\ a.type = x /\ b \in Recs /\ b.n = m /\ b.type = y
    BY <1>3 DEF Tree!Record, Recs
  <1>5. IsFiniteSet(Types)
    BY TypesFinite
  <1> HIDE DEF m
  <1>6. SumFunctionOnSet(k, Types) = SumFunctionOnSet(n, Types) + SumFunctionOnSet(m, Types)
    <2>1. \A t \in Types : n[t] \in Int /\ m[t] \in Int /\ k[t] = n[t] + m[t]
      BY <1>1, <1>2
    <2> HIDE DEF k
    <2> QED
      BY <1>5, <2>1, SumPlus
  <1>7. /\ Tree!SizeOf(a) = SumFunctionOnSet(n, Types)
        /\ Tree!SizeOf(b) = SumFunctionOnSet(m, Types)
        /\ Tree!SizeOf(r) = SumFunctionOnSet(k, Types)
    BY <1>4, TreeSum DEF Tree!SizeOf
  <1> HIDE DEF a, b, k
  <1> QED
    BY <1>2, <1>4, <1>6, <1>7 DEF m, a, b, k

------------------------------------------------------------------------------
(* Records that are pending, or at hand.                                    *)
Good(r) ==
  /\ r \in Recs
  /\ Tree!SizeOf(r) > 0
  /\ r.type # UNKNOWN => Tree!TypesIn(r) = {r.type}

One == [r \in Recs |-> 1]
Size == [r \in Recs |-> Tree!SizeOf(r)]
Kinds == [r \in Recs |-> Cardinality(Tree!TypesIn(r))]

(* The splits in the middle that get the parts of a record down to m.       *)
Need(m) ==
  [r \in Recs |-> IF Tree!SizeOf(r) <= m THEN 0 ELSE IF Tree!SizeOf(r) <= 2 * m THEN 1 ELSE 3]

LEMMA WeightsNat ==
  ASSUME Tree!TreeShapeAssumption, NEW r \in Recs
  PROVE  /\ One[r] = 1 /\ Size[r] = Tree!SizeOf(r) /\ Size[r] \in Nat
         /\ Kinds[r] = Cardinality(Tree!TypesIn(r)) /\ Kinds[r] \in Nat
         /\ Kinds[r] <= Cardinality(Types)
         /\ Tree!SizeOf(r) > 0 => Kinds[r] >= 1
         /\ \A m \in Nat : Need(m)[r] \in Nat
  <1>1. Tree!TypesIn(r) \subseteq Types /\ IsFiniteSet(Types)
    BY TypesFinite DEF Tree!TypesIn
  <1>2. /\ IsFiniteSet(Tree!TypesIn(r)) /\ Cardinality(Tree!TypesIn(r)) \in Nat
        /\ Cardinality(Tree!TypesIn(r)) <= Cardinality(Types)
    BY <1>1, FS_Subset, FS_CardinalityType
  <1>3. Tree!TypesIn(r) # {} => Cardinality(Tree!TypesIn(r)) # 0
    BY <1>2, FS_EmptySet
  <1> QED
    BY <1>2, <1>3, SizeNat DEF One, Size, Kinds, Need

LEMMA ReplaceWeighs ==
  ASSUME Tree!TreeShapeAssumption, BagOK(children), DOMAIN children \subseteq Recs,
         NEW r \in DOMAIN children, NEW a \in Recs, NEW b \in Recs,
         NEW w, \A x \in Recs : w[x] \in Nat
  PROVE  LET C == Tree!Replace(r, a, b)
         IN /\ BagOK(C)
            /\ DOMAIN C \subseteq DOMAIN children \union {a, b}
            /\ Weigh(C, w) + w[r] = Weigh(children, w) + w[a] + w[b]
            /\ Weigh(C, w) \in Nat /\ Weigh(children, w) \in Nat
  <1> DEFINE A == Less(children, r)
             B == With(A, a)
             C == Tree!Replace(r, a, b)
  <1>1. C = With(B, b)
    BY DEF With, Less, Tree!Replace, Tree!SetToBag, SetToBag, Tree!(+), Tree!(-), (+), (-)
  <1>2. BagOK(A) /\ DOMAIN A \subseteq DOMAIN children /\ With(A, r) = children
    BY LessWeighs
  <1> HIDE DEF A
  <1>3. \A x \in DOMAIN A : w[x] \in Nat
    BY <1>2
  <1>4. w[a] \in Nat /\ w[b] \in Nat /\ w[r] \in Nat
    OBVIOUS
  <1>5. Weigh(With(A, r), w) = Weigh(A, w) + w[r]
    BY <1>2, <1>3, <1>4, WithWeighs
  <1>6. BagOK(B) /\ DOMAIN B = DOMAIN A \union {a} /\ Weigh(B, w) = Weigh(A, w) + w[a]
    BY <1>2, <1>3, <1>4, WithWeighs
  <1> HIDE DEF B
  <1>7. \A x \in DOMAIN B : w[x] \in Nat
    BY <1>2, <1>6
  <1>8. /\ BagOK(With(B, b)) /\ DOMAIN With(B, b) = DOMAIN B \union {b}
        /\ Weigh(With(B, b), w) = Weigh(B, w) + w[b]
    BY <1>4, <1>6, <1>7, WithWeighs
  <1>9. Weigh(A, w) \in Nat
    BY <1>2, <1>3, WeighNat
  <1> HIDE DEF C
  <1> QED
    BY <1>1, <1>2, <1>4, <1>5, <1>6, <1>8, <1>9 DEF C

(* The children of record q so far.                                         *)
Pending(B, q) ==
  /\ BagOK(B)
  /\ \A r \in DOMAIN B : Good(r)
  /\ Weigh(B, Size) = Tree!SizeOf(q)
  /\ Weigh(B, One) \in 1 .. Width
  /\ B = SetToBag({q}) \/ Weigh(B, One) >= 2

LEMMA StartPending ==
  ASSUME Tree!TreeShapeAssumption, NEW q, Good(q)
  PROVE  /\ Pending(SetToBag({q}), q)
         /\ Tree!SetToBag({q}) = SetToBag({q})
         /\ DOMAIN SetToBag({q}) = {q}
         /\ Weigh(SetToBag({q}), One) = 1
         /\ Weigh(SetToBag({q}), Kinds) = Kinds[q]
         /\ \A m \in Nat : Weigh(SetToBag({q}), Need(m)) = Need(m)[q]
  <1>1. q \in Recs
    BY DEF Good
  <1>2. /\ One[q] = 1 /\ Size[q] = Tree!SizeOf(q) /\ Size[q] \in Nat /\ Kinds[q] \in Nat
        /\ \A m \in Nat : Need(m)[q] \in Nat
    BY <1>1, WeightsNat
  <1>3. /\ BagOK(SetToBag({q})) /\ DOMAIN SetToBag({q}) = {q}
        /\ Weigh(SetToBag({q}), Size) = Tree!SizeOf(q)
        /\ Weigh(SetToBag({q}), One) = 1
        /\ Weigh(SetToBag({q}), Kinds) = Kinds[q]
    BY <1>2, OneWeighs
  <1>4. \A m \in Nat : Weigh(SetToBag({q}), Need(m)) = Need(m)[q]
    BY <1>2, OneWeighs
  <1>5. Tree!SetToBag({q}) = SetToBag({q})
    BY DEF Tree!SetToBag, SetToBag
  <1>6. 1 \in 1 .. Width
    BY TypesFinite
  <1> QED
    BY <1>3, <1>4, <1>5, <1>6 DEF Pending

LEMMA PendingRecs ==
  ASSUME Tree!TreeShapeAssumption, NEW B, NEW q, Pending(B, q)
  PROVE  /\ BagOK(B) /\ DOMAIN B \subseteq Recs
         /\ Weigh(B, One) \in Nat /\ Weigh(B, One) >= 1
         /\ \A r \in DOMAIN B : Size[r] = Tree!SizeOf(r) /\ Tree!SizeOf(r) \in Nat \ {0} /\ One[r] = 1
  BY SizeNat, WeightsNat DEF Pending, Good

(* Each of the others has at least one primitive.                           *)
LEMMA PendingSize ==
  ASSUME Tree!TreeShapeAssumption, NEW B, NEW q \in Recs, Pending(B, q), NEW r \in DOMAIN B
  PROVE  Tree!SizeOf(r) + Weigh(B, One) <= Tree!SizeOf(q) + 1
  <1>1. /\ BagOK(B) /\ Weigh(B, One) \in Nat
        /\ \A x \in DOMAIN B : One[x] \in Nat /\ Size[x] \in Nat /\ One[x] <= Size[x]
        /\ Size[r] = Tree!SizeOf(r) /\ One[r] = 1
    BY PendingRecs
  <1>2. Weigh(B, One) + (Size[r] - One[r]) <= Weigh(B, Size)
    BY <1>1, HeavierBag
  <1>3. Weigh(B, Size) = Tree!SizeOf(q)
    BY DEF Pending
  <1>4. Tree!SizeOf(q) \in Nat
    BY SizeNat
  <1> QED
    BY <1>1, <1>2, <1>3, <1>4

(* A record comes among its children only when it is the only one.          *)
LEMMA PendingOther ==
  ASSUME Tree!TreeShapeAssumption, NEW B, NEW q \in Recs, Pending(B, q), Weigh(B, One) >= 2
  PROVE  q \notin DOMAIN B
  <1> SUFFICES ASSUME q \in DOMAIN B PROVE FALSE
    OBVIOUS
  <1>1. Tree!SizeOf(q) + Weigh(B, One) <= Tree!SizeOf(q) + 1
    BY PendingSize
  <1> QED
    BY <1>1, SizeNat, PendingRecs

LEMMA NumChildren ==
  ASSUME Tree!TreeShapeAssumption, Pending(children, rec)
  PROVE  Tree!numChildren = Weigh(children, One)
  <1> DEFINE g == Weighed(children, One)
  <1>1. Tree!numChildren = SumFunctionOnSet(children, DOMAIN children)
    BY TreeSum DEF Tree!numChildren, Tree!SumFunction
  <1>2. ASSUME NEW r \in DOMAIN children
        PROVE  children[r] \in Int /\ children[r] = g[r]
    <2>1. children[r] \in Nat /\ One[r] = 1
      BY PendingRecs DEF BagOK
    <2>2. g[r] = children[r] * One[r]
      BY DEF Weighed
    <2> QED
      BY <2>1, <2>2
  <1> HIDE DEF g
  <1>3. SumFunctionOnSet(children, DOMAIN children) = SumFunctionOnSet(g, DOMAIN children)
    BY <1>2, PendingRecs, SumSame DEF BagOK
  <1> QED
    BY <1>1, <1>3 DEF Weigh, g

(* A split of one of the children.                                          *)
LEMMA SplitPending ==
  ASSUME Tree!TreeShapeAssumption, rec \in Recs, Pending(children, rec), ~ Tree!Full,
         NEW r \in DOMAIN children, NEW a, NEW b, Good(a), Good(b),
         Tree!SizeOf(a) + Tree!SizeOf(b) = Tree!SizeOf(r)
  PROVE  LET C == Tree!Replace(r, a, b)
         IN /\ Pending(C, rec)
            /\ DOMAIN C \subseteq DOMAIN children \union {a, b}
            /\ Weigh(C, One) = Weigh(children, One) + 1
            /\ C # SetToBag({rec})
            /\ Weigh(C, Kinds) + Kinds[r] = Weigh(children, Kinds) + Kinds[a] + Kinds[b]
            /\ \A m \in Nat :
                 Weigh(C, Need(m)) + Need(m)[r] = Weigh(children, Need(m)) + Need(m)[a] + Need(m)[b]
  <1> DEFINE C == Tree!Replace(r, a, b)
  <1>1. /\ BagOK(children) /\ DOMAIN children \subseteq Recs
        /\ a \in Recs /\ b \in Recs /\ r \in Recs
    BY PendingRecs DEF Good
  <1>2. /\ \A x \in Recs : One[x] \in Nat /\ Size[x] \in Nat /\ Kinds[x] \in Nat
        /\ \A m \in Nat : \A x \in Recs : Need(m)[x] \in Nat
    BY WeightsNat
  <1>3. /\ BagOK(C) /\ DOMAIN C \subseteq DOMAIN children \union {a, b}
        /\ Weigh(C, One) + One[r] = Weigh(children, One) + One[a] + One[b]
        /\ Weigh(C, One) \in Nat /\ Weigh(children, One) \in Nat
    BY <1>1, <1>2, ReplaceWeighs
  <1>4. /\ Weigh(C, Size) + Size[r] = Weigh(children, Size) + Size[a] + Size[b]
        /\ Weigh(C, Size) \in Nat /\ Weigh(children, Size) \in Nat
    BY <1>1, <1>2, ReplaceWeighs
  <1>5. Weigh(C, Kinds) + Kinds[r] = Weigh(children, Kinds) + Kinds[a] + Kinds[b]
    BY <1>1, <1>2, ReplaceWeighs
  <1>6. ASSUME NEW m \in Nat
        PROVE  Weigh(C, Need(m)) + Need(m)[r] = Weigh(children, Need(m)) + Need(m)[a] + Need(m)[b]
    BY <1>1, <1>2, ReplaceWeighs
  <1> HIDE DEF C
  <1>7. One[r] = 1 /\ One[a] = 1 /\ One[b] = 1
    BY <1>1 DEF One
  <1>8. Size[r] = Size[a] + Size[b] /\ Size[r] \in Nat
    BY <1>1, <1>2 DEF Size
  <1>9. Weigh(C, One) = Weigh(children, One) + 1
    BY <1>3, <1>7
  <1>10. Weigh(C, Size) = Tree!SizeOf(rec)
    <2>1. Size[a] \in Nat /\ Size[b] \in Nat
      BY <1>1, <1>2
    <2>2. Weigh(children, Size) = Tree!SizeOf(rec)
      BY DEF Pending
    <2> QED
      BY <1>4, <1>8, <2>1, <2>2
  <1>11. Weigh(children, One) \in 1 .. Width /\ Weigh(children, One) < Width /\ Width \in Nat
    BY NumChildren, TypesFinite DEF Pending, Tree!Full
  <1>12. Weigh(C, One) \in 1 .. Width /\ Weigh(C, One) >= 2
    BY <1>9, <1>11
  <1>13. C # SetToBag({rec})
    <2>1. Weigh(SetToBag({rec}), One) = 1
      <3>1. One[rec] = 1
        BY DEF One
      <3>2. One[rec] \in Nat
        BY <3>1
      <3> QED
        BY <3>1, <3>2, OneWeighs
    <2> QED
      BY <1>12, <2>1
  <1>14. \A x \in DOMAIN C : Good(x)
    BY <1>3 DEF Pending
  <1>15. Pending(C, rec)
    BY <1>3, <1>10, <1>12, <1>14 DEF Pending
  <1> QED
    BY <1>3, <1>5, <1>6, <1>9, <1>13, <1>15 DEF C

(* Both parts of a split have primitives, and only of the type of the       *)
(* record, if that is known.                                                *)
LEMMA SplitParts ==
  ASSUME Tree!TreeShapeAssumption, NEW r, Good(r), NEW n \in Tree!SAHParts(r)
  PROVE  LET a == Tree!Record(n, r.type)
             b == Tree!Record(Tree!Without(r, n), r.type)
         IN /\ Good(a) /\ Good(b) /\ a.type = r.type /\ b.type = r.type
            /\ Tree!SizeOf(a) + Tree!SizeOf(b) = Tree!SizeOf(r)
  <1> DEFINE a == Tree!Record(n, r.type)
             b == Tree!Record(Tree!Without(r, n), r.type)
  <1>1. r \in Recs /\ r.type \in Types \union {UNKNOWN} /\ \A t \in Types : r.n[t] \in Nat
    BY DEF Good, Recs
  <1>2. /\ n \in [Types -> Nat] /\ \A t \in Types : n[t] <= r.n[t]
        /\ \E t \in Types : n[t] > 0
        /\ \E t \in Types : n[t] < r.n[t]
    <2>1. Tree!SizeOf(r) \in Nat
      BY <1>1, SizeNat
    <2> QED
      BY <2>1 DEF Tree!SAHParts
  <1>3. /\ a \in Recs /\ a.n = n /\ a.type = r.type /\ b \in Recs /\ b.type = r.type
        /\ Tree!SizeOf(a) + Tree!SizeOf(b) = Tree!SizeOf(r)
        /\ \A t \in Types : b.n[t] = r.n[t] - n[t]
    BY <1>1, <1>2, PartSizes
  <1> HIDE DEF a, b
  <1>4. \E t \in Types : b.n[t] > 0
    BY <1>1, <1>2, <1>3
  <1>5. Tree!SizeOf(a) > 0 /\ Tree!SizeOf(b) > 0 /\ Tree!TypesIn(a) # {} /\ Tree!TypesIn(b) # {}
    BY <1>2, <1>3, <1>4, SizeNat
  <1>6. Tree!TypesIn(a) \subseteq Tree!TypesIn(r) /\ Tree!TypesIn(b) \subseteq Tree!TypesIn(r)
    BY <1>1, <1>2, <1>3 DEF Tree!TypesIn
  <1> QED
    BY <1>3, <1>5, <1>6 DEF Good, a, b

LEMMA HalfParts ==
  ASSUME Tree!TreeShapeAssumption, NEW r, Good(r), NEW n \in Tree!FallbackParts(r)
  PROVE  LET a == Tree!Record(n, r.type)
             b == Tree!Record(Tree!Without(r, n), r.type)
         IN /\ n \in Tree!SAHParts(r)
            /\ \A h \in Nat : Tree!SizeOf(r) <= 2 * h => Tree!SizeOf(a) <= h /\ Tree!SizeOf(b) <= h
            /\ Tree!SizeOf(r) >= 4 => Tree!SizeOf(a) >= 2 /\ Tree!SizeOf(b) >= 2
            /\ Tree!SizeOf(a) <= Tree!SizeOf(r) /\ Tree!SizeOf(b) <= Tree!SizeOf(r)
  <1> DEFINE a == Tree!Record(n, r.type)
             b == Tree!Record(Tree!Without(r, n), r.type)
  <1>1. n \in Tree!SAHParts(r) /\ 2 * Tree!SizeOf(a) - Tree!SizeOf(r) \in {-1, 0, 1}
    BY DEF Tree!FallbackParts
  <1>2. Good(a) /\ Good(b) /\ Tree!SizeOf(a) + Tree!SizeOf(b) = Tree!SizeOf(r)
    BY <1>1, SplitParts
  <1> HIDE DEF a, b
  <1>3. Tree!SizeOf(a) \in Nat /\ Tree!SizeOf(b) \in Nat
    BY <1>2, SizeNat DEF Good
  <1>4. /\ \A h \in Nat : Tree!SizeOf(r) <= 2 * h => Tree!SizeOf(a) <= h /\ Tree!SizeOf(b) <= h
        /\ Tree!SizeOf(r) >= 4 => Tree!SizeOf(a) >= 2 /\ Tree!SizeOf(b) >= 2
        /\ Tree!SizeOf(a) <= Tree!SizeOf(r) /\ Tree!SizeOf(b) <= Tree!SizeOf(r)
    <2> DEFINE x == Tree!SizeOf(a)
               y == Tree!SizeOf(b)
               z == Tree!SizeOf(r)
    <2>1. x \in Nat /\ y \in Nat /\ x + y = z /\ 2 * x - z \in {-1, 0, 1}
      BY <1>1, <1>2, <1>3
    <2> HIDE DEF x, y, z
    <2>2. /\ \A h \in Nat : z <= 2 * h => x <= h /\ y <= h
          /\ z >= 4 => x >= 2 /\ y >= 2
          /\ x <= z /\ y <= z
      BY <2>1
    <2> QED
      BY <2>2 DEF x, y, z
  <1> QED
    BY <1>1, <1>4 DEF a, b

(* The largest child.                                                       *)
LEMMA Largest ==
  ASSUME Tree!TreeShapeAssumption, rec \in Recs, Pending(children, rec), NEW k \in Nat
  PROVE  /\ Tree!MostPrimitives(k) = {} => \A r \in DOMAIN children : Tree!SizeOf(r) <= k
         /\ \A r \in Tree!MostPrimitives(k) :
              /\ r \in DOMAIN children /\ Tree!SizeOf(r) > k
              /\ \A x \in DOMAIN children : Tree!SizeOf(x) <= Tree!SizeOf(r)
  <1> DEFINE S == {r \in DOMAIN children : Tree!SizeOf(r) > k}
             M == {r \in S : \A x \in S : Tree!SizeOf(x) <= Tree!SizeOf(r)}
             T == {Tree!SizeOf(rec) - Tree!SizeOf(r) : r \in S}
  <1>1. Tree!MostPrimitives(k) = M
    BY DEF Tree!MostPrimitives, Tree!Above, Tree!BagToSet
  <1>2. \A r \in DOMAIN children : Tree!SizeOf(r) \in Nat /\ Tree!SizeOf(r) <= Tree!SizeOf(rec)
    <2> SUFFICES ASSUME NEW r \in DOMAIN children
                 PROVE  Tree!SizeOf(r) \in Nat /\ Tree!SizeOf(r) <= Tree!SizeOf(rec)
      OBVIOUS
    <2>1. Tree!SizeOf(r) + Weigh(children, One) <= Tree!SizeOf(rec) + 1
      BY PendingSize
    <2>2. /\ Weigh(children, One) \in Nat /\ Weigh(children, One) >= 1 /\ Tree!SizeOf(r) \in Nat
      BY PendingRecs
    <2>3. Tree!SizeOf(rec) \in Nat
      BY SizeNat
    <2> QED
      BY <2>1, <2>2, <2>3
  <1>3. ASSUME S # {} PROVE M # {}
    <2>1. Tree!SizeOf(rec) \in Nat
      BY SizeNat
    <2>2. T \in SUBSET Nat /\ T # {}
      BY <1>2, <1>3, <2>1
    <2>3. PICK d \in T : \A e \in T : d <= e
      <3> HIDE DEF T
      <3> QED
        BY <2>2, SmallestNat
    <2>4. PICK r \in S : d = Tree!SizeOf(rec) - Tree!SizeOf(r)
      BY <2>3
    <2>5. ASSUME NEW x \in S PROVE Tree!SizeOf(x) <= Tree!SizeOf(r)
      <3>1. d <= Tree!SizeOf(rec) - Tree!SizeOf(x)
        BY <2>3
      <3> QED
        BY <1>2, <2>1, <2>4, <3>1
    <2> QED
      BY <2>4, <2>5
  <1>4. ASSUME NEW r \in M, NEW x \in DOMAIN children PROVE Tree!SizeOf(x) <= Tree!SizeOf(r)
    BY <1>2
  <1>5. ASSUME M = {}, NEW r \in DOMAIN children PROVE Tree!SizeOf(r) <= k
    BY <1>2, <1>3, <1>5
  <1> QED
    BY <1>1, <1>4, <1>5
------------------------------------------------------------------------------
(* The shape, as an inductive invariant.                                    *)
Limit == leafSize[rec.type]

Typed(r) == r.type # UNKNOWN

(* A node with a single child lies a level deeper than is counted.          *)
Lags ==
  /\ level = depth + 1
  /\ Typed(rec) /\ Tree!SizeOf(rec) <= Limit
  /\ depth + MinLargeLeafLevels < maxDepth

LevelKnown == level = depth \/ Lags

BasicsInv ==
  /\ Good(rec)
  /\ depth \in Nat
  /\ level \in Nat
  /\ \/ fn = "internal" /\ stage \in {"enter", "types", "split", "recurse"}
     \/ fn = "large" /\ stage \in {"enter", "split", "recurse"}
     \/ fn = "fat" /\ stage \in {"enter", "split", "redo"}
     \/ fn \in {"leaf", "thrown"} /\ stage = "enter"

(* createInternalNode: records of unknown type are not met so deep that     *)
(* looking for their types would take a level of those kept for large       *)
(* leaves.                                                                  *)
InternalInv ==
  fn = "internal" =>
    /\ stage = "enter" =>
         /\ LevelKnown
         /\ depth + MinLargeLeafLevels <= maxDepth + 1
         /\ ~ Typed(rec) => depth + MinLargeLeafLevels <= maxDepth
    /\ stage # "enter" =>
         /\ level = depth
         /\ depth + MinLargeLeafLevels <= maxDepth
         /\ Pending(children, rec)
    /\ stage = "types" =>
         /\ ~ Typed(rec)
         /\ \A r \in DOMAIN children : ~ Typed(r) => Kinds[r] >= 2
         /\ Weigh(children, Kinds) <= Cardinality(Types)
    /\ stage \in {"split", "recurse"} =>
         depth + MinLargeLeafLevels < maxDepth \/ \A r \in DOMAIN children : Typed(r)
    /\ (stage = "split" /\ children = SetToBag({rec})) =>
         depth + MinLargeLeafLevels < maxDepth /\ (Typed(rec) \/ Tree!SizeOf(rec) > Limit)
    /\ (stage = "recurse" /\ children = SetToBag({rec})) =>
         Typed(rec) /\ Tree!SizeOf(rec) <= Limit /\ depth + MinLargeLeafLevels < maxDepth

(* createLargeLeaf: every level divides the size by FanIn, rounded up, and  *)
(* Need counts the splits that are left for that.                           *)
Halves(m) ==
  (m >= Limit /\ Tree!SizeOf(rec) <= FanIn * m) =>
    Weigh(children, Need(m)) = 0 \/ Weigh(children, Need(m)) + Weigh(children, One) <= FanIn

Divided(m) ==
  (m >= Limit /\ Tree!SizeOf(rec) <= FanIn * m) => \A r \in DOMAIN children : Tree!SizeOf(r) <= m

Shrinks ==
  /\ depth > large.depth => large.size > Limit * Tree!Power[depth - 1 - large.depth]
  /\ \A j \in Nat :
       large.size <= Limit * Tree!Power[j + (depth - large.depth)] =>
         Tree!SizeOf(rec) <= Limit * Tree!Power[j]

LargeInv ==
  fn = "large" =>
    /\ Typed(rec)
    /\ large.size \in Nat /\ large.depth \in Nat
    /\ large.depth <= depth
    /\ large.depth + MinLargeLeafLevels <= maxDepth + 1
    /\ depth <= maxDepth + 1
    /\ Shrinks
    /\ stage = "enter" => LevelKnown
    /\ stage # "enter" =>
         /\ level = depth /\ depth <= maxDepth
         /\ Tree!SizeOf(rec) > Limit
         /\ Pending(children, rec)
         /\ \A r \in DOMAIN children : r.type = rec.type
    /\ stage = "split" => \A m \in Nat : Halves(m)
    /\ stage = "recurse" =>
         /\ Weigh(children, One) >= 2
         /\ \A m \in Nat : Divided(m)

ThrownInv ==
  fn = "thrown" =>
    /\ large.size > Limit * Tree!Power[maxDepth - large.depth]
    /\ maxDepth - large.depth >= MinLargeLeafLevels - 1

(* createFatLeaf: halves do not leave four primitives beside one.           *)
FatInv ==
  fn = "fat" =>
    /\ Typed(rec) /\ Tree!SizeOf(rec) <= Limit /\ level <= maxDepth
    /\ stage # "enter" => Pending(children, rec)
    /\ stage = "redo" =>
         \A r, x \in DOMAIN children : Tree!SizeOf(r) >= 4 => Tree!SizeOf(x) >= 2

LeafInv == fn = "leaf" => Tree!LeafSound /\ level <= maxDepth

ShapeInv == BasicsInv /\ InternalInv /\ LargeInv /\ ThrownInv /\ FatInv /\ LeafInv

LEMMA TreeNumbers ==
  ASSUME Tree!TreeShapeAssumption
  PROVE  /\ maxDepth \in Nat /\ MinLargeLeafLevels \in Nat
         /\ 1 <= MinLargeLeafLevels /\ MinLargeLeafLevels + 1 <= maxDepth
         /\ FanIn \in {2, 4} /\ FanIn \in Nat \ {0} /\ FanIn <= Width /\ Width \in Nat /\ 2 <= Width
         /\ MaxRun \in Nat /\ 3 <= MaxRun
         /\ \A r \in Recs : leafSize[r.type] \in Nat \ {0}
         /\ \A t \in Types : leafSize[t] <= 2 * Width + 1
  BY TypesFinite DEF Tree!TreeShapeAssumption, Recs

LEMMA ShapeInit ==
  ASSUME Tree!TreeShapeAssumption, Tree!Init
  PROVE  ShapeInv
  <1>1. PICK n \in Mixes : rec = Tree!Record(n, UNKNOWN)
    BY DEF Tree!Init
  <1>2. rec \in Recs /\ rec.type = UNKNOWN
    BY <1>1 DEF Tree!TreeShapeAssumption, Tree!Record, Recs
  <1>3. Good(rec)
    BY <1>2 DEF Good, Tree!Init
  <1>4. depth = 1 /\ level = 1 /\ fn = "internal" /\ stage = "enter"
    BY DEF Tree!Init
  <1>5. BasicsInv
    BY <1>3, <1>4 DEF BasicsInv
  <1>6. InternalInv
    BY <1>4, TreeNumbers DEF InternalInv, LevelKnown
  <1> QED
    BY <1>4, <1>5, <1>6 DEF ShapeInv, LargeInv, ThrownInv, FatInv, LeafInv

(* What createInternalNode learns of the type changes nothing else.         *)
LEMMA Labels ==
  ASSUME Tree!TreeShapeAssumption, Good(rec)
  PROVE  /\ Good(Tree!Labelled)
         /\ Tree!SizeOf(Tree!Labelled) = Tree!SizeOf(rec)
         /\ Typed(rec) \/ ~ Tree!AttemptTypeSplit => Tree!Labelled = rec
         /\ ~ Typed(Tree!Labelled) => Tree!Labelled = rec
         /\ Tree!AttemptTypeSplit /\ ~ Typed(Tree!Labelled) => Kinds[rec] >= 2
  <1> DEFINE q == Tree!Labelled
             T == Tree!TypesIn(rec)
             t == CHOOSE x \in T : TRUE
  <1>1. rec \in Recs /\ T # {}
    BY SizeNat DEF Good
  <1>2. /\ T \subseteq Types /\ t \in T /\ t # UNKNOWN /\ t \in Types
        /\ Kinds[rec] = Cardinality(T) /\ Kinds[rec] \in Nat /\ Kinds[rec] >= 1
        /\ IsFiniteSet(T)
    <2>1. T \subseteq Types
      BY DEF Tree!TypesIn
    <2>2. IsFiniteSet(T)
      BY <2>1, TypesFinite, FS_Subset
    <2>3. Tree!SizeOf(rec) > 0
      BY DEF Good
    <2>4. t \in T
      BY <1>1
    <2> HIDE DEF t, T
    <2> QED
      BY <1>1, <2>1, <2>2, <2>3, <2>4, WeightsNat, TypesFinite DEF T
  <1>3. q = IF Tree!AttemptTypeSplit /\ Cardinality(T) = 1 THEN [rec EXCEPT !.type = t] ELSE rec
    BY TreeSets DEF Tree!Labelled
  <1>4. CASE Tree!AttemptTypeSplit /\ Cardinality(T) = 1
    <2>1. T = {t}
      <3>1. PICK y : T = {y}
        BY <1>2, <1>4, FS_Singleton
      <3> QED
        BY <1>2, <3>1
    <2> HIDE DEF t, T
    <2>2. q = [rec EXCEPT !.type = t]
      BY <1>3, <1>4
    <2> HIDE DEF q
    <2>3. q \in Recs /\ q.n = rec.n /\ q.type = t
      BY <1>1, <1>2, <2>2 DEF Recs
    <2>4. Tree!SizeOf(q) = Tree!SizeOf(rec) /\ Tree!TypesIn(q) = T
      BY <2>3 DEF Tree!SizeOf, Tree!TypesIn, T
    <2>5. ~ Typed(rec)
      BY <1>4 DEF Tree!AttemptTypeSplit, Tree!equalType, Typed
    <2> QED
      BY <1>2, <1>4, <2>1, <2>3, <2>4, <2>5 DEF Good, Typed, q
  <1>5. CASE ~ (Tree!AttemptTypeSplit /\ Cardinality(T) = 1)
    <2> HIDE DEF t, T
    <2>1. q = rec
      BY <1>3, <1>5
    <2>2. Tree!AttemptTypeSplit => Kinds[rec] >= 2
      BY <1>2, <1>5
    <2> QED
      BY <2>1, <2>2 DEF q
  <1> QED
    BY <1>4, <1>5

LEMMA ShapeEnterInternal ==
  ASSUME Tree!TreeShapeAssumption, ShapeInv, Tree!EnterInternal
  PROVE  ShapeInv'
  <1> DEFINE q == Tree!Labelled
  <1>1. /\ Good(rec) /\ rec \in Recs /\ depth \in Nat /\ level \in Nat
        /\ fn = "internal" /\ stage = "enter"
        /\ LevelKnown
        /\ depth + MinLargeLeafLevels <= maxDepth + 1
        /\ ~ Typed(rec) => depth + MinLargeLeafLevels <= maxDepth
    BY DEF ShapeInv, BasicsInv, InternalInv, Tree!EnterInternal, Good
  <1>2. /\ Good(q) /\ Tree!SizeOf(q) = Tree!SizeOf(rec)
        /\ Typed(rec) \/ ~ Tree!AttemptTypeSplit => q = rec
        /\ ~ Typed(q) => q = rec
        /\ Tree!AttemptTypeSplit /\ ~ Typed(q) => Kinds[rec] >= 2
    BY <1>1, Labels
  <1>3. /\ rec' = q /\ depth' = depth /\ level' = level
        /\ Tree!performTypeSplit <=> Tree!AttemptTypeSplit /\ ~ Typed(q)
    BY DEF Tree!EnterInternal, Tree!performTypeSplit, Tree!equalType, Typed
  <1> HIDE DEF q
  <1>4. Tree!SizeOf(rec) \in Nat /\ leafSize[rec.type] \in Nat /\ q \in Recs
    BY <1>1, <1>2, SizeNat, TreeNumbers DEF Good
  <1>5. CASE ~ Tree!performTypeSplit /\ Tree!createLeaf
    <2>1. /\ fn' = "large" /\ stage' = "enter"
          /\ large' = [size |-> Tree!SizeOf(rec), depth |-> depth]
      BY <1>5 DEF Tree!EnterInternal, Tree!Become
    <2>2. Typed(q)
      BY <1>2, <1>3, <1>5 DEF Tree!AttemptTypeSplit, Tree!equalType, Typed
    <2>3. BasicsInv'
      BY <1>1, <1>2, <1>3, <2>1 DEF BasicsInv
    <2>4. LevelKnown'
      BY <1>1, <1>2, <1>3 DEF LevelKnown, Lags, Limit, Typed
    <2>5. Shrinks'
      BY <1>1, <1>2, <1>3, <1>4, <2>1 DEF Shrinks, Limit
    <2>6. LargeInv'
      BY <1>1, <1>2, <1>3, <1>4, <2>1, <2>2, <2>4, <2>5, TreeNumbers DEF LargeInv, Typed
    <2> QED
      BY <2>1, <2>3, <2>6 DEF ShapeInv, InternalInv, ThrownInv, FatInv, LeafInv
  <1>6. CASE ~ (~ Tree!performTypeSplit /\ Tree!createLeaf)
    <2>1. /\ fn' = "internal"
          /\ stage' = (IF Tree!performTypeSplit THEN "types" ELSE "split")
          /\ children' = Tree!SetToBag({q})
      BY <1>3, <1>6 DEF Tree!EnterInternal, Tree!Become
    <2>2. /\ Pending(children', q) /\ children' = SetToBag({q})
          /\ DOMAIN children' = {q}
          /\ Weigh(children', Kinds) = Kinds[q]
      BY <1>2, <2>1, StartPending
    <2>3. BasicsInv'
      BY <1>1, <1>2, <1>3, <2>1 DEF BasicsInv
    <2>4. level = depth
      BY <1>1, <1>3, <1>4, <1>6, TreeNumbers
      DEF LevelKnown, Lags, Limit, Tree!AttemptTypeSplit, Tree!equalType, Tree!createLeaf, Typed
    <2>5. CASE Tree!performTypeSplit
      <3>1. q = rec /\ ~ Typed(q) /\ Kinds[q] >= 2
        BY <1>2, <1>3, <2>5
      <3>2. Kinds[q] <= Cardinality(Types)
        BY <1>4, WeightsNat
      <3>3. depth + MinLargeLeafLevels <= maxDepth
        BY <1>1, <3>1
      <3>4. InternalInv'
        BY <1>3, <2>1, <2>2, <2>4, <2>5, <3>1, <3>2, <3>3 DEF InternalInv
      <3> QED
        BY <2>1, <2>3, <3>4 DEF ShapeInv, LargeInv, ThrownInv, FatInv, LeafInv
    <2>6. CASE ~ Tree!performTypeSplit
      <3>1. depth + MinLargeLeafLevels < maxDepth /\ Tree!SizeOf(rec) > leafSize[rec.type]
        BY <1>1, <1>4, <1>6, <2>6, TreeNumbers DEF Tree!createLeaf
      <3>2. Typed(q) \/ Tree!SizeOf(q) > leafSize[q.type]
        BY <1>2, <3>1
      <3>3. depth + MinLargeLeafLevels <= maxDepth
        BY <1>1, <3>1, TreeNumbers
      <3>4. InternalInv'
        BY <1>3, <2>1, <2>2, <2>4, <2>6, <3>1, <3>2, <3>3 DEF InternalInv, Limit
      <3> QED
        BY <2>1, <2>3, <3>4 DEF ShapeInv, LargeInv, ThrownInv, FatInv, LeafInv
    <2> QED
      BY <2>5, <2>6
  <1> QED
    BY <1>5, <1>6
(* Both parts of a split by types have primitives.                          *)
LEMMA TypeParts ==
  ASSUME Tree!TreeShapeAssumption, NEW r, Good(r), Kinds[r] >= 2, NEW t \in Tree!TypesIn(r)
  PROVE  LET l == [u \in Types |-> IF u = t THEN r.n[u] ELSE 0]
             R == Tree!Record(Tree!Without(r, l), UNKNOWN)
             a == Tree!Record(l, t)
             b == [R EXCEPT !.type = Tree!TypeLabel(R)]
         IN /\ Good(a) /\ Good(b) /\ Typed(a)
            /\ Tree!SizeOf(a) + Tree!SizeOf(b) = Tree!SizeOf(r)
            /\ Kinds[a] + Kinds[b] = Kinds[r]
            /\ ~ Typed(b) => Kinds[b] >= 2
  <1> DEFINE l == [u \in Types |-> IF u = t THEN r.n[u] ELSE 0]
             R == Tree!Record(Tree!Without(r, l), UNKNOWN)
             y == Tree!TypeLabel(R)
             a == Tree!Record(l, t)
             b == [R EXCEPT !.type = y]
             T == Tree!TypesIn(r)
             S == Tree!TypesIn(R)
  <1>1. /\ r \in Recs /\ T \subseteq Types /\ t \in Types /\ t \in T /\ t # UNKNOWN
        /\ \A u \in Types : r.n[u] \in Nat
        /\ Kinds[r] = Cardinality(T) /\ Kinds[r] \in Nat
        /\ IsFiniteSet(T)
    <2>1. T \subseteq Types /\ r \in Recs
      BY DEF Tree!TypesIn, Good
    <2>2. Kinds[r] = Cardinality(T) /\ Kinds[r] \in Nat
      BY <2>1, WeightsNat
    <2>3. IsFiniteSet(T)
      BY <2>1, TypesFinite, FS_Subset
    <2> HIDE DEF T
    <2>4. t \in T
      BY DEF T
    <2> QED
      BY <2>1, <2>2, <2>3, <2>4, TypesFinite DEF Recs
  <1>2. l \in [Types -> Nat] /\ (\A u \in Types : l[u] <= r.n[u]) /\ l[t] = r.n[t]
        /\ \A u \in Types : u # t => l[u] = 0
    BY <1>1
  <1>3. r.n[t] > 0
    BY <1>1 DEF Tree!TypesIn
  <1> HIDE DEF l
  <1>4. R \in Recs /\ R.n = Tree!Without(r, l) /\ R.type = UNKNOWN
    BY <1>1, <1>2, PartSizes
  <1>5. S = T \ {t}
    BY <1>1, <1>2, <1>4 DEF Tree!TypesIn, Tree!Without
  <1>6. IsFiniteSet(S) /\ Cardinality(S) = Cardinality(T) - 1
    <2> HIDE DEF S, T
    <2> QED
      BY <1>1, <1>5, FS_RemoveElement
  <1>7. Cardinality(S) \in Nat /\ Cardinality(S) >= 1
    <2> HIDE DEF S, T
    <2> QED
      BY <1>1, <1>6, FS_CardinalityType
  <1>8. /\ Cardinality(S) = 1 => S = {y} /\ y \in Types /\ y # UNKNOWN
        /\ Cardinality(S) # 1 => y = UNKNOWN
    <2>1. y = IF Cardinality(S) = 1 THEN CHOOSE u \in S : TRUE ELSE UNKNOWN
      BY TreeSets DEF Tree!TypeLabel
    <2>2. ASSUME Cardinality(S) = 1 PROVE S = {y} /\ y \in Types /\ y # UNKNOWN
      <3>1. y = CHOOSE u \in S : TRUE
        BY <2>1, <2>2
      <3> HIDE DEF S, y
      <3>2. PICK z : S = {z}
        BY <1>6, <2>2, FS_Singleton
      <3>3. y \in S
        BY <3>1, <3>2
      <3>4. S = {y}
        BY <3>2, <3>3
      <3>5. S \subseteq Types
        BY <1>1, <1>5
      <3> QED
        BY <3>3, <3>4, <3>5, TypesFinite
    <2> HIDE DEF S, y
    <2> QED
      BY <2>1, <2>2
  <1> HIDE DEF y
  <1>9. b = Tree!Record(Tree!Without(r, l), y) /\ y \in Types \union {UNKNOWN}
    <2>1. [Tree!Record(Tree!Without(r, l), UNKNOWN) EXCEPT !.type = y]
             = Tree!Record(Tree!Without(r, l), y)
      BY DEF Tree!Record
    <2> HIDE DEF S
    <2> QED
      BY <1>8, <2>1
  <1> HIDE DEF b
  <1>10. /\ a \in Recs /\ a.n = l /\ a.type = t
         /\ b \in Recs /\ b.n = Tree!Without(r, l) /\ b.type = y
         /\ Tree!SizeOf(a) + Tree!SizeOf(b) = Tree!SizeOf(r)
    <2> t \in Types \union {UNKNOWN}
      BY <1>1
    <2> QED
      BY <1>1, <1>2, <1>9, PartSizes
  <1> HIDE DEF a
  <1>11. Tree!TypesIn(a) = {t}
    BY <1>1, <1>2, <1>3, <1>10 DEF Tree!TypesIn
  <1>12. Tree!TypesIn(b) = S
    BY <1>4, <1>10 DEF Tree!TypesIn
  <1> HIDE DEF R, S
  <1>13. S # {}
    BY <1>7, FS_EmptySet
  <1>14. Tree!SizeOf(a) > 0 /\ Tree!SizeOf(b) > 0
    BY <1>10, <1>11, <1>12, <1>13, SizeNat
  <1>15. Good(a) /\ Good(b) /\ Typed(a)
    BY <1>1, <1>8, <1>10, <1>11, <1>12, <1>14 DEF Good, Typed
  <1>16. Kinds[a] = 1 /\ Kinds[b] = Cardinality(S)
    BY <1>10, <1>11, <1>12, WeightsNat, FS_Singleton
  <1> HIDE DEF T
  <1>17. Kinds[a] + Kinds[b] = Kinds[r]
    BY <1>1, <1>6, <1>7, <1>16
  <1>18. ~ Typed(b) => Kinds[b] >= 2
    BY <1>7, <1>8, <1>10, <1>16 DEF Typed
  <1> QED
    BY <1>10, <1>15, <1>17, <1>18 DEF a, b, R, y, l, S

(* There are no more children of unknown type than nodes have room for.     *)
LEMMA TypesFit ==
  ASSUME Tree!TreeShapeAssumption, rec \in Recs, Pending(children, rec), Tree!Full,
         \A r \in DOMAIN children : ~ Typed(r) => Kinds[r] >= 2,
         Weigh(children, Kinds) <= Cardinality(Types)
  PROVE  \A r \in DOMAIN children : Typed(r)
  <1> SUFFICES ASSUME NEW r \in DOMAIN children, ~ Typed(r) PROVE FALSE
    OBVIOUS
  <1>1. /\ BagOK(children) /\ DOMAIN children \subseteq Recs /\ Weigh(children, One) \in Nat
        /\ \A x \in DOMAIN children : Tree!SizeOf(x) > 0
    BY PendingRecs
  <1>2. \A x \in DOMAIN children : One[x] \in Nat /\ Kinds[x] \in Nat /\ One[x] <= Kinds[x] /\ One[x] = 1
    BY <1>1, WeightsNat
  <1>3. Weigh(children, One) + (Kinds[r] - One[r]) <= Weigh(children, Kinds)
    BY <1>1, <1>2, HeavierBag
  <1>4. Weigh(children, One) >= Width
    BY NumChildren DEF Tree!Full
  <1>5. Weigh(children, Kinds) \in Nat
    BY <1>1, <1>2, WeighNat
  <1>6. Kinds[r] >= 2 /\ Kinds[r] \in Nat /\ One[r] = 1
    BY <1>2
  <1> QED
    BY <1>1, <1>3, <1>4, <1>5, <1>6, TypesFinite

LEMMA ShapeSplitTypes ==
  ASSUME Tree!TreeShapeAssumption, ShapeInv, Tree!SplitTypes
  PROVE  ShapeInv'
  <1>1. /\ Good(rec) /\ rec \in Recs /\ depth \in Nat /\ level \in Nat
        /\ fn = "internal" /\ stage = "types"
        /\ level = depth /\ depth + MinLargeLeafLevels <= maxDepth
        /\ Pending(children, rec)
        /\ ~ Typed(rec)
        /\ \A r \in DOMAIN children : ~ Typed(r) => Kinds[r] >= 2
        /\ Weigh(children, Kinds) <= Cardinality(Types)
    BY DEF ShapeInv, BasicsInv, InternalInv, Tree!SplitTypes, Good
  <1>2. rec' = rec /\ depth' = depth /\ level' = level /\ fn' = fn
    BY DEF Tree!SplitTypes
  <1>3. Tree!BagToSet(children) = DOMAIN children
    BY DEF Tree!BagToSet
  <1>4. CASE Tree!Full \/ \A r \in Tree!BagToSet(children) : Tree!equalType(r)
    <2>1. stage' = "split" /\ children' = children
      BY <1>4 DEF Tree!SplitTypes
    <2>2. \A r \in DOMAIN children : Typed(r)
      <3>1. CASE Tree!Full
        BY <1>1, <3>1, TypesFit
      <3>2. CASE \A r \in Tree!BagToSet(children) : Tree!equalType(r)
        BY <1>3, <3>2 DEF Tree!equalType, Typed
      <3> QED
        BY <1>4, <3>1, <3>2
    <2>3. children # SetToBag({rec})
      <3>1. DOMAIN SetToBag({rec}) = {rec}
        BY <1>1, StartPending
      <3> QED
        BY <1>1, <2>2, <3>1
    <2>4. BasicsInv'
      BY <1>1, <1>2, <2>1 DEF BasicsInv
    <2>5. InternalInv'
      BY <1>1, <1>2, <2>1, <2>2, <2>3 DEF InternalInv
    <2> QED
      BY <1>1, <1>2, <2>4, <2>5 DEF ShapeInv, LargeInv, ThrownInv, FatInv, LeafInv
  <1>5. CASE ~ (Tree!Full \/ \A r \in Tree!BagToSet(children) : Tree!equalType(r))
    <2>0. PICK r \in {s \in Tree!BagToSet(children) : ~ Tree!equalType(s)} :
            \E t \in Tree!TypesIn(r) :
              LET l == [u \in Types |-> IF u = t THEN r.n[u] ELSE 0]
                  R == Tree!Record(Tree!Without(r, l), UNKNOWN)
              IN children' = Tree!Replace(r, Tree!Record(l, t), [R EXCEPT !.type = Tree!TypeLabel(R)])
      BY <1>5 DEF Tree!SplitTypes
    <2>1. PICK t \in Tree!TypesIn(r) :
            LET l == [u \in Types |-> IF u = t THEN r.n[u] ELSE 0]
                R == Tree!Record(Tree!Without(r, l), UNKNOWN)
            IN children' = Tree!Replace(r, Tree!Record(l, t), [R EXCEPT !.type = Tree!TypeLabel(R)])
      BY <2>0
    <2>2. stage' = stage
      BY <1>5 DEF Tree!SplitTypes
    <2> DEFINE l == [u \in Types |-> IF u = t THEN r.n[u] ELSE 0]
               R == Tree!Record(Tree!Without(r, l), UNKNOWN)
               a == Tree!Record(l, t)
               b == [R EXCEPT !.type = Tree!TypeLabel(R)]
    <2>3. r \in DOMAIN children /\ ~ Typed(r) /\ Good(r) /\ Kinds[r] >= 2
      BY <1>1, <1>3 DEF Pending, Tree!equalType, Typed
    <2>4. /\ Good(a) /\ Good(b) /\ Typed(a)
          /\ Tree!SizeOf(a) + Tree!SizeOf(b) = Tree!SizeOf(r)
          /\ Kinds[a] + Kinds[b] = Kinds[r]
          /\ ~ Typed(b) => Kinds[b] >= 2
      BY <2>3, TypeParts
    <2>5. children' = Tree!Replace(r, a, b)
      BY <2>1
    <2> HIDE DEF a, b
    <2>6. /\ Pending(children', rec)
          /\ DOMAIN children' \subseteq DOMAIN children \union {a, b}
          /\ Weigh(children', Kinds) + Kinds[r] = Weigh(children, Kinds) + Kinds[a] + Kinds[b]
      BY <1>1, <1>5, <2>3, <2>4, <2>5, SplitPending
    <2>7. Weigh(children', Kinds) <= Cardinality(Types)
      <3>1. Kinds[a] \in Nat /\ Kinds[b] \in Nat /\ Kinds[r] \in Nat
        BY <2>3, <2>4, WeightsNat DEF Good
      <3>2. Weigh(children, Kinds) \in Nat /\ Weigh(children', Kinds) \in Nat
        <4>1. \A B : Pending(B, rec) => Weigh(B, Kinds) \in Nat
          BY <1>1, PendingRecs, WeightsNat, WeighNat
        <4> QED
          BY <1>1, <2>6, <4>1
      <3>3. Weigh(children', Kinds) = Weigh(children, Kinds)
        BY <2>4, <2>6, <3>1, <3>2
      <3> QED
        BY <1>1, <3>3
    <2>8. \A x \in DOMAIN children' : ~ Typed(x) => Kinds[x] >= 2
      BY <1>1, <2>4, <2>6
    <2>9. BasicsInv'
      BY <1>1, <1>2, <2>2 DEF BasicsInv
    <2>10. InternalInv'
      BY <1>1, <1>2, <2>2, <2>6, <2>7, <2>8 DEF InternalInv
    <2> QED
      BY <1>1, <1>2, <2>9, <2>10 DEF ShapeInv, LargeInv, ThrownInv, FatInv, LeafInv
  <1> QED
    BY <1>4, <1>5

LEMMA ShapeSplitSAH ==
  ASSUME Tree!TreeShapeAssumption, ShapeInv, Tree!SplitSAH
  PROVE  ShapeInv'
  <1>1. /\ Good(rec) /\ rec \in Recs /\ depth \in Nat /\ level \in Nat
        /\ fn = "internal" /\ stage = "split"
        /\ level = depth /\ depth + MinLargeLeafLevels <= maxDepth
        /\ Pending(children, rec)
        /\ depth + MinLargeLeafLevels < maxDepth \/ \A r \in DOMAIN children : Typed(r)
        /\ children = SetToBag({rec}) =>
             depth + MinLargeLeafLevels < maxDepth /\ (Typed(rec) \/ Tree!SizeOf(rec) > Limit)
    BY DEF ShapeInv, BasicsInv, InternalInv, Tree!SplitSAH, Good
  <1>2. rec' = rec /\ depth' = depth /\ level' = level /\ fn' = fn
    BY DEF Tree!SplitSAH
  <1>3. Tree!LargestArea(leafSize[rec.type]) = {r \in DOMAIN children : Tree!SizeOf(r) > Limit}
    BY DEF Tree!LargestArea, Tree!Above, Tree!BagToSet, Limit
  <1>4. CASE Tree!Full \/ Tree!LargestArea(leafSize[rec.type]) = {}
    <2>1. stage' = "recurse" /\ children' = children
      BY <1>4 DEF Tree!SplitSAH
    <2>2. ASSUME children = SetToBag({rec})
          PROVE  Typed(rec) /\ Tree!SizeOf(rec) <= Limit /\ depth + MinLargeLeafLevels < maxDepth
      <3>1. DOMAIN children = {rec} /\ Weigh(children, One) = 1
        BY <1>1, <2>2, StartPending
      <3>2. ~ Tree!Full
        BY <1>1, <3>1, NumChildren, TypesFinite DEF Tree!Full
      <3>3. ~ (Tree!SizeOf(rec) > Limit)
        BY <1>3, <1>4, <3>1, <3>2
      <3>4. Tree!SizeOf(rec) \in Nat /\ Limit \in Nat
        BY <1>1, SizeNat, TreeNumbers DEF Limit
      <3> QED
        BY <1>1, <2>2, <3>3, <3>4
    <2>3. BasicsInv'
      BY <1>1, <1>2, <2>1 DEF BasicsInv
    <2>4. InternalInv'
      BY <1>1, <1>2, <2>1, <2>2 DEF InternalInv, Limit
    <2> QED
      BY <1>1, <1>2, <2>3, <2>4 DEF ShapeInv, LargeInv, ThrownInv, FatInv, LeafInv
  <1>5. CASE ~ (Tree!Full \/ Tree!LargestArea(leafSize[rec.type]) = {})
    <2>0. PICK r \in Tree!LargestArea(leafSize[rec.type]) :
            \E n \in Tree!SAHParts(r) : Tree!SplitChild(r, n)
      BY <1>5 DEF Tree!SplitSAH
    <2>1. PICK n \in Tree!SAHParts(r) :
            children' = Tree!Replace(r, Tree!Record(n, r.type),
                                     Tree!Record(Tree!Without(r, n), r.type))
      BY <2>0 DEF Tree!SplitChild
    <2>2. stage' = stage
      BY <1>5 DEF Tree!SplitSAH
    <2> DEFINE a == Tree!Record(n, r.type)
               b == Tree!Record(Tree!Without(r, n), r.type)
    <2>3. r \in DOMAIN children /\ Good(r)
      BY <1>1, <1>3 DEF Pending
    <2>4. /\ Good(a) /\ Good(b) /\ a.type = r.type /\ b.type = r.type
          /\ Tree!SizeOf(a) + Tree!SizeOf(b) = Tree!SizeOf(r)
      BY <2>3, SplitParts
    <2>5. children' = Tree!Replace(r, a, b)
      BY <2>1
    <2> HIDE DEF a, b
    <2>6. /\ Pending(children', rec)
          /\ DOMAIN children' \subseteq DOMAIN children \union {a, b}
          /\ children' # SetToBag({rec})
      BY <1>1, <1>5, <2>3, <2>4, <2>5, SplitPending
    <2>7. depth + MinLargeLeafLevels < maxDepth \/ \A x \in DOMAIN children' : Typed(x)
      BY <1>1, <2>3, <2>4, <2>6 DEF Typed
    <2>8. BasicsInv'
      BY <1>1, <1>2, <2>2 DEF BasicsInv
    <2>9. InternalInv'
      BY <1>1, <1>2, <2>2, <2>6, <2>7 DEF InternalInv
    <2> QED
      BY <1>1, <1>2, <2>8, <2>9 DEF ShapeInv, LargeInv, ThrownInv, FatInv, LeafInv
  <1> QED
    BY <1>4, <1>5
(* The child that is built next.                                            *)
LEMMA ShapeRecurse ==
  ASSUME Tree!TreeShapeAssumption, ShapeInv, Tree!Recurse
  PROVE  ShapeInv'
  <1> DEFINE q == rec'
  <1>1. /\ Good(rec) /\ rec \in Recs /\ depth \in Nat /\ level \in Nat
        /\ fn \in {"internal", "large"} /\ stage = "recurse"
        /\ level = depth /\ Pending(children, rec)
    BY DEF ShapeInv, BasicsInv, InternalInv, LargeInv, Tree!Recurse, Good
  <1>2. /\ q \in DOMAIN children
        /\ depth' = (IF q = rec THEN depth ELSE depth + 1)
        /\ level' = level + 1
        /\ stage' = "enter" /\ fn' = fn /\ large' = large
    BY DEF Tree!Recurse, Tree!BagToSet
  <1>3. Good(q) /\ q \in Recs
    BY <1>1, <1>2 DEF Pending, Good
  <1> HIDE DEF q
  <1>4. rec' = q /\ depth' \in Nat /\ level' \in Nat
    BY <1>1, <1>2 DEF q
  <1>5. BasicsInv'
    BY <1>1, <1>2, <1>3, <1>4 DEF BasicsInv
  <1>6. CASE fn = "internal"
    <2>1. /\ depth + MinLargeLeafLevels <= maxDepth
          /\ depth + MinLargeLeafLevels < maxDepth \/ \A r \in DOMAIN children : Typed(r)
          /\ children = SetToBag({rec}) =>
               Typed(rec) /\ Tree!SizeOf(rec) <= Limit /\ depth + MinLargeLeafLevels < maxDepth
      BY <1>1, <1>6 DEF ShapeInv, InternalInv
    <2>2. q = rec => children = SetToBag({rec})
      BY <1>1, <1>2, PendingOther DEF Pending
    <2>3. CASE q = rec
      <3>1. LevelKnown'
        BY <1>1, <1>2, <1>4, <2>1, <2>2, <2>3 DEF LevelKnown, Lags, Limit
      <3>2. depth + MinLargeLeafLevels <= maxDepth + 1
        BY <1>1, <2>1, TreeNumbers
      <3>3. InternalInv'
        BY <1>1, <1>2, <1>4, <2>1, <2>3, <3>1, <3>2 DEF InternalInv
      <3> QED
        BY <1>2, <1>5, <1>6, <3>3 DEF ShapeInv, LargeInv, ThrownInv, FatInv, LeafInv
    <2>4. CASE q # rec
      <3>1. LevelKnown'
        BY <1>1, <1>2, <1>4, <2>4 DEF LevelKnown
      <3>2. (depth + 1) + MinLargeLeafLevels <= maxDepth + 1
        BY <1>1, <2>1, TreeNumbers
      <3>3. ~ Typed(q) => (depth + 1) + MinLargeLeafLevels <= maxDepth
        BY <1>1, <1>2, <2>1, TreeNumbers
      <3>4. InternalInv'
        BY <1>1, <1>2, <1>4, <2>4, <3>1, <3>2, <3>3 DEF InternalInv
      <3> QED
        BY <1>2, <1>5, <1>6, <3>4 DEF ShapeInv, LargeInv, ThrownInv, FatInv, LeafInv
    <2> QED
      BY <2>3, <2>4
  <1>7. CASE fn = "large"
    <2> DEFINE L == Limit
               g == large.depth
               P == Tree!Power
    <2>1. /\ Typed(rec)
          /\ large.size \in Nat /\ g \in Nat /\ g <= depth
          /\ g + MinLargeLeafLevels <= maxDepth + 1 /\ depth <= maxDepth
          /\ \A j \in Nat :
               large.size <= L * P[j + (depth - g)] => Tree!SizeOf(rec) <= L * P[j]
          /\ Tree!SizeOf(rec) > L
          /\ \A r \in DOMAIN children : r.type = rec.type
          /\ Weigh(children, One) >= 2
          /\ \A m \in Nat : Divided(m)
      BY <1>1, <1>7 DEF ShapeInv, LargeInv, Shrinks
    <2>2. q # rec
      BY <1>1, <1>2, <2>1, PendingOther
    <2>3. depth' = depth + 1
      BY <1>2, <2>2
    <2>4. Typed(q) /\ leafSize[q.type] = L
      BY <1>2, <2>1 DEF Typed, Limit
    <2>5. /\ P[0] = 1
          /\ \A k \in Nat : P[k] \in Nat \ {0} /\ P[k + 1] = FanIn * P[k]
      BY PowerSteps, TreeNumbers
    <2>6. L \in Nat \ {0} /\ Tree!SizeOf(rec) \in Nat
      BY <1>1, SizeNat, TreeNumbers DEF Limit
    <2>7. \A m \in Nat : m >= L /\ Tree!SizeOf(rec) <= FanIn * m => Tree!SizeOf(q) <= m
      BY <1>2, <2>1 DEF Divided
    <2> HIDE DEF L, P
    <2>8. large.size > L * P[(depth + 1) - 1 - g]
      <3>1. depth - g \in Nat /\ (depth + 1) - 1 - g = depth - g /\ 0 + (depth - g) = depth - g
        BY <1>1, <2>1
      <3>2. P[depth - g] \in Nat /\ L * P[0] = L
        BY <2>5, <2>6, <3>1
      <3>3. L * P[depth - g] \in Nat
        BY <2>6, <3>2
      <3>4. ~ (large.size <= L * P[0 + (depth - g)])
        BY <2>1, <2>6, <3>2
      <3> QED
        BY <2>1, <3>1, <3>3, <3>4
    <2>9. ASSUME NEW j \in Nat, large.size <= L * P[j + ((depth + 1) - g)]
          PROVE  Tree!SizeOf(q) <= L * P[j]
      <3>1. j + ((depth + 1) - g) = (j + 1) + (depth - g) /\ j + 1 \in Nat
        BY <1>1, <2>1
      <3>2. Tree!SizeOf(rec) <= L * P[j + 1]
        BY <2>1, <2>9, <3>1
      <3>3. P[j] \in Nat \ {0} /\ P[j + 1] = FanIn * P[j]
        BY <2>5
      <3>4. L * P[j] \in Nat /\ L * P[j] >= L
        BY <2>6, <3>3
      <3>5. L * (FanIn * P[j]) = FanIn * (L * P[j])
        BY <2>6, <3>3, TreeNumbers
      <3> QED
        BY <2>7, <3>2, <3>3, <3>4, <3>5
    <2>10. Shrinks'
      BY <1>2, <1>4, <2>3, <2>4, <2>8, <2>9 DEF Shrinks, Limit, L, P
    <2>11. LevelKnown'
      BY <1>1, <1>2, <2>3 DEF LevelKnown
    <2>12. g <= depth + 1 /\ depth + 1 <= maxDepth + 1
      BY <1>1, <2>1, TreeNumbers
    <2>13. LargeInv'
      BY <1>2, <1>4, <2>1, <2>3, <2>4, <2>10, <2>11, <2>12 DEF LargeInv
    <2> QED
      BY <1>2, <1>5, <1>7, <2>13 DEF ShapeInv, InternalInv, ThrownInv, FatInv, LeafInv
  <1> QED
    BY <1>1, <1>6, <1>7

LEMMA ShapeEnterLarge ==
  ASSUME Tree!TreeShapeAssumption, ShapeInv, Tree!EnterLarge
  PROVE  ShapeInv'
  <1>1. /\ Good(rec) /\ rec \in Recs /\ depth \in Nat /\ level \in Nat
        /\ fn = "large" /\ stage = "enter"
        /\ Typed(rec)
        /\ large.size \in Nat /\ large.depth \in Nat
        /\ large.depth <= depth
        /\ large.depth + MinLargeLeafLevels <= maxDepth + 1
        /\ depth <= maxDepth + 1
        /\ Shrinks /\ LevelKnown
    BY DEF ShapeInv, BasicsInv, LargeInv, Tree!EnterLarge, Good
  <1>2. rec' = rec /\ depth' = depth /\ level' = level /\ large' = large
    BY DEF Tree!EnterLarge
  <1>3. Tree!SizeOf(rec) \in Nat /\ Limit \in Nat
    BY <1>1, SizeNat, TreeNumbers DEF Limit
  <1>4. CASE depth > maxDepth
    <2>1. fn' = "thrown" /\ stage' = "enter"
      BY <1>1, <1>3, <1>4, TreeNumbers DEF Tree!EnterLarge, Tree!Become
    <2>2. depth = maxDepth + 1 /\ depth > large.depth /\ depth - 1 - large.depth = maxDepth - large.depth
      BY <1>1, <1>4, TreeNumbers
    <2>3. large.size > Limit * Tree!Power[maxDepth - large.depth]
      BY <1>1, <2>2 DEF Shrinks
    <2>4. maxDepth - large.depth >= MinLargeLeafLevels - 1
      BY <1>1, TreeNumbers
    <2>5. BasicsInv'
      BY <1>1, <1>2, <2>1 DEF BasicsInv
    <2>6. ThrownInv'
      BY <1>2, <2>3, <2>4 DEF ThrownInv, Limit
    <2> QED
      BY <2>1, <2>5, <2>6 DEF ShapeInv, InternalInv, LargeInv, FatInv, LeafInv
  <1>5. CASE depth <= maxDepth /\ Tree!SizeOf(rec) <= Limit
    <2>1. fn' = "fat" /\ stage' = "enter"
      BY <1>1, <1>3, <1>5, TreeNumbers DEF Tree!EnterLarge, Tree!Become, Limit
    <2>2. level <= maxDepth
      BY <1>1, <1>5, TreeNumbers DEF LevelKnown, Lags
    <2>3. BasicsInv'
      BY <1>1, <1>2, <2>1 DEF BasicsInv
    <2>4. FatInv'
      BY <1>1, <1>2, <1>5, <2>1, <2>2 DEF FatInv, Limit
    <2> QED
      BY <2>1, <2>3, <2>4 DEF ShapeInv, InternalInv, LargeInv, ThrownInv, LeafInv
  <1>6. CASE depth <= maxDepth /\ Tree!SizeOf(rec) > Limit
    <2>1. fn' = "large" /\ stage' = "split" /\ children' = Tree!SetToBag({rec})
      BY <1>1, <1>3, <1>6, TreeNumbers DEF Tree!EnterLarge, Tree!Become, Limit
    <2>2. level = depth
      BY <1>1, <1>3, <1>6 DEF LevelKnown, Lags
    <2>3. /\ Pending(children', rec) /\ DOMAIN children' = {rec} /\ Weigh(children', One) = 1
          /\ \A m \in Nat : Weigh(children', Need(m)) = Need(m)[rec]
      BY <1>1, <2>1, StartPending
    <2>4. ASSUME NEW m \in Nat, m >= Limit, Tree!SizeOf(rec) <= FanIn * m
          PROVE  Need(m)[rec] = 0 \/ Need(m)[rec] + 1 <= FanIn
      BY <1>1, <1>3, <2>4, TreeNumbers DEF Need
    <2>5. \A m \in Nat : Halves(m)'
      BY <1>2, <2>3, <2>4 DEF Halves, Limit
    <2>6. BasicsInv'
      BY <1>1, <1>2, <2>1 DEF BasicsInv
    <2>7. Shrinks'
      BY <1>1, <1>2 DEF Shrinks, Limit
    <2>8. LargeInv'
      BY <1>1, <1>2, <1>6, <2>1, <2>2, <2>3, <2>5, <2>7 DEF LargeInv, Limit
    <2> QED
      BY <2>1, <2>6, <2>8 DEF ShapeInv, InternalInv, ThrownInv, FatInv, LeafInv
  <1> QED
    BY <1>1, <1>3, <1>4, <1>5, <1>6, TreeNumbers
(* No split is needed when all parts are small enough.                      *)
LEMMA NeedNone ==
  ASSUME Tree!TreeShapeAssumption, NEW B, NEW q, Pending(B, q), NEW m \in Nat
  PROVE  /\ Weigh(B, Need(m)) \in Nat
         /\ Weigh(B, Need(m)) = 0 <=> \A r \in DOMAIN B : Tree!SizeOf(r) <= m
  <1> DEFINE w == Need(m)
             z == [r \in Recs |-> 0]
  <1>1. BagOK(B) /\ DOMAIN B \subseteq Recs
    BY PendingRecs
  <1>2. \A r \in DOMAIN B :
          /\ w[r] \in Nat /\ z[r] \in Nat /\ z[r] = 0 /\ z[r] <= w[r]
          /\ w[r] = 0 <=> Tree!SizeOf(r) <= m
    BY <1>1, WeightsNat DEF Need
  <1> HIDE DEF w, z
  <1>3. Weigh(B, w) \in Nat /\ Weigh(B, z) \in Nat
    BY <1>1, <1>2, WeighNat
  <1>4. ASSUME \A r \in DOMAIN B : w[r] = 0
        PROVE  Weigh(B, w) = 0
    <2>1. Weigh(B, w) = Weigh(B, w) + Weigh(B, w)
      <3>1. \A r \in DOMAIN B : w[r] \in Nat /\ w[r] \in Nat /\ w[r] = w[r] + w[r]
        BY <1>2, <1>4
      <3> QED
        BY <1>1, <3>1, WeighPlus
    <2>2. ASSUME NEW x \in Nat, x = x + x PROVE x = 0
      BY <2>2
    <2> QED
      BY <1>3, <2>1, <2>2
  <1>5. ASSUME Weigh(B, w) = 0, NEW r \in DOMAIN B
        PROVE  w[r] = 0
    <2>1. Weigh(B, z) + (w[r] - z[r]) <= Weigh(B, w)
      BY <1>1, <1>2, HeavierBag
    <2> QED
      BY <1>2, <1>3, <1>5, <2>1
  <1> QED
    BY <1>2, <1>3, <1>4, <1>5 DEF w

(* A split in the middle of the largest part serves its purpose.            *)
LEMMA HalvingHelps ==
  ASSUME Tree!TreeShapeAssumption, Good(rec), Pending(children, rec), ~ Tree!Full,
         NEW r \in Tree!MostPrimitives(Limit), NEW n \in Tree!FallbackParts(r),
         NEW m \in Nat, Halves(m), m >= Limit, Tree!SizeOf(rec) <= FanIn * m,
         NEW C, C = Tree!Replace(r, Tree!Record(n, r.type), Tree!Record(Tree!Without(r, n), r.type)),
         Pending(C, rec), Weigh(C, One) = Weigh(children, One) + 1
  PROVE  Weigh(C, Need(m)) = 0 \/ Weigh(C, Need(m)) + Weigh(C, One) <= FanIn
  <1> DEFINE a == Tree!Record(n, r.type)
             b == Tree!Record(Tree!Without(r, n), r.type)
             k == Tree!SizeOf(r)
             x == Tree!SizeOf(a)
             y == Tree!SizeOf(b)
             W == Weigh(children, Need(m))
             V == Weigh(C, Need(m))
             N == Weigh(children, One)
  <1>1. rec \in Recs /\ Limit \in Nat
    BY TreeNumbers DEF Good, Limit
  <1>2. r \in DOMAIN children /\ \A q \in DOMAIN children : Tree!SizeOf(q) <= k
    BY <1>1, Largest
  <1>3. Good(r)
    BY <1>2 DEF Pending
  <1>4. n \in Tree!SAHParts(r)
    BY <1>3, HalfParts
  <1>5. Good(a) /\ Good(b) /\ x + y = k
    BY <1>3, <1>4, SplitParts
  <1>6. (\A h \in Nat : k <= 2 * h => x <= h /\ y <= h) /\ x <= k /\ y <= k
    BY <1>3, HalfParts
  <1> HIDE DEF a, b
  <1>7. C = Tree!Replace(r, a, b)
    BY DEF a, b
  <1>8. V + Need(m)[r] = W + Need(m)[a] + Need(m)[b]
    BY <1>1, <1>2, <1>5, <1>7, SplitPending
  <1>9. /\ V \in Nat /\ W \in Nat /\ N \in Nat
        /\ W = 0 <=> \A q \in DOMAIN children : Tree!SizeOf(q) <= m
    BY <1>1, NeedNone, PendingRecs
  <1>10. r \in Recs /\ a \in Recs /\ b \in Recs
    BY <1>3, <1>5 DEF Good
  <1>11. k \in Nat /\ x \in Nat /\ y \in Nat
    BY <1>10, SizeNat
  <1>12. /\ Need(m)[r] = IF k <= m THEN 0 ELSE IF k <= 2 * m THEN 1 ELSE 3
         /\ Need(m)[a] = IF x <= m THEN 0 ELSE IF x <= 2 * m THEN 1 ELSE 3
         /\ Need(m)[b] = IF y <= m THEN 0 ELSE IF y <= 2 * m THEN 1 ELSE 3
    BY <1>10 DEF Need
  <1>13. k <= Tree!SizeOf(rec) /\ Tree!SizeOf(rec) \in Nat
    <2>1. Tree!SizeOf(r) + Weigh(children, One) <= Tree!SizeOf(rec) + 1
      BY <1>1, <1>2, PendingSize
    <2>2. Weigh(children, One) >= 1
      BY PendingRecs
    <2>3. Tree!SizeOf(rec) \in Nat
      BY <1>1, SizeNat
    <2> QED
      BY <1>9, <1>11, <2>1, <2>2, <2>3
  <1>14. W = 0 \/ W + N <= FanIn
    BY DEF Halves
  <1>15. W = 0 => k <= m
    BY <1>2, <1>9
  <1>16. W # 0 => ~ (k <= m)
    <2>1. \A q \in DOMAIN children : Tree!SizeOf(q) \in Nat
      BY PendingRecs
    <2> QED
      BY <1>2, <1>9, <1>11, <2>1
  <1> HIDE DEF k, x, y, W, V, N
  <1>17. CASE k <= m
    <2>1. x <= m /\ y <= m /\ W = 0
      BY <1>6, <1>11, <1>16, <1>17
    <2> QED
      BY <1>8, <1>9, <1>12, <1>17, <2>1 DEF V
  <1>18. CASE ~ (k <= m) /\ k <= 2 * m
    <2>1. x <= m /\ y <= m /\ W + N <= FanIn
      BY <1>6, <1>14, <1>15, <1>18
    <2>2. V + 1 = W
      BY <1>8, <1>9, <1>12, <1>18, <2>1
    <2> QED
      BY <1>9, <2>1, <2>2, TreeNumbers DEF V, N
  <1>19. CASE ~ (k <= m) /\ ~ (k <= 2 * m)
    <2>1. k <= 2 * (2 * m)
      BY <1>11, <1>13, TreeNumbers
    <2>2. 2 * m \in Nat
      OBVIOUS
    <2>3. x <= 2 * m /\ y <= 2 * m /\ W + N <= FanIn
      BY <1>6, <1>14, <1>15, <1>19, <2>1, <2>2
    <2>4. V + 1 <= W
      BY <1>8, <1>9, <1>12, <1>19, <2>3
    <2> QED
      BY <1>9, <2>3, <2>4, TreeNumbers DEF V, N
  <1> QED
    BY <1>17, <1>18, <1>19

LEMMA ShapeSplitLarge ==
  ASSUME Tree!TreeShapeAssumption, ShapeInv, Tree!SplitLarge
  PROVE  ShapeInv'
  <1>1. /\ Good(rec) /\ rec \in Recs /\ depth \in Nat /\ level \in Nat
        /\ fn = "large" /\ stage = "split"
        /\ Typed(rec)
        /\ large.size \in Nat /\ large.depth \in Nat
        /\ large.depth <= depth
        /\ large.depth + MinLargeLeafLevels <= maxDepth + 1
        /\ level = depth /\ depth <= maxDepth /\ depth <= maxDepth + 1
        /\ Shrinks
        /\ Tree!SizeOf(rec) > Limit
        /\ Pending(children, rec)
        /\ \A r \in DOMAIN children : r.type = rec.type
        /\ \A m \in Nat : Halves(m)
    BY DEF ShapeInv, BasicsInv, LargeInv, Tree!SplitLarge, Good
  <1>2. rec' = rec /\ depth' = depth /\ level' = level /\ fn' = fn /\ large' = large
    BY DEF Tree!SplitLarge
  <1>3. Limit \in Nat /\ leafSize[rec.type] = Limit
    BY <1>1, TreeNumbers DEF Limit
  <1>4. Shrinks'
    BY <1>1, <1>2 DEF Shrinks, Limit
  <1>5. CASE Tree!Full \/ Tree!MostPrimitives(Limit) = {}
    <2>1. stage' = "recurse" /\ children' = children
      BY <1>3, <1>5 DEF Tree!SplitLarge
    <2>2. ~ Tree!Full => \A r \in DOMAIN children : Tree!SizeOf(r) <= Limit
      BY <1>1, <1>3, <1>5, Largest
    <2>3. Weigh(children, One) >= 2
      <3>1. CASE Tree!Full
        BY <1>1, <3>1, NumChildren, PendingRecs, TreeNumbers DEF Tree!Full
      <3>2. CASE ~ Tree!Full
        <4>1. children # SetToBag({rec})
          <5>1. DOMAIN SetToBag({rec}) = {rec}
            BY <1>1, StartPending
          <5>2. Tree!SizeOf(rec) \in Nat
            BY <1>1, SizeNat
          <5> QED
            BY <1>1, <1>3, <2>2, <3>2, <5>1, <5>2
        <4> QED
          BY <1>1, <4>1 DEF Pending
      <3> QED
        BY <3>1, <3>2
    <2>4. ASSUME NEW m \in Nat PROVE Divided(m)
      <3> SUFFICES ASSUME m >= Limit, Tree!SizeOf(rec) <= FanIn * m
                   PROVE  \A r \in DOMAIN children : Tree!SizeOf(r) <= m
        BY DEF Divided
      <3>1. CASE Tree!Full
        <4>1. Weigh(children, One) >= Width /\ Weigh(children, One) \in Nat
          BY <1>1, <3>1, NumChildren, PendingRecs DEF Tree!Full
        <4>2. /\ Weigh(children, Need(m)) \in Nat
              /\ Weigh(children, Need(m)) = 0 <=> \A r \in DOMAIN children : Tree!SizeOf(r) <= m
          BY <1>1, NeedNone
        <4>3. Weigh(children, Need(m)) = 0 \/ Weigh(children, Need(m)) + Weigh(children, One) <= FanIn
          BY <1>1 DEF Halves
        <4>4. Weigh(children, Need(m)) = 0
          BY <4>1, <4>2, <4>3, TreeNumbers
        <4> QED
          BY <4>2, <4>4
      <3>2. CASE ~ Tree!Full
        BY <1>1, <1>3, <2>2, <3>2, PendingRecs
      <3> QED
        BY <3>1, <3>2
    <2>5. \A m \in Nat : Divided(m)'
      BY <1>2, <2>1, <2>4 DEF Divided, Limit
    <2>6. BasicsInv'
      BY <1>1, <1>2, <2>1 DEF BasicsInv
    <2>7. LargeInv'
      BY <1>1, <1>2, <1>4, <2>1, <2>3, <2>5 DEF LargeInv, Limit
    <2> QED
      BY <1>1, <1>2, <2>6, <2>7 DEF ShapeInv, InternalInv, ThrownInv, FatInv, LeafInv
  <1>6. CASE ~ (Tree!Full \/ Tree!MostPrimitives(Limit) = {})
    <2>1. PICK r \in Tree!MostPrimitives(Limit) :
            \E n \in Tree!FallbackParts(r) : Tree!SplitChild(r, n)
      BY <1>3, <1>6 DEF Tree!SplitLarge
    <2>2. PICK n \in Tree!FallbackParts(r) :
            children' = Tree!Replace(r, Tree!Record(n, r.type),
                                     Tree!Record(Tree!Without(r, n), r.type))
      BY <2>1 DEF Tree!SplitChild
    <2>3. stage' = stage
      BY <1>3, <1>6 DEF Tree!SplitLarge
    <2> DEFINE a == Tree!Record(n, r.type)
               b == Tree!Record(Tree!Without(r, n), r.type)
               C == children'
    <2>4. r \in DOMAIN children /\ Good(r)
      BY <1>1, <1>3, Largest DEF Pending
    <2>5. n \in Tree!SAHParts(r)
      BY <2>4, HalfParts
    <2>6. /\ Good(a) /\ Good(b) /\ a.type = r.type /\ b.type = r.type
          /\ Tree!SizeOf(a) + Tree!SizeOf(b) = Tree!SizeOf(r)
      BY <2>4, <2>5, SplitParts
    <2> HIDE DEF a, b
    <2>7. C = Tree!Replace(r, a, b)
      BY <2>2 DEF a, b
    <2> HIDE DEF C
    <2>8. /\ Pending(C, rec)
          /\ DOMAIN C \subseteq DOMAIN children \union {a, b}
          /\ Weigh(C, One) = Weigh(children, One) + 1
      BY <1>1, <1>6, <2>4, <2>6, <2>7, SplitPending
    <2>9. \A x \in DOMAIN C : x.type = rec.type
      BY <1>1, <2>4, <2>6, <2>8
    <2>10. ASSUME NEW m \in Nat, m >= Limit, Tree!SizeOf(rec) <= FanIn * m
           PROVE  Weigh(C, Need(m)) = 0 \/ Weigh(C, Need(m)) + Weigh(C, One) <= FanIn
      <3>1. Halves(m)
        BY <1>1
      <3>2. C = Tree!Replace(r, Tree!Record(n, r.type), Tree!Record(Tree!Without(r, n), r.type))
        BY <2>7 DEF a, b
      <3> QED
        BY <1>1, <1>6, <2>8, <2>10, <3>1, <3>2, HalvingHelps
    <2>11. children' = C
      BY DEF C
    <2>12. \A m \in Nat : Halves(m)'
      BY <1>2, <2>10, <2>11 DEF Halves, Limit
    <2>13. BasicsInv'
      BY <1>1, <1>2, <2>3 DEF BasicsInv
    <2>14. LargeInv'
      BY <1>1, <1>2, <1>4, <2>3, <2>8, <2>9, <2>11, <2>12 DEF LargeInv, Limit
    <2> QED
      BY <1>1, <1>2, <2>13, <2>14 DEF ShapeInv, InternalInv, ThrownInv, FatInv, LeafInv
  <1> QED
    BY <1>5, <1>6
(* A few primitives of one type go one by one to the leaf.                  *)
LEMMA ShapeEnterFat ==
  ASSUME Tree!TreeShapeAssumption, ShapeInv, Tree!EnterFat
  PROVE  ShapeInv'
  <1>1. /\ Good(rec) /\ rec \in Recs /\ depth \in Nat /\ level \in Nat
        /\ fn = "fat" /\ stage = "enter"
        /\ Typed(rec) /\ Tree!SizeOf(rec) <= Limit /\ level <= maxDepth
    BY DEF ShapeInv, BasicsInv, FatInv, Tree!EnterFat, Good
  <1>2. rec' = rec /\ depth' = depth /\ level' = level
    BY DEF Tree!EnterFat
  <1>3. Tree!SizeOf(rec) \in Nat \ {0} /\ Limit \in Nat
    BY <1>1, SizeNat, TreeNumbers DEF Limit, Good
  <1>4. CASE ~ (Tree!SizeOf(rec) <= Width)
    <2>1. fn' = "fat" /\ stage' = "split" /\ children' = Tree!SetToBag({rec})
      BY <1>4 DEF Tree!EnterFat, Tree!Become
    <2>2. Pending(children', rec)
      BY <1>1, <2>1, StartPending
    <2>3. BasicsInv'
      BY <1>1, <1>2, <2>1 DEF BasicsInv
    <2>4. FatInv'
      BY <1>1, <1>2, <2>1, <2>2 DEF FatInv, Limit
    <2> QED
      BY <2>1, <2>3, <2>4 DEF ShapeInv, InternalInv, LargeInv, ThrownInv, LeafInv
  <1>5. CASE Tree!SizeOf(rec) <= Width
    <2> DEFINE t == rec.type
               o == Tree!One(t)
               S == Tree!SizeOf(rec)
               C == children'
    <2>1. Tree!TypesIn(rec) = {t} /\ t \in Types
      BY <1>1 DEF Good, Typed, Recs
    <2>2. rec.n[t] = S
      <3>1. \A u \in Types : u # t => rec.n[u] = 0
        <4>1. \A u \in Types : rec.n[u] \in Nat /\ ~ (u # t /\ rec.n[u] > 0)
          BY <1>1, <2>1 DEF Recs, Tree!TypesIn
        <4> QED
          BY <4>1
      <3> QED
        BY <1>1, <2>1, <3>1, SingleTypeSize
    <2>3. /\ fn' = "leaf" /\ stage' = "enter"
          /\ C = [r \in {Tree!One(u) : u \in Tree!TypesIn(rec)} |->
                    rec.n[CHOOSE u \in Tree!TypesIn(rec) : r = Tree!One(u)]]
      BY <1>5 DEF Tree!EnterFat, Tree!Become
    <2>4. o \in Recs /\ o.n[t] = 1 /\ (\A u \in Types : u # t => o.n[u] = 0)
      BY <2>1 DEF Tree!One, Tree!Record, Recs
    <2>5. Tree!SizeOf(o) = 1
      BY <2>1, <2>4, SingleTypeSize
    <2> HIDE DEF t, o, S, C
    <2>6. C = [r \in {o} |-> S]
      <3>1. {Tree!One(u) : u \in Tree!TypesIn(rec)} = {o}
        BY <2>1 DEF o
      <3>2. \A r \in {o} : (CHOOSE u \in Tree!TypesIn(rec) : r = Tree!One(u)) = t
        <4>1. (CHOOSE u \in Tree!TypesIn(rec) : o = Tree!One(u)) \in {t}
          BY <2>1 DEF o
        <4> QED
          BY <4>1
      <3> QED
        BY <2>2, <2>3, <3>1, <3>2
    <2>7. DOMAIN C = {o} /\ C[o] = S
      BY <2>6
    <2>8. Tree!SumFunction(C) = S
      <3>1. Tree!SumFunction(C) = SumFunctionOnSet(C, {o})
        BY <2>7, TreeSum DEF Tree!SumFunction
      <3>2. S \in Int
        BY <1>3 DEF S
      <3>3. {o} \ {o} = {} /\ IsFiniteSet({o}) /\ o \in {o} /\ \A r \in {o} : C[r] \in Int
        BY <2>7, <3>2, FS_Singleton
      <3>4. SumFunctionOnSet(C, {o}) = C[o] + SumFunctionOnSet(C, {o} \ {o})
        BY <3>3, SumRemoves
      <3>5. SumFunctionOnSet(C, {}) = 0
        BY SumEmpty
      <3>6. SumFunctionOnSet(C, {o} \ {o}) = 0
        BY <3>3, <3>5
      <3>7. ASSUME NEW x \in Int PROVE x + 0 = x
        OBVIOUS
      <3> QED
        BY <2>7, <3>1, <3>2, <3>4, <3>6, <3>7
    <2>9. Tree!LeafSound'
      <3>1. Tree!numChildren' = S
        BY <2>8 DEF Tree!numChildren, C
      <3>2. Tree!BagToSet(children)' = {o}
        BY <2>7 DEF Tree!BagToSet, C
      <3>3. Tree!TypesIn(rec)' = {rec'.type} /\ Tree!SizeOf(rec)' = S
        BY <1>2, <2>1 DEF t, S
      <3>4. S \in 1 .. leafSize[rec'.type] /\ S <= Width /\ 1 \in 1 .. MaxRun
        BY <1>1, <1>2, <1>3, <1>5, TreeNumbers DEF S, Limit
      <3> QED
        BY <2>5, <3>1, <3>2, <3>3, <3>4 DEF Tree!LeafSound
    <2>10. BasicsInv'
      BY <1>1, <1>2, <2>3 DEF BasicsInv
    <2>11. LeafInv'
      BY <1>1, <1>2, <2>9 DEF LeafInv
    <2> QED
      BY <2>3, <2>10, <2>11 DEF ShapeInv, InternalInv, LargeInv, ThrownInv, FatInv
  <1> QED
    BY <1>4, <1>5

(* A node that is full of halves has no child with four primitives.         *)
LEMMA HalvesAreFew ==
  ASSUME Tree!TreeShapeAssumption, Good(rec), Typed(rec), Tree!SizeOf(rec) <= Limit,
         Pending(children, rec),
         \A r, x \in DOMAIN children : Tree!SizeOf(r) >= 4 => Tree!SizeOf(x) >= 2,
         Tree!Full \/ Tree!MostPrimitives(1) = {}
  PROVE  \A r \in DOMAIN children : Tree!SizeOf(r) <= 3
  <1> SUFFICES ASSUME NEW r \in DOMAIN children, ~ (Tree!SizeOf(r) <= 3) PROVE FALSE
    OBVIOUS
  <1>1. /\ rec \in Recs /\ BagOK(children) /\ DOMAIN children \subseteq Recs
        /\ Weigh(children, One) \in Nat
        /\ \A x \in DOMAIN children : Size[x] = Tree!SizeOf(x) /\ Tree!SizeOf(x) \in Nat /\ One[x] = 1
    BY PendingRecs DEF Good
  <1>2. Tree!SizeOf(r) >= 4 /\ \A x \in DOMAIN children : Tree!SizeOf(x) >= 2
    BY <1>1
  <1>3. Tree!Full
    <2>1. Tree!MostPrimitives(1) = {} => Tree!SizeOf(r) <= 1
      BY <1>1, Largest
    <2> QED
      BY <1>1, <1>2, <2>1
  <1>4. Weigh(children, One) >= Width
    BY <1>1, <1>3, NumChildren DEF Tree!Full
  <1> DEFINE Two == [x \in Recs |-> 2]
  <1>5. \A x \in DOMAIN children : Two[x] = 2 /\ Two[x] \in Nat
    BY <1>1
  <1> HIDE DEF Two
  <1>6. Weigh(children, Two) = Weigh(children, One) + Weigh(children, One)
    <2>1. \A x \in DOMAIN children : One[x] \in Nat /\ One[x] \in Nat /\ Two[x] = One[x] + One[x]
      BY <1>1, <1>5
    <2> QED
      BY <1>1, <2>1, WeighPlus
  <1>7. Weigh(children, Two) + (Size[r] - Two[r]) <= Weigh(children, Size)
    <2>1. \A x \in DOMAIN children : Two[x] \in Nat /\ Size[x] \in Nat /\ Two[x] <= Size[x]
      BY <1>1, <1>2, <1>5
    <2> QED
      BY <1>1, <2>1, HeavierBag
  <1>8. Weigh(children, Size) = Tree!SizeOf(rec) /\ Tree!SizeOf(rec) \in Nat
    BY <1>1, SizeNat DEF Pending
  <1>9. Limit \in Nat /\ Limit <= 2 * Width + 1
    <2>1. rec.type \in Types
      BY DEF Good, Typed, Recs
    <2> QED
      BY <1>1, <2>1, TreeNumbers DEF Limit
  <1>10. Size[r] >= 4 /\ Two[r] = 2 /\ Size[r] \in Nat
    BY <1>1, <1>2, <1>5
  <1> QED
    BY <1>1, <1>4, <1>6, <1>7, <1>8, <1>9, <1>10, TreeNumbers

LEMMA ShapeSplitFat ==
  ASSUME Tree!TreeShapeAssumption, ShapeInv, Tree!SplitFat
  PROVE  ShapeInv'
  <1>1. /\ Good(rec) /\ rec \in Recs /\ depth \in Nat /\ level \in Nat
        /\ fn = "fat" /\ stage \in {"split", "redo"}
        /\ Typed(rec) /\ Tree!SizeOf(rec) <= Limit /\ level <= maxDepth
        /\ Pending(children, rec)
        /\ stage = "redo" =>
             \A r, x \in DOMAIN children : Tree!SizeOf(r) >= 4 => Tree!SizeOf(x) >= 2
    BY DEF ShapeInv, BasicsInv, FatInv, Tree!SplitFat, Good
  <1>2. rec' = rec /\ depth' = depth /\ level' = level
    BY DEF Tree!SplitFat
  <1>3. Tree!SizeOf(rec) \in Nat \ {0} /\ Limit \in Nat
    BY <1>1, SizeNat, TreeNumbers DEF Limit, Good
  <1>4. CASE (Tree!Full \/ Tree!MostPrimitives(1) = {}) /\ stage = "split" /\ Tree!TooUneven
    <2>1. fn' = "fat" /\ stage' = "redo" /\ children' = Tree!SetToBag({rec})
      BY <1>4 DEF Tree!SplitFat, Tree!Become
    <2>2. Pending(children', rec) /\ DOMAIN children' = {rec}
      BY <1>1, <2>1, StartPending
    <2>3. \A r, x \in DOMAIN children' : Tree!SizeOf(r) >= 4 => Tree!SizeOf(x) >= 2
      BY <1>3, <2>2
    <2>4. BasicsInv'
      BY <1>1, <1>2, <2>1 DEF BasicsInv
    <2>5. FatInv'
      BY <1>1, <1>2, <2>1, <2>2, <2>3 DEF FatInv, Limit
    <2> QED
      BY <2>1, <2>4, <2>5 DEF ShapeInv, InternalInv, LargeInv, ThrownInv, LeafInv
  <1>5. CASE (Tree!Full \/ Tree!MostPrimitives(1) = {}) /\ ~ (stage = "split" /\ Tree!TooUneven)
    <2>1. fn' = "leaf" /\ stage' = "enter" /\ children' = children
      BY <1>5 DEF Tree!SplitFat, Tree!Become
    <2>2. \A r \in DOMAIN children : Tree!SizeOf(r) <= 3
      <3>1. CASE stage = "redo"
        BY <1>1, <1>5, <3>1, HalvesAreFew
      <3>2. CASE stage = "split" /\ ~ Tree!TooUneven
        <4> SUFFICES ASSUME NEW x \in DOMAIN children, ~ (Tree!SizeOf(x) <= 3) PROVE FALSE
          OBVIOUS
        <4>1. \A y \in DOMAIN children : Tree!SizeOf(y) \in Nat
          BY <1>1, PendingRecs
        <4>2. Tree!MostPrimitives(1) # {}
          <5>1. Tree!MostPrimitives(1) = {} => Tree!SizeOf(x) <= 1
            BY <1>1, Largest
          <5> QED
            BY <4>1, <5>1
        <4>3. PICK r \in Tree!MostPrimitives(1) : TRUE
          BY <4>2
        <4>4. r \in DOMAIN children /\ Tree!SizeOf(x) <= Tree!SizeOf(r)
          BY <1>1, Largest
        <4>5. Tree!SizeOf(r) > 3
          BY <4>1, <4>4
        <4> QED
          BY <3>2, <4>5 DEF Tree!TooUneven
      <3> QED
        BY <1>1, <1>5, <3>1, <3>2
    <2>3. Tree!LeafSound'
      <3>1. Tree!numChildren = Weigh(children, One) /\ Tree!numChildren <= Width
        BY <1>1, NumChildren, TreeNumbers DEF Pending
      <3>2. Tree!numChildren' = Tree!numChildren
        BY <2>1 DEF Tree!numChildren
      <3>3. Tree!BagToSet(children)' = DOMAIN children
        BY <2>1 DEF Tree!BagToSet
      <3>4. \A r \in DOMAIN children : Tree!SizeOf(r) \in 1 .. MaxRun
        <4>1. \A r \in DOMAIN children : Tree!SizeOf(r) \in Nat \ {0}
          BY <1>1, PendingRecs
        <4> QED
          BY <2>2, <4>1, TreeNumbers
      <3>5. Tree!TypesIn(rec)' = {rec'.type} /\ Tree!SizeOf(rec)' = Tree!SizeOf(rec)
        BY <1>1, <1>2 DEF Good, Typed
      <3>6. Tree!SizeOf(rec) \in 1 .. leafSize[rec'.type]
        BY <1>1, <1>2, <1>3 DEF Limit
      <3> QED
        BY <3>1, <3>2, <3>3, <3>4, <3>5, <3>6 DEF Tree!LeafSound
    <2>4. BasicsInv'
      BY <1>1, <1>2, <2>1 DEF BasicsInv
    <2>5. LeafInv'
      BY <1>1, <1>2, <2>3 DEF LeafInv
    <2> QED
      BY <2>1, <2>4, <2>5 DEF ShapeInv, InternalInv, LargeInv, ThrownInv, FatInv
  <1>6. CASE ~ (Tree!Full \/ Tree!MostPrimitives(1) = {})
    <2>1. PICK r \in Tree!MostPrimitives(1) :
            \E n \in IF stage = "split" THEN Tree!SAHParts(r) ELSE Tree!FallbackParts(r) :
              Tree!SplitChild(r, n)
      BY <1>6 DEF Tree!SplitFat
    <2>2. PICK n \in IF stage = "split" THEN Tree!SAHParts(r) ELSE Tree!FallbackParts(r) :
            children' = Tree!Replace(r, Tree!Record(n, r.type),
                                     Tree!Record(Tree!Without(r, n), r.type))
      BY <2>1 DEF Tree!SplitChild
    <2>3. stage' = stage /\ fn' = fn
      BY <1>6 DEF Tree!SplitFat
    <2> DEFINE a == Tree!Record(n, r.type)
               b == Tree!Record(Tree!Without(r, n), r.type)
    <2>4. /\ r \in DOMAIN children /\ Good(r) /\ r \in Recs
          /\ \A x \in DOMAIN children : Tree!SizeOf(x) <= Tree!SizeOf(r)
      BY <1>1, Largest DEF Pending, Good
    <2>5. n \in Tree!SAHParts(r)
      BY <1>1, <2>2, <2>4, HalfParts
    <2>6. /\ Good(a) /\ Good(b)
          /\ Tree!SizeOf(a) + Tree!SizeOf(b) = Tree!SizeOf(r)
      BY <2>4, <2>5, SplitParts
    <2>7. stage = "redo" => /\ Tree!SizeOf(r) >= 4 => Tree!SizeOf(a) >= 2 /\ Tree!SizeOf(b) >= 2
                            /\ Tree!SizeOf(a) <= Tree!SizeOf(r) /\ Tree!SizeOf(b) <= Tree!SizeOf(r)
      <3>1. stage = "redo" => n \in Tree!FallbackParts(r)
        BY <2>2
      <3> QED
        BY <2>4, <3>1, HalfParts
    <2> HIDE DEF a, b
    <2>8. children' = Tree!Replace(r, a, b)
      BY <2>2 DEF a, b
    <2>9. Pending(children', rec) /\ DOMAIN children' \subseteq DOMAIN children \union {a, b}
      BY <1>1, <1>6, <2>4, <2>6, <2>8, SplitPending
    <2>10. stage = "redo" =>
             \A x, y \in DOMAIN children' : Tree!SizeOf(x) >= 4 => Tree!SizeOf(y) >= 2
      <3> SUFFICES ASSUME stage = "redo", NEW x \in DOMAIN children', NEW y \in DOMAIN children',
                          Tree!SizeOf(x) >= 4
                   PROVE  Tree!SizeOf(y) >= 2
        OBVIOUS
      <3>1. Tree!SizeOf(r) \in Nat /\ Tree!SizeOf(x) \in Nat
        <4>1. x \in Recs
          BY <2>9 DEF Pending, Good
        <4> QED
          BY <2>4, <4>1, SizeNat
      <3>2. Tree!SizeOf(x) <= Tree!SizeOf(r)
        BY <2>4, <2>7, <2>9
      <3>3. Tree!SizeOf(r) >= 4
        BY <3>1, <3>2
      <3> QED
        BY <1>1, <2>4, <2>7, <2>9, <3>3
    <2>11. BasicsInv'
      BY <1>1, <1>2, <2>3 DEF BasicsInv
    <2>12. FatInv'
      BY <1>1, <1>2, <2>3, <2>9, <2>10 DEF FatInv, Limit
    <2> QED
      BY <1>1, <2>3, <2>11, <2>12 DEF ShapeInv, InternalInv, LargeInv, ThrownInv, LeafInv
  <1> QED
    BY <1>4, <1>5, <1>6
(* What a tree may look like follows from the invariant.                    *)
LEMMA ShapeInvSound ==
  ASSUME Tree!TreeShapeAssumption, ShapeInv
  PROVE  Tree!LeafSound /\ Tree!DepthSound
  <1>1. Tree!LeafSound
    BY DEF ShapeInv, LeafInv, Tree!LeafSound
  <1>2. level <= maxDepth \/ fn = "thrown" \/ (fn \in {"internal", "large"} /\ stage = "enter")
    <2>1. CASE fn = "internal" /\ stage # "enter"
      BY <2>1, TreeNumbers DEF ShapeInv, BasicsInv, InternalInv
    <2>2. CASE fn = "large" /\ stage # "enter"
      BY <2>2 DEF ShapeInv, LargeInv
    <2>3. CASE fn \in {"fat", "leaf"}
      BY <2>3 DEF ShapeInv, FatInv, LeafInv
    <2> QED
      BY <2>1, <2>2, <2>3 DEF ShapeInv, BasicsInv
  <1>3. Tree!DepthSound
    BY <1>2 DEF ShapeInv, ThrownInv, Limit, Tree!DepthSound
  <1> QED
    BY <1>1, <1>3

LEMMA ShapeStays ==
  ASSUME ShapeInv, UNCHANGED <<rec, depth, level, fn, stage, children, large>>
  PROVE  ShapeInv'
  <1>1. /\ rec' = rec /\ depth' = depth /\ level' = level /\ fn' = fn
        /\ stage' = stage /\ children' = children /\ large' = large
    OBVIOUS
  <1>2. BasicsInv' /\ InternalInv' /\ ThrownInv'
    BY <1>1 DEF ShapeInv, BasicsInv, InternalInv, ThrownInv, LevelKnown, Lags, Limit
  <1>3. LargeInv'
    BY <1>1 DEF ShapeInv, LargeInv, LevelKnown, Lags, Limit, Shrinks, Halves, Divided
  <1>4. FatInv' /\ LeafInv'
    BY <1>1 DEF ShapeInv, FatInv, LeafInv, Limit, Tree!LeafSound, Tree!numChildren, Tree!BagToSet
  <1> QED
    BY <1>2, <1>3, <1>4 DEF ShapeInv

------------------------------------------------------------------------------
(* The splits of a node. B is the least box around the f[i] of all i in S.  *)
IsBound(B, f, S) ==
  /\ B \in Bins!AABB
  /\ \A d \in Bins!Dims :
       /\ B.lower[d] <= Far /\ -Far <= B.upper[d]
       /\ \A i \in S : B.lower[d] <= f[i].lower[d] /\ f[i].upper[d] <= B.upper[d]
       /\ B.lower[d] = Far \/ \E i \in S : B.lower[d] = f[i].lower[d]
       /\ B.upper[d] = -Far \/ \E i \in S : B.upper[d] = f[i].upper[d]

(* Boxes that are well within the infinity of empty ones.                   *)
Within(f, S) ==
  \A i \in S :
    /\ f[i] \in Bins!AABB
    /\ \A d \in Bins!Dims : -Far < f[i].lower[d] /\ f[i].lower[d] <= f[i].upper[d] /\ f[i].upper[d] < Far

LEMMA BoundEmpty ==
  ASSUME Far \in Nat, NEW f
  PROVE  Bins!EmptyBox \in Bins!AABB /\ IsBound(Bins!EmptyBox, f, {})
  BY DEF IsBound, Bins!EmptyBox, Bins!AABB

LEMMA ExtendIs ==
  ASSUME NEW A \in Bins!AABB, NEW B \in Bins!AABB
  PROVE  LET C == Bins!extend(A, B)
         IN /\ C \in Bins!AABB
            /\ \A d \in Bins!Dims :
                 /\ C.lower[d] = IF A.lower[d] <= B.lower[d] THEN A.lower[d] ELSE B.lower[d]
                 /\ C.upper[d] = IF A.upper[d] >= B.upper[d] THEN A.upper[d] ELSE B.upper[d]
  BY DEF Bins!extend, Bins!AABB

LEMMA BoundExtend ==
  ASSUME Far \in Nat, NEW f, NEW S, NEW T, Within(f, S), Within(f, T),
         NEW A, NEW B, IsBound(A, f, S), IsBound(B, f, T)
  PROVE  IsBound(Bins!extend(A, B), f, S \union T)
  <1> DEFINE C == Bins!extend(A, B)
  <1>1. A \in Bins!AABB /\ B \in Bins!AABB
    BY DEF IsBound
  <1>2. /\ C \in Bins!AABB
        /\ \A d \in Bins!Dims :
             /\ C.lower[d] = IF A.lower[d] <= B.lower[d] THEN A.lower[d] ELSE B.lower[d]
             /\ C.upper[d] = IF A.upper[d] >= B.upper[d] THEN A.upper[d] ELSE B.upper[d]
    BY <1>1, ExtendIs
  <1> HIDE DEF C
  <1>3. ASSUME NEW d \in Bins!Dims
        PROVE  /\ C.lower[d] <= Far /\ -Far <= C.upper[d]
               /\ \A i \in S \union T : C.lower[d] <= f[i].lower[d] /\ f[i].upper[d] <= C.upper[d]
               /\ C.lower[d] = Far \/ \E i \in S \union T : C.lower[d] = f[i].lower[d]
               /\ C.upper[d] = -Far \/ \E i \in S \union T : C.upper[d] = f[i].upper[d]
    <2>1. /\ A.lower[d] \in Int /\ A.upper[d] \in Int /\ B.lower[d] \in Int /\ B.upper[d] \in Int
      BY <1>1 DEF Bins!AABB
    <2>2. \A i \in S \union T : f[i].lower[d] \in Int /\ f[i].upper[d] \in Int
      BY DEF Within, Bins!AABB
    <2>3. /\ A.lower[d] <= Far /\ -Far <= A.upper[d]
          /\ \A i \in S : A.lower[d] <= f[i].lower[d] /\ f[i].upper[d] <= A.upper[d]
          /\ A.lower[d] = Far \/ \E i \in S : A.lower[d] = f[i].lower[d]
          /\ A.upper[d] = -Far \/ \E i \in S : A.upper[d] = f[i].upper[d]
      BY DEF IsBound
    <2>4. /\ B.lower[d] <= Far /\ -Far <= B.upper[d]
          /\ \A i \in T : B.lower[d] <= f[i].lower[d] /\ f[i].upper[d] <= B.upper[d]
          /\ B.lower[d] = Far \/ \E i \in T : B.lower[d] = f[i].lower[d]
          /\ B.upper[d] = -Far \/ \E i \in T : B.upper[d] = f[i].upper[d]
      BY DEF IsBound
    <2>5. /\ C.lower[d] = IF A.lower[d] <= B.lower[d] THEN A.lower[d] ELSE B.lower[d]
          /\ C.upper[d] = IF A.upper[d] >= B.upper[d] THEN A.upper[d] ELSE B.upper[d]
      BY <1>2
    <2>6. \A i \in S \union T : C.lower[d] <= f[i].lower[d] /\ f[i].upper[d] <= C.upper[d]
      BY <2>1, <2>2, <2>3, <2>4, <2>5
    <2> QED
      BY <2>1, <2>3, <2>4, <2>5, <2>6
  <1> QED
    BY <1>2, <1>3 DEF IsBound, C

LEMMA BoundOne ==
  ASSUME Far \in Nat, NEW f, NEW i, Within(f, {i})
  PROVE  IsBound(f[i], f, {i})
  <1>1. f[i] \in Bins!AABB
    BY DEF Within
  <1>2. ASSUME NEW d \in Bins!Dims
        PROVE  /\ f[i].lower[d] \in Int /\ f[i].upper[d] \in Int
               /\ -Far < f[i].lower[d] /\ f[i].lower[d] <= f[i].upper[d] /\ f[i].upper[d] < Far
    BY DEF Within, Bins!AABB
  <1> QED
    BY <1>1, <1>2 DEF IsBound

LEMMA BoundUnique ==
  ASSUME Far \in Nat, NEW f, NEW S, Within(f, S), NEW A, NEW B, IsBound(A, f, S), IsBound(B, f, S)
  PROVE  A = B
  <1>1. A \in Bins!AABB /\ B \in Bins!AABB
    BY DEF IsBound
  <1>2. ASSUME NEW d \in Bins!Dims
        PROVE  A.lower[d] = B.lower[d] /\ A.upper[d] = B.upper[d]
    <2>1. /\ A.lower[d] \in Int /\ A.upper[d] \in Int /\ B.lower[d] \in Int /\ B.upper[d] \in Int
      BY <1>1 DEF Bins!AABB
    <2>2. /\ A.lower[d] <= Far /\ -Far <= A.upper[d]
          /\ \A i \in S : A.lower[d] <= f[i].lower[d] /\ f[i].upper[d] <= A.upper[d]
          /\ A.lower[d] = Far \/ \E i \in S : A.lower[d] = f[i].lower[d]
          /\ A.upper[d] = -Far \/ \E i \in S : A.upper[d] = f[i].upper[d]
      BY DEF IsBound
    <2>3. /\ B.lower[d] <= Far /\ -Far <= B.upper[d]
          /\ \A i \in S : B.lower[d] <= f[i].lower[d] /\ f[i].upper[d] <= B.upper[d]
          /\ B.lower[d] = Far \/ \E i \in S : B.lower[d] = f[i].lower[d]
          /\ B.upper[d] = -Far \/ \E i \in S : B.upper[d] = f[i].upper[d]
      BY DEF IsBound
    <2>4. \A i \in S : f[i].lower[d] \in Int /\ f[i].upper[d] \in Int
      BY DEF Within, Bins!AABB
    <2>5. A.lower[d] <= B.lower[d] /\ B.lower[d] <= A.lower[d]
      BY <2>1, <2>2, <2>3, <2>4
    <2>6. A.upper[d] <= B.upper[d] /\ B.upper[d] <= A.upper[d]
      BY <2>1, <2>2, <2>3, <2>4
    <2> QED
      BY <2>1, <2>5, <2>6
  <1>3. A.lower = B.lower /\ A.upper = B.upper
    BY <1>1, <1>2 DEF Bins!AABB
  <1> QED
    BY <1>1, <1>3 DEF Bins!AABB

(* Bounds that are collected box by box.                                    *)
IsBoxFold(k, f, S) ==
  k = [s \in SUBSET S |-> IF s = {} THEN Bins!EmptyBox
                          ELSE Bins!extend(k[s \ {Pick(s)}], f[Pick(s)])]

LEMMA BoxFold ==
  ASSUME Far \in Nat, NEW S, IsFiniteSet(S), NEW f, Within(f, S)
  PROVE  /\ \E k : IsBoxFold(k, f, S)
         /\ \A k : IsBoxFold(k, f, S) => IsBound(k[S], f, S)
  <1> DEFINE V == Bins!AABB
             g == [x \in S |-> [v \in V |-> Bins!extend(v, f[x])]]
             R == {p \in (SUBSET S) \X V : IsBound(p[2], f, p[1])}
  <1>1. \A x \in S : f[x] \in V
    BY DEF Within
  <1>2. \A x \in S : \A v \in V : g[x][v] = Bins!extend(v, f[x])
    OBVIOUS
  <1>3. g \in [S -> [V -> V]]
    <2>1. \A x \in S : \A v \in V : Bins!extend(v, f[x]) \in V
      <3> SUFFICES ASSUME NEW x \in S, NEW v \in V PROVE Bins!extend(v, f[x]) \in V
        OBVIOUS
      <3> QED
        BY <1>1, ExtendIs
    <2> HIDE DEF V
    <2> QED
      BY <2>1
  <1>4. Bins!EmptyBox \in V
    BY BoundEmpty
  <1> HIDE DEF g
  <1>5. \E k : IsBoxFold(k, f, S)
    <2> HIDE DEF V
    <2>1. PICK h \in [SUBSET S -> V] : IsFold(h, Bins!EmptyBox, g, S)
      BY <1>3, <1>4, FoldExists
    <2>2. h = [s \in SUBSET S |-> IF s = {} THEN Bins!EmptyBox ELSE g[Pick(s)][h[s \ {Pick(s)}]]]
      BY <2>1 DEF IsFold
    <2>3. ASSUME NEW s \in SUBSET S, s # {}
          PROVE  g[Pick(s)][h[s \ {Pick(s)}]] = Bins!extend(h[s \ {Pick(s)}], f[Pick(s)])
      <3>1. Pick(s) \in S
        BY <2>3 DEF Pick
      <3>2. h[s \ {Pick(s)}] \in V
        BY <2>1
      <3> QED
        BY <1>2, <3>1, <3>2
    <2>4. IsBoxFold(h, f, S)
      BY <2>2, <2>3 DEF IsBoxFold
    <2> QED
      BY <2>4
  <1>6. ASSUME NEW k, IsBoxFold(k, f, S)
        PROVE  IsBound(k[S], f, S)
    <2>1. k = [s \in SUBSET S |-> IF s = {} THEN Bins!EmptyBox
                                  ELSE Bins!extend(k[s \ {Pick(s)}], f[Pick(s)])]
      BY <1>6 DEF IsBoxFold
    <2>2. <<{}, k[{}]>> \in R
      <3>1. k[{}] = Bins!EmptyBox
        BY <2>1
      <3> QED
        BY <3>1, <1>4, BoundEmpty
    <2>3. Keeps(g, S, R)
      <3> SUFFICES ASSUME NEW T \in SUBSET S, NEW x \in S \ T, NEW v, <<T, v>> \in R
                   PROVE  <<T \union {x}, g[x][v]>> \in R
        BY DEF Keeps
      <3>1. v \in V /\ IsBound(v, f, T)
        OBVIOUS
      <3>2. Within(f, T) /\ Within(f, {x})
        BY DEF Within
      <3>3. IsBound(Bins!extend(v, f[x]), f, T \union {x})
        <4>1. IsBound(f[x], f, {x})
          BY <3>2, BoundOne
        <4> QED
          BY <3>1, <3>2, <4>1, BoundExtend
      <3>4. Bins!extend(v, f[x]) \in V
        BY <3>3 DEF IsBound
      <3> QED
        BY <1>2, <3>1, <3>3, <3>4
    <2>4. Follows(k, g, S, R)
      <3> SUFFICES ASSUME NEW T \in SUBSET S, T # {}, <<T \ {Pick(T)}, k[T \ {Pick(T)}]>> \in R
                   PROVE  k[T] = g[Pick(T)][k[T \ {Pick(T)}]]
        BY DEF Follows
      <3>1. Pick(T) \in S /\ k[T \ {Pick(T)}] \in V
        BY DEF Pick
      <3> QED
        BY <1>2, <2>1, <3>1
    <2>5. \A p \in R : IsBound(p[2], f, p[1])
      OBVIOUS
    <2> HIDE DEF R
    <2>6. <<S, k[S]>> \in R
      BY <2>2, <2>3, <2>4, FoldInduction
    <2> QED
      BY <2>5, <2>6
  <1> QED
    BY <1>5, <1>6

(* Division by what need not be a constant.                                 *)
LEMMA Quotient ==
  ASSUME NEW x \in Nat, NEW y \in Nat \ {0}, NEW n \in Nat
  PROVE  /\ x \div y \in Nat
         /\ x < n * y => x \div y < n
         /\ x >= y => x \div y >= 1
  <1> DEFINE q == x \div y
             m == x % y
  <1>1. q \in Int /\ m \in Int /\ x = y * q + m /\ 0 <= m /\ m < y
    OBVIOUS
  <1> HIDE DEF q, m
  <1>2. q >= 0
    <2> SUFFICES ASSUME q <= -1 PROVE FALSE
      BY <1>1
    <2>1. y * q <= y * (-1)
      BY <1>1
    <2> QED
      BY <1>1, <2>1
  <1>3. x < n * y => q < n
    <2> SUFFICES ASSUME x < n * y, q >= n PROVE FALSE
      BY <1>1
    <2>1. y * q >= y * n
      BY <1>1
    <2> QED
      BY <1>1, <2>1
  <1>4. x >= y => q >= 1
    <2> SUFFICES ASSUME x >= y, q <= 0 PROVE FALSE
      BY <1>1
    <2>1. y * q <= 0
      BY <1>1
    <2> QED
      BY <1>1, <2>1
  <1> QED
    BY <1>1, <1>2, <1>3, <1>4 DEF q

(* The centres, as boxes, doubled.                                          *)
CentersOf(ps) ==
  [i \in DOMAIN ps |->
     [lower |-> [d \in Bins!Dims |-> ps[i].lower[d] + ps[i].upper[d]],
      upper |-> [d \in Bins!Dims |-> ps[i].lower[d] + ps[i].upper[d]]]]

LEMMA NodeIs ==
  ASSUME Bins!BinningAssumption, NEW ps \in BoxLists
  PROVE  /\ IsFiniteSet(DOMAIN ps) /\ DOMAIN ps # {}
         /\ Within(ps, DOMAIN ps) /\ Within(CentersOf(ps), DOMAIN ps)
         /\ Far \in Nat /\ BINS \in Nat /\ BINS >= 2
         /\ blockSize \in Nat \ {0} /\ leafThreshold \in Nat \ {0}
         /\ \A i \in DOMAIN ps, d \in Bins!Dims :
              /\ CentersOf(ps)[i].lower[d] = ps[i].lower[d] + ps[i].upper[d]
              /\ CentersOf(ps)[i].upper[d] = ps[i].lower[d] + ps[i].upper[d]
  <1>1. ps \in Seq(Bins!AABB) /\ ps # <<>> /\ Far \in Nat
    BY DEF Bins!BinningAssumption
  <1>2. Len(ps) \in Nat /\ DOMAIN ps = 1 .. Len(ps) /\ \A i \in DOMAIN ps : ps[i] \in Bins!AABB
    BY <1>1
  <1>3. Len(ps) # 0
    BY <1>1
  <1>4. IsFiniteSet(DOMAIN ps) /\ DOMAIN ps # {}
    <2>1. IsFiniteSet(1 .. Len(ps))
      BY <1>2, FS_Interval
    <2>2. 1 \in 1 .. Len(ps)
      BY <1>2, <1>3
    <2> QED
      BY <1>2, <2>1, <2>2
  <1>5. ASSUME NEW i \in DOMAIN ps, NEW d \in Bins!Dims
        PROVE  /\ ps[i].lower[d] \in Int /\ ps[i].upper[d] \in Int
               /\ -Far < 2 * ps[i].lower[d] /\ ps[i].lower[d] <= ps[i].upper[d]
               /\ 2 * ps[i].upper[d] < Far
    BY <1>2 DEF Bins!BinningAssumption, Bins!AABB
  <1>6. Within(ps, DOMAIN ps)
    <2>1. ASSUME NEW i \in DOMAIN ps, NEW d \in Bins!Dims
          PROVE  -Far < ps[i].lower[d] /\ ps[i].lower[d] <= ps[i].upper[d] /\ ps[i].upper[d] < Far
      BY <1>1, <1>5
    <2> QED
      BY <1>2, <2>1 DEF Within
  <1>7. ASSUME NEW i \in DOMAIN ps
        PROVE  /\ CentersOf(ps)[i] \in Bins!AABB
               /\ \A d \in Bins!Dims :
                    /\ CentersOf(ps)[i].lower[d] = ps[i].lower[d] + ps[i].upper[d]
                    /\ CentersOf(ps)[i].upper[d] = ps[i].lower[d] + ps[i].upper[d]
    BY <1>5 DEF CentersOf, Bins!AABB
  <1>8. Within(CentersOf(ps), DOMAIN ps)
    <2>1. ASSUME NEW i \in DOMAIN ps, NEW d \in Bins!Dims
          PROVE  /\ -Far < CentersOf(ps)[i].lower[d]
                 /\ CentersOf(ps)[i].lower[d] <= CentersOf(ps)[i].upper[d]
                 /\ CentersOf(ps)[i].upper[d] < Far
      BY <1>1, <1>5, <1>7
    <2> QED
      BY <1>7, <2>1 DEF Within
  <1> QED
    BY <1>4, <1>6, <1>7, <1>8 DEF Bins!BinningAssumption

(* What is kept of a set of primitives.                                     *)
SetOK(set, ps) ==
  /\ set = [ids |-> set.ids, geom |-> set.geom, cent |-> set.cent]
  /\ set.ids \subseteq DOMAIN ps /\ set.ids # {}
  /\ IsBound(set.geom, ps, set.ids)
  /\ IsBound(set.cent, CentersOf(ps), set.ids)

IsCentFold(k, S) ==
  k = [s \in SUBSET S |-> IF s = {} THEN Bins!EmptyBox
                          ELSE Bins!extend(k[s \ {Pick(s)}], Bins!CenterBox(Pick(s)))]

LEMMA InfoIs ==
  ASSUME Bins!BinningAssumption, prims \in BoxLists, NEW S \in SUBSET DOMAIN prims
  PROVE  LET I == Bins!Info(S)
         IN /\ I = [ids |-> S, geom |-> I.geom, cent |-> I.cent]
            /\ IsBound(I.geom, prims, S)
            /\ IsBound(I.cent, CentersOf(prims), S)
  <1> DEFINE G(k) == IsBoxFold(k, prims, S)
             C(k) == IsCentFold(k, S)
             f == CentersOf(prims)
             I == Bins!Info(S)
  <1>1. IsFiniteSet(S) /\ Within(prims, S) /\ Within(f, S) /\ Far \in Nat
    BY NodeIs, FS_Subset DEF Within
  <1>2. I = [ids |-> S, geom |-> (CHOOSE k : G(k))[S], cent |-> (CHOOSE k : C(k))[S]]
    BY DEF Bins!Info, Bins!FoldSet, Bins!MapThenFoldSet, IsBoxFold, IsCentFold, Pick
  <1>3. IsBound((CHOOSE k : G(k))[S], prims, S)
    <2>1. \E k : G(k)
      BY <1>1, BoxFold
    <2>2. G(CHOOSE k : G(k))
      BY <2>1
    <2> QED
      BY <1>1, <2>2, BoxFold
  <1>4. IsBound((CHOOSE k : C(k))[S], f, S)
    <2>1. ASSUME NEW i \in S PROVE Bins!CenterBox(i) = f[i]
      BY DEF CentersOf, Bins!CenterBox, Bins!center2
    <2>2. \A s \in SUBSET S : s # {} => Bins!CenterBox(Pick(s)) = f[Pick(s)]
      BY <2>1 DEF Pick
    <2>3. ASSUME NEW k PROVE C(k) <=> IsBoxFold(k, f, S)
      <3> HIDE DEF f
      <3> QED
        BY <2>2 DEF IsCentFold, IsBoxFold
    <2> HIDE DEF f
    <2>4. \E k : IsBoxFold(k, f, S)
      BY <1>1, BoxFold
    <2>5. \E k : C(k)
      BY <2>3, <2>4
    <2>6. C(CHOOSE k : C(k))
      BY <2>5
    <2>7. IsBoxFold(CHOOSE k : C(k), f, S)
      BY <2>3, <2>6
    <2> QED
      BY <1>1, <2>7, BoxFold
  <1> HIDE DEF G, C
  <1> QED
    BY <1>2, <1>3, <1>4

LEMMA SetIsInfo ==
  ASSUME Bins!BinningAssumption, prims \in BoxLists, NEW set, SetOK(set, prims)
  PROVE  set = Bins!Info(set.ids)
  <1> DEFINE I == Bins!Info(set.ids)
  <1>1. /\ set.ids \subseteq DOMAIN prims
        /\ set = [ids |-> set.ids, geom |-> set.geom, cent |-> set.cent]
        /\ IsBound(set.geom, prims, set.ids)
        /\ IsBound(set.cent, CentersOf(prims), set.ids)
    BY DEF SetOK
  <1>2. /\ I = [ids |-> set.ids, geom |-> I.geom, cent |-> I.cent]
        /\ IsBound(I.geom, prims, set.ids)
        /\ IsBound(I.cent, CentersOf(prims), set.ids)
    BY <1>1, InfoIs
  <1>3. Far \in Nat /\ Within(prims, set.ids) /\ Within(CentersOf(prims), set.ids)
    BY <1>1, NodeIs DEF Within
  <1> HIDE DEF I
  <1>4. I.geom = set.geom /\ I.cent = set.cent
    BY <1>1, <1>2, <1>3, BoundUnique
  <1> QED
    BY <1>1, <1>2, <1>4 DEF I

(* The bin of primitive i.                                                  *)
BinOf(ps, set, i, d) ==
  IF set.cent.upper[d] - set.cent.lower[d] = 0 THEN 0
  ELSE (99 * Bins!Num(set) * (CentersOf(ps)[i].lower[d] - set.cent.lower[d]))
         \div (100 * (set.cent.upper[d] - set.cent.lower[d]))

LEMMA NumIs ==
  ASSUME Bins!BinningAssumption, NEW ps \in BoxLists, NEW set, SetOK(set, ps)
  PROVE  /\ Bins!Num(set) \in Nat /\ 2 <= Bins!Num(set) /\ Bins!Num(set) <= BINS
         /\ IsFiniteSet(set.ids) /\ Cardinality(set.ids) \in Nat
  <1>1. IsFiniteSet(set.ids)
    BY NodeIs, FS_Subset DEF SetOK
  <1>2. Cardinality(set.ids) \in Nat /\ Bins!Cardinality(set.ids) = Cardinality(set.ids)
    BY <1>1, FS_CardinalityType DEF Bins!Cardinality, Cardinality
  <1>3. 4 + Cardinality(set.ids) \div 20 \in Nat /\ 4 + Cardinality(set.ids) \div 20 >= 4
    BY <1>2
  <1>4. BINS \in Nat /\ BINS >= 2
    BY NodeIs
  <1> QED
    BY <1>1, <1>2, <1>3, <1>4 DEF Bins!Num

(* Bins are in range, without clamping; and where there is an extent, the   *)
(* extremes are in different bins.                                          *)
LEMMA BinRange ==
  ASSUME Bins!BinningAssumption, NEW ps \in BoxLists, NEW set, SetOK(set, ps),
         NEW d \in Bins!Dims
  PROVE  /\ \A i \in set.ids : BinOf(ps, set, i, d) \in 0 .. Bins!Num(set) - 1
         /\ \A i, j \in set.ids : CentersOf(ps)[i].lower[d] # CentersOf(ps)[j].lower[d] =>
              /\ set.cent.upper[d] - set.cent.lower[d] # 0
              /\ \E a \in set.ids : BinOf(ps, set, a, d) = 0
              /\ \E b \in set.ids : BinOf(ps, set, b, d) >= 1
  <1> DEFINE f == CentersOf(ps)
             n == Bins!Num(set)
             lo == set.cent.lower[d]
             hi == set.cent.upper[d]
             e == hi - lo
             c(i) == f[i].lower[d]
  <1>1. n \in Nat /\ n >= 2
    BY NumIs
  <1>2. /\ lo \in Int /\ hi \in Int
        /\ \A i \in set.ids : c(i) \in Int /\ lo <= c(i) /\ c(i) <= hi /\ c(i) < Far /\ -Far < c(i)
        /\ lo = Far \/ \E i \in set.ids : lo = c(i)
        /\ hi = -Far \/ \E i \in set.ids : hi = c(i)
        /\ set.ids # {} /\ Far \in Nat
    <2>1. IsBound(set.cent, f, set.ids) /\ set.ids \subseteq DOMAIN ps /\ set.ids # {}
      BY DEF SetOK
    <2>2. \A i \in set.ids : f[i] \in Bins!AABB /\ f[i].lower[d] = f[i].upper[d]
                             /\ -Far < f[i].lower[d] /\ f[i].lower[d] < Far
      BY <2>1, NodeIs DEF Within
    <2>3. set.cent \in Bins!AABB
      BY <2>1 DEF IsBound
    <2>4. Far \in Nat
      BY NodeIs
    <2> HIDE DEF f
    <2> QED
      BY <2>1, <2>2, <2>3, <2>4 DEF IsBound, Bins!AABB
  <1>3. /\ \E i \in set.ids : lo = c(i)
        /\ \E i \in set.ids : hi = c(i)
    BY <1>2
  <1>4. e \in Nat
    BY <1>2
  <1>5. \A i \in set.ids :
          BinOf(ps, set, i, d) = IF e = 0 THEN 0 ELSE (99 * n * (c(i) - lo)) \div (100 * e)
    BY DEF BinOf
  <1> HIDE DEF f, n, c, lo, hi
  <1>6. ASSUME NEW i \in set.ids, e # 0
        PROVE  (99 * n * (c(i) - lo)) \div (100 * e) \in 0 .. n - 1
    <2> DEFINE a == c(i) - lo
    <2>1. a \in Nat /\ a <= e /\ e \in Nat \ {0}
      BY <1>2, <1>4, <1>6
    <2> HIDE DEF a, e
    <2>2. n * a <= n * e /\ n * a \in Nat /\ n * e \in Nat /\ n * e > 0
      BY <1>1, <2>1
    <2>3. 99 * n * a = 99 * (n * a) /\ n * (100 * e) = 100 * (n * e)
      BY <1>1, <2>1
    <2>4. 99 * n * a \in Nat /\ 99 * n * a < n * (100 * e) /\ 100 * e \in Nat \ {0}
      BY <2>1, <2>2, <2>3
    <2>5. (99 * n * a) \div (100 * e) \in Nat /\ (99 * n * a) \div (100 * e) < n
      BY <1>1, <2>4, Quotient
    <2> QED
      BY <1>1, <2>5 DEF a
  <1>7. ASSUME NEW i \in set.ids, NEW j \in set.ids, c(i) # c(j)
        PROVE  /\ e # 0
               /\ \E a \in set.ids : BinOf(ps, set, a, d) = 0
               /\ \E b \in set.ids : BinOf(ps, set, b, d) >= 1
    <2>1. e # 0 /\ e \in Nat \ {0}
      BY <1>2, <1>4, <1>7
    <2>2. \E a \in set.ids : BinOf(ps, set, a, d) = 0
      <3>1. PICK a \in set.ids : lo = c(a)
        BY <1>3
      <3>2. BinOf(ps, set, a, d) = (99 * n * 0) \div (100 * e)
        BY <1>2, <1>5, <2>1, <3>1
      <3> HIDE DEF e
      <3>3. 0 < 1 * (100 * e) /\ 100 * e \in Nat \ {0}
        BY <2>1
      <3>4. 99 * n * 0 = 0
        BY <1>1
      <3>5. 0 \div (100 * e) \in Nat /\ 0 \div (100 * e) < 1
        BY <3>3, Quotient
      <3> QED
        BY <3>2, <3>4, <3>5
    <2>3. \E b \in set.ids : BinOf(ps, set, b, d) >= 1
      <3>1. PICK b \in set.ids : hi = c(b)
        BY <1>3
      <3>2. BinOf(ps, set, b, d) = (99 * n * e) \div (100 * e)
        BY <1>2, <1>5, <2>1, <3>1
      <3> HIDE DEF e
      <3>3. n * e >= 2 * e /\ n * e \in Nat /\ 99 * n * e = 99 * (n * e)
        BY <1>1, <2>1
      <3>4. 99 * n * e \in Nat /\ 99 * n * e >= 100 * e /\ 100 * e \in Nat \ {0}
        BY <2>1, <3>3
      <3>5. (99 * n * e) \div (100 * e) >= 1
        BY <1>1, <3>4, Quotient
      <3> QED
        BY <3>2, <3>5
    <2> QED
      BY <2>1, <2>2, <2>3
  <1>8. 0 \in 0 .. n - 1
    BY <1>1
  <1> QED
    BY <1>5, <1>6, <1>7, <1>8 DEF e, c, n, f, lo, hi

LEMMA BinIs ==
  ASSUME Bins!BinningAssumption, prims \in BoxLists, NEW set, SetOK(set, prims),
         NEW i \in set.ids, NEW d \in Bins!Dims
  PROVE  /\ Bins!bin_unsafe(set, i, d) = BinOf(prims, set, i, d)
         /\ Bins!bin(set, i, d) = BinOf(prims, set, i, d)
  <1>1. Bins!bin_unsafe(set, i, d) = BinOf(prims, set, i, d)
    <2>1. i \in DOMAIN prims
      BY DEF SetOK
    <2> QED
      BY <2>1, NodeIs DEF Bins!bin_unsafe, BinOf, Bins!Invalid, Bins!size, Bins!center2
  <1>2. BinOf(prims, set, i, d) \in 0 .. Bins!Num(set) - 1 /\ Bins!Num(set) \in Nat
    BY BinRange, NumIs
  <1> QED
    BY <1>1, <1>2 DEF Bins!bin

(* What a bin, or a side of a plane, holds of the primitives S.             *)
BinType == [bounds : Bins!AABB, count : Nat]

IsEntry(e, ps, S) ==
  /\ e \in BinType
  /\ IsBound(e.bounds, ps, S)
  /\ e.count = Cardinality(S)

LEMMA EntryNone ==
  ASSUME Far \in Nat, NEW ps
  PROVE  IsEntry(Bins!NoBin, ps, {})
  BY BoundEmpty, FS_EmptySet DEF IsEntry, BinType, Bins!NoBin

LEMMA MergeType ==
  ASSUME NEW a \in BinType, NEW b \in BinType
  PROVE  /\ Bins!merge(a, b) \in BinType
         /\ Bins!merge(a, b).bounds = Bins!extend(a.bounds, b.bounds)
         /\ Bins!merge(a, b).count = a.count + b.count
  <1>1. a.bounds \in Bins!AABB /\ b.bounds \in Bins!AABB /\ a.count \in Nat /\ b.count \in Nat
    BY DEF BinType
  <1>2. Bins!extend(a.bounds, b.bounds) \in Bins!AABB
    BY <1>1, ExtendIs
  <1> QED
    BY <1>1, <1>2 DEF Bins!merge, BinType

LEMMA EntryMerge ==
  ASSUME Far \in Nat, NEW ps, NEW S, NEW T, IsFiniteSet(S), IsFiniteSet(T), S \cap T = {},
         Within(ps, S), Within(ps, T), NEW a, NEW b, IsEntry(a, ps, S), IsEntry(b, ps, T)
  PROVE  IsEntry(Bins!merge(a, b), ps, S \union T)
  <1>1. a \in BinType /\ b \in BinType
    BY DEF IsEntry
  <1>2. /\ Bins!merge(a, b) \in BinType
        /\ Bins!merge(a, b).bounds = Bins!extend(a.bounds, b.bounds)
        /\ Bins!merge(a, b).count = a.count + b.count
    BY <1>1, MergeType
  <1>3. IsBound(Bins!extend(a.bounds, b.bounds), ps, S \union T)
    BY BoundExtend DEF IsEntry
  <1>4. Cardinality(S \union T) = Cardinality(S) + Cardinality(T)
    <2>1. Cardinality(S \cap T) = 0
      BY FS_EmptySet
    <2>2. Cardinality(S) \in Nat /\ Cardinality(T) \in Nat
      BY FS_CardinalityType
    <2>3. Cardinality(S \union T) = Cardinality(S) + Cardinality(T) - Cardinality(S \cap T)
      BY FS_Union
    <2> QED
      BY <2>1, <2>2, <2>3
  <1> QED
    BY <1>2, <1>3, <1>4 DEF IsEntry

LEMMA EntryOne ==
  ASSUME Far \in Nat, NEW ps, NEW i, Within(ps, {i})
  PROVE  IsEntry([bounds |-> ps[i], count |-> 1], ps, {i})
  <1>1. IsBound(ps[i], ps, {i}) /\ ps[i] \in Bins!AABB
    BY BoundOne DEF Within
  <1>2. Cardinality({i}) = 1
    BY FS_Singleton
  <1> QED
    BY <1>1, <1>2 DEF IsEntry, BinType

LEMMA EntryUnique ==
  ASSUME Far \in Nat, NEW ps, NEW S, Within(ps, S), NEW a, NEW b, IsEntry(a, ps, S), IsEntry(b, ps, S)
  PROVE  a = b
  <1>1. a.bounds = b.bounds
    BY BoundUnique DEF IsEntry
  <1> QED
    BY <1>1 DEF IsEntry, BinType

(* The bins of the primitives T, in a node with the given bounds.           *)
InBin(ps, set, T, d, b) == {i \in T : BinOf(ps, set, i, d) = b}

Positions == 0 .. BINS - 1

BinTable == [Bins!Dims -> [Positions -> BinType]]

IsBins(B, ps, set, T) ==
  /\ B \in BinTable
  /\ \A d \in Bins!Dims : \A b \in Positions : IsEntry(B[d][b], ps, InBin(ps, set, T, d, b))

LEMMA BinsCleared ==
  ASSUME Far \in Nat, NEW ps, NEW set
  PROVE  IsBins(Bins!Cleared, ps, set, {})
  <1>1. \A d \in Bins!Dims : \A b \in Positions :
          Bins!Cleared[d][b] = Bins!NoBin /\ InBin(ps, set, {}, d, b) = {}
    BY DEF Bins!Cleared, Positions, InBin
  <1>2. IsEntry(Bins!NoBin, ps, {})
    BY EntryNone
  <1>3. Bins!Cleared \in BinTable
    BY <1>2 DEF IsEntry, Bins!Cleared, BinTable, Positions
  <1> QED
    BY <1>1, <1>2, <1>3 DEF IsBins

(* One more primitive.                                                      *)
AddOne(ps, set, v, i) ==
  [d \in Bins!Dims |->
     [b \in Positions |-> IF b = BinOf(ps, set, i, d)
                          THEN Bins!merge(v[d][b], [bounds |-> ps[i], count |-> 1])
                          ELSE v[d][b]]]

LEMMA AddOneType ==
  ASSUME NEW ps, NEW set, NEW v \in BinTable, NEW i, ps[i] \in Bins!AABB
  PROVE  AddOne(ps, set, v, i) \in BinTable
  <1> DEFINE e == [bounds |-> ps[i], count |-> 1]
  <1>1. e \in BinType
    BY DEF BinType
  <1>2. \A d \in Bins!Dims, b \in Positions : v[d][b] \in BinType
    BY DEF BinTable
  <1> HIDE DEF e
  <1>3. \A d \in Bins!Dims, b \in Positions : Bins!merge(v[d][b], e) \in BinType
    BY <1>1, <1>2, MergeType
  <1> QED
    BY <1>2, <1>3 DEF AddOne, BinTable, e

LEMMA AddOneIs ==
  ASSUME Bins!BinningAssumption, NEW ps \in BoxLists, NEW set, SetOK(set, ps),
         NEW T \in SUBSET set.ids, NEW i \in set.ids \ T, NEW v, IsBins(v, ps, set, T)
  PROVE  IsBins(AddOne(ps, set, v, i), ps, set, T \union {i})
  <1>1. /\ Far \in Nat /\ IsFiniteSet(set.ids) /\ set.ids \subseteq DOMAIN ps
        /\ Within(ps, DOMAIN ps)
    BY NodeIs, NumIs DEF SetOK
  <1>2. v \in BinTable /\ ps[i] \in Bins!AABB
    BY <1>1 DEF IsBins, Within
  <1>3. AddOne(ps, set, v, i) \in BinTable
    BY <1>2, AddOneType
  <1>4. ASSUME NEW d \in Bins!Dims, NEW b \in Positions
        PROVE  IsEntry(AddOne(ps, set, v, i)[d][b], ps, InBin(ps, set, T \union {i}, d, b))
    <2> DEFINE e == [bounds |-> ps[i], count |-> 1]
               U == InBin(ps, set, T, d, b)
    <2>1. IsEntry(v[d][b], ps, U)
      BY DEF IsBins
    <2>2. CASE b = BinOf(ps, set, i, d)
      <3>1. AddOne(ps, set, v, i)[d][b] = Bins!merge(v[d][b], e)
        BY <2>2 DEF AddOne
      <3>2. InBin(ps, set, T \union {i}, d, b) = U \union {i}
        BY <2>2 DEF InBin
      <3>3. U \cap {i} = {} /\ U \subseteq set.ids
        BY DEF InBin
      <3>4. IsFiniteSet(U) /\ Within(ps, U) /\ Within(ps, {i}) /\ IsFiniteSet({i})
        <4>1. IsFiniteSet(U)
          BY <1>1, <3>3, FS_Subset
        <4>2. IsFiniteSet({i})
          BY FS_Singleton
        <4> HIDE DEF U
        <4> QED
          BY <1>1, <3>3, <4>1, <4>2 DEF Within
      <3>5. IsEntry(e, ps, {i})
        BY <1>1, <3>4, EntryOne
      <3> HIDE DEF e, U
      <3>6. IsEntry(Bins!merge(v[d][b], e), ps, U \union {i})
        BY <1>1, <2>1, <3>3, <3>4, <3>5, EntryMerge
      <3> QED
        BY <3>1, <3>2, <3>6
    <2>3. CASE b # BinOf(ps, set, i, d)
      <3>1. AddOne(ps, set, v, i)[d][b] = v[d][b]
        BY <2>3 DEF AddOne
      <3>2. InBin(ps, set, T \union {i}, d, b) = U
        BY <2>3 DEF InBin
      <3> QED
        BY <2>1, <3>1, <3>2
    <2> QED
      BY <2>2, <2>3
  <1> QED
    BY <1>3, <1>4 DEF IsBins

(* What a task computes from its primitives S.                              *)
IsBinsFold(k, set, S) ==
  k = [s \in SUBSET S |->
         IF s = {} THEN Bins!Cleared
         ELSE [d \in Bins!Dims |->
                 [k[s \ {Pick(s)}][d] EXCEPT ![Bins!bin(set, Pick(s), d)] =
                    Bins!merge(@, [bounds |-> prims[Pick(s)], count |-> 1])]]]

(* The assignment to one bin of a table.                                    *)
LEMMA AddOneMeans ==
  ASSUME Bins!BinningAssumption, prims \in BoxLists, NEW set, SetOK(set, prims),
         NEW i \in set.ids, NEW v \in BinTable
  PROVE  [d \in Bins!Dims |->
            [v[d] EXCEPT ![Bins!bin(set, i, d)] =
               Bins!merge(@, [bounds |-> prims[i], count |-> 1])]]
         = AddOne(prims, set, v, i)
  <1> DEFINE e == [bounds |-> prims[i], count |-> 1]
  <1>1. \A d \in Bins!Dims : Bins!bin(set, i, d) = BinOf(prims, set, i, d)
    BY BinIs
  <1>2. \A d \in Bins!Dims : v[d] \in [Positions -> BinType]
    BY DEF BinTable
  <1> HIDE DEF e
  <1>3. ASSUME NEW d \in Bins!Dims
        PROVE  [v[d] EXCEPT ![Bins!bin(set, i, d)] = Bins!merge(@, e)]
               = [b \in Positions |-> IF b = BinOf(prims, set, i, d) THEN Bins!merge(v[d][b], e)
                                      ELSE v[d][b]]
    BY <1>1, <1>2
  <1> QED
    BY <1>3 DEF AddOne, e

LEMMA BinsOfIs ==
  ASSUME Bins!BinningAssumption, prims \in BoxLists, NEW set, SetOK(set, prims),
         NEW S \in SUBSET set.ids
  PROVE  IsBins(Bins!BinsOf(set, S), prims, set, S)
  <1> DEFINE V == BinTable
             g == [x \in S |-> [v \in V |-> AddOne(prims, set, v, x)]]
             R == {p \in (SUBSET S) \X V : IsBins(p[2], prims, set, p[1])}
             F(k) == IsBinsFold(k, set, S)
  <1>1. /\ IsFiniteSet(S) /\ Far \in Nat
        /\ \A x \in S : x \in set.ids /\ prims[x] \in Bins!AABB
    <2>1. Far \in Nat /\ IsFiniteSet(set.ids) /\ set.ids \subseteq DOMAIN prims /\ Within(prims, DOMAIN prims)
      BY NodeIs, NumIs DEF SetOK
    <2> QED
      BY <2>1, FS_Subset DEF Within
  <1>2. Bins!BinsOf(set, S) = (CHOOSE k : F(k))[S]
    BY DEF Bins!BinsOf, Bins!FoldSet, Bins!MapThenFoldSet, IsBinsFold, Pick
  <1>3. \A x \in S : \A v \in V : g[x][v] = AddOne(prims, set, v, x)
    OBVIOUS
  <1>4. g \in [S -> [V -> V]]
    <2>1. \A x \in S : \A v \in V : AddOne(prims, set, v, x) \in V
      BY <1>1, AddOneType
    <2> HIDE DEF V
    <2> QED
      BY <2>1
  <1>5. Bins!Cleared \in V /\ IsBins(Bins!Cleared, prims, set, {})
    BY <1>1, BinsCleared DEF IsBins
  <1> HIDE DEF g
  <1>6. \E k : F(k)
    <2> HIDE DEF V
    <2>1. PICK h \in [SUBSET S -> V] : IsFold(h, Bins!Cleared, g, S)
      BY <1>1, <1>4, <1>5, FoldExists
    <2>2. h = [s \in SUBSET S |-> IF s = {} THEN Bins!Cleared ELSE g[Pick(s)][h[s \ {Pick(s)}]]]
      BY <2>1 DEF IsFold
    <2>3. ASSUME NEW s \in SUBSET S, s # {}
          PROVE  g[Pick(s)][h[s \ {Pick(s)}]] =
                 [d \in Bins!Dims |->
                   [h[s \ {Pick(s)}][d] EXCEPT ![Bins!bin(set, Pick(s), d)] =
                      Bins!merge(@, [bounds |-> prims[Pick(s)], count |-> 1])]]
      <3> DEFINE x == Pick(s)
                 v == h[s \ {x}]
      <3>1. x \in S
        BY <2>3 DEF Pick
      <3>2. v \in V
        BY <2>1
      <3> HIDE DEF x, v
      <3>3. g[x][v] = AddOne(prims, set, v, x)
        BY <1>3, <3>1, <3>2
      <3>4. [d \in Bins!Dims |->
               [v[d] EXCEPT ![Bins!bin(set, x, d)] =
                  Bins!merge(@, [bounds |-> prims[x], count |-> 1])]] = AddOne(prims, set, v, x)
        BY <1>1, <3>1, <3>2, AddOneMeans DEF V
      <3> QED
        BY <3>3, <3>4 DEF v, x
    <2>4. IsBinsFold(h, set, S)
      BY <2>2, <2>3 DEF IsBinsFold
    <2> QED
      BY <2>4
  <1>7. ASSUME NEW k, F(k)
        PROVE  IsBins(k[S], prims, set, S)
    <2>1. k = [s \in SUBSET S |->
                 IF s = {} THEN Bins!Cleared
                 ELSE [d \in Bins!Dims |->
                        [k[s \ {Pick(s)}][d] EXCEPT ![Bins!bin(set, Pick(s), d)] =
                           Bins!merge(@, [bounds |-> prims[Pick(s)], count |-> 1])]]]
      BY <1>7 DEF IsBinsFold
    <2>2. <<{}, k[{}]>> \in R
      <3>1. k[{}] = Bins!Cleared
        BY <2>1
      <3> HIDE DEF V
      <3> QED
        BY <3>1, <1>5
    <2>3. Keeps(g, S, R)
      <3> SUFFICES ASSUME NEW T \in SUBSET S, NEW x \in S \ T, NEW v, <<T, v>> \in R
                   PROVE  <<T \union {x}, g[x][v]>> \in R
        BY DEF Keeps
      <3>1. v \in V /\ IsBins(v, prims, set, T)
        OBVIOUS
      <3>2. IsBins(AddOne(prims, set, v, x), prims, set, T \union {x})
        BY <3>1, AddOneIs
      <3>3. AddOne(prims, set, v, x) \in V
        BY <3>2 DEF IsBins
      <3> HIDE DEF V
      <3> QED
        BY <1>3, <3>1, <3>2, <3>3
    <2>4. Follows(k, g, S, R)
      <3> SUFFICES ASSUME NEW T \in SUBSET S, T # {}, <<T \ {Pick(T)}, k[T \ {Pick(T)}]>> \in R
                   PROVE  k[T] = g[Pick(T)][k[T \ {Pick(T)}]]
        BY DEF Follows
      <3> DEFINE x == Pick(T)
                 v == k[T \ {x}]
      <3>1. x \in S /\ v \in V
        BY DEF Pick
      <3>2. k[T] = [d \in Bins!Dims |->
                      [v[d] EXCEPT ![Bins!bin(set, x, d)] =
                         Bins!merge(@, [bounds |-> prims[x], count |-> 1])]]
        BY <2>1
      <3> HIDE DEF x, v
      <3>3. [d \in Bins!Dims |->
               [v[d] EXCEPT ![Bins!bin(set, x, d)] =
                  Bins!merge(@, [bounds |-> prims[x], count |-> 1])]] = AddOne(prims, set, v, x)
        BY <1>1, <3>1, AddOneMeans DEF V
      <3>4. g[x][v] = AddOne(prims, set, v, x)
        BY <1>3, <3>1
      <3> QED
        BY <3>2, <3>3, <3>4 DEF v, x
    <2>5. \A p \in R : IsBins(p[2], prims, set, p[1])
      OBVIOUS
    <2> HIDE DEF R
    <2>6. <<S, k[S]>> \in R
      BY <1>1, <2>2, <2>3, <2>4, FoldInduction
    <2> QED
      BY <2>5, <2>6
  <1> HIDE DEF F
  <1>8. F(CHOOSE k : F(k))
    BY <1>6
  <1> QED
    BY <1>2, <1>7, <1>8

(* The bins of two tasks are merged: the others are empty.                  *)
LEMMA MergeBinsIs ==
  ASSUME Bins!BinningAssumption, NEW ps \in BoxLists, NEW set, SetOK(set, ps),
         NEW S \in SUBSET set.ids, NEW T \in SUBSET set.ids, S \cap T = {},
         NEW x, NEW y, IsBins(x, ps, set, S), IsBins(y, ps, set, T)
  PROVE  IsBins(Bins!MergeBins(set, x, y), ps, set, S \union T)
  <1> DEFINE M == Bins!MergeBins(set, x, y)
  <1>1. /\ Far \in Nat /\ IsFiniteSet(set.ids) /\ set.ids \subseteq DOMAIN ps
        /\ Within(ps, DOMAIN ps) /\ Bins!Num(set) \in Nat /\ BINS \in Nat
    BY NodeIs, NumIs DEF SetOK
  <1>2. x \in BinTable /\ y \in BinTable
    BY DEF IsBins
  <1>3. ASSUME NEW d \in Bins!Dims, NEW b \in Positions
        PROVE  M[d][b] = IF b < Bins!Num(set) THEN Bins!merge(x[d][b], y[d][b]) ELSE x[d][b]
    BY DEF Bins!MergeBins, Positions
  <1>4. ASSUME NEW d \in Bins!Dims, NEW b \in Positions
        PROVE  IsEntry(M[d][b], ps, InBin(ps, set, S \union T, d, b))
    <2> DEFINE U == InBin(ps, set, S, d, b)
               W == InBin(ps, set, T, d, b)
    <2>1. IsEntry(x[d][b], ps, U) /\ IsEntry(y[d][b], ps, W)
      BY DEF IsBins
    <2>2. InBin(ps, set, S \union T, d, b) = U \union W /\ U \cap W = {}
          /\ U \subseteq set.ids /\ W \subseteq set.ids
      BY DEF InBin
    <2>3. CASE b < Bins!Num(set)
      <3>1. M[d][b] = Bins!merge(x[d][b], y[d][b])
        BY <1>3, <2>3
      <3> HIDE DEF M, U, W
      <3>2. IsFiniteSet(U) /\ IsFiniteSet(W) /\ Within(ps, U) /\ Within(ps, W)
        BY <1>1, <2>2, FS_Subset DEF Within
      <3>3. IsEntry(Bins!merge(x[d][b], y[d][b]), ps, U \union W)
        BY <1>1, <2>1, <2>2, <3>2, EntryMerge
      <3> QED
        BY <2>2, <3>1, <3>3
    <2>4. CASE ~(b < Bins!Num(set))
      <3>1. M[d][b] = x[d][b]
        BY <1>3, <2>4
      <3>2. \A i \in set.ids : BinOf(ps, set, i, d) \in 0 .. Bins!Num(set) - 1
        BY BinRange
      <3>3. \A i \in set.ids : BinOf(ps, set, i, d) # b
        BY <1>1, <2>4, <3>2
      <3>4. W = {}
        BY <3>3 DEF InBin
      <3> QED
        BY <2>1, <2>2, <3>1, <3>4
    <2> QED
      BY <2>3, <2>4
  <1>5. M \in BinTable
    <2>1. \A d \in Bins!Dims : \A b \in Positions : M[d][b] \in BinType
      BY <1>4 DEF IsEntry
    <2>2. M = [d \in Bins!Dims |-> [b \in Positions |-> M[d][b]]]
      BY DEF Bins!MergeBins, Positions
    <2> HIDE DEF M
    <2>3. [d \in Bins!Dims |-> [b \in Positions |-> M[d][b]]] \in BinTable
      BY <2>1 DEF BinTable
    <2> QED
      BY <2>2, <2>3
  <1> HIDE DEF M
  <1> QED
    BY <1>4, <1>5 DEF IsBins, M

(* The bins on one side of a plane, merged.                                 *)
InBins(ps, set, T, d, bs) == {i \in T : BinOf(ps, set, i, d) \in bs}

IsSideFold(k, d, bs) ==
  k = [s \in SUBSET bs |-> IF s = {} THEN Bins!NoBin
                           ELSE Bins!merge(k[s \ {Pick(s)}], binner[d][Pick(s)])]

LEMMA SideIs ==
  ASSUME Bins!BinningAssumption, prims \in BoxLists, NEW set, SetOK(set, prims),
         NEW T \in SUBSET set.ids, IsBins(binner, prims, set, T),
         NEW d \in Bins!Dims, NEW bs \in SUBSET Positions
  PROVE  IsEntry(Bins!Side(d, bs), prims, InBins(prims, set, T, d, bs))
  <1> DEFINE V == BinType
             g == [b \in bs |-> [v \in V |-> Bins!merge(v, binner[d][b])]]
             In(s) == InBins(prims, set, T, d, s)
             R == {p \in (SUBSET bs) \X V : IsEntry(p[2], prims, In(p[1]))}
             F(k) == IsSideFold(k, d, bs)
  <1>1. /\ Far \in Nat /\ IsFiniteSet(T) /\ Within(prims, T) /\ IsFiniteSet(bs)
    <2>1. /\ Far \in Nat /\ IsFiniteSet(set.ids) /\ set.ids \subseteq DOMAIN prims
          /\ Within(prims, DOMAIN prims) /\ BINS \in Nat
      BY NodeIs, NumIs DEF SetOK
    <2>2. IsFiniteSet(Positions)
      <3>1. BINS - 1 \in Int
        BY <2>1
      <3> QED
        BY <3>1, FS_Interval DEF Positions
    <2> QED
      BY <2>1, <2>2, FS_Subset DEF Within
  <1>2. Bins!Side(d, bs) = (CHOOSE k : F(k))[bs]
    BY DEF Bins!Side, Bins!FoldSet, Bins!MapThenFoldSet, IsSideFold, Pick
  <1>3. \A b \in bs : \A v \in V : g[b][v] = Bins!merge(v, binner[d][b])
    OBVIOUS
  <1>4. \A b \in bs : binner[d][b] \in V /\ IsEntry(binner[d][b], prims, InBin(prims, set, T, d, b))
    BY DEF IsBins, BinTable
  <1>5. g \in [bs -> [V -> V]]
    <2>1. \A b \in bs : \A v \in V : Bins!merge(v, binner[d][b]) \in V
      BY <1>4, MergeType
    <2> HIDE DEF V
    <2> QED
      BY <2>1
  <1>6. Bins!NoBin \in V /\ IsEntry(Bins!NoBin, prims, In({}))
    <2>1. In({}) = {}
      BY DEF InBins
    <2> QED
      BY <1>1, <2>1, EntryNone DEF IsEntry
  <1> HIDE DEF g
  <1>7. \E k : F(k)
    <2> HIDE DEF V
    <2>1. PICK h \in [SUBSET bs -> V] : IsFold(h, Bins!NoBin, g, bs)
      BY <1>1, <1>5, <1>6, FoldExists
    <2>2. h = [s \in SUBSET bs |-> IF s = {} THEN Bins!NoBin ELSE g[Pick(s)][h[s \ {Pick(s)}]]]
      BY <2>1 DEF IsFold
    <2>3. ASSUME NEW s \in SUBSET bs, s # {}
          PROVE  g[Pick(s)][h[s \ {Pick(s)}]] = Bins!merge(h[s \ {Pick(s)}], binner[d][Pick(s)])
      <3>1. Pick(s) \in bs
        BY <2>3 DEF Pick
      <3>2. h[s \ {Pick(s)}] \in V
        BY <2>1
      <3> QED
        BY <1>3, <3>1, <3>2
    <2>4. IsSideFold(h, d, bs)
      BY <2>2, <2>3 DEF IsSideFold
    <2> QED
      BY <2>4
  <1>8. ASSUME NEW k, F(k)
        PROVE  IsEntry(k[bs], prims, In(bs))
    <2>1. k = [s \in SUBSET bs |-> IF s = {} THEN Bins!NoBin
                                   ELSE Bins!merge(k[s \ {Pick(s)}], binner[d][Pick(s)])]
      BY <1>8 DEF IsSideFold
    <2>2. <<{}, k[{}]>> \in R
      <3>1. k[{}] = Bins!NoBin
        BY <2>1
      <3> HIDE DEF V, In
      <3> QED
        BY <3>1, <1>6
    <2>3. Keeps(g, bs, R)
      <3> SUFFICES ASSUME NEW s \in SUBSET bs, NEW b \in bs \ s, NEW v, <<s, v>> \in R
                   PROVE  <<s \union {b}, g[b][v]>> \in R
        BY DEF Keeps
      <3>1. v \in V /\ IsEntry(v, prims, In(s))
        OBVIOUS
      <3> DEFINE U == InBin(prims, set, T, d, b)
                 W == In(s)
      <3>2. In(s \union {b}) = W \union U /\ W \cap U = {} /\ W \subseteq T /\ U \subseteq T
        BY DEF InBins, InBin
      <3>3. IsEntry(binner[d][b], prims, U)
        BY <1>4
      <3>4. g[b][v] = Bins!merge(v, binner[d][b])
        BY <1>3, <3>1
      <3>5. IsEntry(v, prims, W)
        BY <3>1
      <3> HIDE DEF U, W
      <3>6. IsFiniteSet(U) /\ IsFiniteSet(W) /\ Within(prims, U) /\ Within(prims, W)
        BY <1>1, <3>2, FS_Subset DEF Within
      <3>7. IsEntry(Bins!merge(v, binner[d][b]), prims, W \union U)
        BY <1>1, <3>2, <3>3, <3>5, <3>6, EntryMerge
      <3>8. g[b][v] \in V
        BY <3>4, <3>7 DEF IsEntry
      <3>9. IsEntry(g[b][v], prims, In(s \union {b}))
        BY <3>2, <3>4, <3>7
      <3> HIDE DEF V, In
      <3> QED
        BY <3>8, <3>9
    <2>4. Follows(k, g, bs, R)
      <3> SUFFICES ASSUME NEW s \in SUBSET bs, s # {}, <<s \ {Pick(s)}, k[s \ {Pick(s)}]>> \in R
                   PROVE  k[s] = g[Pick(s)][k[s \ {Pick(s)}]]
        BY DEF Follows
      <3>1. Pick(s) \in bs /\ k[s \ {Pick(s)}] \in V
        BY DEF Pick
      <3> QED
        BY <1>3, <2>1, <3>1
    <2>5. \A p \in R : IsEntry(p[2], prims, In(p[1]))
      OBVIOUS
    <2> HIDE DEF R, In
    <2>6. <<bs, k[bs]>> \in R
      BY <1>1, <2>2, <2>3, <2>4, FoldInduction
    <2> QED
      BY <2>5, <2>6
  <1> HIDE DEF F
  <1>9. F(CHOOSE k : F(k))
    BY <1>7
  <1> QED
    BY <1>2, <1>8, <1>9

(* The primitives before a plane.                                           *)
Before(ps, set, p) == {i \in set.ids : BinOf(ps, set, i, p.dim) < p.pos}

AllPlanes(set) == [dim : Bins!Dims, pos : 1 .. Bins!Num(set) - 1]

(* Both sides of a plane are what their bins say.                           *)
LEMMA SidesAre ==
  ASSUME Bins!BinningAssumption, prims \in BoxLists, NEW set, SetOK(set, prims),
         IsBins(binner, prims, set, set.ids), NEW p \in AllPlanes(set)
  PROVE  /\ IsEntry(Bins!Left(p), prims, Before(prims, set, p))
         /\ IsEntry(Bins!Right(set, p), prims, set.ids \ Before(prims, set, p))
  <1> DEFINE n == Bins!Num(set)
             bs == 0 .. p.pos - 1
             cs == p.pos .. n - 1
  <1>1. n \in Nat /\ n <= BINS /\ BINS \in Nat /\ p.dim \in Bins!Dims /\ p.pos \in 1 .. n - 1
    BY NumIs, NodeIs DEF AllPlanes
  <1>2. \A i \in set.ids : BinOf(prims, set, i, p.dim) \in 0 .. n - 1
    BY <1>1, BinRange
  <1> HIDE DEF n
  <1>3. bs \in SUBSET Positions /\ cs \in SUBSET Positions
    BY <1>1 DEF Positions
  <1>4. InBins(prims, set, set.ids, p.dim, bs) = Before(prims, set, p)
    BY <1>1, <1>2 DEF InBins, Before
  <1>5. InBins(prims, set, set.ids, p.dim, cs) = set.ids \ Before(prims, set, p)
    BY <1>1, <1>2 DEF InBins, Before
  <1>6. Bins!Left(p) = Bins!Side(p.dim, bs) /\ Bins!Right(set, p) = Bins!Side(p.dim, cs)
    BY DEF Bins!Left, Bins!Right, n
  <1> HIDE DEF bs, cs
  <1>7. /\ IsEntry(Bins!Side(p.dim, bs), prims, InBins(prims, set, set.ids, p.dim, bs))
        /\ IsEntry(Bins!Side(p.dim, cs), prims, InBins(prims, set, set.ids, p.dim, cs))
    BY <1>1, <1>3, SideIs
  <1> QED
    BY <1>4, <1>5, <1>6, <1>7

(* The cost of primitives.                                                  *)
BoundOf(ps, S) == CHOOSE B : IsBound(B, ps, S)

CostOf(ps, S) == Bins!halfArea(BoundOf(ps, S)) * Bins!blocks(Cardinality(S))

SahOf(ps, set, p) == CostOf(ps, Before(ps, set, p)) + CostOf(ps, set.ids \ Before(ps, set, p))

LEMMA EntryCost ==
  ASSUME Far \in Nat, NEW ps, NEW S, Within(ps, S), NEW e, IsEntry(e, ps, S)
  PROVE  Bins!Cost(e) = CostOf(ps, S)
  <1>1. IsBound(e.bounds, ps, S) /\ e.count = Cardinality(S)
    BY DEF IsEntry
  <1>2. IsBound(BoundOf(ps, S), ps, S)
    BY <1>1 DEF BoundOf
  <1>3. BoundOf(ps, S) = e.bounds
    BY <1>1, <1>2, BoundUnique
  <1> QED
    BY <1>1, <1>3 DEF Bins!Cost, CostOf

LEMMA CostNat ==
  ASSUME Bins!BinningAssumption, Far \in Nat, NEW ps, NEW S, IsFiniteSet(S), S # {}, Within(ps, S),
         NEW e, IsEntry(e, ps, S)
  PROVE  Bins!Cost(e) \in Nat
  <1> DEFINE B == e.bounds
  <1>1. IsBound(B, ps, S) /\ e.count \in Nat /\ B \in Bins!AABB
    BY DEF IsEntry, BinType
  <1>2. ASSUME NEW d \in Bins!Dims PROVE Bins!size(B, d) \in Nat
    <2>1. PICK i \in S : TRUE
      OBVIOUS
    <2>2. B.lower[d] <= ps[i].lower[d] /\ ps[i].upper[d] <= B.upper[d]
      BY <1>1 DEF IsBound
    <2>3. ps[i].lower[d] \in Int /\ ps[i].upper[d] \in Int /\ ps[i].lower[d] <= ps[i].upper[d]
      BY DEF Within, Bins!AABB
    <2>4. B.lower[d] \in Int /\ B.upper[d] \in Int
      BY <1>1 DEF Bins!AABB
    <2> HIDE DEF B
    <2> QED
      BY <2>2, <2>3, <2>4 DEF Bins!size
  <1>3. Bins!size(B, 0) \in Nat /\ Bins!size(B, 1) \in Nat /\ Bins!size(B, 2) \in Nat
    BY <1>2 DEF Bins!Dims
  <1>4. ASSUME NEW x \in Nat, NEW y \in Nat PROVE x * y \in Nat
    OBVIOUS
  <1>5. Bins!halfArea(B) \in Nat
    <2> HIDE DEF B
    <2>1. Bins!size(B, 1) + Bins!size(B, 2) \in Nat
      BY <1>3
    <2>2. /\ Bins!size(B, 0) * (Bins!size(B, 1) + Bins!size(B, 2)) \in Nat
          /\ Bins!size(B, 1) * Bins!size(B, 2) \in Nat
      BY <1>3, <1>4, <2>1
    <2> QED
      BY <2>2 DEF Bins!halfArea
  <1>6. Bins!blocks(e.count) \in Nat
    <2>1. blockSize \in Nat \ {0}
      BY DEF Bins!BinningAssumption
    <2>2. e.count + blockSize - 1 \in Nat
      BY <1>1, <2>1
    <2> QED
      BY <2>1, <2>2, Quotient DEF Bins!blocks
  <1> QED
    BY <1>4, <1>5, <1>6 DEF Bins!Cost

(* The planes that have primitives on both sides.                           *)
Parting(ps, set, p) == Before(ps, set, p) # {} /\ set.ids \ Before(ps, set, p) # {}

LEMMA PlanesAre ==
  ASSUME Bins!BinningAssumption, prims \in BoxLists, NEW set, SetOK(set, prims),
         IsBins(binner, prims, set, set.ids)
  PROVE  /\ \A p : p \in Bins!Planes(set) <=> p \in AllPlanes(set) /\ Parting(prims, set, p)
         /\ \A p \in Bins!Planes(set) :
              Bins!Sah(set, p) = SahOf(prims, set, p) /\ SahOf(prims, set, p) \in Nat
  <1>1. /\ Far \in Nat /\ IsFiniteSet(set.ids) /\ Within(prims, set.ids)
        /\ Bins!Num(set) \in Nat
    BY NodeIs, NumIs DEF SetOK, Within
  <1>2. ASSUME NEW p \in AllPlanes(set)
        PROVE  /\ p \in Bins!Planes(set) <=> Parting(prims, set, p)
               /\ Parting(prims, set, p) =>
                    Bins!Sah(set, p) = SahOf(prims, set, p) /\ SahOf(prims, set, p) \in Nat
    <2> DEFINE L == Before(prims, set, p)
               E == set.ids \ L
               l == Bins!Left(p)
               r == Bins!Right(set, p)
    <2>1. IsEntry(l, prims, L) /\ IsEntry(r, prims, E)
      BY SidesAre
    <2>2. L \subseteq set.ids /\ E \subseteq set.ids
      BY DEF Before
    <2>3. Bins!Invalid(set, p.dim) => E = {}
      <3> SUFFICES ASSUME Bins!Invalid(set, p.dim) PROVE E = {}
        OBVIOUS
      <3>1. set.cent.upper[p.dim] - set.cent.lower[p.dim] = 0
        BY DEF Bins!Invalid, Bins!size
      <3>2. \A i \in set.ids : BinOf(prims, set, i, p.dim) = 0
        BY <3>1 DEF BinOf
      <3>3. p.pos \in 1 .. Bins!Num(set) - 1
        BY DEF AllPlanes
      <3> QED
        BY <1>1, <3>2, <3>3 DEF Before
    <2>4. p \in Bins!Planes(set) <=> ~ Bins!Invalid(set, p.dim) /\ l.count > 0 /\ r.count > 0
      BY DEF Bins!Planes, AllPlanes
    <2>5. Parting(prims, set, p) <=> L # {} /\ E # {}
      BY DEF Parting
    <2>6. Bins!Sah(set, p) = Bins!Cost(l) + Bins!Cost(r) /\ SahOf(prims, set, p) = CostOf(prims, L) + CostOf(prims, E)
      BY DEF Bins!Sah, SahOf
    <2> HIDE DEF L, E, l, r
    <2>7. /\ IsFiniteSet(L) /\ IsFiniteSet(E) /\ Within(prims, L) /\ Within(prims, E)
      BY <1>1, <2>2, FS_Subset DEF Within
    <2>8. l.count = Cardinality(L) /\ r.count = Cardinality(E)
      BY <2>1 DEF IsEntry
    <2>9. /\ Cardinality(L) \in Nat /\ (Cardinality(L) = 0 <=> L = {})
          /\ Cardinality(E) \in Nat /\ (Cardinality(E) = 0 <=> E = {})
      BY <2>7, FS_CardinalityType, FS_EmptySet
    <2>10. p \in Bins!Planes(set) <=> Parting(prims, set, p)
      BY <2>3, <2>4, <2>5, <2>8, <2>9
    <2>11. Bins!Cost(l) = CostOf(prims, L) /\ Bins!Cost(r) = CostOf(prims, E)
      BY <1>1, <2>1, <2>7, EntryCost
    <2>12. L # {} => Bins!Cost(l) \in Nat
      BY <1>1, <2>1, <2>7, CostNat
    <2>13. E # {} => Bins!Cost(r) \in Nat
      BY <1>1, <2>1, <2>7, CostNat
    <2> QED
      BY <2>5, <2>6, <2>10, <2>11, <2>12, <2>13
  <1>3. \A p \in Bins!Planes(set) : p \in AllPlanes(set)
    BY DEF Bins!Planes, AllPlanes
  <1> QED
    BY <1>2, <1>3

(* There is a first among the cheapest planes, and it is chosen.            *)
LEMMA BestExists ==
  ASSUME Bins!BinningAssumption, prims \in BoxLists, NEW set, SetOK(set, prims),
         IsBins(binner, prims, set, set.ids), Bins!Planes(set) # {}
  PROVE  /\ Bins!best_block_size(set) \in Bins!Planes(set)
         /\ \A q \in Bins!Planes(set) :
              SahOf(prims, set, Bins!best_block_size(set)) <= SahOf(prims, set, q)
  <1> DEFINE P == Bins!Planes(set)
             c(p) == Bins!Sah(set, p)
             First(p) == \A q \in P : c(p) < c(q) \/ (c(p) = c(q) /\ Bins!NotAfter(p, q))
  <1>1. ASSUME NEW p \in P
        PROVE  /\ c(p) = SahOf(prims, set, p) /\ c(p) \in Nat
               /\ p.dim \in Nat /\ p.pos \in Nat
    <2>1. c(p) = SahOf(prims, set, p) /\ SahOf(prims, set, p) \in Nat
      BY PlanesAre
    <2>2. p.dim \in Bins!Dims /\ p.pos \in 1 .. Bins!Num(set) - 1
      BY DEF Bins!Planes
    <2>3. Bins!Num(set) \in Nat
      BY NumIs
    <2> HIDE DEF c
    <2> QED
      BY <2>1, <2>2, <2>3 DEF Bins!Dims
  <1>2. Bins!best_block_size(set) = CHOOSE p \in P : First(p)
    BY DEF Bins!best_block_size
  <1>3. P # {}
    OBVIOUS
  <1> HIDE DEF P, c
  <1>4. \E p \in P : First(p)
    <2> DEFINE C == {c(p) : p \in P}
    <2>1. C \subseteq Nat /\ C # {}
      BY <1>1, <1>3
    <2>2. PICK m \in C : \A n \in C : m <= n
      <3> HIDE DEF C
      <3> QED
        BY <2>1, SmallestNat
    <2> DEFINE Q == {p \in P : c(p) = m}
               D == {p.dim : p \in Q}
    <2>3. D \subseteq Nat /\ D # {}
      BY <1>1, <2>2
    <2>4. PICK k \in D : \A n \in D : k <= n
      <3> HIDE DEF D
      <3> QED
        BY <2>3, SmallestNat
    <2> DEFINE N == {p.pos : p \in {x \in Q : x.dim = k}}
    <2>5. N \subseteq Nat /\ N # {}
      BY <1>1, <2>4
    <2>6. PICK l \in N : \A n \in N : l <= n
      <3> HIDE DEF N
      <3> QED
        BY <2>5, SmallestNat
    <2>7. PICK p \in P : c(p) = m /\ p.dim = k /\ p.pos = l
      BY <2>6
    <2>8. ASSUME NEW q \in P
          PROVE  c(p) < c(q) \/ (c(p) = c(q) /\ Bins!NotAfter(p, q))
      <3>1. c(q) \in Nat /\ c(p) \in Nat /\ m <= c(q)
        BY <1>1, <2>2
      <3>2. CASE c(q) = m
        <4>1. q.dim \in Nat /\ k \in Nat /\ k <= q.dim
          BY <1>1, <2>3, <2>4, <3>2
        <4>2. q.dim = k => l <= q.pos
          BY <2>6, <3>2
        <4>3. p.dim < q.dim \/ (p.dim = q.dim /\ p.pos <= q.pos)
          BY <2>7, <4>1, <4>2
        <4> QED
          BY <2>7, <3>2, <4>3 DEF Bins!NotAfter
      <3>3. CASE c(q) # m
        BY <2>7, <3>1, <3>3
      <3> QED
        BY <3>2, <3>3
    <2> QED
      BY <2>8
  <1>5. Bins!best_block_size(set) \in P /\ First(Bins!best_block_size(set))
    <2> HIDE DEF First
    <2> QED
      BY <1>2, <1>4
  <1>6. \A q \in P : c(Bins!best_block_size(set)) <= c(q)
    BY <1>1, <1>5
  <1> QED
    BY <1>1, <1>5, <1>6 DEF P

(* Without a plane, all centres are the same.                               *)
LEMMA NoPlane ==
  ASSUME Bins!BinningAssumption, NEW ps \in BoxLists, NEW set, SetOK(set, ps),
         \A p \in AllPlanes(set) : ~ Parting(ps, set, p),
         NEW i \in set.ids, NEW j \in set.ids, NEW d \in Bins!Dims
  PROVE  CentersOf(ps)[i].lower[d] = CentersOf(ps)[j].lower[d]
  <1> SUFFICES ASSUME CentersOf(ps)[i].lower[d] # CentersOf(ps)[j].lower[d] PROVE FALSE
    OBVIOUS
  <1> DEFINE p == [dim |-> d, pos |-> 1]
  <1>1. PICK a \in set.ids : BinOf(ps, set, a, d) = 0
    BY BinRange
  <1>2. PICK b \in set.ids : BinOf(ps, set, b, d) >= 1
    BY BinRange
  <1>3. BinOf(ps, set, b, d) \in Nat /\ Bins!Num(set) \in Nat /\ 2 <= Bins!Num(set)
    BY BinRange, NumIs
  <1>4. p \in AllPlanes(set)
    BY <1>3 DEF AllPlanes
  <1>5. a \in Before(ps, set, p)
    BY <1>1 DEF Before
  <1>6. b \notin Before(ps, set, p)
    BY <1>2, <1>3 DEF Before
  <1>7. Parting(ps, set, p)
    BY <1>5, <1>6 DEF Parting
  <1> QED
    BY <1>4, <1>7

(* What is true of the plane that was found, or of NoSplit.                 *)
BestOK(ps, set, p) ==
  \/ /\ p = Bins!NoSplit
     /\ \A i, j \in set.ids : \A d \in Bins!Dims :
          CentersOf(ps)[i].lower[d] = CentersOf(ps)[j].lower[d]
  \/ /\ p \in AllPlanes(set) /\ Parting(ps, set, p)
     /\ \A q \in AllPlanes(set) : Parting(ps, set, q) => SahOf(ps, set, p) <= SahOf(ps, set, q)

LEMMA BestIsOK ==
  ASSUME Bins!BinningAssumption, prims \in BoxLists, NEW set, SetOK(set, prims),
         IsBins(binner, prims, set, set.ids)
  PROVE  BestOK(prims, set, Bins!best_block_size(set))
  <1>1. \A p : p \in Bins!Planes(set) <=> p \in AllPlanes(set) /\ Parting(prims, set, p)
    BY PlanesAre
  <1>2. CASE Bins!Planes(set) = {}
    <2>1. Bins!best_block_size(set) = Bins!NoSplit
      BY <1>2 DEF Bins!best_block_size
    <2>2. \A p \in AllPlanes(set) : ~ Parting(prims, set, p)
      BY <1>1, <1>2
    <2>3. \A i, j \in set.ids : \A d \in Bins!Dims :
            CentersOf(prims)[i].lower[d] = CentersOf(prims)[j].lower[d]
      BY <2>2, NoPlane
    <2> QED
      BY <2>1, <2>3 DEF BestOK
  <1>3. CASE Bins!Planes(set) # {}
    <2>1. /\ Bins!best_block_size(set) \in Bins!Planes(set)
          /\ \A q \in Bins!Planes(set) :
               SahOf(prims, set, Bins!best_block_size(set)) <= SahOf(prims, set, q)
      BY <1>3, BestExists
    <2> QED
      BY <1>1, <2>1 DEF BestOK
  <1> QED
    BY <1>2, <1>3

(* The children share the primitives.                                       *)
NodeSets(ps) == [ids : SUBSET DOMAIN ps, geom : Bins!AABB, cent : Bins!AABB]

SetsInv(ps, ss) ==
  /\ ps \in BoxLists
  /\ ss \in Seq(NodeSets(ps))
  /\ \A i \in DOMAIN ss : SetOK(ss[i], ps)
  /\ \A i, j \in DOMAIN ss : i # j => ss[i].ids \cap ss[j].ids = {}
  /\ \A x \in DOMAIN ps : \E i \in DOMAIN ss : x \in ss[i].ids

(* The child that is being split.                                           *)
WorkInv(ps, set, ub, B, best) ==
  /\ Cardinality(set.ids) > leafThreshold
  /\ ub \subseteq set.ids
  /\ IsBins(B, ps, set, set.ids \ ub)
  /\ best # Bins!Idle => ub = {} /\ BestOK(ps, set, best)

BinningInv ==
  /\ SetsInv(prims, sets)
  /\ chosen \in 0 .. Len(sets)
  /\ chosen = 0 => bestSplit = Bins!Idle
  /\ chosen # 0 => WorkInv(prims, sets[chosen], unbinned, binner, bestSplit)

LEMMA InfoOK ==
  ASSUME Bins!BinningAssumption, prims \in BoxLists, NEW S \in SUBSET DOMAIN prims, S # {}
  PROVE  /\ SetOK(Bins!Info(S), prims) /\ Bins!Info(S) \in NodeSets(prims)
         /\ Bins!Info(S).ids = S
  <1> DEFINE I == Bins!Info(S)
  <1>1. /\ I = [ids |-> S, geom |-> I.geom, cent |-> I.cent]
        /\ IsBound(I.geom, prims, S)
        /\ IsBound(I.cent, CentersOf(prims), S)
    BY InfoIs
  <1>2. I.geom \in Bins!AABB /\ I.cent \in Bins!AABB
    BY <1>1 DEF IsBound
  <1> HIDE DEF I
  <1>3. I.ids = S
    BY <1>1
  <1> QED
    BY <1>1, <1>2, <1>3 DEF SetOK, NodeSets, I

LEMMA BinningInit ==
  ASSUME Bins!BinningAssumption, Bins!Init
  PROVE  BinningInv
  <1> DEFINE I == Bins!Info(DOMAIN prims)
  <1>1. prims \in BoxLists /\ sets = <<I>> /\ chosen = 0 /\ bestSplit = Bins!Idle
    BY DEF Bins!Init
  <1>2. SetOK(I, prims) /\ I \in NodeSets(prims) /\ I.ids = DOMAIN prims
    BY <1>1, NodeIs, InfoOK
  <1> HIDE DEF I
  <1>3. sets \in Seq(NodeSets(prims)) /\ DOMAIN sets = {1} /\ sets[1] = I /\ Len(sets) = 1
    BY <1>1, <1>2
  <1>4. SetsInv(prims, sets)
    BY <1>1, <1>2, <1>3 DEF SetsInv
  <1> QED
    BY <1>1, <1>3, <1>4 DEF BinningInv

(* A child is replaced by its two parts.                                    *)
LEMMA PartsAreSets ==
  ASSUME Bins!BinningAssumption, SetsInv(prims, sets), chosen \in 1 .. Len(sets),
         NEW L \in SUBSET sets[chosen].ids, L # {}, sets[chosen].ids \ L # {},
         Bins!SplitInto(L, sets[chosen].ids \ L)
  PROVE  BinningInv'
  <1> DEFINE R == sets[chosen].ids \ L
             n == Len(sets)
             A == Bins!Info(L)
             B == Bins!Info(R)
             N == NodeSets(prims)
  <1>1. /\ prims \in BoxLists /\ sets \in Seq(N) /\ n \in Nat /\ DOMAIN sets = 1 .. n
        /\ \A i \in 1 .. n : SetOK(sets[i], prims) /\ sets[i] \in N
    BY DEF SetsInv
  <1>2. /\ sets' = Append([sets EXCEPT ![chosen] = A], B) /\ prims' = prims
        /\ chosen' = 0 /\ bestSplit' = Bins!Idle
    BY DEF Bins!SplitInto
  <1>3. L \in SUBSET DOMAIN prims /\ R \in SUBSET DOMAIN prims
    BY <1>1 DEF SetOK
  <1>4. /\ SetOK(A, prims) /\ A \in N /\ A.ids = L
        /\ SetOK(B, prims) /\ B \in N /\ B.ids = R
    BY <1>1, <1>3, InfoOK
  <1>5. chosen \in 1 .. n
    OBVIOUS
  <1> HIDE DEF N, A, B, n
  <1>6. /\ sets' \in Seq(N) /\ Len(sets') = n + 1 /\ DOMAIN sets' = 1 .. n + 1
        /\ \A i \in 1 .. n : sets'[i] = IF i = chosen THEN A ELSE sets[i]
        /\ sets'[n + 1] = B
    <2> DEFINE t == [sets EXCEPT ![chosen] = A]
    <2>1. t \in Seq(N) /\ Len(t) = n /\ DOMAIN t = 1 .. n
          /\ \A i \in 1 .. n : t[i] = IF i = chosen THEN A ELSE sets[i]
      BY <1>1, <1>4, <1>5 DEF n
    <2>2. sets' = Append(t, B)
      BY <1>2
    <2> HIDE DEF t
    <2> QED
      BY <1>1, <1>4, <2>1, <2>2
  <1>7. ASSUME NEW i \in 1 .. n + 1
        PROVE  /\ SetOK(sets'[i], prims)
               /\ i \in 1 .. n /\ i # chosen => sets'[i] = sets[i]
               /\ i = chosen => sets'[i].ids = L
               /\ i = n + 1 => sets'[i].ids = R
               /\ i \in 1 .. n \/ i = n + 1
    BY <1>1, <1>4, <1>5, <1>6
  <1>8. \A i, j \in 1 .. n : i # j => sets[i].ids \cap sets[j].ids = {}
    BY <1>1 DEF SetsInv
  <1>9. \A x \in DOMAIN prims : \E i \in 1 .. n : x \in sets[i].ids
    BY <1>1 DEF SetsInv
  <1>10. ASSUME NEW i \in 1 .. n + 1, NEW j \in 1 .. n + 1, i # j
         PROVE  sets'[i].ids \cap sets'[j].ids = {}
    BY <1>1, <1>5, <1>7, <1>8, <1>10
  <1>11. ASSUME NEW x \in DOMAIN prims
         PROVE  \E i \in 1 .. n + 1 : x \in sets'[i].ids
    <2>1. PICK i \in 1 .. n : x \in sets[i].ids
      BY <1>9
    <2>2. i \in 1 .. n + 1 /\ n + 1 \in 1 .. n + 1
      BY <1>1
    <2>3. CASE i # chosen
      BY <1>7, <2>1, <2>2, <2>3
    <2>4. CASE i = chosen
      <3>1. x \in L \/ x \in R
        BY <2>1, <2>4
      <3> QED
        BY <1>1, <1>7, <2>2, <2>4, <3>1
    <2> QED
      BY <2>3, <2>4
  <1>12. SetsInv(prims', sets')
    BY <1>1, <1>2, <1>6, <1>7, <1>10, <1>11 DEF SetsInv, N
  <1> QED
    BY <1>1, <1>2, <1>6, <1>12 DEF BinningInv

LEMMA SetAreaNat ==
  ASSUME Bins!BinningAssumption, NEW ps \in BoxLists, NEW set, SetOK(set, ps)
  PROVE  Bins!halfArea(set.geom) \in Nat
  <1>1. IsBound(set.geom, ps, set.ids) /\ set.ids # {} /\ Within(ps, set.ids)
    BY NodeIs DEF SetOK, Within
  <1>2. ASSUME NEW d \in Bins!Dims PROVE Bins!size(set.geom, d) \in Nat
    <2>1. PICK i \in set.ids : TRUE
      BY <1>1
    <2>2. set.geom.lower[d] <= ps[i].lower[d] /\ ps[i].upper[d] <= set.geom.upper[d]
      BY <1>1 DEF IsBound
    <2>3. ps[i].lower[d] \in Int /\ ps[i].upper[d] \in Int /\ ps[i].lower[d] <= ps[i].upper[d]
      BY <1>1 DEF Within, Bins!AABB
    <2>4. set.geom.lower[d] \in Int /\ set.geom.upper[d] \in Int
      BY <1>1 DEF IsBound, Bins!AABB
    <2> QED
      BY <2>2, <2>3, <2>4 DEF Bins!size
  <1> DEFINE x == Bins!size(set.geom, 0)
             y == Bins!size(set.geom, 1)
             z == Bins!size(set.geom, 2)
  <1>3. x \in Nat /\ y \in Nat /\ z \in Nat
    BY <1>2 DEF Bins!Dims
  <1>4. Bins!halfArea(set.geom) = x * (y + z) + y * z
    BY DEF Bins!halfArea
  <1> HIDE DEF x, y, z
  <1>5. ASSUME NEW a \in Nat, NEW b \in Nat PROVE a * b \in Nat
    OBVIOUS
  <1>6. x * (y + z) \in Nat /\ y * z \in Nat
    BY <1>3, <1>5
  <1> QED
    BY <1>4, <1>6

(* The first of the largest is one of the children that can be split.       *)
LEMMA BinningChoose ==
  ASSUME Bins!BinningAssumption, BinningInv, Bins!Choose
  PROVE  BinningInv'
  <1> DEFINE S == Bins!Splittable
             a(i) == Bins!halfArea(sets[i].geom)
             First(i) == \A j \in S : a(i) > a(j) \/ (a(i) = a(j) /\ i <= j)
  <1>1. /\ prims \in BoxLists /\ Len(sets) \in Nat /\ DOMAIN sets = 1 .. Len(sets)
        /\ \A i \in 1 .. Len(sets) : SetOK(sets[i], prims)
    BY DEF BinningInv, SetsInv
  <1>2. S \subseteq 1 .. Len(sets) /\ S # {} /\ IsFiniteSet(S)
    <2>1. S \subseteq 1 .. Len(sets) /\ S # {}
      BY <1>1 DEF Bins!Splittable, Bins!Choose
    <2>2. IsFiniteSet(1 .. Len(sets))
      BY <1>1, FS_Interval
    <2> QED
      BY <2>1, <2>2, FS_Subset
  <1>3. chosen' = CHOOSE i \in S : First(i)
    BY DEF Bins!Choose
  <1>4. \A i \in S : a(i) \in Nat /\ i \in Nat
    BY <1>1, <1>2, SetAreaNat
  <1> HIDE DEF S, a
  <1>5. \E i \in S : First(i)
    <2> DEFINE A == {a(i) : i \in S}
    <2>1. A \subseteq Nat /\ A # {}
      BY <1>2, <1>4
    <2>2. IsFiniteSet(A)
      <3> DEFINE f == [i \in S |-> a(i)]
      <3>1. f \in Surjection(S, A)
        BY DEF Surjection
      <3> QED
        BY <1>2, <3>1, FS_Surjection
    <2>3. PICK m \in A : \A n \in A : n <= m
      <3> HIDE DEF A
      <3> QED
        BY <2>1, <2>2, LargestNat
    <2> DEFINE T == {i \in S : a(i) = m}
    <2>4. T \subseteq Nat /\ T # {}
      BY <1>4, <2>3
    <2>5. PICK i \in T : \A j \in T : i <= j
      <3> HIDE DEF T
      <3> QED
        BY <2>4, SmallestNat
    <2>6. ASSUME NEW j \in S
          PROVE  a(i) > a(j) \/ (a(i) = a(j) /\ i <= j)
      <3>1. a(j) \in Nat /\ m \in Nat /\ a(j) <= m /\ a(i) = m
        BY <1>4, <2>1, <2>3
      <3>2. a(j) = m => i <= j
        BY <2>5
      <3> QED
        BY <3>1, <3>2
    <2> QED
      BY <2>6
  <1>6. chosen' \in S
    <2> HIDE DEF First
    <2> QED
      BY <1>3, <1>5
  <1>7. chosen' \in 1 .. Len(sets) /\ Cardinality(sets[chosen'].ids) > leafThreshold
    BY <1>1, <1>2, <1>6 DEF S, Bins!Splittable, Bins!Cardinality, Cardinality
  <1>8. /\ prims' = prims /\ sets' = sets /\ bestSplit' = Bins!Idle
        /\ unbinned' = sets[chosen'].ids /\ binner' = Bins!Cleared
    BY DEF Bins!Choose, BinningInv
  <1>9. IsBins(Bins!Cleared, prims, sets[chosen'], {})
    BY NodeIs, <1>1, BinsCleared
  <1>10. sets[chosen'].ids \ unbinned' = {}
    BY <1>8
  <1>11. WorkInv(prims, sets[chosen'], unbinned', binner', bestSplit')
    BY <1>7, <1>8, <1>9, <1>10 DEF WorkInv
  <1> QED
    BY <1>1, <1>7, <1>8, <1>11 DEF BinningInv

LEMMA BinningBin ==
  ASSUME Bins!BinningAssumption, BinningInv, Bins!Bin
  PROVE  BinningInv'
  <1> DEFINE set == sets[chosen]
  <1>1. /\ prims \in BoxLists /\ chosen \in 1 .. Len(sets) /\ SetOK(set, prims)
        /\ WorkInv(prims, set, unbinned, binner, bestSplit) /\ SetsInv(prims, sets)
    BY DEF BinningInv, SetsInv, Bins!Bin
  <1>2. /\ prims' = prims /\ sets' = sets /\ chosen' = chosen /\ bestSplit' = bestSplit
    BY DEF Bins!Bin
  <1>3. PICK is \in SUBSET unbinned :
          /\ is # {} /\ unbinned' = unbinned \ is
          /\ binner' = Bins!MergeBins(set, binner, Bins!BinsOf(set, is))
    BY DEF Bins!Bin
  <1> HIDE DEF set
  <1>4. bestSplit = Bins!Idle
    BY <1>1, <1>3 DEF WorkInv
  <1>5. /\ is \in SUBSET set.ids /\ unbinned \subseteq set.ids
        /\ IsBins(binner, prims, set, set.ids \ unbinned)
        /\ set.ids \ unbinned \in SUBSET set.ids
        /\ (set.ids \ unbinned) \cap is = {}
        /\ (set.ids \ unbinned) \union is = set.ids \ unbinned'
    BY <1>1, <1>3 DEF WorkInv
  <1>6. IsBins(Bins!BinsOf(set, is), prims, set, is)
    BY <1>1, <1>5, BinsOfIs
  <1>7. IsBins(binner', prims, set, set.ids \ unbinned')
    <2> DEFINE y == Bins!BinsOf(set, is)
               done == set.ids \ unbinned
    <2>1. IsBins(y, prims, set, is) /\ IsBins(binner, prims, set, done)
          /\ done \in SUBSET set.ids /\ done \cap is = {} /\ is \in SUBSET set.ids
      BY <1>5, <1>6
    <2> HIDE DEF y, done
    <2>2. IsBins(Bins!MergeBins(set, binner, y), prims, set, done \union is)
      BY <1>1, <2>1, MergeBinsIs
    <2> QED
      BY <1>3, <1>5, <2>2 DEF y, done
  <1>8. WorkInv(prims, set, unbinned', binner', bestSplit')
    BY <1>1, <1>2, <1>3, <1>4, <1>7 DEF WorkInv
  <1> QED
    BY <1>1, <1>2, <1>8 DEF BinningInv, set

LEMMA BinningFindBest ==
  ASSUME Bins!BinningAssumption, BinningInv, Bins!FindBest
  PROVE  BinningInv'
  <1> DEFINE set == sets[chosen]
  <1>1. /\ prims \in BoxLists /\ chosen \in 1 .. Len(sets) /\ SetOK(set, prims)
        /\ WorkInv(prims, set, unbinned, binner, bestSplit) /\ SetsInv(prims, sets)
    BY DEF BinningInv, SetsInv, Bins!FindBest
  <1>2. /\ prims' = prims /\ sets' = sets /\ chosen' = chosen
        /\ unbinned' = unbinned /\ binner' = binner /\ unbinned = {}
        /\ bestSplit' = Bins!best_block_size(set)
    BY DEF Bins!FindBest
  <1> HIDE DEF set
  <1>3. set.ids \ unbinned = set.ids
    BY <1>2
  <1>4. IsBins(binner, prims, set, set.ids)
    BY <1>1, <1>3 DEF WorkInv
  <1>5. BestOK(prims, set, bestSplit')
    BY <1>1, <1>2, <1>4, BestIsOK
  <1>6. WorkInv(prims, set, unbinned', binner', bestSplit')
    BY <1>1, <1>2, <1>5 DEF WorkInv
  <1> QED
    BY <1>1, <1>2, <1>6 DEF BinningInv, set

LEMMA BeforeIs ==
  ASSUME Bins!BinningAssumption, prims \in BoxLists, NEW set, SetOK(set, prims),
         NEW p, p.dim \in Bins!Dims
  PROVE  {i \in set.ids : Bins!isLeft(set, p, i)} = Before(prims, set, p)
  <1>1. \A i \in set.ids : Bins!bin_unsafe(set, i, p.dim) = BinOf(prims, set, i, p.dim)
    BY BinIs
  <1> QED
    BY <1>1 DEF Before, Bins!isLeft

LEMMA BinningSplit ==
  ASSUME Bins!BinningAssumption, BinningInv, Bins!split
  PROVE  BinningInv'
  <1> DEFINE set == sets[chosen]
             L == {i \in set.ids : Bins!isLeft(set, bestSplit, i)}
  <1>1. bestSplit # Bins!Idle /\ bestSplit # Bins!NoSplit /\ Bins!SplitInto(L, set.ids \ L)
    BY DEF Bins!split
  <1>2. /\ prims \in BoxLists /\ chosen \in 1 .. Len(sets) /\ SetOK(set, prims)
        /\ WorkInv(prims, set, unbinned, binner, bestSplit) /\ SetsInv(prims, sets)
    BY <1>1 DEF BinningInv, SetsInv
  <1>3. bestSplit \in AllPlanes(set) /\ Parting(prims, set, bestSplit)
    <2> HIDE DEF set
    <2> QED
      BY <1>1, <1>2 DEF WorkInv, BestOK
  <1>4. L = Before(prims, set, bestSplit)
    <2> HIDE DEF set
    <2>1. bestSplit.dim \in Bins!Dims
      BY <1>3 DEF AllPlanes
    <2> QED
      BY <1>2, <2>1, BeforeIs
  <1>5. L \in SUBSET set.ids /\ L # {} /\ set.ids \ L # {}
    BY <1>3, <1>4 DEF Parting
  <1> HIDE DEF L
  <1> QED
    BY <1>1, <1>2, <1>5, PartsAreSets

LEMMA BinningFallback ==
  ASSUME Bins!BinningAssumption, BinningInv, Bins!performFallbackSplit
  PROVE  BinningInv'
  <1> DEFINE ids == sets[chosen].ids
  <1>1. bestSplit = Bins!NoSplit /\ Bins!NoSplit # Bins!Idle
    BY DEF Bins!performFallbackSplit, Bins!NoSplit, Bins!Idle
  <1>2. PICK L \in SUBSET ids :
          /\ 2 * Bins!Cardinality(L) - Bins!Cardinality(ids) \in {-1, 0, 1}
          /\ Bins!SplitInto(L, ids \ L)
    BY DEF Bins!performFallbackSplit
  <1>3. Bins!Cardinality(L) = Cardinality(L) /\ Bins!Cardinality(ids) = Cardinality(ids)
    BY DEF Bins!Cardinality, Cardinality
  <1>4. /\ prims \in BoxLists /\ chosen \in 1 .. Len(sets) /\ SetOK(sets[chosen], prims)
        /\ WorkInv(prims, sets[chosen], unbinned, binner, bestSplit) /\ SetsInv(prims, sets)
    BY <1>1 DEF BinningInv, SetsInv
  <1>5. Cardinality(ids) > leafThreshold /\ leafThreshold \in Nat \ {0}
    BY <1>4, NodeIs DEF WorkInv
  <1>6. IsFiniteSet(ids) /\ Cardinality(ids) \in Nat
    BY <1>4, NumIs
  <1>7. Cardinality(L) \in Nat
    BY <1>6, FS_Subset, FS_CardinalityType
  <1>8. L # {}
    <2> SUFFICES ASSUME L = {} PROVE FALSE
      OBVIOUS
    <2>1. Cardinality(L) = 0
      BY FS_EmptySet
    <2> HIDE DEF ids
    <2> QED
      BY <1>2, <1>3, <1>5, <1>6, <2>1
  <1>9. L # ids
    <2> SUFFICES ASSUME L = ids PROVE FALSE
      OBVIOUS
    <2>1. Cardinality(L) = Cardinality(ids)
      OBVIOUS
    <2> HIDE DEF ids
    <2> QED
      BY <1>2, <1>3, <1>5, <1>6, <2>1
  <1>10. ids \ L # {}
    BY <1>9
  <1> QED
    BY <1>2, <1>4, <1>8, <1>10, PartsAreSets

LEMMA BinningStays ==
  ASSUME BinningInv, UNCHANGED <<prims, sets, chosen, unbinned, binner, bestSplit>>
  PROVE  BinningInv'
  <1>1. /\ prims' = prims /\ sets' = sets /\ chosen' = chosen
        /\ unbinned' = unbinned /\ binner' = binner /\ bestSplit' = bestSplit
    OBVIOUS
  <1> QED
    BY <1>1 DEF BinningInv

(* The bins promise what the partition gives, for a plane of the node.      *)
LEMMA TrueSahIs ==
  ASSUME Bins!BinningAssumption, prims \in BoxLists, NEW set, SetOK(set, prims),
         NEW p \in AllPlanes(set)
  PROVE  /\ Bins!LeftOf(set, p) = Before(prims, set, p)
         /\ Bins!TrueSah(set, p) = SahOf(prims, set, p)
  <1>1. Bins!LeftOf(set, p) = Before(prims, set, p)
    <2>1. p.dim \in Bins!Dims
      BY DEF AllPlanes
    <2> QED
      BY <2>1, BeforeIs DEF Bins!LeftOf
  <1>2. /\ Far \in Nat /\ Within(prims, DOMAIN prims) /\ set.ids \subseteq DOMAIN prims
    BY NodeIs DEF SetOK
  <1>3. ASSUME NEW S \in SUBSET set.ids PROVE Bins!TrueCost(S) = CostOf(prims, S)
    <2>1. S \in SUBSET DOMAIN prims /\ Within(prims, S)
      BY <1>2 DEF Within
    <2>2. IsBound(Bins!Info(S).geom, prims, S)
      BY <2>1, InfoIs
    <2>3. IsBound(BoundOf(prims, S), prims, S)
      BY <2>2 DEF BoundOf
    <2>4. BoundOf(prims, S) = Bins!Info(S).geom
      BY <1>2, <2>1, <2>2, <2>3, BoundUnique
    <2>5. Bins!Cardinality(S) = Cardinality(S)
      BY DEF Bins!Cardinality, Cardinality
    <2> QED
      BY <2>4, <2>5 DEF Bins!TrueCost, CostOf
  <1>4. Before(prims, set, p) \in SUBSET set.ids
    BY DEF Before
  <1>5. /\ Bins!TrueCost(Before(prims, set, p)) = CostOf(prims, Before(prims, set, p))
        /\ Bins!TrueCost(set.ids \ Before(prims, set, p))
           = CostOf(prims, set.ids \ Before(prims, set, p))
    BY <1>3, <1>4
  <1> QED
    BY <1>1, <1>5 DEF Bins!TrueSah, SahOf

LEMMA EntryIsInfo ==
  ASSUME Bins!BinningAssumption, prims \in BoxLists, NEW S \in SUBSET DOMAIN prims,
         NEW e, IsEntry(e, prims, S)
  PROVE  e = [bounds |-> Bins!Info(S).geom, count |-> Bins!Cardinality(S)]
  <1>1. Far \in Nat /\ Within(prims, S)
    BY NodeIs DEF Within
  <1>2. IsBound(Bins!Info(S).geom, prims, S)
    BY InfoIs
  <1>3. e.bounds = Bins!Info(S).geom
    BY <1>1, <1>2, BoundUnique DEF IsEntry
  <1>4. Bins!Cardinality(S) = Cardinality(S)
    BY DEF Bins!Cardinality, Cardinality
  <1> QED
    BY <1>3, <1>4 DEF IsEntry, BinType

LEMMA BinningInvSound ==
  ASSUME Bins!BinningAssumption, BinningInv
  PROVE  Bins!SplitSound
  <1> DEFINE set == sets[chosen]
  <1>1. /\ prims \in BoxLists /\ sets \in Seq(NodeSets(prims)) /\ SetsInv(prims, sets)
        /\ \A i \in DOMAIN sets : SetOK(sets[i], prims)
    BY DEF BinningInv, SetsInv
  <1>2. ASSUME chosen # 0
        PROVE  /\ SetOK(set, prims)
               /\ WorkInv(prims, set, unbinned, binner, bestSplit)
    BY <1>1, <1>2 DEF BinningInv
  <1>3. ASSUME bestSplit # Bins!Idle
        PROVE  /\ SetOK(set, prims) /\ BestOK(prims, set, bestSplit)
               /\ IsBins(binner, prims, set, set.ids)
    <2>1. chosen # 0
      BY <1>3 DEF BinningInv
    <2> HIDE DEF set
    <2>2. unbinned = {} /\ BestOK(prims, set, bestSplit)
      BY <1>2, <1>3, <2>1 DEF WorkInv
    <2>3. set.ids \ unbinned = set.ids
      BY <2>2
    <2> QED
      BY <1>2, <2>1, <2>2, <2>3 DEF WorkInv
  <1>4. ASSUME bestSplit # Bins!Idle, bestSplit # Bins!NoSplit
        PROVE  LET left == Bins!LeftOf(set, bestSplit)
               IN /\ left # {} /\ left # set.ids
                  /\ Bins!Left(bestSplit) =
                       [bounds |-> Bins!Info(left).geom, count |-> Bins!Cardinality(left)]
                  /\ Bins!Right(set, bestSplit).bounds = Bins!Info(set.ids \ left).geom
                  /\ \A d \in Bins!Dims, pos \in 1 .. Bins!Num(set) - 1 :
                       LET p == [dim |-> d, pos |-> pos]
                       IN Bins!LeftOf(set, p) \notin {{}, set.ids} =>
                            Bins!TrueSah(set, bestSplit) <= Bins!TrueSah(set, p)
    <2> HIDE DEF set
    <2>1. /\ SetOK(set, prims) /\ IsBins(binner, prims, set, set.ids)
          /\ bestSplit \in AllPlanes(set) /\ Parting(prims, set, bestSplit)
          /\ \A q \in AllPlanes(set) : Parting(prims, set, q) =>
               SahOf(prims, set, bestSplit) <= SahOf(prims, set, q)
      BY <1>3, <1>4 DEF BestOK
    <2> DEFINE left == Bins!LeftOf(set, bestSplit)
               right == set.ids \ left
    <2>2. left = Before(prims, set, bestSplit)
          /\ Bins!TrueSah(set, bestSplit) = SahOf(prims, set, bestSplit)
      BY <1>1, <2>1, TrueSahIs
    <2>3. left \in SUBSET set.ids /\ set.ids \subseteq DOMAIN prims
      BY <2>1, <2>2 DEF Before, SetOK
    <2>4. left # {} /\ left # set.ids
      BY <2>1, <2>2 DEF Parting
    <2>5. IsEntry(Bins!Left(bestSplit), prims, left) /\ IsEntry(Bins!Right(set, bestSplit), prims, right)
      BY <1>1, <2>1, <2>2, SidesAre
    <2>6. ASSUME NEW d \in Bins!Dims, NEW pos \in 1 .. Bins!Num(set) - 1
          PROVE  LET p == [dim |-> d, pos |-> pos]
                 IN Bins!LeftOf(set, p) \notin {{}, set.ids} =>
                      Bins!TrueSah(set, bestSplit) <= Bins!TrueSah(set, p)
      <3> DEFINE p == [dim |-> d, pos |-> pos]
      <3>1. p \in AllPlanes(set)
        BY DEF AllPlanes
      <3> HIDE DEF p
      <3>2. Bins!LeftOf(set, p) = Before(prims, set, p) /\ Bins!TrueSah(set, p) = SahOf(prims, set, p)
        BY <1>1, <2>1, <3>1, TrueSahIs
      <3>3. Before(prims, set, p) \subseteq set.ids
        BY DEF Before
      <3>4. Before(prims, set, p) \notin {{}, set.ids} => Parting(prims, set, p)
        BY <3>3 DEF Parting
      <3>5. Bins!LeftOf(set, p) \notin {{}, set.ids} =>
              Bins!TrueSah(set, bestSplit) <= Bins!TrueSah(set, p)
        BY <2>1, <2>2, <3>1, <3>2, <3>4
      <3> QED
        BY <3>5 DEF p
    <2> HIDE DEF left
    <2>7. /\ Bins!Left(bestSplit) =
               [bounds |-> Bins!Info(left).geom, count |-> Bins!Cardinality(left)]
          /\ Bins!Right(set, bestSplit).bounds = Bins!Info(right).geom
      <3>1. left \in SUBSET DOMAIN prims /\ right \in SUBSET DOMAIN prims
        BY <2>3
      <3> HIDE DEF right
      <3>2. Bins!Right(set, bestSplit) =
              [bounds |-> Bins!Info(right).geom, count |-> Bins!Cardinality(right)]
        BY <1>1, <2>5, <3>1, EntryIsInfo
      <3> QED
        BY <1>1, <2>5, <3>1, <3>2, EntryIsInfo
    <2> QED
      BY <2>4, <2>6, <2>7 DEF left
  <1>5. ASSUME bestSplit = Bins!NoSplit
        PROVE  \A i, j \in set.ids : Bins!center2(prims[i]) = Bins!center2(prims[j])
    <2> HIDE DEF set
    <2>1. bestSplit # Bins!Idle
      BY <1>5 DEF Bins!NoSplit, Bins!Idle
    <2>2. set.ids \subseteq DOMAIN prims
      BY <1>3, <2>1 DEF SetOK
    <2>3. bestSplit \notin AllPlanes(set)
      BY <1>5 DEF AllPlanes, Bins!NoSplit, Bins!Dims
    <2>4. \A i, j \in set.ids : \A d \in Bins!Dims :
            CentersOf(prims)[i].lower[d] = CentersOf(prims)[j].lower[d]
      BY <1>3, <2>1, <2>3 DEF BestOK
    <2>5. \A i \in set.ids : \A d \in Bins!Dims :
            CentersOf(prims)[i].lower[d] = Bins!center2(prims[i])[d]
      BY <1>1, <2>2, NodeIs DEF Bins!center2
    <2> QED
      BY <2>4, <2>5 DEF Bins!center2
  <1>6. ASSUME chosen # 0
        PROVE  \A i \in set.ids, d \in Bins!Dims : Bins!bin(set, i, d) = Bins!bin_unsafe(set, i, d)
    <2> HIDE DEF set
    <2> QED
      BY <1>1, <1>2, <1>6, BinIs
  <1>7. \A i \in DOMAIN sets :
          /\ sets[i] = Bins!Info(sets[i].ids) /\ sets[i].ids # {}
          /\ \A j \in DOMAIN sets : i # j => sets[i].ids \cap sets[j].ids = {}
    <2>1. \A i \in DOMAIN sets : sets[i] = Bins!Info(sets[i].ids)
      BY <1>1, SetIsInfo
    <2> QED
      BY <1>1, <2>1 DEF SetsInv, SetOK
  <1>8. UNION {sets[i].ids : i \in DOMAIN sets} = DOMAIN prims
    <2>1. \A i \in DOMAIN sets : sets[i].ids \subseteq DOMAIN prims
      BY <1>1 DEF SetOK
    <2>2. \A x \in DOMAIN prims : \E i \in DOMAIN sets : x \in sets[i].ids
      BY <1>1 DEF SetsInv
    <2> QED
      BY <2>1, <2>2
  <1> QED
    BY <1>4, <1>5, <1>6, <1>7, <1>8 DEF Bins!SplitSound

------------------------------------------------------------------------------
(* The parts together.                                                      *)
Parts == <<subject, vars, ofShape, ofRetry, ofBinning>>

TreesInv ==
  /\ BytesInv
  /\ subject = "retry" => RetryInv
  /\ subject = "shape" => ShapeInv
  /\ subject = "binning" => BinningInv

LEMMA TreesInit == InitOfAny => TreesInv
  <1> SUFFICES ASSUME InitOfAny PROVE TreesInv
    OBVIOUS
  <1>1. BytesInv
    <2>1. CASE Init
      BY <2>1, BytesInit, SizesAssumption
    <2>2. CASE UnusedBytes
      BY <2>2, BytesInit, SizesAssumption DEF UnusedBytes
    <2> QED
      BY <2>1, <2>2 DEF InitOfAny
  <1>2. ASSUME subject = "retry" PROVE RetryInv
    BY <1>2, RetryInit, SizesAssumption DEF InitOfAny
  <1>3. ASSUME subject = "shape" PROVE ShapeInv
    BY <1>3, ShapeInit, SizesAssumption DEF InitOfAny
  <1>4. ASSUME subject = "binning" PROVE BinningInv
    BY <1>4, BinningInit, SizesAssumption DEF InitOfAny
  <1> QED
    BY <1>1, <1>2, <1>3, <1>4 DEF TreesInv

LEMMA TreesStep == TreesInv /\ [NextOfAny]_Parts => TreesInv'
  <1> SUFFICES ASSUME TreesInv, [NextOfAny]_Parts PROVE TreesInv'
    OBVIOUS
  <1>1. subject' = subject
    BY DEF NextOfAny, Parts, Shape, Allocation, GetBuildProperties, Build, Choose, Bin, FindBest,
           SplitAtPlane, SplitInMiddle, Ended, InShape, InBytes, InRetry, InBinning
  <1>2. CASE UNCHANGED vars
    <2>1. BytesInv'
      BY <1>2, BytesStep DEF TreesInv
    <2>2. ASSUME subject = "retry" PROVE RetryInv'
      <3>1. CASE GetBuildProperties \/ Build
        BY <2>2, <3>1, RetryStep, SizesAssumption DEF TreesInv, GetBuildProperties, Build
      <3>2. CASE UNCHANGED ofRetry
        BY <2>2, <3>2 DEF TreesInv, RetryInv, ofRetry
      <3> QED
        BY <2>2, <3>1, <3>2
        DEF NextOfAny, Parts, Shape, Allocation, Choose, Bin, FindBest,
            SplitAtPlane, SplitInMiddle, Ended, InShape, InBytes, InBinning
    <2>3. ASSUME subject = "shape" PROVE ShapeInv'
      <3>1. CASE Shape
        <4>1. ShapeInv
          BY <2>3 DEF TreesInv
        <4> QED
          BY <3>1, <4>1, SizesAssumption, ShapeEnterInternal, ShapeSplitTypes, ShapeSplitSAH,
             ShapeRecurse, ShapeEnterLarge, ShapeSplitLarge, ShapeEnterFat, ShapeSplitFat DEF Shape
      <3>2. CASE UNCHANGED ofShape
        BY <2>3, <3>2, ShapeStays DEF TreesInv, ofShape
      <3> QED
        BY <2>3, <3>1, <3>2
        DEF NextOfAny, Parts, Allocation, GetBuildProperties, Build, Choose, Bin, FindBest,
            SplitAtPlane, SplitInMiddle, Ended, InBytes, InRetry, InBinning
    <2>4. ASSUME subject = "binning" PROVE BinningInv'
      <3>1. CASE Choose \/ Bin \/ FindBest \/ SplitAtPlane \/ SplitInMiddle
        <4>1. BinningInv /\ Bins!BinningAssumption
          BY <2>4, SizesAssumption DEF TreesInv
        <4> QED
          BY <3>1, <4>1, BinningChoose, BinningBin, BinningFindBest, BinningSplit, BinningFallback
          DEF Choose, Bin, FindBest, SplitAtPlane, SplitInMiddle
      <3>2. CASE UNCHANGED ofBinning
        BY <2>4, <3>2, BinningStays DEF TreesInv, ofBinning
      <3> QED
        BY <2>4, <3>1, <3>2
        DEF NextOfAny, Parts, Shape, Allocation, GetBuildProperties, Build, Ended,
            InShape, InBytes, InRetry
    <2> QED
      BY <1>1, <2>1, <2>2, <2>3, <2>4 DEF TreesInv
  <1>3. CASE Allocation
    <2>1. BytesInv'
      BY <1>3, BytesStep DEF TreesInv, Allocation
    <2>2. subject = "bytes"
      BY <1>3 DEF Allocation, InBytes
    <2> QED
      BY <1>1, <2>1, <2>2 DEF TreesInv
  <1> QED
    BY <1>2, <1>3
    DEF NextOfAny, Parts, Shape, GetBuildProperties, Build, Choose, Bin, FindBest,
        SplitAtPlane, SplitInMiddle, Ended, InShape, InRetry, InBinning

(* A build of one type of primitives with the worst-case size never runs    *)
(* out of memory, whatever tree the splits lead to.                         *)
THEOREM NeverOutOfMemory == SpecOfAny => []WorstCaseCovers
  <1>1. TreesInv => WorstCaseCovers
    BY BytesInvCovers DEF TreesInv
  <1> QED BY <1>1, TreesInit, TreesStep, PTL DEF SpecOfAny, Parts

(* A client that gets a buffer of the size that a failed build asks for     *)
(* succeeds before it has tried too often, and the scratch buffer of the    *)
(* promised size is large enough wherever it begins.                        *)
THEOREM RetriesAreEnough == SpecOfAny => []RetriesSuffice
  <1>1. TreesInv => RetriesSuffice
    BY RetryInvSuffices DEF TreesInv, RetriesSuffice
  <1> QED BY <1>1, TreesInit, TreesStep, PTL DEF SpecOfAny, Parts

(* A fat leaf has primitives of one type, not too many, in at most as many  *)
(* children as a node has, each with no more than a block increment counts. *)
THEOREM LeavesAreSound == SpecOfAny => []LeafSound
  <1>1. TreesInv => LeafSound
    BY ShapeInvSound, SizesAssumption DEF TreesInv, LeafSound
  <1> QED BY <1>1, TreesInit, TreesStep, PTL DEF SpecOfAny, Parts

(* No node lies deeper than maxDepth, and only a record that the levels     *)
(* kept for large leaves cannot divide is refused, whatever the SAH does.   *)
THEOREM TreesAreNotTooDeep == SpecOfAny => []DepthSound
  <1>1. TreesInv => DepthSound
    BY ShapeInvSound, SizesAssumption DEF TreesInv, DepthSound
  <1> QED BY <1>1, TreesInit, TreesStep, PTL DEF SpecOfAny, Parts

(* The plane chosen from the merged bins is the cheapest of all planes for  *)
(* the primitives themselves, it parts them as its bins promised, and only  *)
(* primitives with one common centre have none; no primitive is lost.       *)
THEOREM SplitsAreSound == SpecOfAny => []SplitSound
  <1>1. TreesInv => SplitSound
    BY BinningInvSound, SizesAssumption DEF TreesInv, SplitSound
  <1> QED BY <1>1, TreesInit, TreesStep, PTL DEF SpecOfAny, Parts
==============================================================================
