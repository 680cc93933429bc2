------------------------------ MODULE TreeBytes ------------------------------
(***************************************************************************)
(* The bytes of a tree: what createInternalNode, createLargeLeaf and        *)
(* createFatLeaf (rtbuild/qbvh6_builder_sah.h) ask the allocator for, for    *)
(* every tree that the splits may lead to. Of the records that are still to *)
(* be built it is known how many they are and how many primitives they hold *)
(* together: the next one may have any size that leaves one primitive to    *)
(* each of the others. The order in which they are built does not matter    *)
(* for the sum.                                                             *)
(*                                                                          *)
(* All primitives are of one type, whatever else the scene had before it    *)
(* was filtered; of instances there are no more than the scene has. Neither *)
(* paired triangles nor the pieces of split primitives are more than the    *)
(* primitives of the scene (WithinBudget of Presplit).                      *)
(***************************************************************************)
EXTENDS Stats

CONSTANT Scenes \* Numbers of primitives of each type.

TreeBytesAssumption == Scenes \subseteq [GeometryTypes -> Nat]

VARIABLES
  stats,    \* The numbers of primitives of the scene.
  type,     \* The type of those of which the tree is built.
  total,    \* How many these are.
  records,  \* The records to be built, all of which have a node's slot.
  pending,  \* The primitives in these records.
  slots,    \* The slots that were allocated to the children of nodes.
  leafData  \* The 64-byte blocks that were allocated to leaves.

vars == <<stats, type, total, records, pending, slots, leafData>>

BVH_WIDTH == 6

(* cfg.leafSize, also for records that have not been looked at: a record of *)
(* more than typeSplitSize primitives is not (UNKNOWN), and any other may be *)
(* one that has been.                                                       *)
maxLeafSize(t) == IF t \in {"TRIANGLE", "QUAD"} THEN 9 ELSE 6
maxLeafSizeUnknown == 6

(* The header of 128 bytes and the root are allocated first.                *)
Init ==
  /\ stats \in Scenes
  /\ type \in GeometryTypes
  /\ total \in 0 .. (IF type = "INSTANCE" THEN stats[type] ELSE StatsSize(stats))
  /\ records = IF total = 0 THEN 0 ELSE 1
  /\ pending = total
  /\ slots = 0
  /\ leafData = 0

(* A record of n primitives can be the next one.                            *)
IsNext(n) ==
  /\ records > 0
  /\ n \in 1 .. pending - (records - 1)
  /\ records = 1 => n = pending

(* The blocks of the leaves of n primitives: 64 bytes for a quad, 128 for   *)
(* an instance; procedurals may share a block of 64 bytes.                  *)
LeafBlocks(n) ==
  CASE type = "INSTANCE"   -> {2 * n}
    [] type = "PROCEDURAL" -> 1 .. n
    [] OTHER               -> {n}

Keep == UNCHANGED <<stats, type, total>>

(* createFatLeaf, called through createLargeLeaf: few enough primitives for *)
(* a leaf.                                                                  *)
FatLeaf(n) ==
  /\ IsNext(n) /\ n <= maxLeafSize(type)
  /\ records' = records - 1 /\ pending' = pending - n
  /\ \E b \in LeafBlocks(n) : leafData' = leafData + b
  /\ Keep /\ UNCHANGED slots

(* A node with all its children, by splits of the SAH or in the middle.     *)
FullNode(n) ==
  /\ IsNext(n) /\ n > maxLeafSizeUnknown
  /\ records' = records - 1 + BVH_WIDTH
  /\ slots' = slots + BVH_WIDTH
  /\ Keep /\ UNCHANGED <<pending, leafData>>

(* The splits end early only when every child is small enough for a leaf:   *)
(* a node with its c children and their leaves. It has a single child when  *)
(* the record turns out to be of a type that allows a leaf.                 *)
LastNode(n, c) ==
  /\ IsNext(n) /\ n > maxLeafSizeUnknown /\ n <= c * maxLeafSize(type)
  /\ records' = records - 1 /\ pending' = pending - n
  /\ slots' = slots + c
  /\ \E b \in LeafBlocks(n) : leafData' = leafData + b
  /\ Keep

Next ==
  \E n \in 1 .. pending :
    \/ FatLeaf(n)
    \/ FullNode(n)
    \/ \E c \in 1 .. BVH_WIDTH - 1 : LastNode(n, c)

Spec == Init /\ [][Next]_vars

------------------------------------------------------------------------------
(* bytesAllocated().                                                        *)
Bytes == 128 + 64 + 64 * slots + 64 * leafData

(* Every node has at least five primitives of its own for six slots.        *)
SlotsBounded == 5 * slots <= 6 * (total - pending) + 6 * records

(* A build with worst_case_bvh_bytes never runs out of memory, "the build   *)
(* is guaranteed to not run out of memory" (level_zero/ze_api.h:11498): for *)
(* the last block, cur_new >= end does not hold. The two pages that are     *)
(* added for an allocator of former times are not needed for that.          *)
WorstCaseCovers == Bytes + Waste < WorstCaseBvhBytes(stats)
==============================================================================
