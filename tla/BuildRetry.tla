----------------------------- MODULE BuildRetry -----------------------------
(***************************************************************************)
(* Sizes and retries: estimateSize and build of rtbuild/                    *)
(* qbvh6_builder_sah.h compute from the numbers of primitives how much      *)
(* memory a build takes, and the client loop of testing/rthwif_test.cpp     *)
(* builds with the expected size and again with the size the failed build   *)
(* asks for.                                                                *)
(*                                                                          *)
(* How much memory a build really needs depends on the tree and is left     *)
(* open, but for what the API promises: rtasBufferSizeBytesMaxRequired is   *)
(* enough (level_zero/ze_api.h:11497).                                      *)
(* Definitions named Mut... are faulty versions of the definition that      *)
(* follows them, with which the properties are known to fail.               *)
(***************************************************************************)
EXTENDS Integers, Sequences, Functions, Stats

CONSTANTS
  Scenes,       \* Sequences of geometries, each with its type and number of primitives.
  Misalignments \* By how many bytes the scratch buffer misses 64-byte alignment.

BuildRetryAssumption ==
  /\ Scenes \subseteq Seq([type : GeometryTypes, prims : Nat])
  /\ Misalignments \subseteq 0 .. 63

VARIABLES
  scene,      \* The geometries.
  split,      \* useSpatialSplits: high quality, and duplicates are allowed.
  misaligned, \* The misalignment of the scratch buffer.
  props,      \* The answer of zeRTASBuilderGetBuildProperties.
  bytes,      \* The size of the acceleration structure buffer.
  bytesOut,   \* accelBufferBytesOut.
  tries,      \* The builds so far.
  result      \* "none", "properties", "retry", "success" or "error".

vars == <<scene, split, misaligned, props, bytes, bytesOut, tries, result>>

Prims(sc) == [i \in DOMAIN sc |-> sc[i].prims]

(* The primitives of the first k geometries.                                *)
Total(sc, k) == SumFunctionOnSet(Prims(sc), 1 .. k)

------------------------------------------------------------------------------
(* estimateSize.                                                            *)
PrimsOf(sc, t) == [i \in DOMAIN sc |-> IF sc[i].type = t THEN sc[i].prims ELSE 0]

SceneStats(sc) == [t \in GeometryTypes |-> SumFunction(PrimsOf(sc, t))]

EstimatedStats(sc, sp) == IF sp THEN EstimatePresplits(SceneStats(sc)) ELSE SceneStats(sc)

EstimateSize(sc, sp) ==
  LET stats == EstimatedStats(sc, sp)
  IN [maxRequired |-> WorstCaseBvhBytes(stats),
      scratch     |-> ScratchSpaceBytes(stats),
      expected    |-> ExpectedBvhBytes(EstimateQuadification(stats))]

------------------------------------------------------------------------------
(* build counts differently: to the triangles it adds, for every triangle   *)
(* geometry, all primitives up to there, and it always allows for           *)
(* presplits.                                                               *)
MutBuildStats(sc) == [SceneStats(sc) EXCEPT !["INSTANCE"] = 0]

BuildStats(sc) ==
  [SceneStats(sc) EXCEPT !["TRIANGLE"] =
     SumFunction([i \in DOMAIN sc |-> IF sc[i].type = "TRIANGLE" /\ sc[i].prims > 0
                                     THEN Total(sc, i) ELSE 0])]

BuildWorstCase(sc) == WorstCaseBvhBytes(EstimatePresplits(BuildStats(sc)))

Larger(a, b) == IF a < b THEN b ELSE a
Smaller(a, b) == IF a < b THEN a ELSE b

(* What a build with b bytes asks for, should it fail.                      *)
Hint(b, sc) == Smaller(Larger(b + 64, (b * 12) \div 10), BuildWorstCase(sc))

(* The primitive references lie in the scratch buffer, once it is aligned;  *)
(* the array cannot grow beyond it.                                         *)
Capacity == (props.scratch - misaligned) \div SizeofPrimRef

------------------------------------------------------------------------------
Init ==
  /\ scene \in Scenes
  /\ split \in BOOLEAN
  /\ misaligned \in Misalignments
  /\ props = [maxRequired |-> 0, scratch |-> 0, expected |-> 0]
  /\ bytes = 0
  /\ bytesOut = 0
  /\ tries = 0
  /\ result = "none"

(* zeRTASBuilderGetBuildProperties; the client takes the expected size.     *)
GetBuildProperties ==
  /\ result = "none"
  /\ props' = EstimateSize(scene, split)
  /\ bytes' = props'.expected
  /\ result' = "properties"
  /\ UNCHANGED <<scene, split, misaligned, bytesOut, tries>>

(* The client builds at most 16 times.                                      *)
MaxTries == 16

(* After a build that ran out of memory the client takes the size it asked  *)
(* for.                                                                     *)
BuildBytes == IF result = "retry" THEN bytesOut ELSE bytes

(* A build throws when the primitives do not fit into the scratch buffer    *)
(* (no_allocator); otherwise it may run out of memory if it has less than   *)
(* the promised size.                                                       *)
Outcomes(b) ==
  IF Capacity < Total(scene, Len(scene)) THEN {"error"}
  ELSE {"success"} \union (IF b < props.maxRequired THEN {"retry"} ELSE {})

(* When a build succeeds, the allocator's position is what was used: at     *)
(* least header and root, at most all but one byte of the buffer.           *)
Build ==
  /\ result \in {"properties", "retry"} /\ tries < MaxTries
  /\ tries' = tries + 1
  /\ bytes' = BuildBytes
  /\ result' \in Outcomes(BuildBytes)
  /\ bytesOut' \in IF result' = "success" THEN {128 + 64, BuildBytes - 1}
                   ELSE {Hint(BuildBytes, scene)}
  /\ UNCHANGED <<scene, split, misaligned, props>>

Next == GetBuildProperties \/ Build

Spec == Init /\ [][Next]_vars

------------------------------------------------------------------------------
(* A failed build asks for more than it had, and "build requires more than   *)
(* 16 iterations" (testing/rthwif_test.cpp:1270) is never thrown. This needs *)
(* the build's own worst case, which bounds the answer and is computed from  *)
(* other numbers, to be at least what GetBuildProperties promised.           *)
RetriesSuffice == result = "retry" => bytesOut > bytes /\ tries < MaxTries

(* The scratch size that GetBuildProperties answers is enough for the       *)
(* primitive references, however the client's buffer is aligned.            *)
ScratchSuffices == result # "error"
==============================================================================
