-------------------------------- MODULE Stats --------------------------------
(***************************************************************************)
(* Stats of rtbuild/qbvh6_builder_sah.h: what the builder expects a tree,    *)
(* the worst tree and the scratch memory to take, by the numbers of          *)
(* primitives. The factors 1.1, 1.2 and 1.5 are exact fractions, which       *)
(* agree with the code's doubles for the sizes used.                         *)
(***************************************************************************)
EXTENDS Integers

GeometryTypes == {"TRIANGLE", "QUAD", "PROCEDURAL", "INSTANCE"}

(* Stats: how many primitives of each type.                                 *)
NoStats == [t \in GeometryTypes |-> 0]

StatsSize(s) == s["TRIANGLE"] + s["QUAD"] + s["PROCEDURAL"] + s["INSTANCE"]

EstimateQuadification(s) ==
  [s EXCEPT !["QUAD"] = @ + (s["TRIANGLE"] + 1) \div 2 + s["TRIANGLE"] \div 8,
            !["TRIANGLE"] = 0]

(* Twenty percent more, of everything but procedurals.                      *)
EstimatePresplits(s) ==
  [t \in GeometryTypes |-> IF t = "PROCEDURAL" THEN s[t] ELSE (s[t] * 12) \div 10]

Blocks(s) == (StatsSize(s) + 5) \div 6

(* Ten percent, and two pages for what an allocator may waste.              *)
Waste == 2 * 4096

Padded(b) == ((Waste + (b * 11) \div 10 + 127) \div 128) * 128

ExpectedBvhBytes(s) ==
  Padded(128 + 64 * (1 + (3 * Blocks(s)) \div 2) + 64 * s["TRIANGLE"] + 64 * s["QUAD"]
         + 8 * s["PROCEDURAL"] + 128 * s["INSTANCE"])

MutWorstCaseBvhBytes(s) ==
  Padded(128 + 64 * (1 + Blocks(s)) + 64 * s["TRIANGLE"] + 64 * s["QUAD"]
         + 64 * s["PROCEDURAL"] + 128 * s["INSTANCE"])

WorstCaseBvhBytes(s) ==
  Padded(128 + 64 * (1 + Blocks(s) + StatsSize(s)) + 64 * s["TRIANGLE"] + 64 * s["QUAD"]
         + 64 * s["PROCEDURAL"] + 128 * s["INSTANCE"])

SizeofPrimRef == 32

ScratchSpaceBytes(s) == StatsSize(s) * SizeofPrimRef + 64
==============================================================================
