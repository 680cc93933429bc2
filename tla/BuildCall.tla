------------------------------ MODULE BuildCall ------------------------------
(***************************************************************************)
(* The calls on a builder (rtbuild/rtbuild.cpp): create and destroy it,      *)
(* compare formats, ask for the sizes of a build, and build. Arguments are  *)
(* tested one after the other, and the first that fails gives the answer.   *)
(* A build then verifies the descriptions of all geometries in parallel,    *)
(* takes memory for the primitives, reads them, in parallel too, leaving    *)
(* out those that are not valid, and reads the others again for the leaves  *)
(* of the tree. Each of these may throw, and one catch around all of them   *)
(* makes ERROR_UNKNOWN of it.                                               *)
(*                                                                          *)
(* A primitive is the number of its vertex, one standing for all: 0 is a    *)
(* finite vertex, 1 one that is not, larger numbers may lie beyond the      *)
(* vertices. For procedural geometry and instances 0 stands for valid       *)
(* bounds. The parallel operation of a deferred build is ParallelOperation, *)
(* the tree TreeBuild, the pairs Quadifier; the second pass over the        *)
(* primitives (PrimRefGen) reads what the first did. Definitions named      *)
(* Mut... are faulty versions of the definition that follows them.          *)
(***************************************************************************)
EXTENDS Integers, Sequences, SequencesExt, FiniteSetsExt

CONSTANTS
  Scenes,    \* The arrays ppGeometries of the program.
  MaxFaults  \* Bound: how many arguments of a call are wrong.

Kinds == {"null", "TRIANGLES", "QUADS", "PROCEDURAL", "INSTANCE", "other"}

(* The description of a geometry: formats says that the formats, or         *)
(* reserved members, have their values, data and vertices that the pointers *)
(* to primitives (bounds callback, transformation) and to vertices are not  *)
(* null.                                                                    *)
Geometry ==
  [kind : Kinds, formats : BOOLEAN, data : BOOLEAN, prims : Seq(Nat),
   vertexCount : Nat, vertices : BOOLEAN]

BuildCallAssumption ==
  /\ Scenes \subseteq Seq(Geometry) /\ MaxFaults \in Nat
  /\ \A s \in Scenes : \A i \in DOMAIN s : s[i].kind = "INSTANCE" => Len(s[i].prims) = 1

(* The tests of the arguments in their order, with the answers.             *)
NullHandle == "INVALID_NULL_HANDLE"
NullPointer == "INVALID_NULL_POINTER"
Enumeration == "INVALID_ENUMERATION"

Builder == << <<"hBuilder", NullHandle>>, <<"magick", "INVALID_ARGUMENT">> >>

Driver == << <<"hDriver", NullHandle>> >>

Format(name) == << <<name \o " invalid", Enumeration>>, <<name \o " unknown", Enumeration>> >>

(* A descriptor: its pointer, its type, which depends on the API, and the   *)
(* chain, which is followed for 1024 links.                                 *)
Descriptor(name) ==
  << <<name, NullPointer>>, <<name \o " stype", Enumeration>>, <<name \o " pNext", Enumeration>> >>

BuildOp ==
  Descriptor("args") \o Format("rtasFormat") \o
  << <<"ppGeometries", NullPointer>>, <<"numGeometries", Enumeration>>,
     <<"buildQuality", Enumeration>>, <<"buildFlags", Enumeration>> >>

Tests ==
  [Create |-> Driver \o Descriptor("desc") \o
              << <<"builderVersion", Enumeration>>, <<"phBuilder", NullPointer>> >>,
   Destroy |-> Builder,
   FormatCheck |-> Driver \o Format("accelFormat") \o Format("otherAccelFormat"),
   GetBuildProperties |-> Builder \o BuildOp \o Descriptor("pProp"),
   Build |-> Builder \o BuildOp \o
             << <<"pScratchBuffer", NullPointer>>, <<"pRtasBuffer", NullPointer>> >>]

BothApis == {"EXP", "EXT"}

(* What may stop the builder although all geometries are described: memory, *)
(* if the scratch buffer, or the heap, is too small for the arrays that are *)
(* sized with the scene, and depth, if leaves lie deeper than maxDepth.     *)
Limits == {"memory", "depth"}

VARIABLES
  api,      \* Of which API the functions are called.
  builder,  \* A builder exists.
  fn,       \* The call, or "none".
  wrong,    \* The arguments that are wrong.
  scene,    \* args->ppGeometries.
  exceeded, \* Input: the limits that a build goes beyond.
  stage,    \* "verify", "create", "leaves" in a build, "answered".
  finished, \* The tasks of this stage that are done, one for each geometry.
  thrown,   \* A task has thrown an exception.
  tree,     \* The primitives of the build, <<geomID, primID>>.
  reads,    \* History: what the call has read.
  answer    \* The answer, with the API for codes that depend on it.

vars == <<api, builder, fn, wrong, scene, exceeded, stage, finished, thrown, tree, reads, answer>>

Init ==
  /\ api \in BothApis /\ builder = FALSE
  /\ fn = "none" /\ wrong = {} /\ scene = <<>> /\ exceeded = {} /\ stage = "none"
  /\ finished = {} /\ thrown = FALSE /\ tree = {} /\ reads = {} /\ answer = <<"none">>

------------------------------------------------------------------------------
(* VALIDATE: the first test that fails.                                     *)
FirstFailing(f, faults) ==
  {i \in DOMAIN Tests[f] :
     Tests[f][i][1] \in faults /\ \A k \in 1 .. i - 1 : Tests[f][k][1] \notin faults}

(* A geometry of unknown type has no primitives, so that getType, which     *)
(* throws for one, is not called.                                           *)
GetNumPrimitives(g) ==
  IF g.kind \in {"null", "other"} THEN 0 ELSE Len(g.prims)

(* What a call answers, or that it begins to build. GetBuildProperties does *)
(* not catch exceptions.                                                    *)
Begins(f) ==
  CASE f = "GetBuildProperties" ->
         {IF \E i \in DOMAIN scene' : scene'[i].kind = "other" /\ GetNumPrimitives(scene'[i]) > 0
          THEN <<"exception">> ELSE <<"SUCCESS">>}
    [] f = "FormatCheck" -> {<<"SUCCESS">>, <<"OPERANDS_INCOMPATIBLE">>}
    [] f = "Build" -> {<<"none">>}
    [] OTHER -> {<<"SUCCESS">>}

(* A handle is only valid while the builder exists.                         *)
Call(f) ==
  /\ fn = "none"
  /\ fn' = f
  /\ \E faults \in UNION {kSubset(n, {t[1] : t \in ToSet(Tests[f])}) : n \in 0 .. MaxFaults} :
       /\ f \in {"Destroy", "GetBuildProperties", "Build"} /\ ~builder =>
            faults \intersect {"hBuilder", "magick"} # {}
       /\ wrong' = faults
       /\ scene' \in IF faults = {} /\ f \in {"GetBuildProperties", "Build"} THEN Scenes ELSE {<<>>}
       /\ answer' \in IF faults = {} THEN Begins(f)
                      ELSE {<<Tests[f][i][2]>> : i \in FirstFailing(f, faults)}
  /\ stage' = IF answer' = <<"none">> THEN "verify" ELSE "answered"
  /\ exceeded' \in IF stage' = "verify" THEN SUBSET Limits ELSE {{}}
  /\ builder' = IF answer' = <<"SUCCESS">> /\ f \in {"Create", "Destroy"}
                  THEN f = "Create" ELSE builder
  /\ UNCHANGED <<api, finished, thrown, tree, reads>>

(* The program takes the answer.                                            *)
Return ==
  /\ stage = "answered"
  /\ fn' = "none" /\ wrong' = {} /\ scene' = <<>> /\ exceeded' = {} /\ stage' = "none"
  /\ finished' = {} /\ thrown' = FALSE /\ tree' = {} /\ reads' = {} /\ answer' = <<"none">>
  /\ UNCHANGED <<api, builder>>

------------------------------------------------------------------------------
(* zeRTASBuilderBuildBody: verifyGeometryDesc.                              *)
VerifyGeometryDesc(g) ==
  CASE g.kind = "null" -> TRUE
    [] g.kind \in {"TRIANGLES", "QUADS"} ->
         g.formats /\ (g.prims # <<>> => g.data) /\ (g.vertexCount > 0 => g.vertices)
    [] g.kind = "PROCEDURAL" -> g.formats /\ (g.prims # <<>> => g.data)
    [] g.kind = "INSTANCE" -> g.data
    [] OTHER -> FALSE

(* Tasks run in any order; those that run beside one that throws may still  *)
(* be carried out.                                                          *)
Task(s, i) == stage = s /\ i \notin finished /\ finished' = finished \union {i}

Verify(i) ==
  /\ Task("verify", i)
  /\ thrown' = (thrown \/ ~VerifyGeometryDesc(scene[i]))
  /\ UNCHANGED <<api, builder, fn, wrong, scene, exceeded, stage, tree, reads, answer>>

(* All tasks are done. Before it reads primitives the builder aligns the    *)
(* scratch buffer and resizes the arrays of primitives and pairs.           *)
Proceed(from, to) ==
  /\ stage = from /\ ~thrown /\ finished = DOMAIN scene
  /\ from = "verify" => "memory" \notin exceeded
  /\ stage' = to /\ finished' = {}
  /\ UNCHANGED <<api, builder, fn, wrong, scene, exceeded, thrown, tree, reads, answer>>

OutOfMemory ==
  /\ stage = "verify" /\ ~thrown /\ finished = DOMAIN scene
  /\ "memory" \in exceeded
  /\ thrown' = TRUE
  /\ UNCHANGED <<api, builder, fn, wrong, scene, exceeded, stage, finished, tree, reads, answer>>

(* buildBounds, and getTriangle for triangles, test the index and then the  *)
(* vertex; the formats of transformations are found to be wrong by          *)
(* getTransform.                                                            *)
HasVertices(g) == g.kind \in {"TRIANGLES", "QUADS"}

MutVertexInRange(g, v) == v <= g.vertexCount

VertexInRange(g, v) == v < g.vertexCount

ReadsOf(i, j) ==
  LET g == scene[i]
      v == g.prims[j]
  IN {<<i, j, "data">>}
       \union (IF HasVertices(g) /\ VertexInRange(g, v) THEN {<<i, j, "vertex">>} ELSE {})

IsValid(g, v) == v = 0 /\ (HasVertices(g) => VertexInRange(g, v))

TransformUnknown(g) == g.kind = "INSTANCE" /\ ~g.formats

(* The primitives of a geometry that get references: those that are valid,  *)
(* but a triangle that was paired with one that is not is left out too.     *)
Created(g) ==
  LET valid == {j \in DOMAIN g.prims : IsValid(g, g.prims[j])}
  IN IF GetNumPrimitives(g) = 0 THEN {{}}
     ELSE IF g.kind = "TRIANGLES" /\ valid # DOMAIN g.prims THEN SUBSET valid
     ELSE {valid}

CreatePrimRefs(i) ==
  /\ Task("create", i)
  /\ LET g == scene[i]
     IN /\ reads' = reads \union UNION {ReadsOf(i, j) : j \in 1 .. GetNumPrimitives(g)}
        /\ thrown' = (thrown \/ TransformUnknown(g))
        /\ \E prims \in Created(g) : tree' = tree \union {<<i, j>> : j \in prims}
  /\ UNCHANGED <<api, builder, fn, wrong, scene, exceeded, stage, answer>>

(* The leaves read the primitives that are left; getQuad does so without    *)
(* testing the index.                                                       *)
CreateLeaves(i) ==
  /\ Task("leaves", i)
  /\ reads' = reads \union
       {<<p[1], p[2], x>> : p \in {q \in tree : q[1] = i},
                            x \in IF HasVertices(scene[i]) THEN {"data", "vertex"} ELSE {"data"}}
  /\ UNCHANGED <<api, builder, fn, wrong, scene, exceeded, stage, thrown, tree, answer>>

(* Leaves too deep: the tasks beside may have made theirs, or not. A tree   *)
(* without primitives is one empty node.                                    *)
Deep == tree # {} /\ "depth" \in exceeded

TooDeep ==
  /\ stage = "leaves" /\ ~thrown /\ Deep
  /\ thrown' = TRUE
  /\ UNCHANGED <<api, builder, fn, wrong, scene, exceeded, stage, finished, tree, reads, answer>>

(* The builder succeeds, or the buffer of the structure is too small, maybe *)
(* before it comes to the leaves that are too deep.                         *)
Built ==
  /\ stage = "leaves" /\ ~thrown /\ finished = DOMAIN scene
  /\ stage' = "answered"
  /\ \/ answer' = <<"SUCCESS">> /\ ~Deep
     \/ answer' = <<"RETRY", api>> /\ tree # {}
  /\ UNCHANGED <<api, builder, fn, wrong, scene, exceeded, finished, thrown, tree, reads>>

MutCaught ==
  /\ stage \in {"verify", "create", "leaves"} /\ thrown
  /\ stage' = "answered"
  /\ answer' = IF stage = "leaves" THEN <<"RETRY", api>> ELSE <<"ERROR_UNKNOWN">>
  /\ UNCHANGED <<api, builder, fn, wrong, scene, exceeded, finished, thrown, tree, reads>>

Caught ==
  /\ stage \in {"verify", "create", "leaves"} /\ thrown
  /\ stage' = "answered"
  /\ answer' = <<"ERROR_UNKNOWN">>
  /\ UNCHANGED <<api, builder, fn, wrong, scene, exceeded, finished, thrown, tree, reads>>

BuildTask == \E i \in DOMAIN scene : Verify(i) \/ CreatePrimRefs(i) \/ CreateLeaves(i)

Advance == Proceed("verify", "create") \/ Proceed("create", "leaves")

Next ==
  \/ \E f \in DOMAIN Tests : Call(f)
  \/ BuildTask \/ Advance \/ OutOfMemory \/ TooDeep \/ Built \/ Caught \/ Return

Spec == Init /\ [][Next]_vars

------------------------------------------------------------------------------
(* A build reads only memory that the geometries describe: no null pointer, *)
(* no vertex beyond vertexCount.                                            *)
ReadsDescribed ==
  \A r \in reads :
    LET g == scene[r[1]]
    IN IF r[3] = "data" THEN g.data ELSE g.vertices /\ g.prims[r[2]] < g.vertexCount

(* The description has no fault.                                            *)
Described(g) == VerifyGeometryDesc(g) /\ ~TransformUnknown(g)

(* What a call answers is true. An error names something that is wrong, and *)
(* a call that is refused reads nothing; no exception leaves a call. A      *)
(* build is said to have failed for an unknown reason only if a geometry is *)
(* not described or the builder went beyond a limit. It answers with        *)
(* success, or asks for a larger buffer in the words of its API, only if    *)
(* every geometry is described and no exception was thrown, and then the    *)
(* tree has all valid quads, procedurals and instances, and nothing that is *)
(* not valid.                                                               *)
AnswerTruthful ==
  stage = "answered" =>
    /\ answer # <<"exception">>
    /\ wrong # {} => reads = {} /\ \E t \in ToSet(Tests[fn]) : t[1] \in wrong /\ answer = <<t[2]>>
    /\ fn = "Build" /\ wrong = {} =>
         LET described == \A i \in DOMAIN scene : Described(scene[i])
             unknown == answer = <<"ERROR_UNKNOWN">>
         IN /\ unknown \/ answer \in {<<"SUCCESS">>, <<"RETRY", api>>}
            /\ unknown => ~described \/ "memory" \in exceeded \/ Deep
            /\ answer = <<"SUCCESS">> => ~Deep
            /\ ~unknown =>
                 /\ described /\ ~thrown /\ "memory" \notin exceeded
                 /\ \A i \in DOMAIN scene :
                      LET g == scene[i]
                          valid == {j \in 1 .. GetNumPrimitives(g) : IsValid(g, g.prims[j])}
                          held == {p[2] : p \in {q \in tree : q[1] = i}}
                      IN held \subseteq valid /\ (g.kind # "TRIANGLES" => held = valid)
==============================================================================
