----------------------------- MODULE MCZeWrapper -----------------------------
(***************************************************************************)
(* The calls of the library for TLC: the wrapper (ZeWrapper) with two       *)
(* functions of the base table, and three and four of the two APIs, in the  *)
(* order in which the code looks them up; the properties of a device        *)
(* (DeviceProperties); and the internal builder's functions (BuildCall). An *)
(* initial state chooses one of them, and the others are not called.        *)
(***************************************************************************)
EXTENDS ZeWrapper

CONSTANTS
  Lengths,      \* The numbers of structures in a chain, for FewChains.
  Vertices,     \* The vertices that primitives use, for FewScenes.
  VertexCounts, \* The numbers of vertices, for FewScenes.
  Chains,       \* DeviceProperties' constant.
  Scenes,       \* BuildCall's constants.
  MaxFaults

TwoBaseNames == <<"MemFree", "DeviceGetProperties">>

FewInternalNames == [a \in {"EXP", "EXT"} |-> <<"Create", "Destroy", "Build">>]

(* The internal builder has no AppendCopy.                                  *)
FewApiNames ==
  [a \in {"EXP", "EXT"} |->
     FewInternalNames[a] \o IF a = "EXT" THEN <<"AppendCopy">> ELSE <<>>]

(* Loaders: one that has everything, one that is too old for the builder    *)
(* API, one that lacks a base function, one that lacks a builder function   *)
(* behind those that are tried first.                                       *)
FullLoader == AllSymbols

OldLoader == AllSymbols \ {<<"EXP", "Create">>}

BrokenBase == AllSymbols \ {<<"BASE", "DeviceGetProperties">>}

BrokenApi == AllSymbols \ {<<"EXP", "Build">>}

AnyLoader == {FullLoader, OldLoader, BrokenBase, BrokenApi}

OnlyBrokenBase == {BrokenBase}

OnlyFullLoader == {FullLoader}

------------------------------------------------------------------------------
VARIABLES
  subject,                                                     \* What is called.
  mode, device, disable, chain, given, at, format, result,     \* DeviceProperties.
  api, builder, fn, wrong, scene, exceeded, stage, finished, thrown, tree, reads, answer \* BuildCall.

ofDevice == <<mode, device, disable, chain, given, at, format, result>>
ofBuild == <<api, builder, fn, wrong, scene, exceeded, stage, finished, thrown, tree, reads, answer>>

Device == INSTANCE DeviceProperties

FewChains == UNION {[1 .. n -> {"RTAS", "other"}] : n \in Lengths}

Geometry(kinds, lengths) ==
  [kind : kinds, formats : BOOLEAN, data : BOOLEAN,
   prims : UNION {[1 .. n -> Vertices] : n \in lengths},
   vertexCount : VertexCounts, vertices : BOOLEAN]

Indexed == Geometry({"TRIANGLES", "QUADS"}, {0, 1, 2})

(* Geometry without vertices, of which an instance is one primitive.        *)
Unindexed ==
  {g \in Geometry({"null", "PROCEDURAL", "other"}, {0, 1, 2}) \union Geometry({"INSTANCE"}, {1}) :
     g.vertexCount = 0 /\ ~g.vertices}

Good(g) ==
  g.formats /\ g.data /\ g.prims # <<>> /\ g.prims[1] = 0 /\ g.vertices = (g.vertexCount > 0)

(* Every geometry by itself, and pairs of those with a valid primitive and  *)
(* of those that cannot be built.                                           *)
FewScenes ==
  LET pairable == {g \in Indexed \union Unindexed : Good(g) /\ Len(g.prims) = 1}
  IN {<<>>} \union {<<g>> : g \in Indexed \union Unindexed}
            \union {<<g, h>> : g \in pairable, h \in pairable}

Builder == INSTANCE BuildCall

ASSUME CallsAssumption == Device!DevicePropertiesAssumption /\ Builder!BuildCallAssumption

UnusedDevice ==
  /\ mode = {} /\ device = {} /\ disable = {} /\ chain = {} /\ given = {} /\ at = {}
  /\ format = {} /\ result = {}

UnusedBuild ==
  /\ api = {} /\ builder = {} /\ fn = {} /\ wrong = {} /\ scene = {} /\ exceeded = {} /\ stage = {}
  /\ finished = {} /\ thrown = {} /\ tree = {} /\ reads = {} /\ answer = {}

UnusedWrapper == Init /\ exported = FullLoader

InitOfAny ==
  \/ subject = "wrapper" /\ Init /\ UnusedDevice /\ UnusedBuild
  \/ subject = "device" /\ Device!Init /\ UnusedWrapper /\ UnusedBuild
  \/ subject = "builder" /\ Builder!Init /\ UnusedWrapper /\ UnusedDevice

InWrapper == subject = "wrapper" /\ UNCHANGED <<subject, ofDevice, ofBuild>>
InDevice == subject = "device" /\ UNCHANGED <<subject, vars, ofBuild>>
InBuilder == subject = "builder" /\ UNCHANGED <<subject, vars, ofDevice>>

WrapperStep(t) == InWrapper /\ Step(t)
WrapperCall(t) == InWrapper /\ Call(t)

DeviceBegin == InDevice /\ Device!Begin
DeviceAsk == InDevice /\ Device!AskDevice
DeviceDriver == InDevice /\ Device!CallDriver
DeviceAgain == InDevice /\ Device!Again

BuilderCall == InBuilder /\ \E f \in DOMAIN Builder!Tests : Builder!Call(f)
BuilderTask == InBuilder /\ Builder!BuildTask
BuilderAdvance == InBuilder /\ Builder!Advance
BuilderOutOfMemory == InBuilder /\ Builder!OutOfMemory
BuilderTooDeep == InBuilder /\ Builder!TooDeep
BuilderBuilt == InBuilder /\ Builder!Built
BuilderCaught == InBuilder /\ Builder!Caught
BuilderReturn == InBuilder /\ Builder!Return

NextOfAny ==
  \/ \E t \in Threads : WrapperStep(t) \/ WrapperCall(t)
  \/ DeviceBegin \/ DeviceAsk \/ DeviceDriver \/ DeviceAgain
  \/ BuilderCall \/ BuilderTask \/ BuilderAdvance \/ BuilderOutOfMemory \/ BuilderTooDeep
  \/ BuilderBuilt \/ BuilderCaught \/ BuilderReturn

SpecOfAny ==
  /\ InitOfAny /\ [][NextOfAny]_<<subject, vars, ofDevice, ofBuild>>
  /\ \A t \in Threads : WF_<<subject, vars, ofDevice, ofBuild>>(WrapperStep(t))

------------------------------------------------------------------------------
(* The program gets its chain of structures back, and formats are those of  *)
(* the device.                                                              *)
ChainKept == subject = "device" => Device!ChainKept

(* A build reads only what the geometries describe.                         *)
ReadsDescribed == subject = "builder" => Builder!ReadsDescribed

(* Errors name what is wrong, an unknown error has a cause, and success     *)
(* means that all is right.                                                 *)
AnswerTruthful == subject = "builder" => Builder!AnswerTruthful
==============================================================================
