------------------------------ MODULE MCTraversal ------------------------------
(***************************************************************************)
(* What a ray meets, for TLC: the leaves and nodes that it reads (MCLeaves) *)
(* and the query (RayQuery), with two items at the outer level, of every    *)
(* kind, and two in the instance, at two distances. An initial state        *)
(* chooses the query or one of the steps that make leaves; the query is     *)
(* then over before it begins.                                              *)
(***************************************************************************)
EXTENDS RayQuery, MCLeaves

ASSUME RayQueryAssumption

KeepLeaves == UNCHANGED leavesVars
KeepQuery == UNCHANGED vars

LeavesUnused == step = "none" /\ NoPairing /\ NoQuad /\ NoFatLeaf /\ NoNode

QueryUnused ==
  /\ scene = {} /\ flags = {} /\ committed = NoHit /\ potential = NoHit /\ query = {}
  /\ todo = {} /\ hit = NoHit /\ hw = Idle /\ pc = "abandoned"

InitOfTraversal ==
  \/ Init /\ LeavesUnused
  \/ InitOfLeaves /\ QueryUnused

(* The loop of a query can only end with it.                                *)
QueryEnded == step = "none" /\ pc \in {"end", "abandoned"} /\ KeepLeaves /\ KeepQuery

NextOfTraversal ==
  \/ StartTraversal /\ KeepLeaves
  \/ Sync /\ KeepLeaves
  \/ Abandon /\ KeepLeaves
  \/ Anyhit /\ KeepLeaves
  \/ Intersect /\ KeepLeaves
  \/ Ignore /\ KeepLeaves
  \/ ForwardRay /\ KeepLeaves
  \/ \E i \in Items \union Inner : Cull(i) /\ KeepLeaves
  \/ \E i \in Items \union Inner : HitOpaque(i) /\ KeepLeaves
  \/ \E i \in Items \union Inner : HandOver(i) /\ KeepLeaves
  \/ \E i \in Items \union Inner : Enter(i) /\ KeepLeaves
  \/ Leave /\ KeepLeaves
  \/ TraversalDone /\ KeepLeaves
  \/ QueryEnded
  \/ Push /\ KeepQuery
  \/ MergePair /\ KeepQuery
  \/ MergeSingle /\ KeepQuery
  \/ Reject /\ KeepQuery
  \/ Pair /\ KeepQuery
  \/ CreateTriangles /\ KeepQuery
  \/ CreateQuad /\ KeepQuery
  \/ AddQuads /\ KeepQuery
  \/ AddProcedural /\ KeepQuery
  \/ AddInstance /\ KeepQuery
  \/ SetChildren /\ KeepQuery
  \/ SetNodeBounds /\ KeepQuery
  \/ SetChildBounds /\ KeepQuery
  \/ step # "none" /\ LeafEnded /\ KeepQuery

(* The fairness is that of a query.                                         *)
SpecOfTraversal ==
  /\ InitOfTraversal /\ [][NextOfTraversal]_<<vars, leavesVars>>
  /\ WF_vars(Program) /\ WF_vars(Hardware)
==============================================================================
