------------------------------- MODULE RayQuery -------------------------------
(***************************************************************************)
(* Ray queries: rttrace/rttrace_validation.cpp, driven by the loop of       *)
(* render_loop in testing/rthwif_test.cpp.                                  *)
(*                                                                          *)
(* A query lives in two places: in the handle of the program (control word, *)
(* level and fence) and in the RTStack in memory (committed hit, potential  *)
(* hit and one ray for each of two levels), which the hardware reads when a *)
(* traversal is dispatched and writes until the fence is reached. The       *)
(* hardware is external: the comments on TraceRayCtrl say what it loads. It *)
(* visits what lies at a level in any order, finishes the inner level       *)
(* first, and hands every hit that it cannot decide to the program.         *)
(* Definitions named Mut... are faulty versions of the definition that      *)
(* follows them, with which the properties are known to fail.               *)
(***************************************************************************)
EXTENDS Integers, FiniteSets

CONSTANTS
  Items,     \* What a ray can meet at the outer level.
  Inner,     \* What it can meet in an instance.
  Kinds,     \* The kinds of items, of those below.
  Distances  \* Where the ray can meet an item.

(* The distance of a hit that there is not.                                 *)
Infinity == 1000

(* "opaque" triangles are hit without asking, "anyhit" triangles and        *)
(* "procedural" boxes are handed to the program, which wants some of them;  *)
(* an "instance" is entered by the hardware, a "software" instance is a     *)
(* procedural that the program enters with a forwarded ray.                 *)
RayQueryAssumption ==
  /\ Kinds \subseteq {"opaque", "anyhit", "procedural", "instance", "software"}
  /\ Items \cap Inner = {}
  /\ Distances \subseteq 0 .. Infinity

VARIABLES
  scene,     \* [kind, t, wanted] of every item.
  flags,     \* flags[l]: ray l has accept_first_hit_and_end_search.
  committed, \* The committed hit in the RTStack.
  potential, \* The potential hit in the RTStack.
  query,     \* The handle: [ctrl, level].
  todo,      \* todo[l]: what the traversal still has to visit at level l.
  hit,       \* The hit with which the hardware works.
  hw,        \* The level that the hardware traverses, or Idle.
  pc         \* Where the program is.

vars == <<scene, flags, committed, potential, query, todo, hit, hw, pc>>

Levels == 0 .. 1
Idle == -1

Nothing == "nothing"

NoHit == [t |-> Infinity, item |-> Nothing, valid |-> FALSE, done |-> FALSE, level |-> 0]

InstanceKinds == {"instance", "software"}

(* Items of an instance lie behind the point where it is entered. At most   *)
(* one item is an instance; without one the inner items do not matter.      *)
Scenes ==
  {s \in [Items \union Inner -> [kind : Kinds, t : Distances, wanted : BOOLEAN]] :
     /\ \A i \in Inner : s[i].kind \notin InstanceKinds
     /\ \A i, j \in Items :
          s[i].kind \in InstanceKinds /\ s[j].kind \in InstanceKinds => i = j
     /\ \A i \in Items \union Inner :
          s[i].kind \in InstanceKinds \union {"opaque"} => s[i].wanted
     /\ \A i \in Items, j \in Inner :
          s[i].kind \in InstanceKinds => s[i].t <= s[j].t
     /\ \/ \E i \in Items : s[i].kind \in InstanceKinds
        \/ \A i \in Items, j \in Inner : s[j].kind = "opaque" /\ s[i].t <= s[j].t}

------------------------------------------------------------------------------
(* intel_ray_query_init.                                                    *)
Init ==
  /\ scene \in Scenes
  /\ \E f \in BOOLEAN : flags = [l \in Levels |-> f /\ l = 0]
  /\ committed = NoHit
  /\ potential = [NoHit EXCEPT !.valid = TRUE, !.done = TRUE]
  /\ query = [ctrl |-> "INITIAL", level |-> 0]
  /\ todo = [l \in Levels |-> {}]
  /\ hit = NoHit
  /\ hw = Idle
  /\ pc = "start"

(* What the hardware loads when it is dispatched with a control word.       *)
Load(ctrl, level) ==
  /\ hit' = CASE ctrl = "INITIAL" -> NoHit
              [] ctrl = "COMMIT" -> potential'
              [] OTHER -> committed
  /\ todo' = CASE ctrl = "INITIAL" -> [l \in Levels |-> IF l = level THEN Items ELSE {}]
               [] ctrl = "INSTANCE" -> [todo EXCEPT ![level] = Inner]
               [] OTHER -> todo
  /\ hw' = level

(* intel_ray_query_start_traversal: a query that is done is not dispatched. *)
StartTraversal ==
  /\ pc = "start"
  /\ potential' = [potential EXCEPT !.done = TRUE, !.valid = TRUE]
  /\ IF query.ctrl = "DONE"
     THEN UNCHANGED <<query, todo, hit, hw>>
     ELSE Load(query.ctrl, query.level) /\ query' = [ctrl |-> "INITIAL", level |-> 0]
  /\ pc' = "sync"
  /\ UNCHANGED <<scene, flags, committed>>

MutSynced == query

Synced == [ctrl |-> "CONTINUE", level |-> potential.level]

(* intel_ray_query_sync: waits for the fence and takes over the level of    *)
(* the potential hit.                                                       *)
Sync ==
  /\ pc = "sync" /\ hw = Idle
  /\ query' = Synced
  /\ pc' = IF potential.done THEN "end" ELSE "decide"
  /\ UNCHANGED <<scene, flags, committed, potential, todo, hit, hw>>

(* intel_ray_query_abandon: waits for the hardware and clears the handle.    *)
Abandon ==
  /\ pc \in {"sync", "decide"} /\ hw = Idle
  /\ query' = [ctrl |-> "INITIAL", level |-> 0]
  /\ pc' = "abandoned"
  /\ UNCHANGED <<scene, flags, committed, potential, todo, hit, hw>>

------------------------------------------------------------------------------
(* What the program does with a potential hit.                              *)

Candidate == scene[potential.item]

MutCommit(p) ==
  IF flags[query.level]
  THEN query' = [query EXCEPT !.ctrl = "DONE"] /\ potential' = p /\ UNCHANGED committed
  ELSE query' = [query EXCEPT !.ctrl = "COMMIT"] /\ potential' = p /\ UNCHANGED committed

(* intel_ray_query_commit_potential_hit: with accept_first the hit is       *)
(* committed here and the query is done, otherwise the hardware commits it. *)
Commit(p) ==
  IF flags[query.level]
  THEN /\ committed' = [p EXCEPT !.valid = TRUE]
       /\ query' = [query EXCEPT !.ctrl = "DONE"]
       /\ potential' = p
  ELSE /\ potential' = [p EXCEPT !.valid = TRUE]
       /\ query' = [query EXCEPT !.ctrl = "COMMIT"]
       /\ UNCHANGED committed

Decided == pc' = "start" /\ UNCHANGED <<scene, todo, hit, hw>>

Anyhit ==
  /\ pc = "decide" /\ Candidate.kind = "anyhit" /\ Candidate.wanted
  /\ Commit(potential)
  /\ Decided /\ UNCHANGED flags

MutInRange == TRUE

(* The depth test of the intersection, against the committed hit.           *)
InRange == Candidate.t <= committed.t

(* intel_ray_query_commit_potential_hit_override, with the distance at      *)
(* which the ray meets what is in the box.                                  *)
Intersect ==
  /\ pc = "decide" /\ Candidate.kind = "procedural" /\ Candidate.wanted
  /\ InRange
  /\ Commit([potential EXCEPT !.t = Candidate.t])
  /\ Decided /\ UNCHANGED flags

(* The program does not want the hit, or it is out of range.                *)
Ignore ==
  /\ pc = "decide"
  /\ \/ Candidate.kind \in {"anyhit", "procedural"} /\ ~ Candidate.wanted
     \/ Candidate.kind = "procedural" /\ ~ InRange
  /\ Decided /\ UNCHANGED <<flags, committed, potential, query>>

Forwarded == [ctrl |-> "INSTANCE", level |-> query.level + 1]

(* intel_ray_query_forward_ray, with the flags of the outer ray.            *)
ForwardRay ==
  /\ pc = "decide" /\ Candidate.kind = "software"
  /\ flags' = [flags EXCEPT ![Forwarded.level] = flags[query.level]]
  /\ query' = Forwarded
  /\ Decided /\ UNCHANGED <<committed, potential>>

------------------------------------------------------------------------------
(* The hardware.                                                            *)

KeepProgram == UNCHANGED <<scene, query, pc>>

(* Where the hardware sees an item: all it has of a procedural is a box,    *)
(* which may begin at the origin of the ray.                                *)
Begin(i) == IF scene[i].kind = "procedural" THEN 0 ELSE scene[i].t

(* What the ray cannot reach before the hit it has is passed by.            *)
Cull(i) ==
  /\ hw # Idle /\ i \in todo[hw] /\ Begin(i) > hit.t
  /\ todo' = [todo EXCEPT ![hw] = @ \ {i}]
  /\ KeepProgram /\ UNCHANGED <<flags, committed, potential, hit, hw>>

Reach(i, kinds) ==
  hw # Idle /\ i \in todo[hw] /\ scene[i].kind \in kinds /\ Begin(i) <= hit.t

(* With accept_first an opaque hit ends the search.                         *)
HitOpaque(i) ==
  /\ Reach(i, {"opaque"})
  /\ hit' = [NoHit EXCEPT !.t = scene[i].t, !.item = i, !.valid = TRUE, !.level = hw]
  /\ IF flags[hw]
     THEN /\ committed' = hit' /\ hw' = Idle
          /\ potential' = [potential EXCEPT !.done = TRUE]
          /\ todo' = [l \in Levels |-> {}]
     ELSE /\ todo' = [todo EXCEPT ![hw] = @ \ {i}]
          /\ UNCHANGED <<committed, hw, potential>>
  /\ KeepProgram /\ UNCHANGED flags

(* A hit for the program to decide.                                         *)
HandOver(i) ==
  /\ Reach(i, {"anyhit", "procedural", "software"})
  /\ potential' = [NoHit EXCEPT !.t = Begin(i), !.item = i, !.valid = TRUE, !.level = hw]
  /\ committed' = hit
  /\ todo' = [todo EXCEPT ![hw] = @ \ {i}]
  /\ hw' = Idle
  /\ KeepProgram /\ UNCHANGED <<flags, hit>>

Enter(i) ==
  /\ Reach(i, {"instance"})
  /\ todo' = [todo EXCEPT ![hw] = @ \ {i}, ![hw + 1] = Inner]
  /\ flags' = [flags EXCEPT ![hw + 1] = flags[hw]]
  /\ hw' = hw + 1
  /\ KeepProgram /\ UNCHANGED <<committed, potential, hit>>

Leave ==
  /\ hw = 1 /\ todo[1] = {}
  /\ hw' = 0
  /\ KeepProgram /\ UNCHANGED <<flags, committed, potential, todo, hit>>

TraversalDone ==
  /\ hw = 0 /\ todo[0] = {}
  /\ committed' = hit
  /\ potential' = [potential EXCEPT !.done = TRUE]
  /\ hw' = Idle
  /\ KeepProgram /\ UNCHANGED <<flags, todo, hit>>

Program ==
  StartTraversal \/ Sync \/ Abandon \/ Anyhit \/ Intersect \/ Ignore \/ ForwardRay

Hardware ==
  \/ \E i \in Items \union Inner : Cull(i) \/ HitOpaque(i) \/ HandOver(i) \/ Enter(i)
  \/ Leave \/ TraversalDone

Next == Program \/ Hardware

(* The program goes on with its loop, and the hardware with a traversal.    *)
Spec == Init /\ [][Next]_vars /\ WF_vars(Program) /\ WF_vars(Hardware)

------------------------------------------------------------------------------
(* Everything that should count as a hit: what is wanted at the outer       *)
(* level, and in the instance, if there is one.                             *)
Hits ==
  {i \in Items \union Inner :
     /\ scene[i].wanted /\ scene[i].kind \notin InstanceKinds
     /\ i \in Inner => \E j \in Items : scene[j].kind \in InstanceKinds /\
                                        (scene[j].kind = "software" => scene[j].wanted)}

(* When the loop ends, the committed hit is the closest of all hits, and    *)
(* with accept_first any of them; it is a miss only if there are none.      *)
AnswerRight ==
  pc = "end" =>
    /\ committed.valid <=> Hits # {}
    /\ committed.valid =>
         /\ committed.item \in Hits
         /\ committed.t = scene[committed.item].t
         /\ flags[0] \/ \A i \in Hits : committed.t <= scene[i].t

(* The committed hit never gets farther away and a found hit is not lost,   *)
(* whatever the program commits and the hardware then loads.                *)
CommittedCloser ==
  [][committed'.t <= committed.t /\ (committed.valid => committed'.valid)]_committed

(* Every query ends: the program's loop does not start a traversal over, or *)
(* wait for one that nobody has started.                                    *)
QueryEnds == <>(pc \in {"end", "abandoned"})
==============================================================================
