--------------------------- MODULE Traversal_proofs ---------------------------
(***************************************************************************)
(* What a traversal reads and what a query makes of it, for every value of  *)
(* the constants.                                                           *)
(*                                                                          *)
(* Ray queries, for every scene and every order of the traversal: a query   *)
(* ends with the closest hit, or with any when the first is accepted, and   *)
(* on the way the committed hit never gets farther away. A hit is handed    *)
(* over several times: from the hardware's working hit to the potential     *)
(* hit, from there by a commit to the control word or to the committed hit, *)
(* and by the next dispatch back to the hardware. Carried is where it is;   *)
(* the invariant says that whatever should count as a hit is no closer than *)
(* what is carried, or still to be visited.                                 *)
(*                                                                          *)
(* Leaves: the window of the triangles that are to be paired holds those    *)
(* that are not decided, in their order, and far enough apart that a full   *)
(* window holds every candidate of its first triangle; the triangles that   *)
(* were paired are read back from the leaf; and the children of a fat leaf  *)
(* lie where the node says, each as far behind the one before it as that    *)
(* one advances, so that the sums of the increments lead to them.           *)
(*                                                                          *)
(* Boxes: rounding is monotone, keeps what it has rounded and is off by no  *)
(* more than a part of the number; so the grid reaches over the node, the   *)
(* child lies in it, and what is read holds the child but for the slack.    *)
(***************************************************************************)
EXTENDS RayQuery, MCLeaves, SumTheorems, SequenceTheorems, TLAPS

------------------------------------------------------------------------------
(* Ray queries.                                                             *)

HasInstance == \E j \in Items : scene[j].kind \in InstanceKinds

(* What a traversal can meet at a level.                                    *)
At(l) == IF l = 0 THEN Items ELSE {i \in Inner : HasInstance}

Hit == [t : Nat, item : Items \union Inner \union {Nothing}, valid : BOOLEAN, done : BOOLEAN,
        level : Levels]

Ctrls == {"INITIAL", "CONTINUE", "COMMIT", "INSTANCE", "DONE"}

TypeOK ==
  /\ scene \in Scenes
  /\ flags \in [Levels -> BOOLEAN]
  /\ committed \in Hit /\ potential \in Hit /\ hit \in Hit
  /\ query \in [ctrl : Ctrls, level : Levels]
  /\ todo \in [Levels -> SUBSET (Items \union Inner)]
  /\ hw \in Levels \union {Idle}
  /\ pc \in {"start", "sync", "decide", "end", "abandoned"}

(* The program has a hit to decide, or will have when it gets the handle.   *)
Asking == pc = "decide" \/ (pc = "sync" /\ hw = Idle /\ ~potential.done)

(* The hit found so far.                                                    *)
Carried ==
  IF hw # Idle THEN hit
  ELSE IF pc = "start" /\ query.ctrl = "COMMIT" THEN potential
  ELSE committed

(* Two levels at most, and nothing is left at the inner one when the query  *)
(* is at the outer one.                                                     *)
LevelsOK ==
  /\ flags[1] => flags[0]
  /\ \A l \in Levels : todo[l] \subseteq At(l)
  /\ hw # Idle => pc = "sync"
  /\ hw = 0 => todo[1] = {}
  /\ Asking /\ potential.level = 0 => todo[1] = {}
  /\ pc = "start" /\ query.level = 0 => todo[1] = {}
  /\ pc = "start" /\ query.ctrl = "INITIAL" => query.level = 0 /\ committed = NoHit
  /\ pc = "start" /\ query.ctrl = "INSTANCE" => query.level = 1 /\ HasInstance
  /\ pc = "start" /\ query.ctrl = "COMMIT" => potential.valid
  /\ pc = "decide" => query.ctrl = "CONTINUE" /\ query.level = potential.level

(* A valid hit is one that counts, at its place.                            *)
Sound(h) ==
  IF h.valid THEN h.item \in Hits /\ h.t = scene[h.item].t ELSE h.t = Infinity

(* a can take the place of b.                                               *)
Replaces(a, b) == a.t <= b.t /\ (b.valid => a.valid)

HitsSound == Sound(committed) /\ Sound(Carried) /\ Replaces(Carried, committed)

(* What the program is asked about.                                         *)
AskedOK ==
  Asking =>
    /\ potential.item \in At(potential.level)
    /\ scene[potential.item].kind \in {"anyhit", "procedural", "software"}
    /\ scene[potential.item].kind # "procedural" =>
         potential.t = scene[potential.item].t /\ potential.t <= committed.t

Visiting(i) == (\E l \in Levels : i \in todo[l]) \/ (Asking /\ i = potential.item)

(* i will still be visited, on its own or with its instance.                *)
Open(i) ==
  \/ pc = "start" /\ query.ctrl = "INITIAL"
  \/ Visiting(i)
  \/ /\ i \in Inner
     /\ \/ pc = "start" /\ query.ctrl = "INSTANCE"
        \/ \E j \in Items : scene[j].kind \in InstanceKinds /\ Visiting(j)

Beats(h, i) == h.valid /\ (flags[0] \/ h.t <= scene[i].t)

NothingMissed == pc # "abandoned" => \A i \in Hits : Open(i) \/ Beats(Carried, i)

(* The query is done.                                                       *)
Over ==
  pc = "end" \/ (pc = "sync" /\ hw = Idle /\ potential.done) \/ (pc = "start" /\ query.ctrl = "DONE")

OverOK == Over => \A i \in Hits : Beats(committed, i)

QueryInv == TypeOK /\ LevelsOK /\ HitsSound /\ AskedOK /\ NothingMissed /\ OverOK

------------------------------------------------------------------------------
LEMMA SceneFacts ==
  ASSUME RayQueryAssumption, scene \in Scenes
  PROVE  /\ \A i \in Items \union Inner :
              scene[i].t \in Nat /\ scene[i].t <= Infinity /\ scene[i].kind \in Kinds
         /\ \A i \in Inner : scene[i].kind \notin InstanceKinds /\ i \notin Items
         /\ \A i \in Items \union Inner :
              scene[i].kind = "opaque" => scene[i].wanted
         /\ \A i \in Items, j \in Inner : scene[i].kind \in InstanceKinds => scene[i].t <= scene[j].t
         /\ \A i \in Items : scene[i].kind \in InstanceKinds => scene[i].wanted
  <1>1. \A i \in Items \union Inner : scene[i] \in [kind : Kinds, t : Distances, wanted : BOOLEAN]
    BY DEF Scenes
  <1>2. \A i \in Items \union Inner :
          scene[i].t \in Nat /\ scene[i].t <= Infinity /\ scene[i].kind \in Kinds
    <2>1. \A t \in Distances : t \in Nat /\ t <= Infinity
      BY DEF RayQueryAssumption, Infinity
    <2>2. \A i \in Items \union Inner : scene[i].t \in Distances /\ scene[i].kind \in Kinds
      BY <1>1
    <2> QED BY <2>1, <2>2
  <1>3. \A i \in Inner : scene[i].kind \notin InstanceKinds /\ i \notin Items
    BY DEF Scenes, RayQueryAssumption
  <1>4. \A i \in Items \union Inner :
          scene[i].kind \in InstanceKinds \union {"opaque"} => scene[i].wanted
    BY DEF Scenes
  <1>5. \A i \in Items, j \in Inner : scene[i].kind \in InstanceKinds => scene[i].t <= scene[j].t
    BY DEF Scenes
  <1> QED BY <1>2, <1>3, <1>4, <1>5

(* What counts as a hit, by levels.                                         *)
LEMMA HitFacts ==
  ASSUME RayQueryAssumption, scene \in Scenes
  PROVE  /\ \A l \in Levels : \A i \in At(l) :
              i \in Hits <=> scene[i].wanted /\ scene[i].kind \notin InstanceKinds
         /\ \A i \in Hits : i \in At(0) \/ i \in At(1)
  BY SceneFacts DEF Hits, At, HasInstance, InstanceKinds, Levels

LEMMA SameScene ==
  ASSUME UNCHANGED scene
  PROVE  /\ Hits' = Hits /\ HasInstance' = HasInstance
         /\ \A l : At(l)' = At(l)
         /\ \A h : Sound(h)' = Sound(h)
  BY DEF Hits, HasInstance, At, Sound

LEMMA QueryInvInit == ASSUME RayQueryAssumption, Init PROVE QueryInv
  <1>1. TypeOK
    <2>1. NoHit \in Hit /\ [NoHit EXCEPT !.valid = TRUE, !.done = TRUE] \in Hit
      <3>1. Infinity \in Nat /\ 0 \in Levels
        BY DEF Infinity, Levels
      <3> QED BY <3>1 DEF Hit, NoHit
    <2>2. query \in [ctrl : Ctrls, level : Levels]
      BY DEF Init, Ctrls, Levels
    <2>3. flags \in [Levels -> BOOLEAN]
      <3>1. PICK f \in BOOLEAN : flags = [l \in Levels |-> f /\ l = 0]
        BY DEF Init
      <3> QED BY <3>1, Zenon
    <2> QED BY <2>1, <2>2, <2>3 DEF Init, TypeOK
  <1>2. pc = "start" /\ query.ctrl = "INITIAL" /\ query.level = 0 /\ committed = NoHit /\ hw = Idle
    BY DEF Init
  <1>3. LevelsOK
    BY <1>2 DEF Init, LevelsOK, Levels, Asking, Idle
  <1>4. HitsSound
    BY <1>2 DEF HitsSound, Carried, Sound, Replaces, NoHit, Infinity
  <1> QED BY <1>1, <1>2, <1>3, <1>4
          DEF QueryInv, AskedOK, Asking, NothingMissed, Open, OverOK, Over

(* A hit that beats another's rivals when it takes its place.              *)
LEMMA Carry ==
  ASSUME NEW a, NEW b, NEW i, Replaces(b, a), Beats(a, i),
         a.t \in Nat, b.t \in Nat, scene[i].t \in Nat
  PROVE  Beats(b, i)
  BY DEF Replaces, Beats

------------------------------------------------------------------------------
(* The program.                                                             *)
LEMMA StartKeeps ==
  ASSUME RayQueryAssumption, QueryInv, StartTraversal
  PROVE  QueryInv' /\ Replaces(committed', committed)
  <1> USE DEF QueryInv
  <1>1. /\ pc = "start" /\ pc' = "sync" /\ UNCHANGED <<scene, flags, committed>>
        /\ potential' = [potential EXCEPT !.done = TRUE, !.valid = TRUE]
    BY DEF StartTraversal
  <1>2. hw = Idle
    BY <1>1 DEF LevelsOK
  <1>3. potential' \in Hit /\ potential'.done /\ potential'.valid
        /\ potential'.t = potential.t /\ potential'.item = potential.item
    BY <1>1 DEF TypeOK, Hit
  <1>4. Replaces(committed', committed)
    BY <1>1 DEF Replaces, TypeOK, Hit
  <1>5. CASE query.ctrl = "DONE"
    <2>1. UNCHANGED <<query, todo, hit, hw>>
      BY <1>5 DEF StartTraversal
    <2>2. TypeOK'
      BY <1>1, <1>3, <2>1 DEF TypeOK
    <2>3. ~Asking' /\ Carried' = committed /\ Carried = committed
      BY <1>1, <1>2, <1>3, <1>5, <2>1 DEF Asking, Carried
    <2>4. LevelsOK'
      BY <1>1, <1>2, <2>1, <2>3, SameScene DEF LevelsOK, Idle
    <2>5. HitsSound'
      BY <1>1, <2>3, SameScene DEF HitsSound, Replaces, Sound
    <2>6. \A i \in Hits' : Beats(committed, i)'
      BY <1>1, <1>5, SameScene DEF OverOK, Over, Beats
    <2> QED BY <1>4, <2>2, <2>3, <2>4, <2>5, <2>6, <1>1 DEF AskedOK, NothingMissed, OverOK, Beats
  <1>6. CASE query.ctrl # "DONE"
    <2>1. /\ hit' = CASE query.ctrl = "INITIAL" -> NoHit
                      [] query.ctrl = "COMMIT" -> potential'
                      [] OTHER -> committed
          /\ todo' = CASE query.ctrl = "INITIAL" -> [l \in Levels |-> IF l = query.level THEN Items ELSE {}]
                       [] query.ctrl = "INSTANCE" -> [todo EXCEPT ![query.level] = Inner]
                       [] OTHER -> todo
          /\ hw' = query.level
          /\ query' = [ctrl |-> "INITIAL", level |-> 0]
      BY <1>6 DEF StartTraversal, Load
    <2>2. query.level \in Levels /\ hw' # Idle
      BY <2>1 DEF TypeOK, Levels, Idle
    <2>3. hit' \in Hit /\ hit'.t = Carried.t /\ hit'.item = Carried.item /\ hit'.valid = Carried.valid
      <3>1. CASE query.ctrl = "INITIAL"
        BY <1>1, <1>2, <2>1, <3>1 DEF LevelsOK, Carried, TypeOK
      <3>2. CASE query.ctrl = "COMMIT"
        BY <1>1, <1>2, <1>3, <2>1, <3>2 DEF LevelsOK, Carried
      <3>3. CASE query.ctrl \notin {"INITIAL", "COMMIT"}
        BY <1>1, <1>2, <2>1, <3>3 DEF Carried, TypeOK
      <3> QED BY <3>1, <3>2, <3>3
    <2>4. Carried' = hit' /\ ~Asking' /\ ~Over'
      BY <1>1, <2>2 DEF Carried, Asking, Over
    <2>5. /\ todo' \in [Levels -> SUBSET (Items \union Inner)]
          /\ \A l \in Levels : todo'[l] \subseteq At(l)
          /\ query.level = 0 => todo'[1] = {}
          /\ query.ctrl # "INITIAL" => \A l \in Levels : todo[l] \subseteq todo'[l]
          /\ query.ctrl = "INITIAL" => todo'[0] = Items
          /\ query.ctrl = "INSTANCE" => todo'[1] = Inner
      <3>1. CASE query.ctrl = "INITIAL"
        BY <1>1, <2>1, <3>1 DEF LevelsOK, At, Levels
      <3>2. CASE query.ctrl = "INSTANCE"
        BY <1>1, <2>1, <3>2 DEF LevelsOK, At, Levels, TypeOK
      <3>3. CASE query.ctrl \notin {"INITIAL", "INSTANCE"}
        BY <1>1, <2>1, <3>3 DEF LevelsOK, TypeOK
      <3> QED BY <3>1, <3>2, <3>3
    <2>6. TypeOK'
      BY <1>1, <1>3, <2>1, <2>2, <2>3, <2>5 DEF TypeOK, Ctrls, Levels
    <2>7. LevelsOK'
      BY <1>1, <2>1, <2>2, <2>4, <2>5, SameScene DEF LevelsOK
    <2>8. HitsSound'
      BY <1>1, <2>3, <2>4, SameScene DEF HitsSound, Sound, Replaces
    <2>9. ASSUME NEW i \in Hits
          PROVE  Open(i)' \/ Beats(Carried, i)'
      <3>1. CASE Beats(Carried, i)
        BY <1>1, <2>3, <2>4, <3>1 DEF Beats
      <3>2. CASE query.ctrl = "INITIAL"
        <4>1. CASE i \in Items
          BY <2>5, <3>2, <4>1 DEF Open, Visiting, Levels
        <4>2. CASE i \notin Items
          <5>1. i \in Inner /\ \E j \in Items : scene[j].kind \in InstanceKinds
            BY <4>2 DEF Hits
          <5>2. \A j \in Items : Visiting(j)'
            BY <2>5, <3>2 DEF Visiting, Levels
          <5> QED BY <1>1, <5>1, <5>2 DEF Open
        <4> QED BY <4>1, <4>2
      <3>3. CASE query.ctrl # "INITIAL" /\ Open(i)
        <4>1. \A j : Visiting(j) => Visiting(j)'
          BY <1>1, <2>5, <3>3 DEF Visiting, Asking
        <4>2. query.ctrl = "INSTANCE" /\ i \in Inner => Visiting(i)'
          BY <2>5 DEF Visiting, Levels
        <4> QED BY <1>1, <3>3, <4>1, <4>2 DEF Open
      <3> QED BY <1>1, <3>1, <3>2, <3>3 DEF NothingMissed
    <2> QED BY <1>1, <1>4, <2>4, <2>6, <2>7, <2>8, <2>9, SameScene DEF AskedOK, NothingMissed, OverOK
  <1> QED BY <1>5, <1>6

LEMMA SyncKeeps ==
  ASSUME RayQueryAssumption, QueryInv, Sync \/ Abandon
  PROVE  QueryInv' /\ Replaces(committed', committed)
  <1> USE DEF QueryInv
  <1>1. /\ pc \in {"sync", "decide"} /\ hw = Idle
        /\ UNCHANGED <<scene, flags, committed, potential, todo, hit, hw>>
    BY DEF Sync, Abandon
  <1>2. Replaces(committed', committed) /\ Carried' = committed /\ Carried = committed
    <2>1. pc' # "start" /\ pc # "start"
      BY <1>1 DEF Sync, Abandon
    <2> QED BY <1>1, <2>1 DEF Replaces, TypeOK, Hit, Carried
  <1>3. HitsSound'
    BY <1>1, <1>2, SameScene DEF HitsSound, Sound, Replaces
  <1>4. CASE Abandon
    <2>1. pc' = "abandoned" /\ query' = [ctrl |-> "INITIAL", level |-> 0]
      BY <1>4 DEF Abandon
    <2>2. TypeOK'
      BY <1>1, <2>1 DEF TypeOK, Ctrls, Levels
    <2>3. LevelsOK'
      BY <1>1, <2>1, SameScene DEF LevelsOK, Asking, Idle
    <2> QED BY <1>1, <1>2, <1>3, <2>1, <2>2, <2>3 DEF AskedOK, NothingMissed, OverOK, Asking, Over
  <1>5. CASE Sync
    <2>1. /\ pc = "sync" /\ query' = [ctrl |-> "CONTINUE", level |-> potential.level]
          /\ pc' = IF potential.done THEN "end" ELSE "decide"
      BY <1>5 DEF Sync, Synced
    <2>2. Asking' <=> Asking
      BY <1>1, <2>1 DEF Asking
    <2>3. Over' <=> Over
      BY <1>1, <2>1 DEF Over
    <2>4. TypeOK'
      BY <1>1, <2>1 DEF TypeOK, Ctrls, Hit
    <2>5. LevelsOK'
      <3>1. pc' # "start" /\ query'.level = potential.level /\ query'.ctrl = "CONTINUE"
        BY <2>1
      <3> QED BY <1>1, <2>2, <3>1, SameScene DEF LevelsOK, Idle
    <2>6. AskedOK'
      BY <1>1, <2>2, SameScene DEF AskedOK
    <2>7. \A i \in Hits : Open(i) => Open(i)'
      BY <1>1, <2>1, <2>2 DEF Open, Visiting
    <2>8. NothingMissed'
      BY <1>1, <1>2, <2>1, <2>7, SameScene DEF NothingMissed, Beats
    <2>9. OverOK'
      BY <1>1, <2>3, SameScene DEF OverOK, Beats
    <2> QED BY <1>2, <1>3, <2>4, <2>5, <2>6, <2>8, <2>9
  <1> QED BY <1>4, <1>5

(* What the program is asked about.                                         *)
LEMMA AskedFacts ==
  ASSUME RayQueryAssumption, QueryInv, pc = "decide"
  PROVE  /\ hw = Idle /\ Asking /\ Carried = committed
         /\ query.level = potential.level /\ potential.level \in Levels
         /\ potential.item \in At(potential.level) /\ potential.item \in Items \union Inner
         /\ scene[potential.item].t \in Nat
  <1> USE DEF QueryInv
  <1>1. hw = Idle /\ Asking /\ Carried = committed /\ query.level = potential.level
    BY DEF LevelsOK, Asking, Carried
  <1>2. potential.level \in Levels
    BY DEF TypeOK, Hit
  <1>3. potential.item \in At(potential.level)
    BY <1>1 DEF AskedOK
  <1>4. potential.item \in Items \union Inner
    BY <1>3 DEF At
  <1> QED BY <1>1, <1>2, <1>3, <1>4, SceneFacts DEF TypeOK

(* A commit of the hit p, which is the one the program was asked about.     *)
LEMMA CommitKeeps ==
  ASSUME RayQueryAssumption, QueryInv, pc = "decide", NEW p \in Hit,
         p.item = potential.item, p.t = scene[potential.item].t, p.t <= committed.t,
         scene[potential.item].wanted, scene[potential.item].kind \in {"anyhit", "procedural"},
         Commit(p), Decided, UNCHANGED flags
  PROVE  QueryInv' /\ Replaces(committed', committed)
  <1> USE DEF QueryInv
  <1>1. pc' = "start" /\ UNCHANGED <<scene, flags, todo, hit, hw>>
    BY DEF Decided
  <1>2. p.item \in Hits
    BY AskedFacts, HitFacts DEF TypeOK, InstanceKinds
  <1>3. [p EXCEPT !.valid = TRUE] \in Hit
    BY DEF Hit
  <1>4. \A i \in Hits : i # p.item => ((Open(i) /\ ~Beats(committed, i)) => Visiting(i) \/ Open(i))
    OBVIOUS
  <1>5. \A i \in Hits : Open(i) /\ i # p.item =>
          (\E l \in Levels : i \in todo[l]) \/
          (i \in Inner /\ \E j \in Items : scene[j].kind \in InstanceKinds /\ \E l \in Levels : j \in todo[l])
    BY AskedFacts DEF Open, Visiting, InstanceKinds
  <1>6. CASE flags[query.level]
    <2>1. /\ committed' = [p EXCEPT !.valid = TRUE] /\ potential' = p
          /\ query' = [query EXCEPT !.ctrl = "DONE"]
      BY <1>6 DEF Commit
    <2>2. committed' \in Hit /\ committed'.item = p.item /\ committed'.t = p.t /\ committed'.valid
      BY <1>3, <2>1 DEF Hit
    <2>3. query' \in [ctrl : Ctrls, level : Levels] /\ query'.ctrl = "DONE" /\ query'.level = query.level
      BY <2>1 DEF TypeOK, Ctrls
    <2>4. TypeOK'
      BY <1>1, <2>1, <2>2, <2>3 DEF TypeOK
    <2>5. ~Asking' /\ Carried' = committed' /\ flags[0]
      BY <1>1, <1>6, <2>3, AskedFacts DEF Asking, Carried, LevelsOK, Levels
    <2>6. LevelsOK'
      BY <1>1, <2>3, <2>5, AskedFacts, SameScene DEF LevelsOK, Idle
    <2>7. HitsSound' /\ Replaces(committed', committed)
      BY <1>1, <1>2, <2>2, <2>5, SameScene DEF HitsSound, Sound, Replaces, Hit
    <2>8. \A i \in Hits' : Beats(committed, i)'
      BY <1>1, <2>2, <2>5, SameScene DEF Beats
    <2> QED BY <2>4, <2>5, <2>6, <2>7, <2>8 DEF AskedOK, NothingMissed, OverOK, Beats
  <1>7. CASE ~flags[query.level]
    <2>1. /\ potential' = [p EXCEPT !.valid = TRUE] /\ committed' = committed
          /\ query' = [query EXCEPT !.ctrl = "COMMIT"]
      BY <1>7 DEF Commit
    <2>2. potential' \in Hit /\ potential'.item = p.item /\ potential'.t = p.t /\ potential'.valid
      BY <1>3, <2>1 DEF Hit
    <2>3. query' \in [ctrl : Ctrls, level : Levels] /\ query'.ctrl = "COMMIT" /\ query'.level = query.level
      BY <2>1 DEF TypeOK, Ctrls
    <2>4. TypeOK'
      BY <1>1, <2>1, <2>2, <2>3 DEF TypeOK
    <2>5. ~Asking' /\ Carried' = potential' /\ ~Over'
      BY <1>1, <2>3, AskedFacts DEF Asking, Carried, Over
    <2>6. LevelsOK'
      BY <1>1, <2>2, <2>3, <2>5, AskedFacts, SameScene DEF LevelsOK, Idle
    <2>7. HitsSound' /\ Replaces(committed', committed)
      BY <1>1, <1>2, <2>1, <2>2, <2>5, SameScene DEF HitsSound, Sound, Replaces, TypeOK, Hit
    <2>8. ASSUME NEW i \in Hits
          PROVE  Open(i)' \/ Beats(Carried, i)'
      <3>0. scene[i].t \in Nat
        BY SceneFacts DEF Hits, TypeOK
      <3>1. CASE i = p.item
        BY <1>1, <2>2, <2>5, <3>0, <3>1 DEF Beats, Hit
      <3>2. CASE Beats(committed, i)
        BY <1>1, <2>2, <2>5, <3>0, <3>2 DEF Beats, TypeOK, Hit
      <3>3. CASE i # p.item /\ Open(i)
        BY <1>1, <1>5, <3>3 DEF Open, Visiting
      <3> QED BY <3>1, <3>2, <3>3, AskedFacts DEF NothingMissed
    <2> QED BY <1>1, <2>4, <2>5, <2>6, <2>7, <2>8, SameScene DEF AskedOK, NothingMissed, OverOK
  <1> QED BY <1>6, <1>7

LEMMA DecideKeeps ==
  ASSUME RayQueryAssumption, QueryInv, Anyhit \/ Intersect \/ Ignore \/ ForwardRay
  PROVE  QueryInv' /\ Replaces(committed', committed)
  <1> USE DEF QueryInv
  <1>1. pc = "decide" /\ Decided /\ pc' = "start" /\ UNCHANGED <<scene, todo, hit, hw>>
    BY DEF Anyhit, Intersect, Ignore, ForwardRay, Decided
  <1>2. CASE Anyhit
    <2>1. /\ scene[potential.item].kind = "anyhit" /\ scene[potential.item].wanted
          /\ Commit(potential) /\ UNCHANGED flags
      BY <1>2 DEF Anyhit, Candidate
    <2>2. potential.t = scene[potential.item].t /\ potential.t <= committed.t
      BY <1>1, <2>1, AskedFacts DEF AskedOK
    <2> QED BY <1>1, <2>1, <2>2, CommitKeeps DEF TypeOK
  <1>3. CASE Intersect
    <2> DEFINE p == [potential EXCEPT !.t = scene[potential.item].t]
    <2>1. /\ scene[potential.item].kind = "procedural" /\ scene[potential.item].wanted
          /\ scene[potential.item].t <= committed.t
          /\ Commit(p) /\ UNCHANGED flags
      BY <1>3 DEF Intersect, Candidate, InRange
    <2>2. p \in Hit /\ p.t = scene[potential.item].t /\ p.item = potential.item
      BY <1>1, AskedFacts DEF TypeOK, Hit
    <2> HIDE DEF p
    <2> QED BY <1>1, <2>1, <2>2, CommitKeeps
  <1>4. CASE Ignore
    <2>1. UNCHANGED <<flags, committed, potential, query>>
      BY <1>4 DEF Ignore
    <2>2. /\ scene[potential.item].kind \in {"anyhit", "procedural"}
          /\ scene[potential.item].wanted => committed.t < scene[potential.item].t
      <3>1. committed.t \in Nat /\ scene[potential.item].t \in Nat
        BY <1>1, AskedFacts DEF TypeOK, Hit
      <3>2. CASE scene[potential.item].kind \in {"anyhit", "procedural"} /\ ~scene[potential.item].wanted
        BY <3>2
      <3>3. CASE scene[potential.item].kind = "procedural" /\ ~(scene[potential.item].t <= committed.t)
        BY <3>1, <3>3
      <3> QED BY <1>4, <3>2, <3>3 DEF Ignore, Candidate, InRange
    <2>3. query.ctrl = "CONTINUE"
      BY <1>1 DEF LevelsOK
    <2>4. ~Asking' /\ ~Over' /\ Carried' = committed
      BY <1>1, <2>1, <2>3, AskedFacts DEF Asking, Over, Carried
    <2>5. TypeOK'
      BY <1>1, <2>1 DEF TypeOK
    <2>6. LevelsOK'
      BY <1>1, <2>1, <2>3, <2>4, AskedFacts, SameScene DEF LevelsOK, Idle
    <2>7. HitsSound' /\ Replaces(committed', committed)
      BY <1>1, <2>1, <2>4, SameScene DEF HitsSound, Sound, Replaces, TypeOK, Hit
    <2>8. ASSUME NEW i \in Hits
          PROVE  Open(i)' \/ Beats(Carried, i)'
      <3>1. CASE Beats(committed, i)
        BY <1>1, <2>1, <2>4, <3>1 DEF Beats
      <3>2. CASE i = potential.item
        <4>1. scene[i].wanted /\ scene[i].t <= Infinity /\ scene[i].t \in Nat
          BY SceneFacts DEF Hits, TypeOK
        <4>2. committed.t < scene[i].t /\ committed.t \in Nat /\ Infinity \in Nat
          BY <2>2, <3>2, <4>1 DEF TypeOK, Hit, Infinity
        <4>3. committed.valid
          BY <4>1, <4>2 DEF HitsSound, Sound
        <4> QED BY <1>1, <2>1, <2>4, <4>1, <4>2, <4>3 DEF Beats
      <3>3. CASE i # potential.item /\ Open(i)
        <4>1. \A j : Visiting(j) /\ j # potential.item => Visiting(j)'
          BY <1>1 DEF Visiting
        <4> QED BY <1>1, <2>2, <3>3, <4>1 DEF Open, InstanceKinds
      <3> QED BY <1>1, <3>1, <3>2, <3>3, AskedFacts DEF NothingMissed
    <2> QED BY <1>1, <2>1, <2>4, <2>5, <2>6, <2>7, <2>8, SameScene DEF AskedOK, NothingMissed, OverOK
  <1>5. CASE ForwardRay
    <2>1. /\ scene[potential.item].kind = "software" /\ UNCHANGED <<committed, potential>>
          /\ flags' = [flags EXCEPT ![query.level + 1] = flags[query.level]]
          /\ query' = [ctrl |-> "INSTANCE", level |-> query.level + 1]
      BY <1>5 DEF ForwardRay, Candidate, Forwarded
    <2>2. query.level = 0 /\ HasInstance
      <3>1. query.level = 0
        BY <1>1, <2>1, AskedFacts, SceneFacts DEF TypeOK, At, Levels, InstanceKinds
      <3> QED BY <1>1, <2>1, <3>1, AskedFacts DEF HasInstance, At, InstanceKinds
    <2>3. flags' \in [Levels -> BOOLEAN] /\ flags'[0] = flags[0] /\ flags'[1] = flags[0]
      BY <2>1, <2>2 DEF TypeOK, Levels
    <2>4. ~Asking' /\ ~Over' /\ Carried' = committed
      BY <1>1, <2>1, AskedFacts DEF Asking, Over, Carried
    <2>5. TypeOK'
      BY <1>1, <2>1, <2>2, <2>3 DEF TypeOK, Ctrls, Levels
    <2>6. LevelsOK'
      BY <1>1, <2>1, <2>2, <2>3, <2>4, AskedFacts, SameScene DEF LevelsOK, Idle
    <2>7. HitsSound' /\ Replaces(committed', committed)
      BY <1>1, <2>1, <2>4, SameScene DEF HitsSound, Sound, Replaces, TypeOK, Hit
    <2>8. ASSUME NEW i \in Hits
          PROVE  Open(i)' \/ Beats(Carried, i)'
      <3>1. CASE Beats(committed, i)
        BY <1>1, <2>1, <2>3, <2>4, <3>1 DEF Beats
      <3>2. i # potential.item
        BY <2>1 DEF Hits, InstanceKinds
      <3>3. CASE i \in Inner
        BY <1>1, <2>1, <3>3 DEF Open
      <3>4. CASE i \notin Inner /\ Open(i)
        BY <1>1, <3>2, <3>4 DEF Open, Visiting
      <3> QED BY <1>1, <3>1, <3>3, <3>4, AskedFacts DEF NothingMissed
    <2> QED BY <1>1, <2>1, <2>4, <2>5, <2>6, <2>7, <2>8, SameScene DEF AskedOK, NothingMissed, OverOK
  <1> QED BY <1>2, <1>3, <1>4, <1>5

------------------------------------------------------------------------------
(* The hardware.                                                            *)
LEMMA AtWork ==
  ASSUME RayQueryAssumption, QueryInv, hw # Idle
  PROVE  /\ pc = "sync" /\ hw \in Levels /\ Carried = hit /\ ~Asking /\ ~Over
         /\ todo[hw] \subseteq At(hw) /\ At(hw) \subseteq Items \union Inner
         /\ \A i \in Hits : Open(i) \/ Beats(hit, i)
  <1> USE DEF QueryInv
  <1>1. pc = "sync" /\ hw \in Levels /\ Carried = hit /\ ~Asking /\ ~Over
    BY DEF LevelsOK, TypeOK, Carried, Asking, Over
  <1>2. todo[hw] \subseteq At(hw)
    BY <1>1 DEF LevelsOK
  <1>3. At(hw) \subseteq Items \union Inner
    BY DEF At
  <1> QED BY <1>1, <1>2, <1>3 DEF NothingMissed

(* What is left to visit once i was taken from its level.                   *)
LEMMA Taken ==
  ASSUME RayQueryAssumption, QueryInv, hw # Idle, NEW i \in todo[hw],
         todo' = [todo EXCEPT ![hw] = @ \ {i}]
  PROVE  /\ todo' \in [Levels -> SUBSET (Items \union Inner)]
         /\ \A l \in Levels : todo'[l] \subseteq todo[l]
         /\ todo'[1] # {} => todo[1] # {}
         /\ \A j : Visiting(j) /\ j # i => \E l \in Levels : j \in todo'[l]
  <1>1. hw \in Levels /\ todo \in [Levels -> SUBSET (Items \union Inner)] /\ 1 \in Levels
    BY AtWork DEF QueryInv, TypeOK, Levels
  <1>2. todo' \in [Levels -> SUBSET (Items \union Inner)]
    BY <1>1
  <1>3. \A l \in Levels : todo'[l] = IF l = hw THEN todo[l] \ {i} ELSE todo[l]
    BY <1>1
  <1>4. \A j : Visiting(j) => \E l \in Levels : j \in todo[l]
    BY AtWork DEF Visiting
  <1> QED BY <1>1, <1>2, <1>3, <1>4

LEMMA CullKeeps ==
  ASSUME RayQueryAssumption, QueryInv, NEW i, Cull(i)
  PROVE  QueryInv' /\ Replaces(committed', committed)
  <1> USE DEF QueryInv
  <1>1. /\ hw # Idle /\ i \in todo[hw] /\ Begin(i) > hit.t
        /\ todo' = [todo EXCEPT ![hw] = @ \ {i}]
        /\ UNCHANGED <<scene, query, pc, flags, committed, potential, hit, hw>>
    BY DEF Cull, KeepProgram
  <1>2. i \in Items \union Inner
    BY <1>1, AtWork
  <1>3. hit.valid /\ hit.t < scene[i].t
    <2>1. scene[i].t \in Nat /\ scene[i].t <= Infinity /\ hit.t \in Nat /\ Infinity \in Nat
      BY <1>2, SceneFacts DEF TypeOK, Hit, Infinity
    <2>2. Begin(i) <= scene[i].t /\ Begin(i) \in Nat
      BY <2>1 DEF Begin
    <2>3. hit.t < scene[i].t /\ hit.t # Infinity
      BY <1>1, <2>1, <2>2
    <2> QED BY <1>1, <2>3, AtWork DEF HitsSound, Sound
  <1>4. ~Asking' /\ ~Over' /\ Carried' = hit
    BY <1>1, AtWork DEF Asking, Over, Carried
  <1>5. TypeOK'
    BY <1>1, Taken DEF TypeOK
  <1>6. LevelsOK'
    BY <1>1, <1>4, Taken, AtWork, SameScene DEF LevelsOK
  <1>7. HitsSound' /\ Replaces(committed', committed)
    BY <1>1, <1>4, AtWork, SameScene DEF HitsSound, Sound, Replaces, TypeOK, Hit
  <1>8. ASSUME NEW k \in Hits
        PROVE  Open(k)' \/ Beats(Carried, k)'
    <2>1. CASE Beats(hit, k)
      BY <1>1, <1>4, <2>1 DEF Beats
    <2>2. CASE k = i
      BY <1>1, <1>3, <1>4, <2>2, SceneFacts DEF Beats, TypeOK, Hit
    <2>3. CASE k \in Inner /\ i \in Items /\ scene[i].kind \in InstanceKinds
      <3>1. scene[i].t <= scene[k].t /\ scene[i].t \in Nat /\ scene[k].t \in Nat /\ hit.t \in Nat
        BY <2>3, SceneFacts DEF TypeOK, Hit
      <3>2. hit.t <= scene[k].t
        BY <1>3, <3>1
      <3> QED BY <1>1, <1>3, <1>4, <3>2 DEF Beats
    <2>4. CASE Open(k) /\ k # i /\ ~(k \in Inner /\ i \in Items /\ scene[i].kind \in InstanceKinds)
      <3>1. \A j : Visiting(j) /\ j # i => Visiting(j)'
        BY <1>1, Taken DEF Visiting
      <3> QED BY <1>1, <2>4, <3>1, AtWork DEF Open
    <2> QED BY <1>1, <2>1, <2>2, <2>3, <2>4, AtWork
  <1> QED BY <1>1, <1>4, <1>5, <1>6, <1>7, <1>8, SameScene DEF AskedOK, NothingMissed, OverOK

LEMMA HitOpaqueKeeps ==
  ASSUME RayQueryAssumption, QueryInv, NEW i, HitOpaque(i)
  PROVE  QueryInv' /\ Replaces(committed', committed)
  <1> USE DEF QueryInv
  <1>1. /\ hw # Idle /\ i \in todo[hw] /\ scene[i].kind = "opaque" /\ scene[i].t <= hit.t
        /\ hit' = [NoHit EXCEPT !.t = scene[i].t, !.item = i, !.valid = TRUE, !.level = hw]
        /\ UNCHANGED <<scene, query, pc, flags>>
    BY DEF HitOpaque, Reach, Begin, KeepProgram
  <1>2. i \in Items \union Inner /\ i \in Hits
    <2>1. i \in At(hw) /\ hw \in Levels /\ i \in Items \union Inner
      BY <1>1, AtWork
    <2>2. scene[i].wanted
      BY <1>1, <2>1, SceneFacts DEF TypeOK
    <2> QED BY <1>1, <2>1, <2>2, HitFacts DEF TypeOK, InstanceKinds
  <1>3. scene[i].t \in Nat
    BY <1>2, SceneFacts DEF TypeOK
  <1>4. hit' \in Hit /\ hit'.t = scene[i].t /\ hit'.item = i /\ hit'.valid
    BY <1>1, <1>2, <1>3, AtWork DEF Hit, NoHit
  <1>5. Sound(hit)' /\ Replaces(hit', hit) /\ Replaces(hit', committed)
    <2>1. Replaces(hit', hit) /\ Replaces(hit, committed)
      BY <1>1, <1>4, AtWork DEF Replaces, HitsSound
    <2>2. hit.t \in Nat /\ committed.t \in Nat
      BY DEF TypeOK, Hit
    <2> QED BY <1>1, <1>2, <1>3, <1>4, <2>1, <2>2, SameScene DEF Sound, Replaces
  <1>6. CASE flags[hw]
    <2>1. /\ committed' = hit' /\ hw' = Idle /\ potential' = [potential EXCEPT !.done = TRUE]
          /\ todo' = [l \in Levels |-> {}]
      BY <1>6 DEF HitOpaque
    <2>2. potential' \in Hit /\ potential'.done
      BY <2>1 DEF TypeOK, Hit
    <2>3. TypeOK'
      BY <1>1, <1>4, <2>1, <2>2 DEF TypeOK
    <2>4. ~Asking' /\ Carried' = committed' /\ flags[0] /\ pc' = "sync"
      BY <1>1, <1>6, <2>1, <2>2, AtWork DEF Asking, Carried, LevelsOK, Levels
    <2>5. LevelsOK'
      BY <1>1, <2>1, <2>4 DEF LevelsOK, Levels, Idle
    <2>6. HitsSound' /\ Replaces(committed', committed)
      BY <1>1, <1>3, <1>4, <1>5, <2>1, <2>4 DEF HitsSound, Sound, Replaces
    <2>7. \A k \in Hits' : Beats(committed, k)'
      BY <1>1, <1>4, <2>1, <2>4 DEF Beats
    <2>8. NothingMissed' /\ OverOK'
      BY <2>4, <2>7 DEF NothingMissed, OverOK, Beats
    <2> QED BY <2>3, <2>4, <2>5, <2>6, <2>8 DEF AskedOK
  <1>7. CASE ~flags[hw]
    <2>1. todo' = [todo EXCEPT ![hw] = @ \ {i}] /\ UNCHANGED <<committed, hw, potential>>
      BY <1>7 DEF HitOpaque
    <2>2. ~Asking' /\ ~Over' /\ Carried' = hit'
      BY <1>1, <2>1, AtWork DEF Asking, Over, Carried
    <2>3. TypeOK'
      BY <1>1, <1>4, <2>1, Taken DEF TypeOK
    <2>4. LevelsOK'
      BY <1>1, <2>1, <2>2, Taken, AtWork, SameScene DEF LevelsOK
    <2>5. HitsSound' /\ Replaces(committed', committed)
      BY <1>1, <1>5, <2>1, <2>2, SameScene DEF HitsSound, Sound, Replaces, TypeOK, Hit
    <2>6. ASSUME NEW k \in Hits
          PROVE  Open(k)' \/ Beats(Carried, k)'
      <3>0. scene[k].t \in Nat /\ hit.t \in Nat
        BY SceneFacts DEF Hits, TypeOK, Hit
      <3>1. CASE Beats(hit, k)
        BY <1>1, <1>3, <1>4, <1>5, <2>2, <3>0, <3>1 DEF Beats, Replaces
      <3>2. CASE k = i
        BY <1>1, <1>3, <1>4, <2>2, <3>2 DEF Beats
      <3>3. CASE Open(k) /\ k # i
        <4>1. \A j : Visiting(j) /\ j # i => Visiting(j)'
          BY <1>1, <2>1, Taken DEF Visiting
        <4> QED BY <1>1, <3>3, <4>1, AtWork DEF Open, InstanceKinds
      <3> QED BY <1>1, <3>1, <3>2, <3>3, AtWork
    <2> QED BY <1>1, <2>2, <2>3, <2>4, <2>5, <2>6, SameScene DEF AskedOK, NothingMissed, OverOK
  <1> QED BY <1>6, <1>7

LEMMA HandOverKeeps ==
  ASSUME RayQueryAssumption, QueryInv, NEW i, HandOver(i)
  PROVE  QueryInv' /\ Replaces(committed', committed)
  <1> USE DEF QueryInv
  <1>1. /\ hw # Idle /\ i \in todo[hw] /\ Begin(i) <= hit.t
        /\ scene[i].kind \in {"anyhit", "procedural", "software"}
        /\ potential' = [NoHit EXCEPT !.t = Begin(i), !.item = i, !.valid = TRUE, !.level = hw]
        /\ committed' = hit /\ hw' = Idle /\ todo' = [todo EXCEPT ![hw] = @ \ {i}]
        /\ UNCHANGED <<scene, query, pc, flags, hit>>
    BY DEF HandOver, Reach, KeepProgram
  <1>2. i \in At(hw) /\ hw \in Levels /\ i \in Items \union Inner
    BY <1>1, AtWork
  <1>3. scene[i].t \in Nat /\ Begin(i) \in Nat
    BY <1>2, SceneFacts DEF TypeOK, Begin
  <1>4. /\ potential' \in Hit /\ ~potential'.done /\ potential'.item = i /\ potential'.level = hw
        /\ potential'.t = Begin(i)
    BY <1>1, <1>2, <1>3 DEF Hit, NoHit
  <1>5. Asking' /\ ~Over' /\ Carried' = hit
    BY <1>1, <1>4, AtWork DEF Asking, Over, Carried
  <1>6. TypeOK'
    BY <1>1, <1>4, Taken DEF TypeOK
  <1>7. LevelsOK'
    BY <1>1, <1>4, Taken, AtWork, SameScene DEF LevelsOK, Idle
  <1>8. HitsSound' /\ Replaces(committed', committed)
    BY <1>1, <1>5, AtWork, SameScene DEF HitsSound, Sound, Replaces, TypeOK, Hit
  <1>9. AskedOK'
    BY <1>1, <1>2, <1>4, SameScene DEF AskedOK, Begin
  <1>10. ASSUME NEW k \in Hits
         PROVE  Open(k)' \/ Beats(Carried, k)'
    <2>1. CASE Beats(hit, k)
      BY <1>1, <1>5, <2>1 DEF Beats
    <2>2. \A j : Visiting(j) => Visiting(j)'
      BY <1>1, <1>4, <1>5, Taken DEF Visiting
    <2> QED BY <1>1, <2>1, <2>2, AtWork DEF Open
  <1> QED BY <1>1, <1>5, <1>6, <1>7, <1>8, <1>9, <1>10, SameScene DEF NothingMissed, OverOK

LEMMA EnterKeeps ==
  ASSUME RayQueryAssumption, QueryInv, NEW i, Enter(i)
  PROVE  QueryInv' /\ Replaces(committed', committed)
  <1> USE DEF QueryInv
  <1>1. /\ hw # Idle /\ i \in todo[hw] /\ scene[i].kind = "instance"
        /\ todo' = [todo EXCEPT ![hw] = @ \ {i}, ![hw + 1] = Inner]
        /\ flags' = [flags EXCEPT ![hw + 1] = flags[hw]] /\ hw' = hw + 1
        /\ UNCHANGED <<scene, query, pc, committed, potential, hit>>
    BY DEF Enter, Reach, KeepProgram
  <1>2. i \in At(hw) /\ hw \in Levels
    BY <1>1, AtWork
  <1>3. hw = 0 /\ i \in Items
    BY <1>1, <1>2, SceneFacts DEF At, Levels, TypeOK, InstanceKinds
  <1>4. HasInstance
    BY <1>1, <1>3 DEF HasInstance, InstanceKinds
  <1>5. flags' \in [Levels -> BOOLEAN] /\ flags'[0] = flags[0] /\ flags'[1] = flags[0]
    BY <1>1, <1>3 DEF TypeOK, Levels
  <1>6. /\ todo' \in [Levels -> SUBSET (Items \union Inner)]
        /\ todo'[0] = todo[0] \ {i} /\ todo'[1] = Inner /\ todo[1] = {}
    BY <1>1, <1>3 DEF TypeOK, Levels, LevelsOK
  <1>7. hw' = 1 /\ ~Asking' /\ ~Over' /\ Carried' = hit
    BY <1>1, <1>3, AtWork DEF Asking, Over, Carried, Idle
  <1>8. TypeOK'
    BY <1>1, <1>5, <1>6, <1>7 DEF TypeOK, Levels
  <1>9. LevelsOK'
    <2>1. \A l \in Levels : todo'[l] \subseteq At(l)'
      BY <1>1, <1>4, <1>6, SameScene DEF LevelsOK, At, Levels
    <2>2. flags'[1] => flags'[0]
      BY <1>5
    <2>3. pc' = "sync" /\ hw' = 1
      BY <1>1, <1>7, AtWork
    <2> QED BY <1>7, <2>1, <2>2, <2>3 DEF LevelsOK
  <1>10. HitsSound' /\ Replaces(committed', committed)
    BY <1>1, <1>7, AtWork, SameScene DEF HitsSound, Sound, Replaces, TypeOK, Hit
  <1>11. ASSUME NEW k \in Hits
         PROVE  Open(k)' \/ Beats(Carried, k)'
    <2>1. CASE Beats(hit, k)
      BY <1>1, <1>5, <1>7, <2>1 DEF Beats
    <2>2. CASE k \in Inner
      BY <1>6, <2>2 DEF Open, Visiting, Levels
    <2>3. CASE Open(k) /\ k \notin Inner
      <3>1. k # i
        BY <1>1 DEF Hits, InstanceKinds
      <3>2. k \in todo[0]
        BY <1>1, <1>6, <2>3, AtWork DEF Open, Visiting, Levels
      <3>3. k \in todo'[0] /\ 0 \in Levels
        BY <1>6, <3>1, <3>2 DEF Levels
      <3> QED BY <3>3 DEF Open, Visiting
    <2> QED BY <1>1, <2>1, <2>2, <2>3, AtWork
  <1> QED BY <1>1, <1>7, <1>8, <1>9, <1>10, <1>11, SameScene DEF AskedOK, NothingMissed, OverOK

LEMMA LeaveKeeps ==
  ASSUME RayQueryAssumption, QueryInv, Leave
  PROVE  QueryInv' /\ Replaces(committed', committed)
  <1> USE DEF QueryInv
  <1>1. /\ hw = 1 /\ todo[1] = {} /\ hw' = 0 /\ hw # Idle /\ hw' # Idle
        /\ UNCHANGED <<scene, query, pc, flags, committed, potential, todo, hit>>
    BY DEF Leave, KeepProgram, Idle
  <1>2. ~Asking' /\ ~Over' /\ Carried' = hit
    BY <1>1, AtWork DEF Asking, Over, Carried
  <1>3. TypeOK'
    BY <1>1 DEF TypeOK, Levels
  <1>4. LevelsOK'
    BY <1>1, <1>2, AtWork, SameScene DEF LevelsOK
  <1>5. HitsSound' /\ Replaces(committed', committed)
    BY <1>1, <1>2, AtWork, SameScene DEF HitsSound, Sound, Replaces, TypeOK, Hit
  <1>6. \A k \in Hits : (Open(k) => Open(k)') /\ (Beats(hit, k) => Beats(Carried, k)')
    BY <1>1, <1>2, AtWork DEF Open, Visiting, Beats
  <1> QED BY <1>1, <1>2, <1>3, <1>4, <1>5, <1>6, AtWork, SameScene DEF AskedOK, NothingMissed, OverOK

LEMMA TraversalDoneKeeps ==
  ASSUME RayQueryAssumption, QueryInv, TraversalDone
  PROVE  QueryInv' /\ Replaces(committed', committed)
  <1> USE DEF QueryInv
  <1>1. /\ hw = 0 /\ todo[0] = {} /\ hw' = Idle /\ hw # Idle
        /\ committed' = hit /\ potential' = [potential EXCEPT !.done = TRUE]
        /\ UNCHANGED <<scene, query, pc, flags, todo, hit>>
    BY DEF TraversalDone, KeepProgram, Idle
  <1>2. potential' \in Hit /\ potential'.done
    BY <1>1 DEF TypeOK, Hit
  <1>3. ~Asking' /\ Carried' = hit /\ pc' = "sync"
    BY <1>1, <1>2, AtWork DEF Asking, Carried
  <1>4. TypeOK'
    BY <1>1, <1>2 DEF TypeOK
  <1>5. LevelsOK'
    BY <1>1, <1>3, SameScene DEF LevelsOK, Idle
  <1>6. HitsSound' /\ Replaces(committed', committed)
    BY <1>1, <1>3, AtWork, SameScene DEF HitsSound, Sound, Replaces, TypeOK, Hit
  <1>7. \A k \in Hits : ~Open(k)
    <2>1. \A j : ~Visiting(j)
      BY <1>1, AtWork DEF Visiting, Levels, LevelsOK
    <2> QED BY <1>1, <2>1, AtWork DEF Open
  <1>8. \A k \in Hits' : Beats(committed, k)'
    BY <1>1, <1>7, AtWork, SameScene DEF Beats
  <1>9. NothingMissed' /\ OverOK'
    BY <1>1, <1>3, <1>8 DEF NothingMissed, OverOK, Beats
  <1> QED BY <1>3, <1>4, <1>5, <1>6, <1>9 DEF AskedOK

------------------------------------------------------------------------------
LEMMA QueryInvStep ==
  ASSUME RayQueryAssumption, QueryInv, [Next]_vars
  PROVE  QueryInv' /\ Replaces(committed', committed)
  <1>1. CASE UNCHANGED vars
    <2>1. QueryInv'
      BY <1>1 DEF vars, QueryInv, TypeOK, LevelsOK, HitsSound, AskedOK, NothingMissed, OverOK, Asking,
                  Over, Carried, Sound, Replaces, Beats, Open, Visiting, Hits, HasInstance, At
    <2> QED BY <1>1, <2>1 DEF vars, Replaces, QueryInv, TypeOK, Hit
  <1>2. CASE Program
    BY <1>2, StartKeeps, SyncKeeps, DecideKeeps DEF Program
  <1>3. CASE Hardware
    BY <1>3, CullKeeps, HitOpaqueKeeps, HandOverKeeps, EnterKeeps, LeaveKeeps, TraversalDoneKeeps
       DEF Hardware
  <1> QED BY <1>1, <1>2, <1>3 DEF Next

(* When the loop of the program ends, the committed hit is the closest of   *)
(* all that should count, also across the two levels, and with the first    *)
(* accepted it is any of them; it is a miss only when there are none.       *)
THEOREM QueryAnswersRight == ASSUME RayQueryAssumption PROVE Spec => []AnswerRight
  <1>1. QueryInv => AnswerRight
    <2> SUFFICES ASSUME QueryInv, pc = "end"
                 PROVE  /\ committed.valid <=> Hits # {}
                        /\ committed.valid =>
                             /\ committed.item \in Hits
                             /\ committed.t = scene[committed.item].t
                             /\ flags[0] \/ \A i \in Hits : committed.t <= scene[i].t
      BY DEF AnswerRight
    <2>1. \A i \in Hits : Beats(committed, i)
      BY DEF QueryInv, OverOK, Over
    <2>2. Sound(committed)
      BY DEF QueryInv, HitsSound
    <2> QED BY <2>1, <2>2 DEF Beats, Sound
  <1> QED BY <1>1, QueryInvInit, QueryInvStep, PTL DEF Spec

(* Whatever the program commits, overrides or forwards, the distance of the *)
(* committed hit never grows, and it never becomes a miss again.            *)
THEOREM CommittedHitStays == ASSUME RayQueryAssumption PROVE Spec => CommittedCloser
  <1>1. QueryInv /\ [Next]_vars =>
          [committed'.t <= committed.t /\ (committed.valid => committed'.valid)]_committed
    BY QueryInvStep DEF Replaces
  <1> QED BY <1>1, QueryInvInit, QueryInvStep, PTL DEF Spec, CommittedCloser

------------------------------------------------------------------------------
(* Remainders: neighbours in a ring of w slots.                             *)
LEMMA ModFacts ==
  ASSUME NEW w \in Nat \ {0}, NEW a \in Int
  PROVE  /\ a % w \in 0 .. w - 1
         /\ a \div w \in Int
         /\ a = w * (a \div w) + (a % w)
  OBVIOUS

LEMMA ModUnique ==
  ASSUME NEW w \in Nat \ {0}, NEW p \in Int, NEW q \in Int, NEW x \in 0 .. w - 1,
         NEW y \in 0 .. w - 1, w * p + x = w * q + y
  PROVE  p = q /\ x = y
  <1>1. ASSUME p < q PROVE FALSE
    <2>1. PICK d \in Nat : q = p + 1 + d
      <3>1. q - p - 1 \in Nat /\ q = p + 1 + (q - p - 1) BY <1>1
      <3> QED BY <3>1
    <2>2. w * q = w * p + w + w * d BY <2>1
    <2>3. w * d \in Nat /\ w * p \in Int OBVIOUS
    <2> QED BY <2>2, <2>3
  <1>2. ASSUME q < p PROVE FALSE
    <2>1. PICK d \in Nat : p = q + 1 + d
      <3>1. p - q - 1 \in Nat /\ p = q + 1 + (p - q - 1) BY <1>2
      <3> QED BY <3>1
    <2>2. w * p = w * q + w + w * d BY <2>1
    <2>3. w * d \in Nat /\ w * q \in Int OBVIOUS
    <2> QED BY <2>2, <2>3
  <1>3. p = q BY <1>1, <1>2
  <1>4. w * p \in Int OBVIOUS
  <1> QED BY <1>3, <1>4

LEMMA ModApart ==
  ASSUME NEW w \in Nat \ {0}, NEW a \in Int, NEW b \in Int, a % w = b % w, a <= b, b - a < w
  PROVE  a = b
  <1> DEFINE p == a \div w
             q == b \div w
             x == a % w
  <1>1. p \in Int /\ q \in Int /\ x \in 0 .. w - 1 /\ a = w * p + x /\ b = w * q + x
    BY ModFacts
  <1>2. b - a \in 0 .. w - 1 OBVIOUS
  <1>3. w * p \in Int /\ w * q \in Int OBVIOUS
  <1> HIDE DEF p, q, x
  <1>4. w * p + (b - a) = w * q + 0 BY <1>1, <1>3
  <1>5. 0 \in 0 .. w - 1 OBVIOUS
  <1>6. b - a = 0 BY <1>1, <1>2, <1>4, <1>5, ModUnique
  <1> QED BY <1>6

LEMMA ModShift ==
  ASSUME NEW w \in Nat \ {0}, NEW a \in Int, NEW b \in Int, NEW k \in Int, a = b + w * k
  PROVE  a % w = b % w
  <1> DEFINE p == a \div w
             q == b \div w
             x == a % w
             y == b % w
  <1>1. /\ p \in Int /\ q \in Int /\ x \in 0 .. w - 1 /\ y \in 0 .. w - 1
        /\ a = w * p + x /\ b = w * q + y
    BY ModFacts
  <1> HIDE DEF p, q, x, y
  <1>2. w * p \in Int /\ w * q \in Int /\ w * k \in Int BY <1>1
  <1>3. w * (q + k) = w * q + w * k BY <1>1
  <1>4. w * p + x = w * (q + k) + y BY <1>1, <1>2, <1>3
  <1>5. q + k \in Int BY <1>1
  <1>6. \A c, d \in Int : \A e, f \in 0 .. w - 1 : w * c + e = w * d + f => e = f
    BY ModUnique
  <1>7. x = y
    <2> DEFINE r == q + k
    <2>1. w * p + x = w * r + y /\ r \in Int BY <1>4, <1>5
    <2> HIDE DEF r
    <2> QED BY <1>1, <1>6, <2>1
  <1> QED BY <1>7 DEF x, y

LEMMA ModNeighbours ==
  ASSUME NEW w \in Nat \ {0}, NEW i \in Int
  PROVE  /\ ((i % w) + w - 1) % w = (i - 1) % w
         /\ ((i % w) + 1) % w = (i + 1) % w
  <1> DEFINE q == i \div w
             x == i % w
  <1>1. q \in Int /\ x \in 0 .. w - 1 /\ i = w * q + x BY ModFacts
  <1> HIDE DEF q, x
  <1>2. w * (-q) = -(w * q) /\ w * (1 - q) = w - w * q /\ w * q \in Int BY <1>1
  <1>3. x + 1 = (i + 1) + w * (-q) BY <1>1, <1>2
  <1>4. x + w - 1 = (i - 1) + w * (1 - q) BY <1>1, <1>2
  <1>5. /\ x + 1 \in Int /\ i + 1 \in Int /\ x + w - 1 \in Int /\ i - 1 \in Int
        /\ -q \in Int /\ 1 - q \in Int
    BY <1>1
  <1>6. (x + 1) % w = (i + 1) % w BY <1>3, <1>5, ModShift
  <1>7. (x + w - 1) % w = (i - 1) % w BY <1>4, <1>5, ModShift
  <1> QED BY <1>6, <1>7 DEF x

------------------------------------------------------------------------------
(* Pairing triangles.                                                       *)

(* What is at a place of the window.                                        *)
Slot(a, s) == a[s % WindowSize]

(* The first triangle that is not decided.                                  *)
FrontOf(a, b, e, p) == IF b < e THEN Slot(a, b) ELSE p
Front == FrontOf(array, begin, end, primID)

Undecided == -1
PAIRED == Pairing!QUADIFIER_PAIRED

QuadsType(q) == q \in [0 .. NumTriangles - 1 -> {Undecided, PAIRED} \union 0 .. MaxDistance]

PairTypes ==
  /\ sharesEdge \subseteq (0 .. NumTriangles - 1) \X (0 .. NumTriangles - 1)
  /\ primID \in 0 .. NumTriangles
  /\ array \in [0 .. WindowSize - 1 -> Int]
  /\ begin \in Nat /\ end \in Nat /\ begin <= end /\ end <= begin + WindowSize
  /\ QuadsType(quads)

(* Later slots hold later triangles.                                        *)
InOrder(a, b, e) ==
  \A s, r \in b .. e - 1 : s < r => Slot(a, r) - Slot(a, s) >= r - s

(* The window a, from b to e, holds the triangles below p that are not      *)
(* decided, in their order.                                                 *)
Window(a, b, e, p, q) ==
  /\ \A s \in b .. e - 1 : Slot(a, s) \in 0 .. p - 1 /\ q[Slot(a, s)] = Undecided
  /\ \A i \in 0 .. p - 1 : q[i] = Undecided => \E s \in b .. e - 1 : Slot(a, s) = i
  /\ \A i \in p .. NumTriangles - 1 : q[i] = Undecided
  /\ InOrder(a, b, e)

WindowInv == Window(array, begin, end, primID, quads)

(* The pairs so far, and the triangles they took.                           *)
Chosen(q) == {<<l, l + q[l]>> : l \in {l \in 0 .. NumTriangles - 1 : q[l] \in 1 .. MaxDistance}}
Partners(pairs) == {p[2] : p \in pairs}

(* One round of the quadratic search for triangles with these edges.        *)
Fits(edges, pairs, i) ==
  {j \in i + 1 .. i + MaxDistance : j \notin Partners(pairs) /\ <<i, j>> \in edges}

Decide(edges, pairs, i) ==
  IF i \in Partners(pairs) \/ Fits(edges, pairs, i) = {} THEN pairs
  ELSE pairs \union {<<i, Pairing!Min(Fits(edges, pairs, i))>>}

IsGreedy(edges, f, n) ==
  f = [k \in 0 .. n |-> IF k = 0 THEN {} ELSE Decide(edges, f[k - 1], k - 1)]

Search(edges) == CHOOSE f : IsGreedy(edges, f, NumTriangles)

(* What is decided is what the quadratic search decides for them.           *)
PairsDecided(edges, q, f) ==
  /\ Chosen(q) = Search(edges)[f]
  /\ \A j \in 0 .. NumTriangles - 1 : q[j] = PAIRED <=> j \in Partners(Chosen(q))
  /\ \A l \in 0 .. NumTriangles - 1 : q[l] \notin {Undecided, PAIRED} => l < f

GreedyInv == PairsDecided(sharesEdge, quads, Front)

PairInv == PairTypes /\ WindowInv /\ GreedyInv


LEMMA PairConstants ==
  /\ PAIRED \in Nat /\ MaxDistance < PAIRED /\ MaxDistance \in Nat \ {0}
  /\ WindowSize = MaxDistance + 1 /\ WindowSize \in Nat \ {0}
  /\ NumTriangles \in Nat
  /\ Pairing!Triangles = 0 .. NumTriangles - 1
  <1>1. PAIRED \in Nat BY DEF PAIRED, Pairing!QUADIFIER_PAIRED
  <1>2. Pairing!WindowAssumption /\ Pairing!NumTrianglesAssumption
    BY LeavesAssumption DEF LeavesAssumption
  <1> QED BY <1>1, <1>2
       DEF PAIRED, Pairing!WindowAssumption, Pairing!NumTrianglesAssumption, Pairing!Triangles

LEMMA GreedyExists ==
  ASSUME NEW edges, NEW n \in Nat
  PROVE  \E f : IsGreedy(edges, f, n)
  <1> DEFINE C == {l \in Nat : ~ \E f : IsGreedy(edges, f, l)}
  <1>1. SUFFICES ASSUME C # {} PROVE FALSE OBVIOUS
  <1>2. PICK l \in C : \A m \in C : l <= m
    <2> C \in SUBSET Nat OBVIOUS
    <2> HIDE DEF C
    <2> QED BY <1>1, SmallestNat
  <1>3. CASE l = 0
    <2> DEFINE f == [k \in 0 .. 0 |-> {}]
    <2>1. IsGreedy(edges, f, 0) BY DEF IsGreedy
    <2> QED BY <1>2, <1>3, <2>1
  <1>4. CASE l # 0
    <2>1. l - 1 \in Nat /\ l - 1 \notin C BY <1>2, <1>4
    <2>2. PICK f : IsGreedy(edges, f, l - 1) BY <2>1
    <2> DEFINE g == [k \in 0 .. l |-> IF k = l THEN Decide(edges, f[l - 1], l - 1) ELSE f[k]]
    <2>3. ASSUME NEW k \in 0 .. l
          PROVE  g[k] = IF k = 0 THEN {} ELSE Decide(edges, g[k - 1], k - 1)
      <3>1. f = [i \in 0 .. l - 1 |-> IF i = 0 THEN {} ELSE Decide(edges, f[i - 1], i - 1)]
        BY <2>2 DEF IsGreedy
      <3>2. CASE k = l BY <1>4, <2>1, <3>2
      <3>3. CASE k # l
        <4>1. k \in 0 .. l - 1 BY <2>1, <3>3
        <4>2. f[k] = IF k = 0 THEN {} ELSE Decide(edges, f[k - 1], k - 1) BY <3>1, <4>1
        <4>3. k # 0 => k - 1 \in 0 .. l /\ k - 1 # l BY <4>1
        <4> QED BY <3>3, <4>2, <4>3
      <3> QED BY <3>2, <3>3
    <2>4. IsGreedy(edges, g, l)
      <3> DEFINE h == [k \in 0 .. l |-> IF k = 0 THEN {} ELSE Decide(edges, g[k - 1], k - 1)]
      <3>1. \A k \in 0 .. l : g[k] = h[k]
        <4> HIDE DEF g
        <4> QED BY <2>3
      <3>2. g = [k \in 0 .. l |-> g[k]] /\ h = [k \in 0 .. l |-> h[k]] OBVIOUS
      <3>3. g = h
        <4> HIDE DEF g, h
        <4> QED BY <3>1, <3>2
      <3> HIDE DEF g
      <3> QED BY <3>3 DEF IsGreedy
    <2> HIDE DEF g
    <2> QED BY <1>2, <2>4
  <1> QED BY <1>3, <1>4

LEMMA GreedyIsSearch == Pairing!Greedy = Search(sharesEdge)
  BY DEF Pairing!Greedy, Search, IsGreedy, Decide, Fits, Partners

LEMMA GreedyRounds ==
  ASSUME NEW edges
  PROVE  /\ Search(edges)[0] = {}
         /\ \A n \in 0 .. NumTriangles - 1 :
              Search(edges)[n + 1] = Decide(edges, Search(edges)[n], n)
  <1> DEFINE F == Search(edges)
  <1>1. IsGreedy(edges, F, NumTriangles) BY GreedyExists, PairConstants DEF Search
  <1> HIDE DEF F
  <1>2. F = [k \in 0 .. NumTriangles |-> IF k = 0 THEN {} ELSE Decide(edges, F[k - 1], k - 1)]
    BY <1>1 DEF IsGreedy
  <1>3. 0 \in 0 .. NumTriangles BY PairConstants
  <1>4. ASSUME NEW n \in 0 .. NumTriangles - 1
        PROVE  F[n + 1] = Decide(edges, F[n], n)
    <2>1. n + 1 \in 0 .. NumTriangles /\ n + 1 # 0 /\ (n + 1) - 1 = n BY PairConstants
    <2> QED BY <1>2, <2>1
  <1> QED BY <1>2, <1>3, <1>4 DEF F

(* Triangles that are taken change nothing.                                 *)
LEMMA GreedySkips ==
  ASSUME NEW edges, NEW f \in Nat, NEW g \in Nat, f <= g, g <= NumTriangles, NEW pairs,
         Search(edges)[f] = pairs, \A i \in f .. g - 1 : i \in Partners(pairs)
  PROVE  Search(edges)[g] = pairs
  <1> DEFINE C == {n \in Nat : f <= n /\ n <= g /\ Search(edges)[n] # pairs}
  <1>1. SUFFICES ASSUME C # {} PROVE FALSE OBVIOUS
  <1>2. PICK n \in C : \A m \in C : n <= m
    <2> C \in SUBSET Nat OBVIOUS
    <2> HIDE DEF C
    <2> QED BY <1>1, SmallestNat
  <1>3. n # f OBVIOUS
  <1>4. /\ n - 1 \in Nat /\ n - 1 \in f .. g - 1 /\ n - 1 \notin C
        /\ n - 1 \in 0 .. NumTriangles - 1 /\ (n - 1) + 1 = n
    BY <1>2, <1>3, PairConstants
  <1>5. Search(edges)[n - 1] = pairs BY <1>4
  <1>6. n - 1 \in Partners(pairs) BY <1>4
  <1>7. Search(edges)[(n - 1) + 1] = Decide(edges, Search(edges)[n - 1], n - 1)
    BY <1>4, GreedyRounds
  <1>8. Search(edges)[n] = pairs BY <1>4, <1>5, <1>6, <1>7 DEF Decide
  <1> QED BY <1>2, <1>8

(* Erasing moves the slots on one side.                                     *)
MovedLeft(a, b, j) ==
  [s \in DOMAIN a |-> IF \E i \in b + 1 .. j : i % WindowSize = s
                      THEN a[(s + WindowSize - 1) % WindowSize] ELSE a[s]]

MovedRight(a, j, e) ==
  [s \in DOMAIN a |-> IF \E i \in j + 1 .. e - 1 : (i - 1) % WindowSize = s
                      THEN a[(s + 1) % WindowSize] ELSE a[s]]

LEMMA ErasedLeft ==
  ASSUME NEW a \in [0 .. WindowSize - 1 -> Int], NEW b \in Int, NEW j \in Int, NEW e \in Int,
         b <= j, j <= e - 1, e - b <= WindowSize
  PROVE  /\ MovedLeft(a, b, j) \in [0 .. WindowSize - 1 -> Int]
         /\ \A s \in b + 1 .. e - 1 :
              Slot(MovedLeft(a, b, j), s) = IF s <= j THEN Slot(a, s - 1) ELSE Slot(a, s)
  <1> DEFINE n == MovedLeft(a, b, j)
  <1>1. WindowSize \in Nat \ {0} BY PairConstants
  <1>2. \A s \in DOMAIN a : (s + WindowSize - 1) % WindowSize \in DOMAIN a
    <2>1. \A s \in DOMAIN a : s + WindowSize - 1 \in Int BY <1>1
    <2> QED BY <1>1, <2>1, ModFacts
  <1>3. n \in [0 .. WindowSize - 1 -> Int] BY <1>2 DEF MovedLeft
  <1>4. ASSUME NEW s \in b + 1 .. e - 1
        PROVE  Slot(n, s) = IF s <= j THEN Slot(a, s - 1) ELSE Slot(a, s)
    <2> DEFINE x == s % WindowSize
    <2>0. s \in Int OBVIOUS
    <2>1. x \in DOMAIN a BY <1>1, <2>0, ModFacts
    <2>2. (x + WindowSize - 1) % WindowSize = (s - 1) % WindowSize BY <1>1, <2>0, ModNeighbours
    <2>3. n[x] = IF \E i \in b + 1 .. j : i % WindowSize = x
                 THEN a[(x + WindowSize - 1) % WindowSize] ELSE a[x]
      BY <2>1 DEF MovedLeft
    <2>4. CASE s <= j
      <3>1. \E i \in b + 1 .. j : i % WindowSize = x BY <2>4
      <3> QED BY <2>2, <2>3, <2>4, <3>1 DEF Slot
    <2>5. CASE s > j
      <3>1. ASSUME NEW i \in b + 1 .. j, i % WindowSize = x PROVE FALSE
        <4>1. i \in Int /\ s \in Int /\ i <= s /\ s - i < WindowSize BY <1>1, <2>5
        <4>2. i = s BY <1>1, <3>1, <4>1, ModApart
        <4> QED BY <2>5, <4>2
      <3> QED BY <2>3, <2>5, <3>1 DEF Slot
    <2> QED BY <2>4, <2>5
  <1> QED BY <1>3, <1>4

LEMMA ErasedRight ==
  ASSUME NEW a \in [0 .. WindowSize - 1 -> Int], NEW b \in Int, NEW j \in Int, NEW e \in Int,
         b <= j, j <= e - 1, e - b <= WindowSize
  PROVE  /\ MovedRight(a, j, e) \in [0 .. WindowSize - 1 -> Int]
         /\ \A s \in b .. e - 2 :
              Slot(MovedRight(a, j, e), s) = IF s >= j THEN Slot(a, s + 1) ELSE Slot(a, s)
  <1> DEFINE n == MovedRight(a, j, e)
  <1>1. WindowSize \in Nat \ {0} BY PairConstants
  <1>2. \A s \in DOMAIN a : (s + 1) % WindowSize \in DOMAIN a
    <2>1. \A s \in DOMAIN a : s + 1 \in Int OBVIOUS
    <2> QED BY <1>1, <2>1, ModFacts
  <1>3. n \in [0 .. WindowSize - 1 -> Int] BY <1>2 DEF MovedRight
  <1>4. ASSUME NEW s \in b .. e - 2
        PROVE  Slot(n, s) = IF s >= j THEN Slot(a, s + 1) ELSE Slot(a, s)
    <2> DEFINE x == s % WindowSize
    <2>0. s \in Int OBVIOUS
    <2>1. x \in DOMAIN a BY <1>1, <2>0, ModFacts
    <2>2. (x + 1) % WindowSize = (s + 1) % WindowSize BY <1>1, <2>0, ModNeighbours
    <2>3. n[x] = IF \E i \in j + 1 .. e - 1 : (i - 1) % WindowSize = x
                 THEN a[(x + 1) % WindowSize] ELSE a[x]
      BY <2>1 DEF MovedRight
    <2>4. CASE s >= j
      <3>1. s + 1 \in j + 1 .. e - 1 /\ (s + 1) - 1 = s BY <2>4
      <3>2. \E i \in j + 1 .. e - 1 : (i - 1) % WindowSize = x BY <3>1
      <3> QED BY <2>2, <2>3, <2>4, <3>2 DEF Slot
    <2>5. CASE s < j
      <3>1. ASSUME NEW i \in j + 1 .. e - 1, (i - 1) % WindowSize = x PROVE FALSE
        <4>1. i - 1 \in Int /\ s \in Int /\ s <= i - 1 /\ (i - 1) - s < WindowSize BY <1>1, <2>5
        <4>2. s % WindowSize = (i - 1) % WindowSize BY <3>1
        <4>3. s = i - 1 BY <1>1, <4>1, <4>2, ModApart
        <4> QED BY <2>5, <4>3
      <3> QED BY <2>3, <2>5, <3>1 DEF Slot
    <2> QED BY <2>4, <2>5
  <1> QED BY <1>3, <1>4



LEMMA FrontFacts ==
  ASSUME NEW a \in [0 .. WindowSize - 1 -> Int], NEW b \in Nat, NEW e \in Nat, b <= e,
         NEW p \in 0 .. NumTriangles, NEW q, QuadsType(q), Window(a, b, e, p, q)
  PROVE  /\ FrontOf(a, b, e, p) \in 0 .. NumTriangles
         /\ b < e => FrontOf(a, b, e, p) < p /\ q[FrontOf(a, b, e, p)] = Undecided
         /\ \A l \in 0 .. FrontOf(a, b, e, p) - 1 : q[l] # Undecided
  <1>1. NumTriangles \in Nat BY PairConstants
  <1>2. CASE b < e
    <2>1. b \in b .. e - 1 BY <1>2
    <2>2. Slot(a, b) \in 0 .. p - 1 /\ q[Slot(a, b)] = Undecided BY <2>1 DEF Window
    <2>3. ASSUME NEW l \in 0 .. Slot(a, b) - 1, q[l] = Undecided PROVE FALSE
      <3>1. l \in 0 .. p - 1 BY <2>2
      <3>2. PICK s \in b .. e - 1 : Slot(a, s) = l BY <2>3, <3>1 DEF Window
      <3>3. s # b BY <2>2, <3>2
      <3>4. b < s /\ s \in Int BY <3>3
      <3>5. Slot(a, s) - Slot(a, b) >= s - b BY <2>1, <3>4 DEF Window, InOrder
      <3> QED BY <2>2, <3>2, <3>4, <3>5
    <2> QED BY <1>1, <1>2, <2>2, <2>3 DEF FrontOf
  <1>3. CASE ~(b < e)
    <2>1. b .. e - 1 = {} BY <1>3
    <2>2. \A l \in 0 .. p - 1 : q[l] # Undecided BY <2>1 DEF Window
    <2> QED BY <1>1, <1>3, <2>2 DEF FrontOf
  <1> QED BY <1>2, <1>3

(* Behind the triangle f that was decided last, the search skips those that *)
(* are taken until the first one that is left.                              *)
LEMMA NextFront ==
  ASSUME NEW a \in [0 .. WindowSize - 1 -> Int], NEW b \in Nat, NEW e \in Nat, b <= e,
         NEW p \in 0 .. NumTriangles, NEW q, QuadsType(q), Window(a, b, e, p, q),
         NEW edges, NEW f \in 0 .. p - 1,
         \A l \in 0 .. f : q[l] # Undecided,
         \A l \in 0 .. NumTriangles - 1 : q[l] \notin {Undecided, PAIRED} => l <= f,
         \A j \in 0 .. NumTriangles - 1 : q[j] = PAIRED <=> j \in Partners(Chosen(q)),
         Search(edges)[f + 1] = Chosen(q)
  PROVE  PairsDecided(edges, q, FrontOf(a, b, e, p))
  <1> DEFINE g == FrontOf(a, b, e, p)
  <1>1. /\ g \in 0 .. NumTriangles
        /\ b < e => g < p /\ q[g] = Undecided
        /\ \A l \in 0 .. g - 1 : q[l] # Undecided
    BY FrontFacts
  <1>2. NumTriangles \in Nat BY PairConstants
  <1>3. ~(b < e) => g = p BY DEF FrontOf
  <1> HIDE DEF g
  <1>4. f < g
    <2>1. CASE b < e
      <3>1. g \in Nat /\ ~(g \in 0 .. f) BY <1>1, <2>1
      <3> QED BY <3>1
    <2>2. CASE ~(b < e) BY <1>3, <2>2
    <2> QED BY <2>1, <2>2
  <1>5. \A i \in f + 1 .. g - 1 : i \in Partners(Chosen(q))
    <2> TAKE i \in f + 1 .. g - 1
    <2>1. i \in 0 .. g - 1 /\ i \in 0 .. NumTriangles - 1 /\ ~(i <= f) BY <1>1, <1>2
    <2>2. q[i] # Undecided BY <1>1, <2>1
    <2>3. q[i] = PAIRED BY <2>1, <2>2
    <2> QED BY <2>1, <2>3
  <1>6. f + 1 \in Nat /\ g \in Nat /\ f + 1 <= g /\ g <= NumTriangles BY <1>1, <1>2, <1>4
  <1>7. Search(edges)[g] = Chosen(q) BY <1>5, <1>6, GreedySkips
  <1>8. \A l \in 0 .. NumTriangles - 1 : q[l] \notin {Undecided, PAIRED} => l < g
    BY <1>1, <1>4
  <1> QED BY <1>7, <1>8 DEF PairsDecided, g

LEMMA EraseKeeps ==
  ASSUME PairTypes, InOrder(array, begin, end), NEW j \in begin + 1 .. end - 1,
         Pairing!Erase(begin + 1, j)
  PROVE  /\ array' \in [0 .. WindowSize - 1 -> Int]
         /\ begin' \in Nat /\ end' \in Nat /\ begin' <= end' /\ end' <= begin' + WindowSize
         /\ \A s \in begin' .. end' - 1 : \E r \in begin + 1 .. end - 1 :
              r # j /\ Slot(array', s) = Slot(array, r)
         /\ \A r \in begin + 1 .. end - 1 : r # j =>
              \E s \in begin' .. end' - 1 : Slot(array', s) = Slot(array, r)
         /\ InOrder(array', begin', end')
  <1>1. WindowSize \in Nat \ {0} BY PairConstants
  <1>2. /\ array \in [0 .. WindowSize - 1 -> Int] /\ begin \in Nat /\ end \in Nat
        /\ begin <= end /\ end <= begin + WindowSize
    BY DEF PairTypes
  <1>3. \A s, r \in begin .. end - 1 : s < r => Slot(array, r) - Slot(array, s) >= r - s
    BY DEF InOrder
  <1>4. \A s \in begin .. end - 1 : Slot(array, s) \in Int
    <2> TAKE s \in begin .. end - 1
    <2>1. s % WindowSize \in 0 .. WindowSize - 1
      <3>1. s \in Int BY <1>2
      <3> QED BY <1>1, <3>1, ModFacts
    <2> QED BY <1>2, <2>1 DEF Slot
  <1>5. /\ begin + 1 \in Int /\ j \in Int /\ end \in Int /\ begin + 1 <= j /\ j <= end - 1
        /\ end - (begin + 1) <= WindowSize
    BY <1>1, <1>2
  <1>6. CASE Pairing!EraseLeft(begin + 1, j)
    <2>1. array' = MovedLeft(array, begin + 1, j)
      BY <1>6 DEF Pairing!EraseLeft, MovedLeft
    <2>2. begin' = begin + 2 /\ end' = end BY <1>2, <1>6 DEF Pairing!EraseLeft
    <2>3. /\ array' \in [0 .. WindowSize - 1 -> Int]
          /\ \A s \in (begin + 1) + 1 .. end - 1 :
               Slot(array', s) = IF s <= j THEN Slot(array, s - 1) ELSE Slot(array, s)
      <3> DEFINE b == begin + 1
                 m == MovedLeft(array, b, j)
      <3>1. b \in Int /\ b <= j /\ end - b <= WindowSize BY <1>5
      <3>2. array' = m BY <2>1
      <3>3. /\ m \in [0 .. WindowSize - 1 -> Int]
            /\ \A s \in b + 1 .. end - 1 :
                 Slot(m, s) = IF s <= j THEN Slot(array, s - 1) ELSE Slot(array, s)
        <4> HIDE DEF b
        <4>1. /\ array \in [0 .. WindowSize - 1 -> Int] /\ j \in Int /\ end \in Int
              /\ j <= end - 1
          BY <1>2, <1>5
        <4> QED BY <3>1, <4>1, ErasedLeft, Zenon
      <3> HIDE DEF m
      <3> QED BY <3>2, <3>3
    <2>4. \A s \in begin + 2 .. end - 1 :
            /\ s <= j => Slot(array', s) = Slot(array, s - 1)
            /\ s > j => Slot(array', s) = Slot(array, s)
      BY <1>2, <1>5, <2>3
    <2>5. ASSUME NEW s \in begin' .. end' - 1
          PROVE  \E r \in begin + 1 .. end - 1 : r # j /\ Slot(array', s) = Slot(array, r)
      <3>1. s \in begin + 2 .. end - 1 BY <2>2
      <3>2. CASE s <= j
        <4>1. s - 1 \in begin + 1 .. end - 1 /\ s - 1 # j BY <1>2, <1>5, <3>1, <3>2
        <4> QED BY <2>4, <3>1, <3>2, <4>1
      <3>3. CASE s > j
        <4>1. s \in begin + 1 .. end - 1 /\ s # j BY <1>2, <1>5, <3>1, <3>3
        <4> QED BY <2>4, <3>1, <3>3, <4>1
      <3> QED BY <1>5, <3>1, <3>2, <3>3
    <2>6. ASSUME NEW r \in begin + 1 .. end - 1, r # j
          PROVE  \E s \in begin' .. end' - 1 : Slot(array', s) = Slot(array, r)
      <3>1. CASE r < j
        <4>1. r + 1 \in begin + 2 .. end - 1 /\ r + 1 <= j /\ (r + 1) - 1 = r
          BY <1>2, <1>5, <3>1
        <4>2. Slot(array', r + 1) = Slot(array, r) BY <2>4, <4>1
        <4> QED BY <2>2, <4>1, <4>2
      <3>2. CASE r > j
        <4>1. r \in begin + 2 .. end - 1 BY <1>2, <1>5, <3>2
        <4>2. Slot(array', r) = Slot(array, r) BY <2>4, <3>2, <4>1
        <4> QED BY <2>2, <4>1, <4>2
      <3> QED BY <1>2, <1>5, <2>6, <3>1, <3>2
    <2>7. ASSUME NEW s \in begin' .. end' - 1, NEW r \in begin' .. end' - 1, s < r
          PROVE  Slot(array', r) - Slot(array', s) >= r - s
      <3>1. s \in begin + 2 .. end - 1 /\ r \in begin + 2 .. end - 1 BY <2>2
      <3>2. CASE r <= j
        <4>1. /\ s - 1 \in begin .. end - 1 /\ r - 1 \in begin .. end - 1 /\ s - 1 < r - 1
              /\ s <= j
          BY <1>2, <1>5, <2>7, <3>1, <3>2
        <4>2. Slot(array', s) = Slot(array, s - 1) /\ Slot(array', r) = Slot(array, r - 1)
          BY <2>4, <3>1, <3>2, <4>1
        <4>3. Slot(array, r - 1) - Slot(array, s - 1) >= (r - 1) - (s - 1) BY <1>3, <4>1
        <4> QED BY <1>2, <1>5, <3>1, <4>2, <4>3
      <3>3. CASE s <= j /\ r > j
        <4>1. s - 1 \in begin .. end - 1 /\ r \in begin .. end - 1 /\ s - 1 < r
          BY <1>2, <1>5, <2>7, <3>1
        <4>2. Slot(array', s) = Slot(array, s - 1) /\ Slot(array', r) = Slot(array, r)
          BY <2>4, <3>1, <3>3
        <4>3. Slot(array, r) - Slot(array, s - 1) >= r - (s - 1) BY <1>3, <4>1
        <4>4. Slot(array, r) \in Int /\ Slot(array, s - 1) \in Int BY <1>4, <4>1
        <4> QED BY <1>2, <1>5, <3>1, <4>2, <4>3, <4>4
      <3>4. CASE s > j
        <4>1. s \in begin .. end - 1 /\ r \in begin .. end - 1 /\ r > j
          BY <1>2, <1>5, <2>7, <3>1, <3>4
        <4>2. Slot(array', s) = Slot(array, s) /\ Slot(array', r) = Slot(array, r)
          BY <2>4, <3>1, <3>4, <4>1
        <4> QED BY <1>3, <2>7, <4>1, <4>2
      <3> QED BY <1>5, <3>1, <3>2, <3>3, <3>4
    <2>8. begin' \in Nat /\ end' \in Nat /\ begin' <= end' /\ end' <= begin' + WindowSize
      BY <1>1, <1>2, <1>5, <2>2
    <2> QED BY <2>3, <2>5, <2>6, <2>7, <2>8 DEF InOrder
  <1>7. CASE Pairing!EraseRight(begin + 1, j)
    <2>1. array' = MovedRight(array, j, end)
      BY <1>7 DEF Pairing!EraseRight, MovedRight
    <2>2. begin' = begin + 1 /\ end' = end - 1 BY <1>2, <1>7 DEF Pairing!EraseRight
    <2>3. /\ array' \in [0 .. WindowSize - 1 -> Int]
          /\ \A s \in begin + 1 .. end - 2 :
               Slot(array', s) = IF s >= j THEN Slot(array, s + 1) ELSE Slot(array, s)
      <3> DEFINE b == begin + 1
                 m == MovedRight(array, j, end)
      <3>1. b \in Int /\ b <= j /\ end - b <= WindowSize BY <1>5
      <3>2. array' = m BY <2>1
      <3>3. /\ m \in [0 .. WindowSize - 1 -> Int]
            /\ \A s \in b .. end - 2 :
                 Slot(m, s) = IF s >= j THEN Slot(array, s + 1) ELSE Slot(array, s)
        <4> HIDE DEF b
        <4> QED BY <1>2, <1>5, <3>1, ErasedRight
      <3> HIDE DEF m
      <3> QED BY <3>2, <3>3
    <2>4. \A s \in begin + 1 .. end - 2 :
            /\ s >= j => Slot(array', s) = Slot(array, s + 1)
            /\ s < j => Slot(array', s) = Slot(array, s)
      BY <1>2, <1>5, <2>3
    <2>5. ASSUME NEW s \in begin' .. end' - 1
          PROVE  \E r \in begin + 1 .. end - 1 : r # j /\ Slot(array', s) = Slot(array, r)
      <3>1. s \in begin + 1 .. end - 2 BY <1>2, <2>2
      <3>2. CASE s >= j
        <4>1. s + 1 \in begin + 1 .. end - 1 /\ s + 1 # j BY <1>2, <1>5, <3>1, <3>2
        <4> QED BY <2>4, <3>1, <3>2, <4>1
      <3>3. CASE s < j
        <4>1. s \in begin + 1 .. end - 1 /\ s # j BY <1>2, <1>5, <3>1, <3>3
        <4> QED BY <2>4, <3>1, <3>3, <4>1
      <3> QED BY <1>5, <3>1, <3>2, <3>3
    <2>6. ASSUME NEW r \in begin + 1 .. end - 1, r # j
          PROVE  \E s \in begin' .. end' - 1 : Slot(array', s) = Slot(array, r)
      <3>1. CASE r > j
        <4>1. r - 1 \in begin + 1 .. end - 2 /\ r - 1 >= j /\ (r - 1) + 1 = r
          BY <1>2, <1>5, <3>1
        <4>2. Slot(array', r - 1) = Slot(array, r) BY <2>4, <4>1
        <4>3. r - 1 \in begin' .. end' - 1 BY <1>2, <2>2, <4>1
        <4> QED BY <4>2, <4>3
      <3>2. CASE r < j
        <4>1. r \in begin + 1 .. end - 2 BY <1>2, <1>5, <3>2
        <4>2. Slot(array', r) = Slot(array, r) BY <2>4, <3>2, <4>1
        <4>3. r \in begin' .. end' - 1 BY <1>2, <2>2, <4>1
        <4> QED BY <4>2, <4>3
      <3> QED BY <1>2, <1>5, <2>6, <3>1, <3>2
    <2>7. ASSUME NEW s \in begin' .. end' - 1, NEW r \in begin' .. end' - 1, s < r
          PROVE  Slot(array', r) - Slot(array', s) >= r - s
      <3>1. s \in begin + 1 .. end - 2 /\ r \in begin + 1 .. end - 2 BY <1>2, <2>2
      <3>2. CASE s >= j
        <4>1. /\ s + 1 \in begin .. end - 1 /\ r + 1 \in begin .. end - 1 /\ s + 1 < r + 1
              /\ r >= j
          BY <1>2, <1>5, <2>7, <3>1, <3>2
        <4>2. Slot(array', s) = Slot(array, s + 1) /\ Slot(array', r) = Slot(array, r + 1)
          BY <2>4, <3>1, <3>2, <4>1
        <4>3. Slot(array, r + 1) - Slot(array, s + 1) >= (r + 1) - (s + 1) BY <1>3, <4>1
        <4> QED BY <1>2, <1>5, <3>1, <4>2, <4>3
      <3>3. CASE s < j /\ r >= j
        <4>1. s \in begin .. end - 1 /\ r + 1 \in begin .. end - 1 /\ s < r + 1
          BY <1>2, <1>5, <2>7, <3>1
        <4>2. Slot(array', s) = Slot(array, s) /\ Slot(array', r) = Slot(array, r + 1)
          BY <2>4, <3>1, <3>3
        <4>3. Slot(array, r + 1) - Slot(array, s) >= (r + 1) - s BY <1>3, <4>1
        <4>4. Slot(array, r + 1) \in Int /\ Slot(array, s) \in Int BY <1>4, <4>1
        <4> QED BY <1>2, <1>5, <3>1, <4>2, <4>3, <4>4
      <3>4. CASE r < j
        <4>1. s \in begin .. end - 1 /\ r \in begin .. end - 1 /\ s < j
          BY <1>2, <1>5, <2>7, <3>1, <3>4
        <4>2. Slot(array', s) = Slot(array, s) /\ Slot(array', r) = Slot(array, r)
          BY <2>4, <3>1, <3>4, <4>1
        <4> QED BY <1>3, <2>7, <4>1, <4>2
      <3> QED BY <1>5, <3>1, <3>2, <3>3, <3>4
    <2>8. begin' \in Nat /\ end' \in Nat /\ begin' <= end' /\ end' <= begin' + WindowSize
      BY <1>1, <1>2, <1>5, <2>2
    <2> QED BY <2>3, <2>5, <2>6, <2>7, <2>8 DEF InOrder
  <1> QED BY <1>6, <1>7 DEF Pairing!Erase


LEMMA PairInit == ASSUME Pairing!Init PROVE PairInv
  <1>1. NumTriangles \in Nat /\ WindowSize \in Nat \ {0} BY PairConstants
  <1>2. primID = 0 /\ begin = 0 /\ end = 0 BY DEF Pairing!Init
  <1>3. quads = [i \in 0 .. NumTriangles - 1 |-> Undecided]
    BY PairConstants DEF Pairing!Init, Pairing!Undecided, Undecided
  <1>4. sharesEdge \subseteq (0 .. NumTriangles - 1) \X (0 .. NumTriangles - 1)
    <2>1. sharesEdge \in UNION {Pairing!kSubset(k, Pairing!NearPairs) : k \in 0 .. MaxEdges}
      BY DEF Pairing!Init, Pairing!Inputs
    <2>2. sharesEdge \subseteq Pairing!NearPairs BY <2>1 DEF Pairing!kSubset
    <2> QED BY <2>2, PairConstants DEF Pairing!NearPairs
  <1>5. array \in [0 .. WindowSize - 1 -> Int] BY DEF Pairing!Init
  <1>6. QuadsType(quads) BY <1>3 DEF QuadsType
  <1>7. PairTypes BY <1>1, <1>2, <1>4, <1>5, <1>6 DEF PairTypes
  <1>8. WindowInv BY <1>1, <1>2, <1>3 DEF WindowInv, Window, InOrder
  <1>9. GreedyInv
    <2>1. Front = 0 BY <1>2 DEF Front, FrontOf
    <2>2. \A l \in 0 .. NumTriangles - 1 : quads[l] = Undecided BY <1>3
    <2>3. Chosen(quads) = {} BY <2>2, <1>1 DEF Chosen, Undecided
    <2>4. PAIRED # Undecided BY PairConstants DEF Undecided
    <2> QED BY <2>1, <2>2, <2>3, <2>4, GreedyRounds DEF GreedyInv, PairsDecided, Partners
  <1> QED BY <1>7, <1>8, <1>9 DEF PairInv

LEMMA SlotTypes ==
  ASSUME PairTypes, NEW s \in Int
  PROVE  s % WindowSize \in 0 .. WindowSize - 1 /\ Slot(array, s) \in Int
  <1>1. s % WindowSize \in 0 .. WindowSize - 1 BY PairConstants, ModFacts
  <1> QED BY <1>1 DEF Slot, PairTypes

LEMMA PairPush == ASSUME PairInv, Pairing!Push PROVE PairInv'
  <1>1. NumTriangles \in Nat /\ WindowSize \in Nat \ {0} BY PairConstants
  <1>2. /\ primID < NumTriangles /\ end - begin # WindowSize
        /\ array' = [array EXCEPT ![end % WindowSize] = primID]
        /\ end' = end + 1 /\ primID' = primID + 1
        /\ sharesEdge' = sharesEdge /\ begin' = begin /\ quads' = quads
    BY DEF Pairing!Push, Pairing!Full
  <1>3. PairTypes BY DEF PairInv
  <1>4. /\ primID \in 0 .. NumTriangles /\ array \in [0 .. WindowSize - 1 -> Int]
        /\ begin \in Nat /\ end \in Nat /\ begin <= end /\ end <= begin + WindowSize
    BY <1>3 DEF PairTypes
  <1>5. end % WindowSize \in 0 .. WindowSize - 1 BY <1>1, <1>4, ModFacts
  <1>6. PairTypes'
    <2>1. array' \in [0 .. WindowSize - 1 -> Int]
      <3>1. primID \in Int BY <1>1, <1>4
      <3> QED BY <1>2, <1>4, <1>5, <3>1
    <2>2. end' <= begin' + WindowSize BY <1>1, <1>2, <1>4
    <2>3. primID' \in 0 .. NumTriangles BY <1>1, <1>2, <1>4
    <2>4. begin' \in Nat /\ end' \in Nat /\ begin' <= end' BY <1>2, <1>4
    <2>5. QuadsType(quads') BY <1>2, <1>3 DEF PairTypes
    <2> QED BY <1>2, <1>3, <2>1, <2>2, <2>3, <2>4, <2>5 DEF PairTypes, QuadsType
  <1>7. \A s \in begin .. end - 1 : Slot(array', s) = Slot(array, s)
    <2> TAKE s \in begin .. end - 1
    <2>1. s \in Int /\ end \in Int /\ s <= end /\ end - s < WindowSize /\ s # end
      BY <1>1, <1>2, <1>4
    <2>2. s % WindowSize # end % WindowSize BY <1>1, <2>1, ModApart
    <2>3. s % WindowSize \in 0 .. WindowSize - 1 BY <1>1, <2>1, ModFacts
    <2> QED BY <1>2, <1>4, <2>2, <2>3 DEF Slot
  <1>8. Slot(array', end) = primID BY <1>2, <1>4, <1>5 DEF Slot
  <1>9. Window(array, begin, end, primID, quads) BY DEF PairInv, WindowInv
  <1>10. WindowInv'
    <2>1. ASSUME NEW s \in begin .. end
          PROVE  Slot(array', s) \in 0 .. primID /\ quads[Slot(array', s)] = Undecided
      <3>1. CASE s = end
        <4>1. primID \in primID .. NumTriangles - 1 BY <1>1, <1>2, <1>4
        <4> QED BY <1>4, <1>8, <1>9, <3>1, <4>1 DEF Window
      <3>2. CASE s # end
        <4>1. s \in begin .. end - 1 BY <1>4, <3>2
        <4>2. Slot(array, s) \in 0 .. primID - 1 /\ quads[Slot(array, s)] = Undecided
          BY <1>9, <4>1 DEF Window
        <4> QED BY <1>4, <1>7, <4>1, <4>2
      <3> QED BY <3>1, <3>2
    <2>2. ASSUME NEW i \in 0 .. primID, quads[i] = Undecided
          PROVE  \E s \in begin .. end : Slot(array', s) = i
      <3>1. CASE i = primID
        <4>1. end \in begin .. end BY <1>4
        <4> QED BY <1>8, <3>1, <4>1
      <3>2. CASE i # primID
        <4>1. i \in 0 .. primID - 1 BY <1>4, <3>2
        <4>2. PICK s \in begin .. end - 1 : Slot(array, s) = i BY <1>9, <2>2, <4>1 DEF Window
        <4>3. s \in begin .. end BY <1>4
        <4> QED BY <1>7, <4>2, <4>3
      <3> QED BY <3>1, <3>2
    <2>3. ASSUME NEW i \in primID + 1 .. NumTriangles - 1 PROVE quads[i] = Undecided
      <3>1. i \in primID .. NumTriangles - 1 BY <1>1, <1>4
      <3> QED BY <1>9, <3>1 DEF Window
    <2>4. ASSUME NEW s \in begin .. end, NEW r \in begin .. end, s < r
          PROVE  Slot(array', r) - Slot(array', s) >= r - s
      <3>1. s \in begin .. end - 1 BY <1>4, <2>4
      <3>2. CASE r # end
        <4>1. r \in begin .. end - 1 BY <1>4, <3>2
        <4> QED BY <1>7, <1>9, <2>4, <3>1, <4>1 DEF Window, InOrder
      <3>3. CASE r = end
        <4> DEFINE z == end - 1
        <4>1. z \in begin .. end - 1 /\ s <= z /\ z = end - 1 BY <1>4, <3>1
        <4> HIDE DEF z
        <4>2. Slot(array, z) \in 0 .. primID - 1 /\ Slot(array, s) \in 0 .. primID - 1
          BY <1>9, <3>1, <4>1 DEF Window
        <4>3. s < z => Slot(array, z) - Slot(array, s) >= z - s
          BY <1>9, <3>1, <4>1 DEF Window, InOrder
        <4>4. s = z => Slot(array, z) - Slot(array, s) >= z - s BY <4>1, <4>2
        <4>5. Slot(array', s) = Slot(array, s) BY <1>7, <3>1
        <4> QED BY <1>4, <1>8, <3>1, <3>3, <4>1, <4>2, <4>3, <4>4, <4>5
      <3> QED BY <3>2, <3>3
    <2>5. /\ begin' .. end' - 1 = begin .. end /\ 0 .. primID' - 1 = 0 .. primID
      BY <1>2, <1>4
    <2> QED BY <1>2, <2>1, <2>2, <2>3, <2>4, <2>5 DEF WindowInv, Window, InOrder
  <1>11. GreedyInv'
    <2>1. Front' = Front
      <3>1. CASE begin < end
        <4>1. begin \in begin .. end - 1 BY <1>4, <3>1
        <4>2. Slot(array', begin) = Slot(array, begin) BY <1>7, <4>1
        <4>3. begin < end + 1 BY <1>4, <3>1
        <4> QED BY <1>2, <3>1, <4>2, <4>3 DEF Front, FrontOf
      <3>2. CASE begin = end
        <4>1. Slot(array', begin') = primID BY <1>2, <1>8, <3>2
        <4> QED BY <1>2, <1>4, <3>2, <4>1 DEF Front, FrontOf
      <3> QED BY <1>4, <3>1, <3>2
    <2>2. PairsDecided(sharesEdge, quads, Front) BY DEF PairInv, GreedyInv
    <2>3. PairsDecided(sharesEdge', quads', Front')
      BY <1>2, <2>1, <2>2
    <2> QED BY <2>3 DEF GreedyInv
  <1> QED BY <1>6, <1>10, <1>11 DEF PairInv

(* The window holds whatever the first triangle in it may be paired with.   *)
LEMMA WindowReaches ==
  ASSUME PairInv, begin < end, Pairing!Full \/ primID = NumTriangles,
         NEW j \in Fits(sharesEdge, Chosen(quads), Front)
  PROVE  \E s \in begin + 1 .. end - 1 : Slot(array, s) = j
  <1>1. /\ NumTriangles \in Nat /\ WindowSize \in Nat \ {0} /\ MaxDistance \in Nat \ {0}
        /\ WindowSize = MaxDistance + 1
    BY PairConstants
  <1>2. PairTypes /\ Window(array, begin, end, primID, quads) BY DEF PairInv, WindowInv
  <1>3. /\ primID \in 0 .. NumTriangles /\ begin \in Nat /\ end \in Nat
        /\ sharesEdge \subseteq (0 .. NumTriangles - 1) \X (0 .. NumTriangles - 1)
    BY <1>2 DEF PairTypes
  <1>4. Front = Slot(array, begin) BY DEF Front, FrontOf
  <1>5. begin \in begin .. end - 1 BY <1>3
  <1>6. Front \in 0 .. primID - 1 BY <1>2, <1>4, <1>5 DEF Window
  <1>7. /\ j \in Int /\ Front < j /\ j <= Front + MaxDistance
        /\ j \notin Partners(Chosen(quads)) /\ <<Front, j>> \in sharesEdge
    BY <1>1, <1>6 DEF Fits
  <1>8. j \in 0 .. NumTriangles - 1 BY <1>3, <1>7
  <1>9. j < primID
    <2>1. CASE Pairing!Full
      <3> DEFINE z == end - 1
      <3>1. z \in begin .. end - 1 /\ begin < z /\ z - begin = MaxDistance
        BY <1>1, <1>3, <2>1 DEF Pairing!Full
      <3> HIDE DEF z
      <3>2. Slot(array, z) - Slot(array, begin) >= z - begin
        BY <1>2, <1>5, <3>1 DEF Window, InOrder
      <3>3. Slot(array, z) \in 0 .. primID - 1 BY <1>2, <3>1 DEF Window
      <3> QED BY <1>1, <1>3, <1>4, <1>6, <1>7, <3>1, <3>2, <3>3
    <2>2. CASE primID = NumTriangles BY <1>1, <1>8, <2>2
    <2> QED BY <2>1, <2>2
  <1>10. quads[j] = Undecided
    <2>1. PairsDecided(sharesEdge, quads, Front) BY DEF PairInv, GreedyInv
    <2>2. quads[j] # PAIRED BY <1>7, <1>8, <2>1 DEF PairsDecided
    <2>3. quads[j] \notin {Undecided, PAIRED} => j < Front BY <1>8, <2>1 DEF PairsDecided
    <2> QED BY <1>6, <1>7, <2>2, <2>3
  <1>11. j \in 0 .. primID - 1 BY <1>3, <1>8, <1>9
  <1>12. PICK s \in begin .. end - 1 : Slot(array, s) = j BY <1>2, <1>10, <1>11 DEF Window
  <1>13. s # begin BY <1>4, <1>6, <1>7, <1>12
  <1>14. s \in begin + 1 .. end - 1 BY <1>3, <1>13
  <1> QED BY <1>12, <1>14

(* The slots that MergePair chooses from.                                   *)
LEMMA CandidateSlots ==
  ASSUME PairInv, begin < end
  PROVE  Pairing!Candidates = {s \in begin + 1 .. end - 1 :
           <<Front, Slot(array, s)>> \in sharesEdge /\ Slot(array, s) - Front <= MaxDistance}
  BY DEF Pairing!Candidates, Pairing!At, Slot, Front, FrontOf


LEMMA FrontInWindow ==
  ASSUME PairInv, begin < end
  PROVE  /\ Front = Slot(array, begin)
         /\ Front \in 0 .. primID - 1 /\ Front \in 0 .. NumTriangles - 1
         /\ primID \in 0 .. NumTriangles /\ quads[Front] = Undecided
         /\ Front \notin Partners(Chosen(quads))
         /\ \A l \in 0 .. Front - 1 : quads[l] # Undecided
         /\ \A s \in begin + 1 .. end - 1 :
              /\ Slot(array, s) \in 0 .. primID - 1 /\ quads[Slot(array, s)] = Undecided
              /\ Front < Slot(array, s)
  <1>1. NumTriangles \in Nat /\ PAIRED # Undecided BY PairConstants DEF Undecided
  <1>2. /\ PairTypes /\ Window(array, begin, end, primID, quads)
        /\ PairsDecided(sharesEdge, quads, Front)
    BY DEF PairInv, WindowInv, GreedyInv
  <1>3. primID \in 0 .. NumTriangles /\ begin \in Nat /\ end \in Nat BY <1>2 DEF PairTypes
  <1>4. begin \in begin .. end - 1 BY <1>3
  <1>5. Front = Slot(array, begin) BY DEF Front, FrontOf
  <1>6. Front \in 0 .. primID - 1 /\ quads[Front] = Undecided BY <1>2, <1>4, <1>5 DEF Window
  <1>7. Front \in 0 .. NumTriangles - 1 BY <1>1, <1>3, <1>6
  <1>8. Front \notin Partners(Chosen(quads)) BY <1>1, <1>2, <1>6, <1>7 DEF PairsDecided
  <1>9. \A l \in 0 .. Front - 1 : quads[l] # Undecided
    BY <1>2, FrontFacts DEF PairTypes, Front
  <1>10. ASSUME NEW s \in begin + 1 .. end - 1
         PROVE  /\ Slot(array, s) \in 0 .. primID - 1 /\ quads[Slot(array, s)] = Undecided
                /\ Front < Slot(array, s)
    <2>1. s \in begin .. end - 1 /\ begin < s /\ s \in Int BY <1>3
    <2>2. Slot(array, s) \in 0 .. primID - 1 /\ quads[Slot(array, s)] = Undecided
      BY <1>2, <2>1 DEF Window
    <2>3. Slot(array, s) - Slot(array, begin) >= s - begin
      BY <1>2, <1>4, <2>1 DEF Window, InOrder
    <2> QED BY <1>3, <1>5, <1>6, <2>1, <2>2, <2>3
  <1> QED BY <1>3, <1>5, <1>6, <1>7, <1>8, <1>9, <1>10

LEMMA PairMergeSingle == ASSUME PairInv, Pairing!MergeSingle PROVE PairInv'
  <1>1. /\ NumTriangles \in Nat /\ WindowSize \in Nat \ {0} /\ MaxDistance \in Nat \ {0}
        /\ PAIRED \in Nat /\ 0 < PAIRED
    BY PairConstants
  <1>2. /\ PairTypes /\ Window(array, begin, end, primID, quads)
        /\ PairsDecided(sharesEdge, quads, Front)
    BY DEF PairInv, WindowInv, GreedyInv
  <1>3. /\ primID \in 0 .. NumTriangles /\ begin \in Nat /\ end \in Nat
        /\ begin <= end /\ end <= begin + WindowSize
        /\ array \in [0 .. WindowSize - 1 -> Int] /\ QuadsType(quads)
    BY <1>2 DEF PairTypes
  <1>4. begin < end /\ (Pairing!Full \/ primID = NumTriangles)
    BY <1>1, <1>3 DEF Pairing!MergeSingle, Pairing!Full
  <1> DEFINE f == Front
             q == [quads EXCEPT ![f] = 0]
  <1>5. /\ f = Slot(array, begin) /\ f \in 0 .. primID - 1 /\ f \in 0 .. NumTriangles - 1
        /\ quads[f] = Undecided /\ f \notin Partners(Chosen(quads))
        /\ \A l \in 0 .. f - 1 : quads[l] # Undecided
        /\ \A s \in begin + 1 .. end - 1 :
             /\ Slot(array, s) \in 0 .. primID - 1 /\ quads[Slot(array, s)] = Undecided
             /\ f < Slot(array, s)
    BY <1>4, FrontInWindow
  <1>6. /\ Pairing!Candidates = {} /\ quads' = q /\ begin' = begin + 1
        /\ sharesEdge' = sharesEdge /\ primID' = primID /\ array' = array /\ end' = end
    BY <1>5 DEF Pairing!MergeSingle, Pairing!At, Slot, Pairing!QUADIFIER_TRIANGLE
  <1> HIDE DEF f
  <1>7. /\ q[f] = 0 /\ \A l \in 0 .. NumTriangles - 1 : l # f => q[l] = quads[l]
        /\ QuadsType(q)
    BY <1>1, <1>3, <1>5 DEF QuadsType
  <1> HIDE DEF q
  <1>8. Chosen(q) = Chosen(quads)
    <2>1. {l \in 0 .. NumTriangles - 1 : q[l] \in 1 .. MaxDistance}
          = {l \in 0 .. NumTriangles - 1 : quads[l] \in 1 .. MaxDistance}
      BY <1>1, <1>5, <1>7 DEF Undecided
    <2>2. \A l \in 0 .. NumTriangles - 1 : q[l] \in 1 .. MaxDistance => q[l] = quads[l]
      BY <1>7
    <2> QED BY <2>1, <2>2 DEF Chosen
  <1>9. Fits(sharesEdge, Chosen(quads), f) = {}
    <2>1. ASSUME NEW j \in Fits(sharesEdge, Chosen(quads), Front) PROVE FALSE
      <3>1. PICK s \in begin + 1 .. end - 1 : Slot(array, s) = j BY <1>4, WindowReaches
      <3>2. <<Front, j>> \in sharesEdge /\ j - Front <= MaxDistance
        BY <1>1, <1>3, <1>5 DEF Fits, f
      <3>3. s \in Pairing!Candidates BY <1>4, <3>1, <3>2, CandidateSlots
      <3> QED BY <1>6, <3>3
    <2> QED BY <2>1 DEF f
  <1>10. Search(sharesEdge)[f + 1] = Chosen(q)
    <2>1. Search(sharesEdge)[f + 1] = Decide(sharesEdge, Search(sharesEdge)[f], f)
      BY <1>5, GreedyRounds
    <2>2. Search(sharesEdge)[f] = Chosen(quads) BY <1>2 DEF PairsDecided, f
    <2> QED BY <1>8, <1>9, <2>1, <2>2 DEF Decide
  <1>11. Window(array, begin + 1, end, primID, q)
    <2>1. ASSUME NEW s \in begin + 1 .. end - 1
          PROVE  Slot(array, s) \in 0 .. primID - 1 /\ q[Slot(array, s)] = Undecided
      <3>1. /\ Slot(array, s) \in 0 .. primID - 1 /\ quads[Slot(array, s)] = Undecided
            /\ f < Slot(array, s)
        BY <1>5
      <3>2. Slot(array, s) \in 0 .. NumTriangles - 1 /\ Slot(array, s) # f
        BY <1>1, <1>3, <1>5, <3>1
      <3> QED BY <1>7, <3>1, <3>2
    <2>2. ASSUME NEW i \in 0 .. primID - 1, q[i] = Undecided
          PROVE  \E s \in begin + 1 .. end - 1 : Slot(array, s) = i
      <3>1. i # f BY <1>7, <2>2 DEF Undecided
      <3>2. i \in 0 .. NumTriangles - 1 BY <1>1, <1>3
      <3>3. quads[i] = Undecided BY <1>7, <2>2, <3>1, <3>2
      <3>4. PICK s \in begin .. end - 1 : Slot(array, s) = i BY <1>2, <3>3 DEF Window
      <3>5. s # begin BY <1>5, <3>1, <3>4
      <3>6. s \in begin + 1 .. end - 1 BY <1>3, <3>5
      <3> QED BY <3>4, <3>6
    <2>3. ASSUME NEW i \in primID .. NumTriangles - 1 PROVE q[i] = Undecided
      <3>1. i # f /\ i \in 0 .. NumTriangles - 1 BY <1>1, <1>3, <1>5
      <3> QED BY <1>2, <1>7, <3>1 DEF Window
    <2>4. InOrder(array, begin + 1, end)
      <3>1. \A s \in begin + 1 .. end - 1 : s \in begin .. end - 1 BY <1>3
      <3> QED BY <1>2, <3>1 DEF Window, InOrder
    <2> QED BY <2>1, <2>2, <2>3, <2>4 DEF Window
  <1>12. PairsDecided(sharesEdge, q, FrontOf(array, begin + 1, end, primID))
    <2>1. \A l \in 0 .. f : q[l] # Undecided
      <3> TAKE l \in 0 .. f
      <3>1. CASE l = f BY <1>7, <3>1 DEF Undecided
      <3>2. CASE l # f
        <4>1. l \in 0 .. f - 1 /\ l \in 0 .. NumTriangles - 1 BY <1>1, <1>5, <3>2
        <4> QED BY <1>5, <1>7, <3>2, <4>1
      <3> QED BY <3>1, <3>2
    <2>2. \A l \in 0 .. NumTriangles - 1 : q[l] \notin {Undecided, PAIRED} => l <= f
      <3> TAKE l \in 0 .. NumTriangles - 1
      <3>1. quads[l] \notin {Undecided, PAIRED} => l < f BY <1>2 DEF PairsDecided, f
      <3> QED BY <1>5, <1>7, <3>1
    <2>3. \A j \in 0 .. NumTriangles - 1 : q[j] = PAIRED <=> j \in Partners(Chosen(q))
      <3> TAKE j \in 0 .. NumTriangles - 1
      <3>1. CASE j = f BY <1>1, <1>5, <1>7, <1>8, <3>1
      <3>2. CASE j # f BY <1>2, <1>7, <1>8, <3>2 DEF PairsDecided
      <3> QED BY <3>1, <3>2
    <2>4. begin + 1 \in Nat /\ begin + 1 <= end BY <1>3, <1>4
    <2> QED BY <1>3, <1>5, <1>7, <1>10, <1>11, <2>1, <2>2, <2>3, <2>4, NextFront
  <1>13. PairTypes'
    <2>1. begin' \in Nat /\ begin' <= end' /\ end' <= begin' + WindowSize
      BY <1>1, <1>3, <1>4, <1>6
    <2>2. QuadsType(quads') BY <1>6, <1>7
    <2> QED BY <1>2, <1>6, <2>1, <2>2 DEF PairTypes, QuadsType
  <1>14. WindowInv' BY <1>6, <1>11 DEF WindowInv
  <1>15. GreedyInv'
    <2>1. Front' = FrontOf(array, begin + 1, end, primID) BY <1>6 DEF Front, FrontOf
    <2> QED BY <1>6, <1>12, <2>1 DEF GreedyInv
  <1> QED BY <1>13, <1>14, <1>15 DEF PairInv

LEMMA PairMergePair == ASSUME PairInv, Pairing!MergePair PROVE PairInv'
  <1>1. /\ NumTriangles \in Nat /\ WindowSize \in Nat \ {0} /\ MaxDistance \in Nat \ {0}
        /\ PAIRED \in Nat /\ MaxDistance < PAIRED /\ PAIRED # Undecided
    BY PairConstants DEF Undecided
  <1>2. /\ PairTypes /\ Window(array, begin, end, primID, quads)
        /\ PairsDecided(sharesEdge, quads, Front)
    BY DEF PairInv, WindowInv, GreedyInv
  <1>3. /\ primID \in 0 .. NumTriangles /\ begin \in Nat /\ end \in Nat
        /\ begin <= end /\ end <= begin + WindowSize
        /\ array \in [0 .. WindowSize - 1 -> Int] /\ QuadsType(quads)
    BY <1>2 DEF PairTypes
  <1>4. begin < end /\ (Pairing!Full \/ primID = NumTriangles)
    BY <1>1, <1>3 DEF Pairing!MergePair, Pairing!Full
  <1> DEFINE f == Front
             slot == Pairing!Min(Pairing!Candidates)
             t == Slot(array, slot)
             q == [quads EXCEPT ![f] = t - f, ![t] = PAIRED]
  <1>5. /\ f = Slot(array, begin) /\ f \in 0 .. primID - 1 /\ f \in 0 .. NumTriangles - 1
        /\ quads[f] = Undecided /\ f \notin Partners(Chosen(quads))
        /\ \A l \in 0 .. f - 1 : quads[l] # Undecided
        /\ \A s \in begin + 1 .. end - 1 :
             /\ Slot(array, s) \in 0 .. primID - 1 /\ quads[Slot(array, s)] = Undecided
             /\ f < Slot(array, s)
    BY <1>4, FrontInWindow
  <1>6. /\ Pairing!Candidates # {} /\ quads' = q /\ Pairing!Erase(begin + 1, slot)
        /\ sharesEdge' = sharesEdge /\ primID' = primID
    BY <1>5 DEF Pairing!MergePair, Pairing!At, Slot, PAIRED
  <1>7. slot \in Pairing!Candidates /\ \A s \in Pairing!Candidates : slot <= s
    <2>1. Pairing!Candidates \in SUBSET Int BY <1>3 DEF Pairing!Candidates
    <2>2. \E m \in Pairing!Candidates : \A s \in Pairing!Candidates : m <= s
      <3>1. Pairing!Candidates \in SUBSET Nat BY <1>3 DEF Pairing!Candidates
      <3> QED BY <1>6, <3>1, SmallestNat
    <2> QED BY <2>2 DEF Pairing!Min
  <1>8. /\ slot \in begin + 1 .. end - 1 /\ <<f, t>> \in sharesEdge /\ t - f <= MaxDistance
    BY <1>4, <1>7, CandidateSlots
  <1> HIDE DEF f, slot
  <1>9. t \in 0 .. primID - 1 /\ quads[t] = Undecided /\ f < t BY <1>5, <1>8
  <1> HIDE DEF t
  <1>10. t \in 0 .. NumTriangles - 1 /\ t - f \in 1 .. MaxDistance BY <1>1, <1>3, <1>5, <1>8, <1>9
  <1>11. /\ q[f] = t - f /\ q[t] = PAIRED
         /\ \A l \in 0 .. NumTriangles - 1 : l # f /\ l # t => q[l] = quads[l]
         /\ QuadsType(q)
    <2> DEFINE N == 0 .. NumTriangles - 1
               V == {Undecided, PAIRED} \union 0 .. MaxDistance
               d == t - f
    <2>1. d \in V /\ PAIRED \in V /\ f \in N /\ t \in N /\ f # t
      BY <1>1, <1>5, <1>9, <1>10
    <2>2. quads \in [N -> V] BY <1>3 DEF QuadsType
    <2>3. q = [quads EXCEPT ![f] = d, ![t] = PAIRED] OBVIOUS
    <2> HIDE DEF N, V, d, q
    <2>4. q \in [N -> V] /\ q[f] = d /\ q[t] = PAIRED BY <2>1, <2>2, <2>3
    <2>5. \A l \in N : l # f /\ l # t => q[l] = quads[l] BY <2>1, <2>2, <2>3
    <2> QED BY <2>4, <2>5 DEF QuadsType, N, V, d
  <1> HIDE DEF q
  <1>12. Chosen(q) = Chosen(quads) \union {<<f, t>>}
    <2> DEFINE C == {l \in 0 .. NumTriangles - 1 : quads[l] \in 1 .. MaxDistance}
    <2>1. {l \in 0 .. NumTriangles - 1 : q[l] \in 1 .. MaxDistance} = C \union {f}
      <3>1. PAIRED \notin 1 .. MaxDistance /\ Undecided \notin 1 .. MaxDistance
        BY <1>1 DEF Undecided
      <3> QED BY <1>5, <1>9, <1>10, <1>11, <3>1
    <2>2. \A l \in C : q[l] = quads[l]
      <3> TAKE l \in C
      <3>1. l # f /\ l # t BY <1>1, <1>5, <1>9 DEF Undecided
      <3> QED BY <1>11, <3>1
    <2>3. Chosen(q) = {<<l, l + q[l]>> : l \in C \union {f}} BY <2>1 DEF Chosen
    <2>4. Chosen(quads) = {<<l, l + quads[l]>> : l \in C} BY DEF Chosen
    <2>5. f + q[f] = t BY <1>1, <1>5, <1>10, <1>11
    <2> HIDE DEF C
    <2> QED BY <2>2, <2>3, <2>4, <2>5
  <1>13. Search(sharesEdge)[f + 1] = Chosen(q)
    <2>1. Search(sharesEdge)[f + 1] = Decide(sharesEdge, Search(sharesEdge)[f], f)
      BY <1>5, GreedyRounds
    <2>2. Search(sharesEdge)[f] = Chosen(quads) BY <1>2 DEF PairsDecided, f
    <2> DEFINE F == Fits(sharesEdge, Chosen(quads), f)
    <2>3. t \in F
      <3>1. t \notin Partners(Chosen(quads)) BY <1>1, <1>2, <1>9, <1>10 DEF PairsDecided
      <3>2. t \in f + 1 .. f + MaxDistance BY <1>1, <1>5, <1>10
      <3> QED BY <1>8, <3>1, <3>2 DEF Fits
    <2>4. ASSUME NEW j \in F PROVE j \in Int /\ t <= j
      <3>1. PICK s \in begin + 1 .. end - 1 : Slot(array, s) = j BY <1>4, WindowReaches DEF f
      <3>2. <<f, j>> \in sharesEdge /\ j - f <= MaxDistance /\ j \in Int
        BY <1>1, <1>3, <1>5 DEF Fits
      <3>3. s \in Pairing!Candidates BY <1>4, <3>1, <3>2, CandidateSlots DEF f
      <3>4. slot <= s BY <1>7, <3>3
      <3>5. slot < s => Slot(array, s) - Slot(array, slot) >= s - slot
        <4>1. slot \in begin .. end - 1 /\ s \in begin .. end - 1 BY <1>3, <1>8
        <4> QED BY <1>2, <4>1 DEF Window, InOrder
      <3>6. slot \in Int /\ s \in Int BY <1>3, <1>8
      <3>7. CASE slot = s BY <1>9, <3>1, <3>2, <3>7 DEF t
      <3>8. CASE slot < s BY <1>3, <1>9, <3>1, <3>2, <3>5, <3>6, <3>8 DEF t
      <3> QED BY <3>4, <3>6, <3>7, <3>8
    <2>5. Pairing!Min(F) = t
      <3>1. \A m \in F : (\A j \in F : m <= j) => m = t BY <2>3, <2>4
      <3> HIDE DEF F
      <3> QED BY <2>3, <2>4, <3>1 DEF Pairing!Min
    <2>6. Decide(sharesEdge, Chosen(quads), f) = Chosen(quads) \union {<<f, t>>}
      BY <1>5, <2>3, <2>5 DEF Decide
    <2> QED BY <1>12, <2>1, <2>2, <2>6
  <1>14. /\ array' \in [0 .. WindowSize - 1 -> Int]
         /\ begin' \in Nat /\ end' \in Nat /\ begin' <= end' /\ end' <= begin' + WindowSize
         /\ \A s \in begin' .. end' - 1 : \E r \in begin + 1 .. end - 1 :
              r # slot /\ Slot(array', s) = Slot(array, r)
         /\ \A r \in begin + 1 .. end - 1 : r # slot =>
              \E s \in begin' .. end' - 1 : Slot(array', s) = Slot(array, r)
         /\ InOrder(array', begin', end')
    <2>1. InOrder(array, begin, end) BY <1>2 DEF Window
    <2> QED BY <1>2, <1>6, <1>8, <2>1, EraseKeeps
  <1>15. Window(array', begin', end', primID, q)
    <2>1. ASSUME NEW s \in begin' .. end' - 1
          PROVE  Slot(array', s) \in 0 .. primID - 1 /\ q[Slot(array', s)] = Undecided
      <3>1. PICK r \in begin + 1 .. end - 1 : r # slot /\ Slot(array', s) = Slot(array, r)
        BY <1>14
      <3>2. /\ Slot(array, r) \in 0 .. primID - 1 /\ quads[Slot(array, r)] = Undecided
            /\ f < Slot(array, r)
        BY <1>5
      <3>3. Slot(array, r) # t
        <4>1. slot \in begin .. end - 1 /\ r \in begin .. end - 1 BY <1>3, <1>8
        <4>2. slot < r => Slot(array, r) - Slot(array, slot) >= r - slot
          BY <1>2, <4>1 DEF Window, InOrder
        <4>3. r < slot => Slot(array, slot) - Slot(array, r) >= slot - r
          BY <1>2, <4>1 DEF Window, InOrder
        <4>4. slot \in Int /\ r \in Int /\ (slot < r \/ r < slot) BY <1>3, <3>1, <4>1
        <4>5. t \in Int /\ Slot(array, r) \in Int BY <1>3, <1>9, <3>2
        <4> QED BY <4>2, <4>3, <4>4, <4>5 DEF t
      <3>4. Slot(array, r) \in 0 .. NumTriangles - 1 /\ Slot(array, r) # f
        BY <1>1, <1>3, <1>5, <3>2
      <3> QED BY <1>11, <3>1, <3>2, <3>3, <3>4
    <2>2. ASSUME NEW i \in 0 .. primID - 1, q[i] = Undecided
          PROVE  \E s \in begin' .. end' - 1 : Slot(array', s) = i
      <3>1. i # f /\ i # t BY <1>1, <1>10, <1>11, <2>2 DEF Undecided
      <3>2. i \in 0 .. NumTriangles - 1 BY <1>1, <1>3
      <3>3. quads[i] = Undecided BY <1>11, <2>2, <3>1, <3>2
      <3>4. PICK r \in begin .. end - 1 : Slot(array, r) = i BY <1>2, <3>3 DEF Window
      <3>5. r # begin /\ r # slot BY <1>5, <3>1, <3>4 DEF t
      <3>6. r \in begin + 1 .. end - 1 BY <1>3, <3>5
      <3> QED BY <1>14, <3>4, <3>5, <3>6
    <2>3. ASSUME NEW i \in primID .. NumTriangles - 1 PROVE q[i] = Undecided
      <3>1. i # f /\ i # t /\ i \in 0 .. NumTriangles - 1 BY <1>1, <1>3, <1>5, <1>9
      <3> QED BY <1>2, <1>11, <3>1 DEF Window
    <2> QED BY <1>14, <2>1, <2>2, <2>3 DEF Window
  <1>16. PairsDecided(sharesEdge, q, FrontOf(array', begin', end', primID))
    <2>1. \A l \in 0 .. f : q[l] # Undecided
      <3> TAKE l \in 0 .. f
      <3>1. CASE l = f BY <1>10, <1>11, <3>1 DEF Undecided
      <3>2. CASE l # f
        <4>1. l \in 0 .. f - 1 /\ l \in 0 .. NumTriangles - 1 /\ l # t
          BY <1>1, <1>5, <1>9, <3>2
        <4> QED BY <1>5, <1>11, <3>2, <4>1
      <3> QED BY <3>1, <3>2
    <2>2. \A l \in 0 .. NumTriangles - 1 : q[l] \notin {Undecided, PAIRED} => l <= f
      <3> TAKE l \in 0 .. NumTriangles - 1
      <3>1. quads[l] \notin {Undecided, PAIRED} => l < f BY <1>2 DEF PairsDecided, f
      <3> QED BY <1>5, <1>11, <3>1
    <2>3. \A j \in 0 .. NumTriangles - 1 : q[j] = PAIRED <=> j \in Partners(Chosen(q))
      <3>1. Partners(Chosen(q)) = Partners(Chosen(quads)) \union {t}
        <4>1. <<f, t>>[2] = t OBVIOUS
        <4>2. \A p : p \in Chosen(q) <=> p \in Chosen(quads) \/ p = <<f, t>> BY <1>12
        <4>3. \A x : x \in Partners(Chosen(q)) <=> x \in Partners(Chosen(quads)) \/ x = t
          BY <4>1, <4>2 DEF Partners
        <4> QED BY <4>3
      <3> TAKE j \in 0 .. NumTriangles - 1
      <3>2. CASE j = t BY <1>11, <3>1, <3>2
      <3>3. CASE j = f
        <4>1. q[f] # PAIRED /\ f # t BY <1>1, <1>5, <1>9, <1>10, <1>11
        <4> QED BY <1>5, <3>1, <3>3, <4>1
      <3>4. CASE j # f /\ j # t BY <1>2, <1>11, <3>1, <3>4 DEF PairsDecided
      <3> QED BY <3>2, <3>3, <3>4
    <2> QED BY <1>3, <1>5, <1>11, <1>13, <1>14, <1>15, <2>1, <2>2, <2>3, NextFront
  <1>17. PairTypes'
    <2>1. QuadsType(quads') BY <1>6, <1>11
    <2> QED BY <1>2, <1>6, <1>14, <2>1 DEF PairTypes, QuadsType
  <1>18. WindowInv' BY <1>6, <1>15 DEF WindowInv
  <1>19. GreedyInv'
    <2>1. Front' = FrontOf(array', begin', end', primID) BY <1>6 DEF Front, FrontOf
    <2> QED BY <1>6, <1>16, <2>1 DEF GreedyInv
  <1> QED BY <1>17, <1>18, <1>19 DEF PairInv



(* The invariant of pairing means what the run checks.                      *)
LEMMA PairInvGreedy == ASSUME PairInv PROVE Pairing!PairsGreedy
  <1>1. /\ NumTriangles \in Nat /\ PAIRED # Undecided
    BY PairConstants DEF Undecided
  <1>2. /\ PairTypes /\ Window(array, begin, end, primID, quads)
        /\ PairsDecided(sharesEdge, quads, Front)
    BY DEF PairInv, WindowInv, GreedyInv
  <1>3. primID \in 0 .. NumTriangles /\ begin \in Nat /\ end \in Nat BY <1>2 DEF PairTypes
  <1>4. {Pairing!At(s) : s \in begin .. end - 1}
        = {i \in 0 .. primID - 1 : quads[i] = Pairing!Undecided}
    <2>1. \A s \in begin .. end - 1 :
            Slot(array, s) \in 0 .. primID - 1 /\ quads[Slot(array, s)] = Undecided
      BY <1>2 DEF Window
    <2>2. \A i \in 0 .. primID - 1 :
            quads[i] = Undecided => \E s \in begin .. end - 1 : Slot(array, s) = i
      BY <1>2 DEF Window
    <2>3. {Slot(array, s) : s \in begin .. end - 1} = {i \in 0 .. primID - 1 : quads[i] = Undecided}
      BY <2>1, <2>2
    <2> QED BY <2>3 DEF Slot, Pairing!At, Undecided, Pairing!Undecided
  <1>5. ASSUME NEW s \in begin .. end - 1, NEW r \in begin .. end - 1, s < r
        PROVE  Pairing!At(s) < Pairing!At(r)
    <2>1. Slot(array, s) \in Int /\ Slot(array, r) \in Int BY <1>2, <1>3 DEF Window
    <2>2. Slot(array, r) - Slot(array, s) >= r - s BY <1>2, <1>5 DEF Window, InOrder
    <2>3. Slot(array, s) < Slot(array, r) BY <1>3, <1>5, <2>1, <2>2
    <2> QED BY <2>3 DEF Slot, Pairing!At
  <1>6. ASSUME Pairing!Done
        PROVE  {<<i, i + quads[i]>> : i \in {l \in Pairing!Triangles : quads[l] \in 1 .. MaxDistance}}
               = Pairing!Greedy[NumTriangles]
    <2>1. Front = NumTriangles BY <1>3, <1>6 DEF Pairing!Done, Front, FrontOf
    <2>2. Chosen(quads) = Search(sharesEdge)[NumTriangles] BY <1>2, <2>1 DEF PairsDecided
    <2> QED BY <2>2, GreedyIsSearch, PairConstants DEF Chosen
  <1> QED BY <1>4, <1>5, <1>6 DEF Pairing!PairsGreedy

(* Every way in which the run may begin or go on.                           *)
LEMMA PairingStays ==
  ASSUME NextOfLeaves \/ UNCHANGED leavesVars
  PROVE  /\ step' = step
         /\ step = "pairing" =>
              \/ Pairing!Push \/ Pairing!MergePair \/ Pairing!MergeSingle
              \/ UNCHANGED ofPairing
  BY DEF NextOfLeaves, leavesVars, Push, MergePair, MergeSingle, Reject, Pair, CreateTriangles,
         CreateQuad, AddQuads, AddProcedural, AddInstance, SetChildren, SetNodeBounds,
         SetChildBounds, LeafEnded, KeepButPairing, KeepButQuad, KeepButFatLeaf, KeepButNode

(* PairsGreedy: for any range of triangles, any edges that they share and   *)
(* any distance that can be stored, the window of merge_triangle_window     *)
(* holds what is not decided, in its order, wherever erase moves it in the  *)
(* ring buffer; and the pairs that are stored are those of the quadratic    *)
(* search, although only the triangles in the window are looked at.         *)
THEOREM PairingIsGreedy == SpecOfLeaves => []PairsGreedy
  <1> DEFINE Inv == step = "pairing" => PairInv
  <1>1. InitOfLeaves => Inv BY PairInit DEF InitOfLeaves
  <1>2. Inv /\ [NextOfLeaves]_leavesVars => Inv'
    <2> SUFFICES ASSUME Inv, [NextOfLeaves]_leavesVars, step' = "pairing" PROVE PairInv'
      OBVIOUS
    <2>1. step = "pairing" /\ PairInv BY PairingStays
    <2>2. CASE Pairing!Push BY <2>1, <2>2, PairPush
    <2>3. CASE Pairing!MergePair BY <2>1, <2>3, PairMergePair
    <2>4. CASE Pairing!MergeSingle BY <2>1, <2>4, PairMergeSingle
    <2>5. CASE UNCHANGED ofPairing
      <3>1. /\ sharesEdge' = sharesEdge /\ primID' = primID /\ array' = array /\ begin' = begin
            /\ end' = end /\ quads' = quads
        BY <2>5 DEF ofPairing
      <3>2. Front' = Front BY <3>1 DEF Front
      <3> QED BY <2>1, <3>1, <3>2 DEF PairInv, PairTypes, WindowInv, GreedyInv
    <2> QED BY <2>1, <2>2, <2>3, <2>4, <2>5, PairingStays
  <1>3. Inv => PairsGreedy BY PairInvGreedy DEF PairsGreedy
  <1> QED BY <1>1, <1>2, <1>3, PTL DEF SpecOfLeaves


------------------------------------------------------------------------------
(* The leaf of a pair.                                                      *)

LEMMA DeltaKept ==
  /\ 0 % Quad!Pow2[DeltaBits] = 0
  /\ \A d \in PairDistances : d % Quad!Pow2[DeltaBits] = d /\ d \in Nat \ {0}
  <1>1. IsPow2(Quad!Pow2)
    <2>1. Quad!Pow2 = CHOOSE f : IsPow2(f) BY DEF Quad!Pow2, IsPow2, IsPow
    <2> QED BY <2>1, Pow2Exists
  <1>2. DeltaBits \in Nat /\ PairDistances \subseteq 1 .. Quad!Pow2[DeltaBits] - 1
    BY LeavesAssumption DEF LeavesAssumption, Quad!TrianglePairAssumption
  <1>3. Quad!Pow2[DeltaBits] \in Nat \ {0} BY <1>1, <1>2, Pow2Facts
  <1>4. \A p \in Nat \ {0} : 0 % p = 0 /\ \A d \in 1 .. p - 1 : d % p = d OBVIOUS
  <1> QED BY <1>2, <1>3, <1>4

LEMMA LaneFacts ==
  ASSUME NEW a, NEW v
  PROVE  /\ Quad!Lane(a, v) \in 0 .. 3
         /\ Quad!Lane(a, v) # 3 => a[Quad!Lane(a, v) + 1] = v
         /\ Quad!Lane(a, v) = 0 <=> a[1] = v
  <1> DEFINE S == {c \in 1 .. 3 : a[c] = v} \union {4}
             m == Quad!Min(S)
  <1>1. m \in S /\ \A c \in S : m <= c
    <2>1. S \in SUBSET Nat /\ S # {} OBVIOUS
    <2>2. \E n \in S : \A c \in S : n <= c
      <3> HIDE DEF S
      <3> QED BY <2>1, SmallestNat
    <2> HIDE DEF S
    <2> QED BY <2>2 DEF Quad!Min
  <1>2. Quad!Lane(a, v) = m - 1 BY DEF Quad!Lane
  <1> HIDE DEF m
  <1>3. m \in 1 .. 4 /\ (m # 4 => a[m] = v) BY <1>1
  <1>4. m = 1 <=> a[1] = v
    <2>1. a[1] = v => 1 \in S OBVIOUS
    <2> HIDE DEF S
    <2> QED BY <1>1, <1>3, <2>1
  <1>5. (m - 1) + 1 = m BY <1>3
  <1> QED BY <1>2, <1>3, <1>4, <1>5

(* Of several elements a set has two.                                       *)
LEMMA AtMostOne ==
  ASSUME NEW S, IsFiniteSet(S), Cardinality(S) <= 1, NEW x \in S, NEW y \in S
  PROVE  x = y
  <1>1. SUFFICES ASSUME x # y PROVE FALSE OBVIOUS
  <1>2. Cardinality({x, y}) = 2
    <2>1. IsFiniteSet({x}) /\ Cardinality({x}) = 1 BY FS_Singleton
    <2>2. y \notin {x} BY <1>1
    <2>3. Cardinality({x} \union {y}) = 1 + 1 BY <2>1, <2>2, FS_AddElement
    <2>4. {x, y} = {x} \union {y} OBVIOUS
    <2> QED BY <2>3, <2>4
  <1>3. Cardinality({x, y}) <= Cardinality(S)
    <2>1. {x, y} \subseteq S OBVIOUS
    <2> QED BY <2>1, FS_Subset
  <1>4. Cardinality(S) \in Nat BY FS_CardinalityType
  <1> QED BY <1>2, <1>3, <1>4

Triangles6 == corners \in [1 .. 6 -> Vertices]

LEMMA TripleIs ==
  ASSUME NEW V, NEW f \in [1 .. 3 -> V]
  PROVE  /\ f = <<f[1], f[2], f[3]>>
         /\ \A g \in [1 .. 3 -> V] : g[1] = f[1] /\ g[2] = f[2] /\ g[3] = f[3] => g = f
  <1>1. f = <<f[1], f[2], f[3]>> OBVIOUS
  <1>2. ASSUME NEW g \in [1 .. 3 -> V], g[1] = f[1], g[2] = f[2], g[3] = f[3] PROVE g = f
    <2>1. \A i \in 1 .. 3 : g[i] = f[i] BY <1>2
    <2> QED BY <2>1
  <1> QED BY <1>1, <1>2

LEMMA SubTriple ==
  ASSUME NEW V, NEW s, NEW k \in Nat, \A i \in k + 1 .. k + 3 : s[i] \in V
  PROVE  /\ SubSeq(s, k + 1, k + 3) \in [1 .. 3 -> V]
         /\ SubSeq(s, k + 1, k + 3) = <<s[k + 1], s[k + 2], s[k + 3]>>
  <1> DEFINE t == SubSeq(s, k + 1, k + 3)
  <1>1. k + 1 \in Int /\ k + 3 \in Int /\ k + 1 <= k + 3 /\ (k + 3) - (k + 1) + 1 = 3 OBVIOUS
  <1>2. /\ t \in Seq(V) /\ Len(t) = 3
        /\ \A i \in 1 .. (k + 3) - (k + 1) + 1 : t[i] = s[(k + 1) + i - 1]
    BY <1>1, SubSeqProperties
  <1> HIDE DEF t
  <1>3. t \in [1 .. 3 -> V] BY <1>2, LenProperties
  <1>4. \A i \in 1 .. 3 : t[i] = s[(k + 1) + i - 1] BY <1>1, <1>2
  <1>5. t[1] = s[(k + 1) + 1 - 1] /\ t[2] = s[(k + 1) + 2 - 1] /\ t[3] = s[(k + 1) + 3 - 1] BY <1>4
  <1>6. (k + 1) + 1 - 1 = k + 1 /\ (k + 1) + 2 - 1 = k + 2 /\ (k + 1) + 3 - 1 = k + 3 OBVIOUS
  <1>7. t[1] = s[k + 1] /\ t[2] = s[k + 2] /\ t[3] = s[k + 3] BY <1>5, <1>6
  <1> QED BY <1>3, <1>7, TripleIs DEF t

LEMMA CornersOf ==
  ASSUME Triangles6
  PROVE  /\ Len(corners) = 6
         /\ Quad!tri0 \in [1 .. 3 -> Vertices] /\ Quad!tri1 \in [1 .. 3 -> Vertices]
  <1>1. corners \in Seq(Vertices)
    <2>1. corners \in [1 .. 6 -> Vertices] /\ 6 \in Nat BY DEF Triangles6
    <2> QED BY <2>1, SeqDef
  <1>2. Len(corners) = 6
    <2>1. DOMAIN corners = 1 .. 6 BY DEF Triangles6
    <2> QED BY <1>1, <2>1, LenProperties
  <1>3. \A i \in 1 .. 6 : corners[i] \in Vertices BY DEF Triangles6
  <1>4. SubSeq(corners, 0 + 1, 0 + 3) \in [1 .. 3 -> Vertices]
    <2>1. \A i \in 0 + 1 .. 0 + 3 : corners[i] \in Vertices BY <1>3
    <2> QED BY <2>1, SubTriple
  <1>5. SubSeq(corners, 3 + 1, 3 + 3) \in [1 .. 3 -> Vertices]
    <2>1. \A i \in 3 + 1 .. 3 + 3 : corners[i] \in Vertices BY <1>3
    <2> QED BY <2>1, SubTriple
  <1>6. 0 + 1 = 1 /\ 0 + 3 = 3 /\ 3 + 1 = 4 /\ 3 + 3 = 6 OBVIOUS
  <1> QED BY <1>2, <1>4, <1>5, <1>6 DEF Quad!tri0, Quad!tri1


(* What createQuadLeaf may find: the two triangles of a pair, which share   *)
(* an edge when they are one primitive, or a quad.                          *)
QuadInv ==
  /\ stage \in {"paired?", "quad?", "pair?", "leaf"}
  /\ stage = "paired?" => Triangles6 /\ second = 0
  /\ stage = "pair?" =>
       /\ Triangles6
       /\ second = 0 \/ (second \in PairDistances /\ Quad!Pairable(Quad!tri0, Quad!tri1))
  /\ stage = "quad?" => corners \in [1 .. 4 -> Vertices]
  /\ Quad!QuadDecodes

LEMMA QuadInit == ASSUME Quad!Init PROVE QuadInv
  BY DEF Quad!Init, QuadInv, Triangles6, Quad!QuadDecodes

LEMMA SameCardinality == ASSUME NEW S PROVE Quad!Cardinality(S) = Cardinality(S)
  BY DEF Quad!Cardinality, Cardinality

(* The leaf of a pair of triangles, or of a single one.                     *)
LEMMA TrianglesDecode ==
  ASSUME QuadInv, Quad!createTriangles
  PROVE  Quad!QuadDecodes'
  <1> DEFINE t0 == Quad!tri0
             t1 == Quad!tri1
             open == {c \in 1 .. 3 : Quad!Lanes(t0, t1)[c] = 3}
             p3 == IF second = 0 \/ open = {} THEN t0[3] ELSE t1[Quad!Max(open)]
             v == Append(t0, p3)
             j == IF second = 0 THEN <<0, 0, 0>> ELSE Quad!Lanes(t0, t1)
  <1>1. /\ stage = "pair?" /\ stage' = "leaf" /\ corners' = corners /\ second' = second
        /\ leaf' = Quad!QuadLeaf(v, j, second)
    BY DEF Quad!createTriangles
  <1>2. /\ Triangles6
        /\ second = 0 \/ (second \in PairDistances /\ Quad!Pairable(t0, t1))
    BY <1>1 DEF QuadInv
  <1>3. Len(corners) = 6 /\ t0 \in [1 .. 3 -> Vertices] /\ t1 \in [1 .. 3 -> Vertices]
    BY <1>2, CornersOf
  <1>4. Quad!tri0' = t0 /\ Quad!tri1' = t1 BY <1>1 DEF Quad!tri0, Quad!tri1
  <1> HIDE DEF t0, t1
  <1>5. leaf'.v = v /\ leaf'.j = j /\ leaf'.delta = second % Quad!Pow2[DeltaBits]
    BY <1>1 DEF Quad!QuadLeaf
  <1>6. leaf'.delta = second
    BY <1>2, <1>5, DeltaKept
  <1>7. ASSUME second # 0, NEW c \in open PROVE t1[Quad!Max(open)] = t1[c]
    <2>1. Cardinality(open) <= 1
      <3>1. Quad!Cardinality(open) <= 1 BY <1>2, <1>7 DEF Quad!Pairable
      <3> HIDE DEF open
      <3> QED BY <3>1, SameCardinality
    <2>2. IsFiniteSet(open)
      <3>1. open \subseteq 1 .. 3 OBVIOUS
      <3> HIDE DEF open
      <3>2. 1 \in Int /\ 3 \in Int OBVIOUS
      <3>3. IsFiniteSet(1 .. 3) BY <3>2, FS_Interval
      <3> QED BY <3>1, <3>3, FS_Subset
    <2>3. \A x, y \in open : x = y
      <3> HIDE DEF open
      <3> QED BY <2>1, <2>2, AtMostOne
    <2>4. \A x \in open : \A y \in open : x >= y BY <2>3
    <2>5. Quad!Max(open) = c
      <3> HIDE DEF open
      <3> QED BY <2>3, <2>4 DEF Quad!Max
    <2> QED BY <2>5
  <1>8. p3 \in Vertices
    <2>1. ASSUME second # 0, open # {} PROVE t1[Quad!Max(open)] \in Vertices
      <3>1. PICK c \in open : TRUE BY <2>1
      <3>2. t1[Quad!Max(open)] = t1[c] BY <1>7, <2>1, <3>1
      <3>3. c \in 1 .. 3 OBVIOUS
      <3> QED BY <1>3, <3>2, <3>3
    <2>2. t0[3] \in Vertices BY <1>3
    <2> QED BY <2>1, <2>2
  <1>9. /\ v[1] = t0[1] /\ v[2] = t0[2] /\ v[3] = t0[3] /\ v[4] = p3
    <2>1. t0 \in Seq(Vertices)
      <3>1. [1 .. 3 -> Vertices] \in {[1 .. n -> Vertices] : n \in Nat} OBVIOUS
      <3>2. [1 .. 3 -> Vertices] \subseteq Seq(Vertices) BY <3>1, SeqDef
      <3> QED BY <1>3, <3>2
    <2>2. Len(t0) = 3
      <3>1. DOMAIN t0 = 1 .. 3 BY <1>3
      <3> QED BY <2>1, <3>1, LenProperties
    <2> HIDE DEF p3
    <2>3. \A i \in 1 .. Len(t0) : Append(t0, p3)[i] = t0[i]
      BY <1>8, <2>1, AppendProperties
    <2>4. Append(t0, p3)[Len(t0) + 1] = p3 BY <1>8, <2>1, AppendProperties
    <2>5. 1 \in 1 .. 3 /\ 2 \in 1 .. 3 /\ 3 \in 1 .. 3 /\ 3 + 1 = 4 OBVIOUS
    <2> QED BY <2>2, <2>3, <2>4, <2>5
  <1>10. SubSeq(v, 1, 3) = t0
    <2> HIDE DEF v
    <2>1. v[1] \in Vertices /\ v[2] \in Vertices /\ v[3] \in Vertices BY <1>3, <1>9
    <2>2. \A i \in 0 + 1 .. 0 + 3 : v[i] \in Vertices BY <2>1
    <2>3. SubSeq(v, 0 + 1, 0 + 3) = <<v[0 + 1], v[0 + 2], v[0 + 3]>> BY <2>2, SubTriple
    <2>4. 0 + 1 = 1 /\ 0 + 2 = 2 /\ 0 + 3 = 3 OBVIOUS
    <2>5. SubSeq(v, 1, 3) = <<v[1], v[2], v[3]>> BY <2>3, <2>4
    <2> QED BY <1>3, <1>9, <2>5, TripleIs
  <1> DEFINE L(c) == Quad!Lane(t0, t1[c])
  <1>11. \A c \in 1 .. 3 : Quad!Lanes(t0, t1)[c] = L(c) BY DEF Quad!Lanes
  <1>12. ASSUME second # 0
         PROVE  /\ j # <<0, 0, 0>> <=> t1 # <<t0[1], t0[1], t0[1]>>
                /\ [c \in 1 .. 3 |-> v[j[c] + 1]] = t1
    <2>1. j = Quad!Lanes(t0, t1) BY <1>12
    <2>2. j \in [1 .. 3 -> 0 .. 3]
      <3>1. \A c \in 1 .. 3 : L(c) \in 0 .. 3 BY LaneFacts
      <3> QED BY <2>1, <3>1 DEF Quad!Lanes
    <2>3. \A c \in 1 .. 3 : j[c] = 0 <=> t0[1] = t1[c] BY <1>11, <2>1, LaneFacts
    <2>4. j = <<0, 0, 0>> <=> j[1] = 0 /\ j[2] = 0 /\ j[3] = 0
      <3>1. j = <<j[1], j[2], j[3]>> BY <2>2, TripleIs
      <3> HIDE DEF j
      <3> QED BY <3>1
    <2>5. t1 = <<t0[1], t0[1], t0[1]>> <=> t1[1] = t0[1] /\ t1[2] = t0[1] /\ t1[3] = t0[1]
      <3>1. t1 = <<t1[1], t1[2], t1[3]>> BY <1>3, TripleIs
      <3> QED BY <3>1
    <2>6. ASSUME NEW c \in 1 .. 3 PROVE v[j[c] + 1] = t1[c]
      <3>1. CASE j[c] = 3
        <4>1. Quad!Lanes(t0, t1)[c] = 3
          <5> HIDE DEF j
          <5> QED BY <2>1, <3>1
        <4>2. c \in open BY <4>1
        <4>3. t1[Quad!Max(open)] = t1[c] BY <1>7, <1>12, <4>2
        <4>4. p3 = t1[c]
          <5> HIDE DEF open
          <5> QED BY <1>12, <4>2, <4>3
        <4>5. j[c] + 1 = 4
          <5> HIDE DEF j
          <5> QED BY <3>1
        <4> HIDE DEF v, j, p3
        <4> QED BY <1>9, <4>4, <4>5
      <3>2. CASE j[c] # 3
        <4>1. j[c] \in 0 .. 2 BY <2>2, <3>2
        <4>2. t0[j[c] + 1] = t1[c] BY <1>11, <2>1, <3>2, LaneFacts
        <4>3. v[j[c] + 1] = t0[j[c] + 1]
          <5>1. j[c] + 1 = 1 \/ j[c] + 1 = 2 \/ j[c] + 1 = 3 BY <4>1
          <5> HIDE DEF j, v
          <5> QED BY <1>9, <5>1
        <4> QED BY <4>2, <4>3
      <3> QED BY <3>1, <3>2
    <2>7. [c \in 1 .. 3 |-> v[j[c] + 1]] = t1
      <3>1. t1 = [c \in 1 .. 3 |-> t1[c]] BY <1>3
      <3> HIDE DEF v, j
      <3>2. [c \in 1 .. 3 |-> v[j[c] + 1]] = [c \in 1 .. 3 |-> t1[c]] BY <2>6
      <3> QED BY <3>1, <3>2
    <2>8. j # <<0, 0, 0>> <=> t1 # <<t0[1], t0[1], t0[1]>>
      <3> HIDE DEF j
      <3>1. t0[1] = t1[1] <=> j[1] = 0 BY <2>3
      <3>2. t0[1] = t1[2] <=> j[2] = 0 BY <2>3
      <3>3. t0[1] = t1[3] <=> j[3] = 0 BY <2>3
      <3> QED BY <2>4, <2>5, <3>1, <3>2, <3>3
    <2> HIDE DEF v, j
    <2> QED BY <2>7, <2>8
  <1>13. second = 0 => j = <<0, 0, 0>> OBVIOUS
  <1> HIDE DEF v, j
  <1>14. Quad!Triangle(0)' = t0 BY <1>5, <1>10 DEF Quad!Triangle
  <1>15. Quad!primIndexDelta(1)' = second'
    <2>1. second \in Nat BY <1>2, DeltaKept
    <2> QED BY <1>1, <1>6, <2>1 DEF Quad!primIndexDelta
  <1>16. Quad!valid2' <=> second # 0 /\ t1 # <<t0[1], t0[1], t0[1]>>
    BY <1>5, <1>12, <1>13 DEF Quad!valid2
  <1>17. Quad!valid2' => Quad!Triangle(1)' = t1
    <2>1. Quad!Triangle(1)' = [c \in 1 .. 3 |-> v[j[c] + 1]] BY <1>5 DEF Quad!Triangle
    <2> QED BY <1>12, <1>16, <2>1
  <1> QED BY <1>1, <1>3, <1>4, <1>14, <1>15, <1>16, <1>17 DEF Quad!QuadDecodes

(* The leaf of a quad of the application.                                   *)
LEMMA QuadDecode ==
  ASSUME QuadInv, Quad!createQuad
  PROVE  Quad!QuadDecodes'
  <1> DEFINE v == <<corners[1], corners[2], corners[4], corners[3]>>
             j == <<3, 2, 1>>
  <1>1. /\ stage = "quad?" /\ stage' = "leaf" /\ corners' = corners
        /\ leaf' = Quad!QuadLeaf(v, j, 0)
    BY DEF Quad!createQuad
  <1>2. corners \in [1 .. 4 -> Vertices] BY <1>1 DEF QuadInv
  <1>3. Len(corners) = 4
    <2>1. corners \in Seq(Vertices) /\ DOMAIN corners = 1 .. 4 BY <1>2, SeqDef
    <2> QED BY <2>1, LenProperties
  <1>4. leaf'.v = v /\ leaf'.j = j BY <1>1 DEF Quad!QuadLeaf
  <1>5. v[1] = corners[1] /\ v[2] = corners[2] /\ v[3] = corners[4] /\ v[4] = corners[3]
    OBVIOUS
  <1>6. SubSeq(v, 1, 3) = <<corners[1], corners[2], corners[4]>>
    <2> HIDE DEF v
    <2>1. v[1] \in Vertices /\ v[2] \in Vertices /\ v[3] \in Vertices BY <1>2, <1>5
    <2>2. \A i \in 0 + 1 .. 0 + 3 : v[i] \in Vertices BY <2>1
    <2>3. SubSeq(v, 0 + 1, 0 + 3) = <<v[0 + 1], v[0 + 2], v[0 + 3]>> BY <2>2, SubTriple
    <2>4. 0 + 1 = 1 /\ 0 + 2 = 2 /\ 0 + 3 = 3 OBVIOUS
    <2> QED BY <1>5, <2>3, <2>4
  <1>7. [c \in 1 .. 3 |-> v[j[c] + 1]] = <<corners[3], corners[4], corners[2]>>
    <2> DEFINE f == [c \in 1 .. 3 |-> v[j[c] + 1]]
    <2>1. j[1] + 1 = 4 /\ j[2] + 1 = 3 /\ j[3] + 1 = 2 OBVIOUS
    <2>2. f[1] = v[4] /\ f[2] = v[3] /\ f[3] = v[2]
      <3> HIDE DEF v, j
      <3> QED BY <2>1
    <2>3. f \in [1 .. 3 -> {f[1], f[2], f[3]}]
      <3>1. f = [c \in 1 .. 3 |-> f[c]] OBVIOUS
      <3>2. \A c \in 1 .. 3 : c = 1 \/ c = 2 \/ c = 3 OBVIOUS
      <3>3. \A c \in 1 .. 3 : f[c] \in {f[1], f[2], f[3]}
        <4> HIDE DEF f
        <4> QED BY <3>2
      <3> HIDE DEF f
      <3> QED BY <3>1, <3>3
    <2> HIDE DEF f, v
    <2> QED BY <1>5, <2>2, <2>3, TripleIs DEF f
  <1>8. j # <<0, 0, 0>> OBVIOUS
  <1> HIDE DEF v, j
  <1>9. Quad!Triangle(0)' = <<corners[1], corners[2], corners[4]>> BY <1>4, <1>6 DEF Quad!Triangle
  <1>10. Quad!Triangle(1)' = <<corners[3], corners[4], corners[2]>>
    BY <1>4, <1>7 DEF Quad!Triangle
  <1>11. Quad!valid2' BY <1>4, <1>8 DEF Quad!valid2
  <1> QED BY <1>1, <1>3, <1>9, <1>10, <1>11 DEF Quad!QuadDecodes

LEMMA QuadStays ==
  ASSUME NextOfLeaves \/ UNCHANGED leavesVars
  PROVE  /\ step' = step
         /\ step = "quad" =>
              \/ Quad!Reject \/ Quad!Pair \/ Quad!createTriangles \/ Quad!createQuad
              \/ UNCHANGED ofQuad
  BY DEF NextOfLeaves, leavesVars, Push, MergePair, MergeSingle, Reject, Pair, CreateTriangles,
         CreateQuad, AddQuads, AddProcedural, AddInstance, SetChildren, SetNodeBounds,
         SetChildBounds, LeafEnded, KeepButPairing, KeepButQuad, KeepButFatLeaf, KeepButNode

(* QuadDecodes: whatever the corners of two triangles are, also when some   *)
(* coincide, and however far the second is behind the first, createQuadLeaf *)
(* stores a leaf from which both are read back corner by corner, with their *)
(* distance; a second triangle is never made up, and only one that is a     *)
(* point is lost. A quad is read as the two triangles it stands for.        *)
THEOREM LeavesDecode == SpecOfLeaves => []QuadDecodes
  <1> DEFINE Inv == step = "quad" => QuadInv
  <1>1. InitOfLeaves => Inv BY QuadInit DEF InitOfLeaves
  <1>2. Inv /\ [NextOfLeaves]_leavesVars => Inv'
    <2> SUFFICES ASSUME Inv, [NextOfLeaves]_leavesVars, step' = "quad" PROVE QuadInv'
      OBVIOUS
    <2>1. step = "quad" /\ QuadInv BY QuadStays
    <2>2. CASE Quad!Reject
      BY <2>1, <2>2 DEF Quad!Reject, QuadInv, Triangles6, Quad!QuadDecodes
    <2>3. CASE Quad!Pair
      BY <2>1, <2>3 DEF Quad!Pair, QuadInv, Triangles6, Quad!QuadDecodes, Quad!tri0, Quad!tri1
    <2>4. CASE Quad!createTriangles
      <3>1. Quad!QuadDecodes' BY <2>1, <2>4, TrianglesDecode
      <3>2. stage' = "leaf" BY <2>4 DEF Quad!createTriangles
      <3> QED BY <3>1, <3>2 DEF QuadInv
    <2>5. CASE Quad!createQuad
      <3>1. Quad!QuadDecodes' BY <2>1, <2>5, QuadDecode
      <3>2. stage' = "leaf" BY <2>5 DEF Quad!createQuad
      <3> QED BY <3>1, <3>2 DEF QuadInv
    <2>6. CASE UNCHANGED ofQuad
      BY <2>1, <2>6 DEF ofQuad, QuadInv, Triangles6, Quad!QuadDecodes, Quad!tri0, Quad!tri1,
         Quad!valid2, Quad!Triangle, Quad!primIndexDelta
    <2> QED BY <2>1, <2>2, <2>3, <2>4, <2>5, <2>6, QuadStays
  <1>3. Inv => QuadDecodes BY DEF QuadInv, QuadDecodes
  <1> QED BY <1>1, <1>2, <1>3, PTL DEF SpecOfLeaves

------------------------------------------------------------------------------
(* Fat leaves.                                                              *)

(* The blocks from the beginning of a child to that of the next one.        *)
Advance ==
  [c \in DOMAIN runs |->
     IF kind = "quad" THEN runs[c]
     ELSE IF kind = "instance" THEN leafBlocks
     ELSE IF c < Len(runs) /\ geoms[c + 1] # geoms[c] THEN 1 ELSE 0]

(* The blocks ahead of child c.                                             *)
Ahead(c) == SumFunctionOnSet(Advance, 1 .. c - 1)

FatBlock == [prims : Seq(Nat), last : Seq(BOOLEAN), geom : Geometries \union {0}]

FatInputs ==
  /\ kind \in {"quad", "procedural", "instance"}
  /\ runs \in Seq(1 .. 3) /\ Len(runs) \in 1 .. NumChildren
  /\ geoms \in Seq(Geometries \union {0})
  /\ kind = "quad" \/ Len(geoms) = Len(runs)
  /\ kind # "quad" => \A c \in 1 .. Len(runs) : runs[c] = 1
  /\ leafBlocks \in 1 .. 3

LEMMA FatConstants ==
  /\ NumChildren \in Nat \ {0} /\ LeafCapacity \in NumChildren .. 15
  /\ MaxRun \in 1 .. 3 /\ InstanceBlocks \subseteq 1 .. 3
  BY LeavesAssumption DEF LeavesAssumption, Leaf!FatLeafAssumption

LEMMA FatSum == \A f, S : Leaf!SumFunctionOnSet(f, S) = SumFunctionOnSet(f, S)
  BY DEF Leaf!SumFunctionOnSet, SumFunctionOnSet, Leaf!FoldFunctionOnSet,
         FoldFunctionOnSet, Leaf!MapThenFoldSet, MapThenFoldSet

LEMMA FatCardinality == ASSUME NEW S PROVE Leaf!Cardinality(S) = Cardinality(S)
  BY DEF Leaf!Cardinality, Cardinality, Leaf!IsFiniteSet, IsFiniteSet

(* The first c values, and one more.                                        *)
LEMMA SumNext ==
  ASSUME NEW f, NEW m \in Nat, NEW c \in 1 .. m, \A i \in 1 .. m : f[i] \in Nat
  PROVE  /\ SumFunctionOnSet(f, 1 .. c - 1) \in Nat
         /\ SumFunctionOnSet(f, 1 .. c) = SumFunctionOnSet(f, 1 .. c - 1) + f[c]
  <1>1. 1 .. c = (1 .. c - 1) \union {c} /\ c \notin 1 .. c - 1 OBVIOUS
  <1>2. \A i \in 1 .. c - 1 : f[i] \in Nat OBVIOUS
  <1>3. f[c] \in Nat OBVIOUS
  <1>4. IsFiniteSet(1 .. c - 1)
    <2> c - 1 \in Int OBVIOUS
    <2> QED BY FS_Interval
  <1>5. SumFunctionOnSet(f, 1 .. c - 1) \in Nat BY <1>2, <1>4, SumNat
  <1>6. (\A i \in 1 .. c - 1 : f[i] \in Int) /\ f[c] \in Int BY <1>2, <1>3
  <1>7. SumFunctionOnSet(f, (1 .. c - 1) \union {c}) = f[c] + SumFunctionOnSet(f, 1 .. c - 1)
    BY <1>1, <1>4, <1>6, SumAdd
  <1>8. SumFunctionOnSet(f, 1 .. c) = f[c] + SumFunctionOnSet(f, 1 .. c - 1) BY <1>1, <1>7
  <1> QED BY <1>3, <1>5, <1>8

LEMMA SumConstant ==
  ASSUME NEW m \in Nat, NEW b \in Nat, NEW f, \A i \in 1 .. m : f[i] = b
  PROVE  SumFunctionOnSet(f, 1 .. m) = b * m
  <1> DEFINE C == {k \in 0 .. m : SumFunctionOnSet(f, 1 .. k) # b * k}
  <1>1. SUFFICES ASSUME C # {} PROVE FALSE OBVIOUS
  <1>2. PICK k \in C : \A i \in C : k <= i
    <2> C \in SUBSET Nat OBVIOUS
    <2> HIDE DEF C
    <2> QED BY <1>1, SmallestNat
  <1>3. k \in 0 .. m /\ SumFunctionOnSet(f, 1 .. k) # b * k BY <1>2
  <1>4. CASE k = 0
    <2>1. 1 .. k = {} /\ b * k = 0 BY <1>4
    <2> QED BY <1>3, <2>1, SumEmpty
  <1>5. CASE k # 0
    <2>1. k \in 1 .. m /\ k - 1 \in 0 .. m /\ ~ (k <= k - 1) BY <1>3, <1>5
    <2>2. SumFunctionOnSet(f, 1 .. k - 1) = b * (k - 1) BY <1>2, <2>1
    <2>3. \A i \in 1 .. m : f[i] \in Nat OBVIOUS
    <2>4. SumFunctionOnSet(f, 1 .. k) = b * (k - 1) + f[k] BY <2>1, <2>2, <2>3, SumNext
    <2>5. b * (k - 1) + b = b * k BY <2>1
    <2> QED BY <1>3, <2>1, <2>4, <2>5
  <1> QED BY <1>4, <1>5

LEMMA AheadFacts ==
  ASSUME FatInputs
  PROVE  /\ \A c \in 1 .. Len(runs) : Advance[c] \in 0 .. 3
         /\ \A c \in 1 .. Len(runs) + 1 : Ahead(c) \in Nat
         /\ \A c \in 1 .. Len(runs) : Ahead(c + 1) = Ahead(c) + Advance[c]
         /\ Ahead(1) = 0
         /\ \A c, d \in 1 .. Len(runs) + 1 : c <= d => Ahead(c) <= Ahead(d)
  <1>1. Len(runs) \in Nat /\ DOMAIN runs = 1 .. Len(runs)
    BY DEF FatInputs
  <1>2. \A c \in 1 .. Len(runs) : runs[c] \in 1 .. 3 BY ElementOfSeq DEF FatInputs
  <1>3. \A c \in 1 .. Len(runs) : Advance[c] \in 0 .. 3
    BY <1>1, <1>2 DEF Advance, FatInputs
  <1>4. \A c \in 1 .. Len(runs) : Advance[c] \in Nat BY <1>3
  <1>5. \A c \in 1 .. Len(runs) : Ahead(c) \in Nat /\ Ahead(c + 1) = Ahead(c) + Advance[c]
    <2> TAKE c \in 1 .. Len(runs)
    <2>1. (c + 1) - 1 = c OBVIOUS
    <2>2. /\ SumFunctionOnSet(Advance, 1 .. c - 1) \in Nat
          /\ SumFunctionOnSet(Advance, 1 .. c) = SumFunctionOnSet(Advance, 1 .. c - 1) + Advance[c]
      BY <1>1, <1>4, SumNext
    <2> QED BY <2>1, <2>2 DEF Ahead
  <1>6. Ahead(1) = 0
    <2>1. 1 .. 1 - 1 = {} OBVIOUS
    <2> QED BY <2>1, SumEmpty DEF Ahead
  <1>7. \A c \in 1 .. Len(runs) + 1 : Ahead(c) \in Nat
    <2> TAKE c \in 1 .. Len(runs) + 1
    <2>1. CASE c = 1 BY <1>6, <2>1
    <2>2. CASE c # 1
      <3>1. c - 1 \in 1 .. Len(runs) /\ c = (c - 1) + 1 BY <1>1, <2>2
      <3>2. Ahead(c - 1) \in Nat /\ Ahead((c - 1) + 1) = Ahead(c - 1) + Advance[c - 1]
            /\ Advance[c - 1] \in Nat
        BY <1>4, <1>5, <3>1
      <3> QED BY <3>1, <3>2
    <2> QED BY <2>1, <2>2
  <1>8. ASSUME NEW c \in 1 .. Len(runs) + 1, NEW d \in 1 .. Len(runs) + 1, c <= d
        PROVE  Ahead(c) <= Ahead(d)
    <2>1. IsFiniteSet(1 .. d - 1)
      <3> d - 1 \in Int BY <1>1
      <3> QED BY FS_Interval
    <2>2. 1 .. c - 1 \in SUBSET (1 .. d - 1) BY <1>1, <1>8
    <2>3. \A i \in 1 .. d - 1 : Advance[i] \in Nat BY <1>1, <1>4
    <2> QED BY <2>1, <2>2, <2>3, SumSubset DEF Ahead
  <1> QED BY <1>3, <1>5, <1>6, <1>7, <1>8

(* The blocks of all children, and of those that were written.              *)
Needed == IF kind = "procedural" THEN Ahead(Len(runs)) + 1 ELSE Ahead(Len(runs) + 1)

Written ==
  IF kind # "procedural" THEN Ahead(Len(ranges) + 1)
  ELSE IF ranges = <<>> THEN 0 ELSE Ahead(Len(ranges)) + 1

FatTypes ==
  /\ blocks \in Seq(FatBlock)
  /\ ranges \in Seq([delta : 0 .. 3, prim : 0 .. NumChildren - 1])
  /\ Len(ranges) <= Len(runs)
  /\ underrun = FALSE
  /\ Len(blocks) = Written /\ numBlocks = Needed - Written

(* Children lie as far behind one another as their ranges say.              *)
RangesOK ==
  \A c \in 1 .. Len(ranges) :
    /\ kind # "procedural" => ranges[c] = Leaf!PrimRange(Advance[c], 0)
    /\ kind = "procedural" => ranges[c].delta = IF c = 1 THEN 0 ELSE Advance[c - 1]
    /\ kind = "procedural" => ranges[c].prim < c

(* Where primitive j of child c is.                                         *)
PlaceOf(c, j) == [block |-> Ahead(c) + j, prim |-> ranges[c].prim + 1]

ChildrenOK ==
  \A c \in 1 .. Len(ranges), j \in 1 .. 3 :
    j <= runs[c] =>
      /\ Leaf!Holds(PlaceOf(c, j), Leaf!FirstPrim(c) + j - 1, j = runs[c])
      /\ kind = "quad" => Len(blocks[Ahead(c) + j].prims) = 1

(* The leaf of procedurals that is being filled.                            *)
LastOK ==
  kind = "procedural" /\ ranges # <<>> =>
    /\ Len(blocks[Len(blocks)].prims) = ranges[Len(ranges)].prim + 1
    /\ Len(blocks[Len(blocks)].last) = ranges[Len(ranges)].prim + 1
    /\ blocks[Len(blocks)].geom = geoms[Len(ranges)]

NodeOK ==
  \/ node = <<>>
  \/ /\ Len(ranges) = Len(runs)
     /\ node = [c \in DOMAIN runs |->
                  [blockIncr |-> IF c = NumChildren THEN 0 ELSE Leaf!Delta(c) % 4,
                   startPrim |-> ranges[c].prim % 16]]

FatInv ==
  /\ FatInputs /\ FatTypes /\ RangesOK /\ ChildrenOK /\ LastOK /\ NodeOK

(* A block is allocated for every change of geometry.                       *)
LEMMA ChangesCounted ==
  ASSUME FatInputs, kind = "procedural"
  PROVE  Leaf!BlocksOf(geoms) = Ahead(Len(runs)) + 1
  <1> DEFINE changes(c) == {p \in 2 .. c : geoms[p] # geoms[p - 1]}
             n == Len(runs)
             C == {c \in 1 .. n : ~ (IsFiniteSet(changes(c)) /\ Cardinality(changes(c)) = Ahead(c))}
  <1>1. n \in Nat \ {0} /\ Len(geoms) = n /\ DOMAIN runs = 1 .. n BY DEF FatInputs
  <1>2. C = {}
    <2> SUFFICES ASSUME C # {} PROVE FALSE OBVIOUS
    <2>1. PICK c \in C : \A i \in C : c <= i
      <3> C \in SUBSET Nat OBVIOUS
      <3> HIDE DEF C
      <3> QED BY SmallestNat
    <2>2. c \in 1 .. n /\ ~ (IsFiniteSet(changes(c)) /\ Cardinality(changes(c)) = Ahead(c))
      BY <2>1
    <2>3. CASE c = 1
      <3>1. changes(c) = {} BY <2>3
      <3>2. Cardinality(changes(c)) = 0 /\ IsFiniteSet(changes(c)) BY <3>1, FS_EmptySet
      <3> HIDE DEF changes
      <3> QED BY <2>2, <2>3, <3>2, AheadFacts
    <2>4. CASE c # 1
      <3> DEFINE b == c - 1
      <3>1. b \in 1 .. n /\ c = b + 1 /\ ~ (c <= b) /\ b < n BY <1>1, <2>2, <2>4
      <3>2. IsFiniteSet(changes(b)) /\ Cardinality(changes(b)) = Ahead(b)
        <4>1. b \notin C BY <2>1, <3>1
        <4> HIDE DEF b, changes
        <4> QED BY <3>1, <4>1
      <3>3. Ahead(c) = Ahead(b) + Advance[b] /\ Ahead(b) \in Nat
        <4> HIDE DEF b
        <4> QED BY <1>1, <3>1, AheadFacts
      <3>4. Advance[b] = IF geoms[c] # geoms[b] THEN 1 ELSE 0
        <4> HIDE DEF b
        <4> QED BY <1>1, <3>1 DEF Advance
      <3>5. CASE geoms[c] # geoms[b]
        <4>1. changes(c) = changes(b) \union {c} /\ c \notin changes(b) BY <2>2, <2>4, <3>5
        <4> HIDE DEF changes, b
        <4>2. /\ IsFiniteSet(changes(b) \union {c})
              /\ Cardinality(changes(b) \union {c}) = Cardinality(changes(b)) + 1
          <5> DEFINE D == changes(b)
          <5>1. IsFiniteSet(D) /\ c \notin D BY <3>2, <4>1
          <5> HIDE DEF D
          <5>2. IsFiniteSet(D \union {c}) /\ Cardinality(D \union {c}) = Cardinality(D) + 1
            BY <5>1, FS_AddElement
          <5> QED BY <5>2 DEF D
        <4>3. Ahead(c) = Ahead(b) + 1 BY <3>3, <3>4, <3>5
        <4>4. Cardinality(changes(c)) = Ahead(c) BY <3>2, <4>1, <4>2, <4>3
        <4> QED BY <2>2, <4>1, <4>2, <4>4
      <3>6. CASE geoms[c] = geoms[b]
        <4>1. changes(c) = changes(b) BY <2>2, <2>4, <3>6
        <4> HIDE DEF changes, b
        <4> QED BY <2>2, <3>2, <3>3, <3>4, <3>6, <4>1
      <3> QED BY <3>5, <3>6
    <2> QED BY <2>3, <2>4
  <1>3. Cardinality(changes(n)) = Ahead(n)
    <2> HIDE DEF changes, n
    <2> QED BY <1>1, <1>2
  <1>4. Leaf!BlocksOf(geoms) = 1 + Cardinality(changes(n))
    BY <1>1, FatCardinality DEF Leaf!BlocksOf
  <1>5. Ahead(n) \in Nat
    <2>1. n \in 1 .. n + 1 BY <1>1
    <2> QED BY <2>1, AheadFacts
  <1> QED BY <1>3, <1>4, <1>5

LEMMA FatInit == ASSUME Leaf!Init PROVE FatInv
  <1>1. /\ blocks = <<>> /\ ranges = <<>> /\ node = <<>> /\ underrun = FALSE
    BY DEF Leaf!Init
  <1>2. CASE kind = "quad" /\ runs \in Leaf!SeqOf(1 .. MaxRun, NumChildren) \ {<<>>}
    <2>1. runs \in Seq(1 .. 3) /\ Len(runs) \in 1 .. NumChildren
      <3>1. PICK m \in 0 .. NumChildren : runs \in [1 .. m -> 1 .. MaxRun] BY <1>2 DEF Leaf!SeqOf
      <3>2. m \in Nat /\ runs \in [1 .. m -> 1 .. 3] BY <3>1, FatConstants
      <3>3. m # 0
        <4> SUFFICES ASSUME m = 0 PROVE FALSE OBVIOUS
        <4>1. runs \in Seq(1 .. 3) /\ Len(runs) = 0 BY <3>2
        <4> QED BY <1>2, <4>1, EmptySeq
      <3>4. runs \in Seq(1 .. 3) /\ Len(runs) = m BY <3>2
      <3> QED BY <3>1, <3>3, <3>4, FatConstants
    <2>2. geoms = [p \in 1 .. Leaf!Total(runs) |-> 0] /\ leafBlocks = 1 /\ numBlocks = Leaf!Total(runs)
      BY <1>2 DEF Leaf!Init
    <2>3. Advance = [c \in DOMAIN runs |-> runs[c]] BY <1>2 DEF Advance
    <2>4. Leaf!Total(runs) = Ahead(Len(runs) + 1)
      <3>1. Len(runs) \in Nat /\ (Len(runs) + 1) - 1 = Len(runs) /\ DOMAIN runs = 1 .. Len(runs) BY <2>1
      <3>2. \A i \in 1 .. Len(runs) : runs[i] \in Int /\ runs[i] = Advance[i]
        BY <2>1, <2>3, <3>1, ElementOfSeq
      <3>3. IsFiniteSet(1 .. Len(runs))
        <4> Len(runs) \in Int BY <3>1
        <4> QED BY FS_Interval
      <3>4. SumFunctionOnSet(runs, 1 .. Len(runs)) = SumFunctionOnSet(Advance, 1 .. Len(runs))
        BY <3>2, <3>3, SumSame
      <3> QED BY <3>1, <3>4, FatSum DEF Leaf!Total, Ahead
    <2>5. FatInputs
      <3>1. Leaf!Total(runs) \in Nat
        <4>1. Len(runs) \in Nat /\ DOMAIN runs = 1 .. Len(runs) BY <2>1
        <4>2. IsFiniteSet(1 .. Len(runs))
          <5> Len(runs) \in Int BY <4>1
          <5> QED BY FS_Interval
        <4>3. \A i \in 1 .. Len(runs) : runs[i] \in Nat BY <2>1, <4>1, ElementOfSeq
        <4> QED BY <4>1, <4>2, <4>3, SumNat, FatSum DEF Leaf!Total
      <3>2. geoms \in Seq(Geometries \union {0})
        <4> DEFINE m == Leaf!Total(runs)
        <4>1. m \in Nat /\ geoms = [p \in 1 .. m |-> 0] BY <2>2, <3>1
        <4>2. geoms \in [1 .. m -> Geometries \union {0}]
          <5> HIDE DEF m
          <5> QED BY <4>1
        <4> HIDE DEF m
        <4> QED BY <4>1, <4>2
      <3> QED BY <1>2, <2>1, <2>2, <3>2 DEF FatInputs
    <2>6. Len(ranges) = 0 /\ Len(blocks) = 0 BY <1>1
    <2>7. Written = 0 /\ Needed = Ahead(Len(runs) + 1) /\ Needed \in Nat
      <3>1. Len(runs) + 1 \in 1 .. Len(runs) + 1 BY <2>1
      <3> QED BY <1>2, <2>5, <2>6, <3>1, AheadFacts DEF Written, Needed
    <2> QED BY <1>1, <1>2, <2>1, <2>2, <2>4, <2>5, <2>6, <2>7, EmptySeq
        DEF FatInv, FatTypes, RangesOK, ChildrenOK, LastOK, NodeOK
  <1>3. CASE /\ kind = "procedural"
             /\ geoms \in Leaf!SeqOf(Geometries, NumChildren) \ {<<>>}
             /\ runs = [p \in DOMAIN geoms |-> 1] /\ leafBlocks = 1
             /\ numBlocks = Leaf!BlocksOf(geoms)
    <2>1. PICK m \in 0 .. NumChildren : geoms \in [1 .. m -> Geometries] BY <1>3 DEF Leaf!SeqOf
    <2>2. m \in Nat /\ geoms \in [1 .. m -> Geometries \union {0}] BY <2>1, FatConstants
    <2>3. geoms \in Seq(Geometries \union {0}) /\ Len(geoms) = m /\ DOMAIN geoms = 1 .. m
      BY <2>2
    <2>4. m \in 1 .. NumChildren
      <3> SUFFICES ASSUME m = 0 PROVE FALSE BY FatConstants
      <3> QED BY <1>3, <2>3, EmptySeq
    <2>5. runs \in [1 .. m -> 1 .. 3] /\ \A c \in 1 .. m : runs[c] = 1 BY <1>3, <2>3
    <2>6. runs \in Seq(1 .. 3) /\ Len(runs) = m BY <2>2, <2>5
    <2>7. FatInputs BY <1>3, <2>3, <2>4, <2>5, <2>6 DEF FatInputs
    <2>8. numBlocks = Needed BY <1>3, <2>7, ChangesCounted DEF Needed
    <2>9. Written = 0 BY <1>1, <1>3 DEF Written
    <2>10. Needed \in Nat
      <3>1. Len(runs) \in 1 .. Len(runs) + 1 BY <2>4, <2>6
      <3> QED BY <1>3, <2>7, <3>1, AheadFacts DEF Needed
    <2>11. Len(ranges) = 0 /\ Len(blocks) = 0 BY <1>1
    <2> QED BY <1>1, <2>4, <2>6, <2>7, <2>8, <2>9, <2>10, <2>11, EmptySeq
        DEF FatInv, FatTypes, RangesOK, ChildrenOK, LastOK, NodeOK
  <1>4. CASE /\ kind = "instance"
             /\ \E n \in 1 .. NumChildren :
                  geoms = [p \in 1 .. n |-> 0] /\ runs = [p \in 1 .. n |-> 1]
             /\ leafBlocks \in InstanceBlocks /\ numBlocks = leafBlocks * Len(runs)
    <2>1. PICK m \in 1 .. NumChildren : geoms = [p \in 1 .. m |-> 0] /\ runs = [p \in 1 .. m |-> 1]
      BY <1>4
    <2>2. /\ m \in Nat /\ geoms \in [1 .. m -> Geometries \union {0}]
          /\ runs \in [1 .. m -> 1 .. 3] /\ \A c \in 1 .. m : runs[c] = 1
      BY <2>1, FatConstants
    <2>3. geoms \in Seq(Geometries \union {0}) /\ Len(geoms) = m BY <2>2
    <2>4. runs \in Seq(1 .. 3) /\ Len(runs) = m /\ DOMAIN runs = 1 .. m BY <2>2
    <2>5. leafBlocks \in 1 .. 3 BY <1>4, FatConstants
    <2>6. FatInputs BY <1>4, <2>1, <2>2, <2>3, <2>4, <2>5 DEF FatInputs
    <2>7. \A c \in 1 .. m : Advance[c] = leafBlocks BY <1>4, <2>4 DEF Advance
    <2>8. Ahead(Len(runs) + 1) = leafBlocks * Len(runs)
      <3>1. (Len(runs) + 1) - 1 = m BY <2>2, <2>4
      <3>2. leafBlocks \in Nat BY <2>5
      <3>3. SumFunctionOnSet(Advance, 1 .. m) = leafBlocks * m BY <2>2, <2>7, <3>2, SumConstant
      <3> QED BY <2>4, <3>1, <3>3 DEF Ahead
    <2>9. Len(ranges) = 0 /\ Len(blocks) = 0 BY <1>1
    <2>10. Written = 0 /\ Needed = Ahead(Len(runs) + 1) /\ Needed \in Nat
      <3>1. Len(runs) + 1 \in 1 .. Len(runs) + 1 BY <2>2, <2>4
      <3> QED BY <1>4, <2>6, <2>9, <3>1, AheadFacts DEF Written, Needed
    <2> QED BY <1>1, <1>4, <2>1, <2>4, <2>6, <2>8, <2>9, <2>10, EmptySeq
        DEF FatInv, FatTypes, RangesOK, ChildrenOK, LastOK, NodeOK
  <1> QED BY <1>2, <1>3, <1>4 DEF Leaf!Init

LEMMA FirstPrimFacts ==
  ASSUME FatInputs, NEW c \in 1 .. Len(runs)
  PROVE  /\ Leaf!FirstPrim(c) \in Nat \ {0}
         /\ kind # "quad" => Leaf!FirstPrim(c) = c
  <1>1. Len(runs) \in Nat /\ c - 1 \in Nat BY DEF FatInputs
  <1>2. \A i \in 1 .. Len(runs) : runs[i] \in Nat BY ElementOfSeq DEF FatInputs
  <1>3. Leaf!FirstPrim(c) = SumFunctionOnSet(runs, 1 .. c - 1) + 1 BY FatSum DEF Leaf!FirstPrim
  <1>4. SumFunctionOnSet(runs, 1 .. c - 1) \in Nat BY <1>1, <1>2, SumNext
  <1>5. ASSUME kind # "quad" PROVE Leaf!FirstPrim(c) = c
    <2>1. \A i \in 1 .. c - 1 : runs[i] = 1 BY <1>1, <1>5 DEF FatInputs
    <2>2. SumFunctionOnSet(runs, 1 .. c - 1) = 1 * (c - 1)
      <3> DEFINE b == c - 1
      <3>1. b \in Nat /\ 1 \in Nat /\ \A i \in 1 .. b : runs[i] = 1 BY <1>1, <2>1
      <3> HIDE DEF b
      <3>2. SumFunctionOnSet(runs, 1 .. b) = 1 * b BY <3>1, SumConstant
      <3> QED BY <3>2 DEF b
    <2> QED BY <1>1, <1>3, <2>2
  <1> QED BY <1>3, <1>4, <1>5

LEMMA SameFat ==
  ASSUME kind' = kind, runs' = runs, geoms' = geoms, leafBlocks' = leafBlocks
  PROVE  /\ FatInputs => FatInputs'
         /\ Advance' = Advance /\ Needed' = Needed
         /\ \A c : Ahead(c)' = Ahead(c) /\ Leaf!FirstPrim(c)' = Leaf!FirstPrim(c)
  <1>1. Advance' = Advance BY DEF Advance
  <1>2. \A c : Ahead(c)' = Ahead(c) BY <1>1 DEF Ahead
  <1>3. Needed' = Needed BY <1>2 DEF Needed
  <1>4. \A c : Leaf!FirstPrim(c)' = Leaf!FirstPrim(c) BY DEF Leaf!FirstPrim
  <1> QED BY <1>1, <1>2, <1>3, <1>4 DEF FatInputs

(* The blocks of the child of quads or the instance that is written next.   *)
Added ==
  IF kind = "quad"
  THEN [p \in 1 .. runs[Leaf!Current] |->
          Leaf!Block(<<Leaf!FirstPrim(Leaf!Current) + p - 1>>, <<Leaf!LastFlag(p, Leaf!Current)>>, 0)]
  ELSE [b \in 1 .. leafBlocks |->
          IF b = 1 THEN Leaf!Block(<<Leaf!Current>>, <<TRUE>>, 0) ELSE Leaf!Block(<<>>, <<>>, 0)]

LEMMA AddedFacts ==
  ASSUME FatInputs, NEW c \in 1 .. Len(runs), c = Leaf!Current, kind # "procedural"
  PROVE  /\ Added \in Seq(FatBlock) /\ Len(Added) = Advance[c] /\ runs[c] <= Advance[c]
         /\ \A j \in 1 .. 3 : j <= runs[c] =>
              Added[j] = Leaf!Block(<<Leaf!FirstPrim(c) + j - 1>>, <<j = runs[c]>>, 0)
  <1>1. runs[c] \in 1 .. 3 /\ leafBlocks \in 1 .. 3 BY ElementOfSeq DEF FatInputs
  <1>2. Leaf!FirstPrim(c) \in Nat \ {0} /\ (kind # "quad" => Leaf!FirstPrim(c) = c)
    BY FirstPrimFacts
  <1>3. \A p \in Nat, b \in BOOLEAN : Leaf!Block(<<p>>, <<b>>, 0) \in FatBlock
    BY DEF Leaf!Block, FatBlock
  <1>4. Leaf!Block(<<>>, <<>>, 0) \in FatBlock BY DEF Leaf!Block, FatBlock
  <1>5. CASE kind = "quad"
    <2> DEFINE m == runs[c]
               first == Leaf!FirstPrim(c)
               f == [p \in 1 .. m |-> Leaf!Block(<<first + p - 1>>, <<p = m>>, 0)]
    <2>1. Added = f BY <1>5 DEF Added, Leaf!LastFlag
    <2>2. m \in 1 .. 3 /\ first \in Nat \ {0} BY <1>1, <1>2
    <2>3. Advance[c] = m BY <1>5 DEF Advance, FatInputs
    <2> HIDE DEF m, first
    <2>4. f \in [1 .. m -> FatBlock]
      <3>1. \A p \in 1 .. m : first + p - 1 \in Nat /\ (p = m) \in BOOLEAN BY <2>2
      <3> QED BY <1>3, <3>1
    <2>5. f \in Seq(FatBlock) /\ Len(f) = m
      <3> HIDE DEF f
      <3> QED BY <2>2, <2>4
    <2>6. \A j \in 1 .. 3 : j <= m => f[j] = Leaf!Block(<<first + j - 1>>, <<j = m>>, 0) BY <2>2
    <2>7. m <= m BY <2>2
    <2> HIDE DEF f
    <2> QED BY <2>1, <2>3, <2>5, <2>6, <2>7 DEF m, first
  <1>6. CASE kind = "instance"
    <2> DEFINE m == leafBlocks
               f == [b \in 1 .. m |-> IF b = 1 THEN Leaf!Block(<<c>>, <<TRUE>>, 0)
                                               ELSE Leaf!Block(<<>>, <<>>, 0)]
    <2>1. Added = f BY <1>6 DEF Added
    <2>2. m \in 1 .. 3 /\ runs[c] = 1 BY <1>1, <1>6 DEF FatInputs
    <2>3. Advance[c] = m BY <1>6 DEF Advance, FatInputs
    <2>4. c \in Nat OBVIOUS
    <2> HIDE DEF m
    <2>5. f \in [1 .. m -> FatBlock] BY <1>3, <1>4, <2>4
    <2>6. f \in Seq(FatBlock) /\ Len(f) = m
      <3> HIDE DEF f
      <3> QED BY <2>2, <2>5
    <2>7. f[1] = Leaf!Block(<<c>>, <<TRUE>>, 0) BY <2>2
    <2> HIDE DEF f
    <2>8. runs[c] <= Advance[c] BY <2>2, <2>3
    <2>9. \A j \in 1 .. 3 : j <= runs[c] => j = 1 BY <2>2
    <2>10. Leaf!FirstPrim(c) + 1 - 1 = c /\ (1 = runs[c]) = TRUE BY <1>2, <1>6, <2>2, <2>4
    <2> QED BY <2>1, <2>3, <2>6, <2>7, <2>8, <2>9, <2>10
  <1> QED BY <1>5, <1>6 DEF FatInputs

(* A child of quads, or an instance, goes behind what is written.           *)
LEMMA AddedKeeps ==
  ASSUME FatInv, kind # "procedural", Leaf!Current <= Len(runs), blocks' = blocks \o Added,
         ranges' = Append(ranges, Leaf!PrimRange(Advance[Leaf!Current], 0)),
         Leaf!Use(Advance[Leaf!Current]),
         kind' = kind, runs' = runs, geoms' = geoms, leafBlocks' = leafBlocks, node' = node
  PROVE  FatInv'
  <1> DEFINE c == Leaf!Current
             R == [delta : 0 .. 3, prim : 0 .. NumChildren - 1]
  <1>1. /\ Len(runs) \in Nat /\ Len(ranges) \in Nat /\ Len(blocks) \in Nat
        /\ DOMAIN blocks = 1 .. Len(blocks)
    BY DEF FatInv, FatInputs, FatTypes
  <1>2. c = Len(ranges) + 1 /\ c \in 1 .. Len(runs) BY <1>1 DEF Leaf!Current
  <1> HIDE DEF c
  <1>3. FatInputs /\ FatInputs' /\ Needed' = Needed /\ Advance' = Advance
        /\ \A d : Ahead(d)' = Ahead(d) /\ Leaf!FirstPrim(d)' = Leaf!FirstPrim(d)
    BY SameFat DEF FatInv
  <1>4. /\ Added \in Seq(FatBlock) /\ Len(Added) = Advance[c] /\ runs[c] <= Advance[c]
        /\ \A j \in 1 .. 3 : j <= runs[c] =>
             Added[j] = Leaf!Block(<<Leaf!FirstPrim(c) + j - 1>>, <<j = runs[c]>>, 0)
    <2>1. c = Leaf!Current BY DEF c
    <2> QED BY <1>2, <1>3, <2>1, AddedFacts
  <1>5. /\ Advance[c] \in 0 .. 3 /\ Ahead(c) \in Nat /\ Ahead(c + 1) = Ahead(c) + Advance[c]
        /\ Ahead(c + 1) <= Ahead(Len(runs) + 1) /\ Ahead(Len(runs) + 1) \in Nat
    <2>1. /\ c \in 1 .. Len(runs) + 1 /\ c + 1 \in 1 .. Len(runs) + 1
          /\ Len(runs) + 1 \in 1 .. Len(runs) + 1 /\ c + 1 <= Len(runs) + 1
      BY <1>1, <1>2
    <2>2. \A d, e \in 1 .. Len(runs) + 1 : d <= e => Ahead(d) <= Ahead(e) BY <1>3, AheadFacts
    <2>3. Ahead(c + 1) <= Ahead(Len(runs) + 1) BY <2>1, <2>2
    <2>4. /\ Advance[c] \in 0 .. 3 /\ Ahead(c) \in Nat /\ Ahead(Len(runs) + 1) \in Nat
          /\ Ahead(c + 1) = Ahead(c) + Advance[c]
      BY <1>2, <1>3, <2>1, AheadFacts
    <2> QED BY <2>3, <2>4
  <1>6. Len(blocks) = Ahead(c) /\ numBlocks = Ahead(Len(runs) + 1) - Ahead(c)
    BY <1>2 DEF FatInv, FatTypes, Written, Needed
  <1>7. /\ blocks' \in Seq(FatBlock) /\ Len(blocks') = Ahead(c + 1)
        /\ \A i \in 1 .. Len(blocks) : i \in DOMAIN blocks' /\ blocks'[i] = blocks[i]
        /\ \A j \in 1 .. Advance[c] :
             Ahead(c) + j \in DOMAIN blocks' /\ blocks'[Ahead(c) + j] = Added[j]
    <2>1. /\ blocks' \in Seq(FatBlock) /\ Len(blocks') = Len(blocks) + Len(Added)
          /\ \A i \in 1 .. Len(blocks) + Len(Added) :
               blocks'[i] = IF i <= Len(blocks) THEN blocks[i] ELSE Added[i - Len(blocks)]
      BY <1>4, ConcatProperties DEF FatInv, FatTypes
    <2>2. DOMAIN blocks' = 1 .. Len(blocks) + Len(Added) BY <2>1, LenProperties
    <2>3. Len(blocks) = Ahead(c) /\ Len(Added) = Advance[c] BY <1>4, <1>6
    <2>4. ASSUME NEW i \in 1 .. Len(blocks) PROVE i \in DOMAIN blocks' /\ blocks'[i] = blocks[i]
      <3>1. i \in 1 .. Len(blocks) + Len(Added) /\ i <= Len(blocks) BY <1>5, <2>3
      <3> QED BY <2>1, <2>2, <3>1
    <2>5. ASSUME NEW j \in 1 .. Advance[c]
          PROVE  Ahead(c) + j \in DOMAIN blocks' /\ blocks'[Ahead(c) + j] = Added[j]
      <3>1. /\ Ahead(c) + j \in 1 .. Len(blocks) + Len(Added) /\ ~ (Ahead(c) + j <= Len(blocks))
            /\ (Ahead(c) + j) - Len(blocks) = j
        BY <1>5, <2>3
      <3> QED BY <2>1, <2>2, <3>1
    <2> QED BY <1>5, <2>1, <2>3, <2>4, <2>5
  <1>8. /\ ranges' \in Seq(R) /\ Len(ranges') = c
        /\ \A d \in 1 .. Len(ranges) : ranges'[d] = ranges[d]
        /\ ranges'[c] = Leaf!PrimRange(Advance[c], 0)
    <2> DEFINE e == Leaf!PrimRange(Advance[c], 0)
    <2>1. e \in R BY <1>5, FatConstants DEF Leaf!PrimRange
    <2>2. ranges \in Seq(R) BY DEF FatInv, FatTypes
    <2>3. ranges' = Append(ranges, e) BY DEF c
    <2> HIDE DEF e, R
    <2>4. /\ ranges' \in Seq(R) /\ Len(ranges') = Len(ranges) + 1
          /\ \A d \in 1 .. Len(ranges) : ranges'[d] = ranges[d]
          /\ ranges'[Len(ranges) + 1] = e
      BY <2>1, <2>2, <2>3, AppendProperties
    <2> QED BY <1>2, <2>4 DEF e
  <1>9. FatTypes'
    <2>1. Written' = Ahead(c + 1) BY <1>3, <1>8 DEF Written
    <2>2. numBlocks' = numBlocks - Advance[c] /\ underrun' = (underrun \/ numBlocks < Advance[c])
      BY DEF Leaf!Use, c
    <2>3. underrun = FALSE BY DEF FatInv, FatTypes
    <2>4. underrun' = FALSE
      <3>1. ~ (numBlocks < Advance[c]) BY <1>5, <1>6
      <3> QED BY <2>2, <2>3, <3>1
    <2>5. Needed' = Ahead(Len(runs) + 1) BY <1>3 DEF Needed
    <2>6. numBlocks' = Needed' - Written' BY <1>5, <1>6, <2>1, <2>2, <2>5
    <2>7. Len(ranges') <= Len(runs') BY <1>2, <1>8
    <2> QED BY <1>7, <1>8, <2>1, <2>4, <2>6, <2>7 DEF FatTypes
  <1>10. RangesOK'
    <2> SUFFICES ASSUME NEW d \in 1 .. Len(ranges')
                 PROVE  ranges'[d] = Leaf!PrimRange(Advance[d], 0)
      BY <1>3 DEF RangesOK
    <2>1. d = c \/ d \in 1 .. Len(ranges) BY <1>1, <1>2, <1>8
    <2> QED BY <1>8, <2>1 DEF FatInv, RangesOK
  <1>11. ChildrenOK'
    <2> SUFFICES ASSUME NEW d \in 1 .. Len(ranges'), NEW j \in 1 .. 3, j <= runs[d]
                 PROVE  /\ Leaf!Holds(PlaceOf(d, j), Leaf!FirstPrim(d) + j - 1, j = runs[d])'
                        /\ kind = "quad" => Len(blocks'[Ahead(d) + j].prims) = 1
      BY <1>3 DEF ChildrenOK
    <2>1. CASE d \in 1 .. Len(ranges)
      <3>1. /\ Leaf!Holds(PlaceOf(d, j), Leaf!FirstPrim(d) + j - 1, j = runs[d])
            /\ kind = "quad" => Len(blocks[Ahead(d) + j].prims) = 1
        BY <2>1 DEF FatInv, ChildrenOK
      <3>2. Ahead(d) + j \in 1 .. Len(blocks) /\ ranges[d].prim + 1 \in DOMAIN blocks[Ahead(d) + j].prims
        BY <1>1, <3>1 DEF Leaf!Holds, PlaceOf
      <3>3. /\ Ahead(d) + j \in DOMAIN blocks' /\ blocks'[Ahead(d) + j] = blocks[Ahead(d) + j]
            /\ ranges'[d] = ranges[d]
        BY <1>7, <1>8, <2>1, <3>2
      <3>4. Leaf!Holds(PlaceOf(d, j), Leaf!FirstPrim(d) + j - 1, j = runs[d])'
        BY <1>3, <2>1, <3>1, <3>2, <3>3 DEF Leaf!Holds, PlaceOf
      <3> QED BY <3>1, <3>3, <3>4
    <2>2. CASE d = c
      <3> DEFINE p == Leaf!FirstPrim(d) + j - 1
      <3>1. /\ ranges'[d] = [delta |-> Advance[d], prim |-> 0]
            /\ Added[j] = Leaf!Block(<<p>>, <<j = runs[d]>>, 0)
        BY <1>4, <1>8, <2>2 DEF Leaf!PrimRange
      <3>2. j \in 1 .. Advance[d]
        <4>1. runs[d] \in 1 .. 3 BY <1>2, <1>3, <2>2, ElementOfSeq DEF FatInputs
        <4>2. runs[d] <= Advance[d] /\ Advance[d] \in 0 .. 3 BY <1>4, <1>5, <2>2
        <4> QED BY <4>1, <4>2
      <3>3. Ahead(d) + j \in DOMAIN blocks' /\ blocks'[Ahead(d) + j] = Leaf!Block(<<p>>, <<j = runs[d]>>, 0)
        BY <1>7, <2>2, <3>1, <3>2
      <3>4. PlaceOf(d, j)' = [block |-> Ahead(d) + j, prim |-> 1]
        <4>1. ranges'[d].prim + 1 = 1 BY <3>1
        <4> QED BY <1>3, <4>1 DEF PlaceOf
      <3>5. p' = p /\ (j = runs[d])' = (j = runs[d]) BY <1>3
      <3> HIDE DEF p
      <3>6. /\ blocks'[Ahead(d) + j].prims = <<p>> /\ blocks'[Ahead(d) + j].last = <<j = runs[d]>>
        BY <3>3 DEF Leaf!Block
      <3>7. /\ 1 \in DOMAIN blocks'[Ahead(d) + j].prims /\ blocks'[Ahead(d) + j].prims[1] = p
            /\ blocks'[Ahead(d) + j].last[1] = (j = runs[d])
            /\ Len(blocks'[Ahead(d) + j].prims) = 1
        BY <3>6
      <3>8. Leaf!Holds(PlaceOf(d, j), p, j = runs[d])'
        BY <3>3, <3>4, <3>5, <3>7 DEF Leaf!Holds
      <3> QED BY <3>5, <3>7, <3>8 DEF p
    <2>3. d = c \/ d \in 1 .. Len(ranges) BY <1>1, <1>2, <1>8
    <2> QED BY <2>1, <2>2, <2>3
  <1>12. node = <<>> BY <1>1, <1>2 DEF FatInv, NodeOK
  <1> QED BY <1>3, <1>9, <1>10, <1>11, <1>12 DEF FatInv, LastOK, NodeOK

LEMMA ProcFacts ==
  ASSUME FatInv, kind = "procedural"
  PROVE  /\ Len(runs) \in 1 .. NumChildren /\ Len(ranges) \in 0 .. Len(runs)
         /\ ranges = <<>> <=> Len(ranges) = 0
         /\ blocks = <<>> <=> Len(ranges) = 0
         /\ Len(blocks) \in Nat /\ DOMAIN blocks = 1 .. Len(blocks)
         /\ Len(ranges) = 0 => Len(blocks) = 0
         /\ Len(ranges) # 0 => Len(blocks) = Ahead(Len(ranges)) + 1
         /\ numBlocks = (Ahead(Len(runs)) + 1) - Len(blocks)
  <1>1. /\ Len(runs) \in 1 .. NumChildren /\ Len(ranges) \in 0 .. Len(runs)
        /\ Len(blocks) \in Nat /\ DOMAIN blocks = 1 .. Len(blocks)
    BY FatConstants DEF FatInv, FatInputs, FatTypes
  <1>2. ranges = <<>> <=> Len(ranges) = 0 BY EmptySeq DEF FatInv, FatTypes
  <1>3. blocks = <<>> <=> Len(blocks) = 0 BY EmptySeq DEF FatInv, FatTypes
  <1>4. Len(blocks) = Written /\ numBlocks = Needed - Written BY DEF FatInv, FatTypes
  <1>5. Written = (IF Len(ranges) = 0 THEN 0 ELSE Ahead(Len(ranges)) + 1) BY <1>2 DEF Written
  <1>6. Needed = Ahead(Len(runs)) + 1 BY DEF Needed
  <1>7. Len(ranges) # 0 => Ahead(Len(ranges)) \in Nat
    <2>1. Len(ranges) # 0 => Len(ranges) \in 1 .. Len(runs) + 1 BY <1>1
    <2> QED BY <2>1, AheadFacts DEF FatInv
  <1> QED BY <1>1, <1>2, <1>3, <1>4, <1>5, <1>6, <1>7

LEMMA AppendTrue ==
  ASSUME NEW q \in Seq(BOOLEAN), NEW m, m = Len(q)
  PROVE  /\ Append(q, TRUE) \in Seq(BOOLEAN) /\ Len(Append(q, TRUE)) = m + 1
         /\ Append(q, TRUE)[m + 1] = TRUE
         /\ \A i \in 1 .. m : Append(q, TRUE)[i] = q[i]
  <1>1. \A b \in BOOLEAN :
          /\ Append(q, b) \in Seq(BOOLEAN) /\ Len(Append(q, b)) = m + 1
          /\ Append(q, b)[m + 1] = b
          /\ \A i \in 1 .. m : Append(q, b)[i] = q[i]
    BY AppendProperties
  <1> QED BY <1>1

(* The primitive goes into the leaf that is being filled.                   *)
LEMMA FitsKeeps ==
  ASSUME FatInv, Leaf!AddProcedural, Leaf!Fits(geoms[Leaf!Current])
  PROVE  FatInv'
  <1> DEFINE k == Len(ranges)
             c == Leaf!Current
             L == Len(blocks)
             m == Len(blocks[L].prims)
             R == [delta : 0 .. 3, prim : 0 .. NumChildren - 1]
  <1>1. /\ kind = "procedural" /\ kind' = kind /\ runs' = runs /\ geoms' = geoms
        /\ leafBlocks' = leafBlocks /\ node' = node /\ numBlocks' = numBlocks /\ underrun' = underrun
        /\ c <= Len(runs) /\ c = k + 1
    BY DEF Leaf!AddProcedural, Leaf!Current
  <1>2. /\ blocks # <<>> /\ blocks[L].geom = geoms[c]
    BY DEF Leaf!Fits, Leaf!Last
  <1>3. /\ blocks' = [blocks EXCEPT ![L].prims = Append(@, c), ![L].last = Append(@, TRUE)]
        /\ ranges' = Append(ranges, Leaf!PrimRange(0, m))
    BY DEF Leaf!AddProcedural, Leaf!Last
  <1>4. /\ k \in 1 .. Len(runs) /\ c \in 1 .. Len(runs) /\ Len(runs) \in 1 .. NumChildren
        /\ L \in Nat \ {0} /\ DOMAIN blocks = 1 .. L /\ L = Ahead(k) + 1 /\ ranges # <<>>
    BY <1>1, <1>2, ProcFacts, AheadFacts DEF FatInv
  <1>5. FatInputs /\ FatInputs' /\ Needed' = Needed /\ Advance' = Advance
        /\ \A d : Ahead(d)' = Ahead(d) /\ Leaf!FirstPrim(d)' = Leaf!FirstPrim(d)
    BY <1>1, SameFat DEF FatInv
  <1>6. /\ m = ranges[k].prim + 1 /\ Len(blocks[L].last) = m /\ geoms[k] = geoms[c]
        /\ ranges[k].prim < k
    BY <1>1, <1>2, <1>4 DEF FatInv, LastOK, RangesOK
  <1>7. m \in 1 .. k
    <2>1. ranges[k] \in R
      <3>1. ranges \in Seq(R) BY DEF FatInv, FatTypes
      <3>2. k \in 1 .. Len(ranges) BY <1>4
      <3> HIDE DEF R, k
      <3> QED BY <3>1, <3>2, ElementOfSeq
    <2>2. ranges[k].prim \in 0 .. NumChildren - 1 BY <2>1
    <2> QED BY <1>4, <1>6, <2>2, FatConstants
  <1>8. Ahead(c) + 1 = L
    <2>1. Advance[k] = 0 BY <1>1, <1>4, <1>6 DEF Advance, FatInputs
    <2>2. Ahead(c) = Ahead(k) + Advance[k] /\ Ahead(k) \in Nat
      <3>1. k \in 1 .. Len(runs) + 1 BY <1>4
      <3> QED BY <1>1, <1>4, <1>5, <3>1, AheadFacts
    <2> QED BY <1>4, <2>1, <2>2
  <1>9. blocks[L] \in FatBlock BY <1>4, ElementOfSeq DEF FatInv, FatTypes
  <1>10. blocks[L].prims \in Seq(Nat) /\ blocks[L].last \in Seq(BOOLEAN)
    BY <1>9 DEF FatBlock
  <1>11. c \in Nat BY <1>4
  <1> DEFINE ps == Append(blocks[L].prims, c)
             ls == Append(blocks[L].last, TRUE)
  <1>12. /\ ps \in Seq(Nat) /\ Len(ps) = m + 1 /\ ps[m + 1] = c
         /\ \A i \in 1 .. m : ps[i] = blocks[L].prims[i]
    BY <1>10, <1>11, AppendProperties
  <1>13. /\ ls \in Seq(BOOLEAN) /\ Len(ls) = m + 1 /\ ls[m + 1] = TRUE
         /\ \A i \in 1 .. m : ls[i] = blocks[L].last[i]
    <2>1. /\ blocks[L].last \in Seq(BOOLEAN) /\ Len(blocks[L].last) = m /\ TRUE \in BOOLEAN
      BY <1>6, <1>10
    <2> DEFINE q == blocks[L].last
    <2> HIDE DEF m, L, q
    <2>2. q \in Seq(BOOLEAN) /\ Len(q) = m /\ TRUE \in BOOLEAN BY <2>1 DEF q
    <2> QED BY <2>2, AppendTrue DEF q
  <1>14. /\ blocks' \in Seq(FatBlock) /\ Len(blocks') = L /\ DOMAIN blocks' = 1 .. L
         /\ \A i \in 1 .. L : i # L => blocks'[i] = blocks[i]
         /\ blocks'[L].prims = ps /\ blocks'[L].last = ls /\ blocks'[L].geom = geoms[c]
    <2> DEFINE b == [[blocks[L] EXCEPT !.prims = ps] EXCEPT !.last = ls]
    <2>1. b \in FatBlock /\ b.prims = ps /\ b.last = ls /\ b.geom = geoms[c]
      <3> HIDE DEF ps, ls
      <3> QED BY <1>2, <1>9, <1>12, <1>13 DEF FatBlock
    <2>2. blocks' = [blocks EXCEPT ![L] = b]
      <3>1. blocks \in [1 .. L -> FatBlock] BY <1>4 DEF FatInv, FatTypes
      <3> QED BY <1>3, <1>4, <3>1
    <2> HIDE DEF b
    <2>3. blocks \in Seq(FatBlock) /\ L \in 1 .. Len(blocks) BY <1>4 DEF FatInv, FatTypes
    <2>4. /\ blocks' \in Seq(FatBlock) /\ Len(blocks') = L
          /\ \A i \in 1 .. L : blocks'[i] = IF i = L THEN b ELSE blocks[i]
      BY <2>1, <2>2, <2>3, ExceptSeq
    <2>5. DOMAIN blocks' = 1 .. L BY <2>4, LenProperties
    <2>6. blocks'[L] = b BY <2>3, <2>4
    <2> QED BY <2>1, <2>4, <2>5, <2>6
  <1>15. /\ ranges' \in Seq(R) /\ Len(ranges') = c
         /\ \A d \in 1 .. k : ranges'[d] = ranges[d]
         /\ ranges'[c] = [delta |-> 0, prim |-> m]
    <2> DEFINE e == Leaf!PrimRange(0, m)
    <2>1. e \in R /\ e = [delta |-> 0, prim |-> m]
      <3>1. m \in 0 .. NumChildren - 1
        <4> HIDE DEF m, k
        <4> QED BY <1>1, <1>4, <1>7, FatConstants
      <3> HIDE DEF m
      <3> QED BY <3>1 DEF Leaf!PrimRange
    <2>2. ranges \in Seq(R) BY DEF FatInv, FatTypes
    <2>3. ranges' = Append(ranges, e) BY <1>3
    <2> HIDE DEF e, R
    <2>4. /\ ranges' \in Seq(R) /\ Len(ranges') = Len(ranges) + 1
          /\ \A d \in 1 .. Len(ranges) : ranges'[d] = ranges[d]
          /\ ranges'[Len(ranges) + 1] = e
      BY <2>1, <2>2, <2>3, AppendProperties
    <2> QED BY <1>1, <2>1, <2>4
  <1>16. ranges' # <<>>
    <2> SUFFICES ASSUME ranges' = <<>> PROVE FALSE OBVIOUS
    <2>1. Len(ranges') = 0 BY EmptySeq
    <2> QED BY <1>4, <1>15, <2>1
  <1> HIDE DEF c, m, R, ps, ls
  <1>17. FatTypes'
    <2>1. Written' = L
      <3>1. kind' = "procedural" /\ Ahead(Len(ranges))' = Ahead(c) BY <1>1, <1>5, <1>15
      <3> QED BY <1>8, <1>16, <3>1 DEF Written
    <2>2. Written = L BY <1>1, <1>4 DEF Written
    <2>3. numBlocks = Needed - Written /\ underrun = FALSE BY DEF FatInv, FatTypes
    <2>4. Len(ranges') <= Len(runs') BY <1>1, <1>15
    <2> QED BY <1>1, <1>5, <1>14, <1>15, <2>1, <2>2, <2>3, <2>4 DEF FatTypes, R
  <1>18. RangesOK'
    <2> SUFFICES ASSUME NEW d \in 1 .. Len(ranges')
                 PROVE  /\ ranges'[d].delta = IF d = 1 THEN 0 ELSE Advance[d - 1]
                        /\ ranges'[d].prim < d
      BY <1>1, <1>5 DEF RangesOK
    <2>1. CASE d \in 1 .. k BY <1>1, <1>15, <2>1 DEF FatInv, RangesOK
    <2>2. CASE d = c
      <3>1. d - 1 = k /\ d # 1 BY <1>1, <1>4, <2>2
      <3>2. Advance[k] = 0 BY <1>1, <1>4, <1>6 DEF Advance, FatInputs
      <3>3. m < c BY <1>1, <1>4, <1>7
      <3> QED BY <1>15, <2>2, <3>1, <3>2, <3>3
    <2>3. d \in 1 .. k \/ d = c BY <1>1, <1>4, <1>15
    <2> QED BY <2>1, <2>2, <2>3
  <1>19. ChildrenOK'
    <2> SUFFICES ASSUME NEW d \in 1 .. Len(ranges'), NEW j \in 1 .. 3, j <= runs[d]
                 PROVE  Leaf!Holds(PlaceOf(d, j), Leaf!FirstPrim(d) + j - 1, j = runs[d])'
      BY <1>1, <1>5 DEF ChildrenOK
    <2>1. d \in 1 .. k \/ d = c BY <1>1, <1>4, <1>15
    <2>2. d \in 1 .. Len(runs) /\ runs[d] = 1 /\ j = 1
      <3>1. d \in 1 .. Len(runs) BY <1>4, <2>1
      <3>2. runs[d] = 1 BY <1>1, <1>5, <3>1 DEF FatInputs
      <3> QED BY <3>1, <3>2
    <2>3. Leaf!FirstPrim(d) + j - 1 = d /\ (j = runs[d]) = TRUE BY <1>1, <1>5, <2>2, FirstPrimFacts
    <2>4. (Leaf!FirstPrim(d) + j - 1)' = d /\ (j = runs[d])' = TRUE BY <1>1, <1>5, <2>3
    <2> SUFFICES Leaf!Holds(PlaceOf(d, j), d, TRUE)' BY <2>4
    <2>5. CASE d \in 1 .. k
      <3> DEFINE i == Ahead(d) + j
                 q == ranges[d].prim + 1
      <3>1. Leaf!Holds(PlaceOf(d, j), d, TRUE) BY <2>2, <2>3, <2>5 DEF FatInv, ChildrenOK
      <3>2. /\ i \in 1 .. L /\ q \in DOMAIN blocks[i].prims /\ blocks[i].prims[q] = d
            /\ blocks[i].last[q] = TRUE /\ blocks[i].geom = geoms[d]
        BY <1>1, <1>4, <3>1 DEF Leaf!Holds, PlaceOf
      <3>3. PlaceOf(d, j)' = [block |-> i, prim |-> q] BY <1>5, <1>15, <2>5 DEF PlaceOf
      <3>4. i' = i /\ q' = q BY <1>5, <1>15, <2>5
      <3> HIDE DEF i, q
      <3>5. CASE i # L
        <4>1. PlaceOf(d, j)'.block = i /\ PlaceOf(d, j)'.prim = q BY <3>3
        <4>2. i \in DOMAIN blocks' /\ blocks'[i] = blocks[i] BY <1>14, <3>2, <3>5
        <4> QED BY <1>1, <3>2, <4>1, <4>2 DEF Leaf!Holds
      <3>6. CASE i = L
        <4>1. q \in 1 .. m BY <1>10, <3>2, <3>6, LenProperties DEF m
        <4>2. /\ q \in DOMAIN ps /\ ps[q] = d /\ ls[q] = TRUE
          <5>1. DOMAIN ps = 1 .. m + 1 BY <1>12, LenProperties
          <5>2. q \in 1 .. m + 1 BY <1>7, <4>1
          <5> QED BY <1>12, <1>13, <3>2, <3>6, <4>1, <5>1, <5>2
        <4>3. blocks'[i].geom = geoms[d] BY <1>2, <1>14, <3>2, <3>6
        <4>4. PlaceOf(d, j)'.block = i /\ PlaceOf(d, j)'.prim = q BY <3>3
        <4>5. i \in DOMAIN blocks' /\ blocks'[i].prims = ps /\ blocks'[i].last = ls
          BY <1>14, <3>2, <3>6
        <4>6. /\ q \in DOMAIN blocks'[i].prims /\ blocks'[i].prims[q] = d
              /\ blocks'[i].last[q] = TRUE
          BY <4>2, <4>5
        <4> QED BY <1>1, <4>3, <4>4, <4>5, <4>6 DEF Leaf!Holds
      <3> QED BY <3>5, <3>6
    <2>6. CASE d = c
      <3>1. PlaceOf(d, j)' = [block |-> L, prim |-> m + 1]
        BY <1>5, <1>8, <1>15, <2>2, <2>6 DEF PlaceOf
      <3>2. m + 1 \in DOMAIN ps
        <4>1. DOMAIN ps = 1 .. m + 1 BY <1>12, LenProperties
        <4> QED BY <1>7, <4>1
      <3>3. L \in 1 .. L BY <1>4
      <3>4. PlaceOf(d, j)'.block = L /\ PlaceOf(d, j)'.prim = m + 1 BY <3>1
      <3>5. L \in DOMAIN blocks' /\ m + 1 \in DOMAIN blocks'[L].prims BY <1>14, <3>2, <3>3
      <3>6. blocks'[L].prims[m + 1] = d /\ blocks'[L].last[m + 1] = TRUE BY <1>12, <1>13, <1>14, <2>6
      <3>7. blocks'[L].geom = geoms'[d] BY <1>1, <1>14, <2>6
      <3> QED BY <3>4, <3>5, <3>6, <3>7 DEF Leaf!Holds
    <2> QED BY <2>1, <2>5, <2>6
  <1>20. LastOK'
    <2>1. /\ blocks'[Len(blocks')].prims = ps /\ blocks'[Len(blocks')].last = ls
          /\ blocks'[Len(blocks')].geom = geoms[c]
      BY <1>14
    <2>2. Len(ranges') = c /\ ranges'[Len(ranges')].prim = m BY <1>15
    <2>3. geoms' = geoms BY <1>1
    <2>4. Len(ps) = m + 1 /\ Len(ls) = m + 1 BY <1>12, <1>13
    <2>5. /\ Len(blocks'[Len(blocks')].prims) = ranges'[Len(ranges')].prim + 1
          /\ Len(blocks'[Len(blocks')].last) = ranges'[Len(ranges')].prim + 1
          /\ blocks'[Len(blocks')].geom = geoms'[Len(ranges')]
      BY <2>1, <2>2, <2>3, <2>4
    <2> QED BY <2>5 DEF LastOK
  <1>21. node' = <<>> BY <1>1, <1>4 DEF FatInv, NodeOK
  <1> QED BY <1>5, <1>17, <1>18, <1>19, <1>20, <1>21 DEF FatInv, NodeOK

(* Another leaf of procedurals begins.                                      *)
LEMMA BeginsKeeps ==
  ASSUME FatInv, Leaf!AddProcedural, ~ Leaf!Fits(geoms[Leaf!Current])
  PROVE  FatInv'
  <1> DEFINE k == Len(ranges)
             c == Leaf!Current
             L == Len(blocks)
             delta == IF blocks = <<>> THEN 0 ELSE 1
             new == Leaf!Block(<<c>>, <<TRUE>>, geoms[c])
             R == [delta : 0 .. 3, prim : 0 .. NumChildren - 1]
  <1>1. /\ kind = "procedural" /\ kind' = kind /\ runs' = runs /\ geoms' = geoms
        /\ leafBlocks' = leafBlocks /\ node' = node
        /\ c <= Len(runs) /\ c = k + 1
    BY DEF Leaf!AddProcedural, Leaf!Current
  <1>2. /\ blocks' = Append(blocks, new)
        /\ ranges' = Append(ranges, Leaf!PrimRange(delta, 0))
        /\ numBlocks' = numBlocks - 1 /\ underrun' = (underrun \/ numBlocks < 1)
    BY DEF Leaf!AddProcedural, Leaf!Use
  <1>3. /\ k \in 0 .. Len(runs) - 1 /\ c \in 1 .. Len(runs) /\ Len(runs) \in 1 .. NumChildren
        /\ L \in Nat /\ DOMAIN blocks = 1 .. L /\ numBlocks = (Ahead(Len(runs)) + 1) - L
        /\ (ranges = <<>> <=> k = 0) /\ (blocks = <<>> <=> k = 0)
        /\ (k = 0 => L = 0) /\ (k # 0 => L = Ahead(k) + 1)
    <2>1. k \in 0 .. Len(runs) /\ Len(runs) \in 1 .. NumChildren
      BY <1>1, ProcFacts
    <2>2. k \in 0 .. Len(runs) - 1 /\ c \in 1 .. Len(runs)
      <3> HIDE DEF k, c
      <3> QED BY <1>1, <2>1, FatConstants
    <2> QED BY <1>1, <2>1, <2>2, ProcFacts
  <1>4. FatInputs /\ FatInputs' /\ Needed' = Needed /\ Advance' = Advance
        /\ \A d : Ahead(d)' = Ahead(d) /\ Leaf!FirstPrim(d)' = Leaf!FirstPrim(d)
    BY <1>1, SameFat DEF FatInv
  <1>5. Ahead(c) = L
    <2>1. CASE k = 0 BY <1>1, <1>3, <1>4, <2>1, AheadFacts
    <2>2. CASE k # 0
      <3>1. /\ blocks[L].geom = geoms[k] /\ ranges[k].prim < k
            /\ Len(blocks[L].prims) = ranges[k].prim + 1
        BY <1>1, <1>3, <2>2 DEF FatInv, LastOK, RangesOK
      <3>2. ranges[k].prim \in 0 .. NumChildren - 1
        <4>1. ranges \in Seq(R) BY DEF FatInv, FatTypes
        <4>2. k \in 1 .. Len(ranges) BY <1>3, <2>2
        <4>3. ranges[k] \in R
          <5> HIDE DEF R, k
          <5> QED BY <4>1, <4>2, ElementOfSeq
        <4> QED BY <4>3
      <3>3. Len(blocks[L].prims) < LeafCapacity
        <4> HIDE DEF k, L
        <4> QED BY <1>3, <3>1, <3>2, FatConstants
      <3>4. geoms[c] # geoms[k] BY <1>3, <2>2, <3>1, <3>3 DEF Leaf!Fits, Leaf!Last
      <3>5. k \in 1 .. Len(runs) /\ k \in 1 .. Len(runs) + 1 /\ k < Len(runs) BY <1>3, <2>2
      <3>6. Advance[k] = 1 BY <1>1, <1>4, <3>4, <3>5 DEF Advance, FatInputs
      <3>7. Ahead(k + 1) = Ahead(k) + Advance[k] /\ Ahead(k) \in Nat BY <1>4, <3>5, AheadFacts
      <3> HIDE DEF k, c, L
      <3> QED BY <1>1, <1>3, <2>2, <3>6, <3>7
    <2> QED BY <2>1, <2>2
  <1>6. new \in FatBlock
    <2>1. geoms[c] \in Geometries \union {0}
      <3>1. geoms \in Seq(Geometries \union {0}) /\ c \in 1 .. Len(geoms)
        BY <1>1, <1>3, <1>4 DEF FatInputs
      <3> HIDE DEF c
      <3> QED BY <3>1, ElementOfSeq
    <2>2. c \in Nat BY <1>3
    <2> HIDE DEF c
    <2> QED BY <2>1, <2>2 DEF FatBlock, Leaf!Block
  <1>7. new.prims = <<c>> /\ new.last = <<TRUE>> /\ new.geom = geoms[c] BY DEF Leaf!Block
  <1>8. /\ blocks' \in Seq(FatBlock) /\ Len(blocks') = L + 1 /\ DOMAIN blocks' = 1 .. L + 1
        /\ \A i \in 1 .. L : blocks'[i] = blocks[i]
        /\ blocks'[L + 1] = new
    <2>1. blocks \in Seq(FatBlock) BY DEF FatInv, FatTypes
    <2> HIDE DEF new
    <2>2. /\ blocks' \in Seq(FatBlock) /\ Len(blocks') = L + 1
          /\ \A i \in 1 .. L : blocks'[i] = blocks[i]
          /\ blocks'[L + 1] = new
      BY <1>2, <1>6, <2>1, AppendProperties
    <2> QED BY <2>2, LenProperties
  <1>9. /\ ranges' \in Seq(R) /\ Len(ranges') = c
        /\ \A d \in 1 .. k : ranges'[d] = ranges[d]
        /\ ranges'[c] = [delta |-> delta, prim |-> 0]
    <2> DEFINE e == Leaf!PrimRange(delta, 0)
    <2>1. e \in R /\ e = [delta |-> delta, prim |-> 0] BY FatConstants DEF Leaf!PrimRange
    <2>2. ranges \in Seq(R) BY DEF FatInv, FatTypes
    <2>3. ranges' = Append(ranges, e) BY <1>2
    <2> HIDE DEF e, R, delta
    <2>4. /\ ranges' \in Seq(R) /\ Len(ranges') = Len(ranges) + 1
          /\ \A d \in 1 .. Len(ranges) : ranges'[d] = ranges[d]
          /\ ranges'[Len(ranges) + 1] = e
      BY <2>1, <2>2, <2>3, AppendProperties
    <2> QED BY <1>1, <2>1, <2>4
  <1>10. ranges' # <<>>
    <2> SUFFICES ASSUME ranges' = <<>> PROVE FALSE OBVIOUS
    <2>1. Len(ranges') = 0 BY EmptySeq
    <2> QED BY <1>3, <1>9, <2>1
  <1> HIDE DEF c, R, new
  <1>11. FatTypes'
    <2>1. Written' = L + 1
      <3>1. kind' = "procedural" /\ Ahead(Len(ranges))' = Ahead(c) BY <1>1, <1>4, <1>9
      <3> QED BY <1>5, <1>10, <3>1 DEF Written
    <2>2. Ahead(c) <= Ahead(Len(runs)) /\ Ahead(Len(runs)) \in Nat
      <3>1. c \in 1 .. Len(runs) + 1 /\ Len(runs) \in 1 .. Len(runs) + 1 /\ c <= Len(runs) BY <1>3
      <3>2. \A d, e \in 1 .. Len(runs) + 1 : d <= e => Ahead(d) <= Ahead(e) BY <1>4, AheadFacts
      <3>3. Ahead(Len(runs)) \in Nat BY <1>4, <3>1, AheadFacts
      <3> QED BY <3>1, <3>2, <3>3
    <2>3. underrun' = FALSE
      <3>1. ~ (numBlocks < 1) BY <1>3, <1>5, <2>2
      <3>2. underrun = FALSE BY DEF FatInv, FatTypes
      <3> QED BY <1>2, <3>1, <3>2
    <2>4. Needed' = Ahead(Len(runs)) + 1 BY <1>1, <1>4 DEF Needed
    <2>5. numBlocks' = Needed' - Written' BY <1>2, <1>3, <2>1, <2>2, <2>4
    <2>6. Len(ranges') <= Len(runs') BY <1>1, <1>9
    <2> QED BY <1>8, <1>9, <2>1, <2>3, <2>5, <2>6 DEF FatTypes, R
  <1>12. RangesOK'
    <2> SUFFICES ASSUME NEW d \in 1 .. Len(ranges')
                 PROVE  /\ ranges'[d].delta = IF d = 1 THEN 0 ELSE Advance[d - 1]
                        /\ ranges'[d].prim < d
      BY <1>1, <1>4 DEF RangesOK
    <2>1. CASE d \in 1 .. k BY <1>1, <1>9, <2>1 DEF FatInv, RangesOK
    <2>2. CASE d = c
      <3>1. ranges'[d].delta = delta /\ ranges'[d].prim = 0 /\ 0 < d BY <1>3, <1>9, <2>2
      <3>2. CASE d = 1
        <4>1. blocks = <<>> BY <1>1, <1>3, <2>2, <3>2
        <4> QED BY <3>1, <3>2, <4>1
      <3>3. CASE d # 1
        <4>1. k \in 1 .. Len(runs) /\ k \in 1 .. Len(runs) + 1 /\ d - 1 = k /\ k # 0
          BY <1>1, <1>3, <2>2, <3>3
        <4>2. blocks # <<>> BY <1>3, <4>1
        <4>3. Ahead(k + 1) = Ahead(k) + Advance[k] /\ Ahead(k) \in Nat /\ Advance[k] \in 0 .. 3
          BY <1>4, <4>1, AheadFacts
        <4>4. Ahead(k + 1) = Ahead(k) + 1 BY <1>1, <1>3, <1>5, <4>1
        <4>5. Advance[k] = 1
          <5> HIDE DEF k
          <5> QED BY <4>3, <4>4
        <4> QED BY <3>1, <3>3, <4>1, <4>2, <4>5
      <3> QED BY <3>2, <3>3
    <2>3. d \in 1 .. k \/ d = c BY <1>1, <1>3, <1>9
    <2> QED BY <2>1, <2>2, <2>3
  <1>13. ChildrenOK'
    <2> SUFFICES ASSUME NEW d \in 1 .. Len(ranges'), NEW j \in 1 .. 3, j <= runs[d]
                 PROVE  Leaf!Holds(PlaceOf(d, j), Leaf!FirstPrim(d) + j - 1, j = runs[d])'
      BY <1>1, <1>4 DEF ChildrenOK
    <2>1. d \in 1 .. k \/ d = c BY <1>1, <1>3, <1>9
    <2>2. d \in 1 .. Len(runs) /\ runs[d] = 1 /\ j = 1
      <3>1. d \in 1 .. Len(runs) BY <1>3, <2>1
      <3>2. runs[d] = 1 BY <1>1, <1>4, <3>1 DEF FatInputs
      <3> QED BY <3>1, <3>2
    <2>3. Leaf!FirstPrim(d) + j - 1 = d /\ (j = runs[d]) = TRUE BY <1>1, <1>4, <2>2, FirstPrimFacts
    <2>4. (Leaf!FirstPrim(d) + j - 1)' = d /\ (j = runs[d])' = TRUE BY <1>1, <1>4, <2>3
    <2> SUFFICES Leaf!Holds(PlaceOf(d, j), d, TRUE)' BY <2>4
    <2>5. CASE d \in 1 .. k
      <3> DEFINE i == Ahead(d) + j
                 q == ranges[d].prim + 1
      <3>1. Leaf!Holds(PlaceOf(d, j), d, TRUE) BY <2>2, <2>3, <2>5 DEF FatInv, ChildrenOK
      <3>2. /\ i \in 1 .. L /\ q \in DOMAIN blocks[i].prims /\ blocks[i].prims[q] = d
            /\ blocks[i].last[q] = TRUE /\ blocks[i].geom = geoms[d]
        BY <1>1, <1>3, <3>1 DEF Leaf!Holds, PlaceOf
      <3>3. PlaceOf(d, j)' = [block |-> i, prim |-> q] BY <1>4, <1>9, <2>5 DEF PlaceOf
      <3> HIDE DEF i, q
      <3>4. PlaceOf(d, j)'.block = i /\ PlaceOf(d, j)'.prim = q BY <3>3
      <3>5. i \in DOMAIN blocks' /\ blocks'[i] = blocks[i] BY <1>3, <1>8, <3>2
      <3> QED BY <1>1, <3>2, <3>4, <3>5 DEF Leaf!Holds
    <2>6. CASE d = c
      <3>1. PlaceOf(d, j)' = [block |-> L + 1, prim |-> 1] BY <1>4, <1>5, <1>9, <2>2, <2>6 DEF PlaceOf
      <3>2. PlaceOf(d, j)'.block = L + 1 /\ PlaceOf(d, j)'.prim = 1 BY <3>1
      <3>3. /\ L + 1 \in DOMAIN blocks' /\ blocks'[L + 1].prims = <<d>>
            /\ blocks'[L + 1].last = <<TRUE>> /\ blocks'[L + 1].geom = geoms[d]
        <4>1. L + 1 \in DOMAIN blocks' /\ blocks'[L + 1] = new BY <1>3, <1>8
        <4>2. <<d>> = <<c>> /\ geoms[d] = geoms[c] BY <2>6
        <4> QED BY <1>7, <4>1, <4>2, Zenon
      <3>4. 1 \in DOMAIN <<d>> /\ <<d>>[1] = d /\ <<TRUE>>[1] = TRUE OBVIOUS
      <3> QED BY <1>1, <3>2, <3>3, <3>4 DEF Leaf!Holds
    <2> QED BY <2>1, <2>5, <2>6
  <1>14. LastOK'
    <2>1. /\ blocks'[L + 1].prims = <<c>> /\ blocks'[L + 1].last = <<TRUE>>
          /\ blocks'[L + 1].geom = geoms[c]
      BY <1>7, <1>8
    <2>2. Len(<<c>>) = 1 /\ Len(<<TRUE>>) = 1 OBVIOUS
    <2>3. ranges'[Len(ranges')].prim + 1 = 1 BY <1>9
    <2> QED BY <1>1, <1>8, <1>9, <2>1, <2>2, <2>3 DEF LastOK
  <1>15. node' = <<>> BY <1>1, <1>3 DEF FatInv, NodeOK
  <1> QED BY <1>4, <1>11, <1>12, <1>13, <1>14, <1>15 DEF FatInv, NodeOK

LEMMA FatStays ==
  ASSUME NextOfLeaves \/ UNCHANGED leavesVars
  PROVE  /\ step' = step
         /\ step = "fat leaf" =>
              \/ Leaf!AddQuads \/ Leaf!AddProcedural \/ Leaf!AddInstance \/ Leaf!SetChildren
              \/ UNCHANGED ofFatLeaf
  BY DEF NextOfLeaves, leavesVars, Push, MergePair, MergeSingle, Reject, Pair, CreateTriangles,
         CreateQuad, AddQuads, AddProcedural, AddInstance, SetChildren, SetNodeBounds,
         SetChildBounds, LeafEnded, KeepButPairing, KeepButQuad, KeepButFatLeaf, KeepButNode

LEMMA FatStep ==
  ASSUME FatInv,
         \/ Leaf!AddQuads \/ Leaf!AddProcedural \/ Leaf!AddInstance \/ Leaf!SetChildren
         \/ UNCHANGED ofFatLeaf
  PROVE  FatInv'
  <1>1. CASE Leaf!AddQuads
    <2> DEFINE c == Leaf!Current
    <2>1. /\ kind = "quad" /\ c <= Len(runs) /\ Leaf!Use(runs[c])
          /\ ranges' = Append(ranges, Leaf!PrimRange(runs[c], 0)) /\ blocks' = blocks \o Added
          /\ kind' = kind /\ runs' = runs /\ geoms' = geoms /\ leafBlocks' = leafBlocks /\ node' = node
      BY <1>1 DEF Leaf!AddQuads, Added
    <2>2. Advance[c] = runs[c]
      <3>1. c \in 1 .. Len(runs) /\ DOMAIN runs = 1 .. Len(runs)
        BY <2>1 DEF Leaf!Current, FatInv, FatInputs, FatTypes
      <3> QED BY <2>1, <3>1 DEF Advance
    <2> QED BY <2>1, <2>2, AddedKeeps
  <1>2. CASE Leaf!AddInstance
    <2> DEFINE c == Leaf!Current
    <2>1. /\ kind = "instance" /\ c <= Len(runs) /\ Leaf!Use(leafBlocks)
          /\ ranges' = Append(ranges, Leaf!PrimRange(leafBlocks, 0)) /\ blocks' = blocks \o Added
          /\ kind' = kind /\ runs' = runs /\ geoms' = geoms /\ leafBlocks' = leafBlocks /\ node' = node
      BY <1>2 DEF Leaf!AddInstance, Added
    <2>2. Advance[c] = leafBlocks
      <3>1. c \in 1 .. Len(runs) /\ DOMAIN runs = 1 .. Len(runs)
        BY <2>1 DEF Leaf!Current, FatInv, FatInputs, FatTypes
      <3> QED BY <2>1, <3>1 DEF Advance
    <2> QED BY <2>1, <2>2, AddedKeeps
  <1>3. CASE Leaf!AddProcedural BY <1>3, FitsKeeps, BeginsKeeps
  <1>4. CASE Leaf!SetChildren \/ UNCHANGED ofFatLeaf
    <2>1. /\ kind' = kind /\ runs' = runs /\ geoms' = geoms /\ leafBlocks' = leafBlocks
          /\ numBlocks' = numBlocks /\ blocks' = blocks /\ ranges' = ranges /\ underrun' = underrun
      BY <1>4 DEF Leaf!SetChildren, ofFatLeaf
    <2>2. FatInputs' /\ Needed' = Needed /\ Advance' = Advance
          /\ \A d : Ahead(d)' = Ahead(d) /\ Leaf!FirstPrim(d)' = Leaf!FirstPrim(d)
      BY <2>1, SameFat DEF FatInv
    <2>3. Written' = Written BY <2>1, <2>2 DEF Written
    <2>4. FatTypes' /\ RangesOK' /\ LastOK'
      BY <2>1, <2>2, <2>3 DEF FatInv, FatTypes, RangesOK, LastOK, Leaf!PrimRange
    <2>5. \A c, j : PlaceOf(c, j)' = PlaceOf(c, j) BY <2>1, <2>2 DEF PlaceOf
    <2>6. ChildrenOK' BY <2>1, <2>2, <2>5 DEF FatInv, ChildrenOK, Leaf!Holds
    <2>7. \A c : Leaf!Delta(c)' = Leaf!Delta(c) BY <2>1 DEF Leaf!Delta
    <2>8. NodeOK'
      <3>1. CASE Leaf!SetChildren
        <4>1. Len(ranges) = Len(runs)
          BY <3>1 DEF Leaf!SetChildren, Leaf!Current, FatInv, FatInputs, FatTypes
        <4> QED BY <2>1, <2>7, <3>1, <4>1 DEF Leaf!SetChildren, NodeOK
      <3>2. CASE UNCHANGED ofFatLeaf
        <4>1. node' = node BY <3>2 DEF ofFatLeaf
        <4> QED BY <2>1, <2>7, <4>1 DEF FatInv, NodeOK
      <3> QED BY <1>4, <3>1, <3>2
    <2> QED BY <2>2, <2>4, <2>6, <2>8 DEF FatInv
  <1> QED BY <1>1, <1>2, <1>3, <1>4

(* Up to three primitives are read one behind the other.                    *)
LEMMA ReadIs ==
  ASSUME NEW c, runs[c] \in 1 .. 3
  PROVE  LET first == [block |-> Leaf!getChildOffset(c) + 1, prim |-> node[c].startPrim + 1]
         IN /\ Leaf!Read(c)[1] = first
            /\ runs[c] >= 2 => Leaf!Read(c)[2] = Leaf!Following(first)
            /\ runs[c] >= 3 => Leaf!Read(c)[3] = Leaf!Following(Leaf!Following(first))
  <1> DEFINE first == [block |-> Leaf!getChildOffset(c) + 1, prim |-> node[c].startPrim + 1]
             m == runs[c]
             IsRead(f) == f = [j \in 1 .. m |-> IF j = 1 THEN first ELSE Leaf!Following(f[j - 1])]
             w == [j \in 1 .. m |-> IF j = 1 THEN first
                                    ELSE IF j = 2 THEN Leaf!Following(first)
                                    ELSE Leaf!Following(Leaf!Following(first))]
  <1>1. Leaf!Read(c) = CHOOSE f : IsRead(f) BY DEF Leaf!Read
  <1>2. m \in 1 .. 3 OBVIOUS
  <1> HIDE DEF first, m
  <1>3. IsRead(w)
    <2> DEFINE v == [j \in 1 .. m |-> IF j = 1 THEN first ELSE Leaf!Following(w[j - 1])]
    <2>1. ASSUME NEW j \in 1 .. m PROVE w[j] = v[j]
      <3>1. CASE j = 1 BY <3>1
      <3>2. CASE j = 2
        <4>1. 1 \in 1 .. m /\ j - 1 = 1 BY <1>2, <3>2
        <4>2. w[1] = first BY <4>1
        <4>3. w[j] = Leaf!Following(first) BY <3>2
        <4>4. v[j] = Leaf!Following(w[1])
          <5> HIDE DEF w
          <5> QED BY <3>2, <4>1
        <4> QED BY <4>2, <4>3, <4>4
      <3>3. CASE j = 3
        <4>1. 2 \in 1 .. m /\ j - 1 = 2 BY <1>2, <3>3
        <4>2. w[2] = Leaf!Following(first) BY <4>1
        <4>3. w[j] = Leaf!Following(Leaf!Following(first)) BY <3>3
        <4>4. v[j] = Leaf!Following(w[2])
          <5> HIDE DEF w
          <5> QED BY <3>3, <4>1
        <4> QED BY <4>2, <4>3, <4>4
      <3> QED BY <1>2, <3>1, <3>2, <3>3
    <2>2. w = [j \in 1 .. m |-> w[j]] /\ v = [j \in 1 .. m |-> v[j]] OBVIOUS
    <2>3. w = v
      <3> HIDE DEF w, v
      <3> QED BY <2>1, <2>2
    <2> HIDE DEF w
    <2> QED BY <2>3
  <1>4. IsRead(Leaf!Read(c))
    <2> HIDE DEF w, IsRead
    <2> QED BY <1>1, <1>3
  <1> DEFINE r == Leaf!Read(c)
  <1>5. r = [j \in 1 .. m |-> IF j = 1 THEN first ELSE Leaf!Following(r[j - 1])] BY <1>4
  <1> HIDE DEF r
  <1>6. \A j \in 1 .. m : r[j] = IF j = 1 THEN first ELSE Leaf!Following(r[j - 1]) BY <1>5
  <1>7. r[1] = first
    <2>1. 1 \in 1 .. m BY <1>2
    <2> QED BY <1>6, <2>1
  <1>8. m >= 2 => r[2] = Leaf!Following(first)
    <2>1. m >= 2 => 2 \in 1 .. m /\ 2 - 1 = 1 BY <1>2
    <2> QED BY <1>6, <1>7, <2>1
  <1>9. m >= 3 => r[3] = Leaf!Following(Leaf!Following(first))
    <2>1. m >= 3 => 3 \in 1 .. m /\ 3 - 1 = 2 /\ m >= 2 BY <1>2
    <2> QED BY <1>6, <1>8, <2>1
  <1> QED BY <1>7, <1>8, <1>9 DEF r, first, m

(* What the node says of its children.                                      *)
LEMMA NodeFacts ==
  ASSUME FatInv, node # <<>>
  PROVE  /\ Len(ranges) = Len(runs) /\ Len(runs) \in 1 .. NumChildren
         /\ \A c \in 1 .. Len(runs) : node[c].startPrim = ranges[c].prim
         /\ \A c \in 1 .. Len(runs) : Leaf!getChildOffset(c) = Ahead(c)
  <1> DEFINE n == Len(runs)
             incr == [i \in DOMAIN node |-> node[i].blockIncr]
  <1>1. /\ Len(ranges) = n /\ n \in 1 .. NumChildren /\ n \in Nat /\ DOMAIN runs = 1 .. n
        /\ node = [c \in DOMAIN runs |->
                     [blockIncr |-> IF c = NumChildren THEN 0 ELSE Leaf!Delta(c) % 4,
                      startPrim |-> ranges[c].prim % 16]]
    BY DEF FatInv, NodeOK, FatInputs
  <1>2. /\ DOMAIN node = 1 .. n
        /\ \A c \in 1 .. n : /\ c # NumChildren => node[c].blockIncr = Leaf!Delta(c) % 4
                             /\ node[c].startPrim = ranges[c].prim % 16
    BY <1>1
  <1>3. ASSUME NEW c \in 1 .. n
        PROVE  /\ ranges[c].prim \in 0 .. NumChildren - 1 /\ Advance[c] \in 0 .. 3
               /\ c < n => Leaf!Delta(c) = Advance[c]
    <2>1. ranges[c].prim \in 0 .. NumChildren - 1
      <3>1. ranges[c] \in [delta : 0 .. 3, prim : 0 .. NumChildren - 1]
        BY <1>1, ElementOfSeq DEF FatInv, FatTypes
      <3> QED BY <3>1
    <2>2. Advance[c] \in 0 .. 3 BY AheadFacts DEF FatInv
    <2>3. CASE kind # "procedural"
      <3>1. ranges[c] = [delta |-> Advance[c], prim |-> 0]
        BY <1>1, <2>3 DEF FatInv, RangesOK, Leaf!PrimRange
      <3>2. Leaf!Delta(c) = Advance[c] BY <2>3, <3>1 DEF Leaf!Delta
      <3> QED BY <2>1, <2>2, <3>2
    <2>4. CASE kind = "procedural" /\ c < n
      <3>1. c + 1 \in 1 .. Len(ranges) /\ c + 1 # 1 /\ (c + 1) - 1 = c BY <1>1, <2>4
      <3>2. ranges[c + 1].delta = Advance[c] BY <2>4, <3>1 DEF FatInv, RangesOK
      <3> QED BY <1>1, <2>1, <2>2, <2>4, <3>2 DEF Leaf!Delta
    <2> QED BY <2>1, <2>2, <2>3, <2>4
  <1>4. \A c \in 1 .. n : node[c].startPrim = ranges[c].prim
    <2> TAKE c \in 1 .. n
    <2> DEFINE p == ranges[c].prim
    <2>1. p \in 0 .. 15
      <3>1. p \in 0 .. NumChildren - 1 BY <1>3
      <3> HIDE DEF p
      <3> QED BY <3>1, FatConstants
    <2>2. p % 16 = p
      <3> HIDE DEF p
      <3> QED BY <2>1
    <2> QED BY <1>2, <2>2
  <1>5. ASSUME NEW c \in 1 .. n PROVE Leaf!getChildOffset(c) = Ahead(c)
    <2>1. ASSUME NEW i \in 1 .. c - 1
          PROVE  incr[i] = Advance[i] /\ Advance[i] \in Int
      <3>1. i \in 1 .. n /\ i < n /\ i # NumChildren BY <1>1, FatConstants
      <3>2. Leaf!Delta(i) = Advance[i] /\ Advance[i] \in 0 .. 3 BY <1>3, <3>1
      <3>3. Advance[i] % 4 = Advance[i] BY <3>2
      <3>4. incr[i] = Leaf!Delta(i) % 4 BY <1>2, <3>1
      <3> QED BY <3>2, <3>3, <3>4
    <2>2. IsFiniteSet(1 .. c - 1)
      <3> c - 1 \in Int OBVIOUS
      <3> QED BY FS_Interval
    <2> HIDE DEF incr
    <2>3. SumFunctionOnSet(incr, 1 .. c - 1) = SumFunctionOnSet(Advance, 1 .. c - 1)
      <3>1. \A i \in 1 .. c - 1 : incr[i] \in Int /\ incr[i] = Advance[i] BY <2>1
      <3> QED BY <2>2, <3>1, SumSame
    <2> QED BY <2>3, FatSum DEF Leaf!getChildOffset, Ahead, incr
  <1> QED BY <1>1, <1>4, <1>5

LEMMA FatDecodes == ASSUME FatInv PROVE Leaf!DecodesToChildren
  <1>1. ~ underrun
    <2>1. underrun = FALSE BY DEF FatInv, FatTypes
    <2> QED BY <2>1
  <1>2. ASSUME node # <<>> PROVE numBlocks = 0
    <2>1. Len(ranges) = Len(runs) /\ Len(runs) \in 1 .. NumChildren BY <1>2, NodeFacts
    <2>2. ranges # <<>> BY <2>1, EmptySeq
    <2>3. Len(blocks) = Written /\ numBlocks = Needed - Written /\ Len(blocks) \in Nat
      BY DEF FatInv, FatTypes
    <2>4. Needed = Written BY <2>1, <2>2 DEF Needed, Written
    <2> QED BY <2>3, <2>4
  <1>3. ASSUME node # <<>>, NEW c \in DOMAIN runs, NEW j \in 1 .. MaxRun, j <= runs[c]
        PROVE  Leaf!Holds(Leaf!Read(c)[j], Leaf!FirstPrim(c) + j - 1, j = runs[c])
    <2> DEFINE b == Ahead(c)
    <2>1. /\ c \in 1 .. Len(runs) /\ c \in 1 .. Len(ranges) /\ c \in 1 .. Len(runs) + 1
          /\ j \in 1 .. 3 /\ runs[c] \in 1 .. 3
      <3>1. DOMAIN runs = 1 .. Len(runs) /\ runs \in Seq(1 .. 3) BY DEF FatInv, FatInputs
      <3>2. Len(ranges) = Len(runs) /\ Len(runs) \in Nat BY <1>3, <3>1, NodeFacts
      <3>3. j \in 1 .. 3 BY FatConstants
      <3>4. runs[c] \in 1 .. 3 BY <3>1, ElementOfSeq
      <3> QED BY <3>1, <3>2, <3>3, <3>4
    <2>2. Leaf!getChildOffset(c) = b /\ node[c].startPrim = ranges[c].prim BY <1>3, <2>1, NodeFacts
    <2>3. b \in Nat BY <2>1, AheadFacts DEF FatInv
    <2>4. Leaf!Read(c)[1] = PlaceOf(c, 1) BY <2>1, <2>2, ReadIs DEF PlaceOf
    <2>5. ASSUME runs[c] >= 2
          PROVE  /\ ranges[c].prim + 1 = 1
                 /\ \A i \in 1 .. 3 : i <= runs[c] => Len(blocks[b + i].prims) = 1
      <3>1. kind = "quad"
        <4>1. runs[c] # 1 BY <2>1, <2>5
        <4> QED BY <2>1, <4>1 DEF FatInv, FatInputs
      <3>2. ranges[c] = [delta |-> Advance[c], prim |-> 0]
        BY <2>1, <3>1 DEF FatInv, RangesOK, Leaf!PrimRange
      <3>3. \A i \in 1 .. 3 : i <= runs[c] => Len(blocks[b + i].prims) = 1
        BY <2>1, <3>1 DEF FatInv, ChildrenOK
      <3> QED BY <3>2, <3>3
    <2>6. ASSUME NEW i \in 1 .. 2, i + 1 <= runs[c]
          PROVE  Leaf!Following(PlaceOf(c, i)) = PlaceOf(c, i + 1)
      <3>1. runs[c] >= 2 /\ i \in 1 .. 3 /\ i <= runs[c] BY <2>1, <2>6
      <3>2. ranges[c].prim + 1 = 1 /\ Len(blocks[b + i].prims) = 1 BY <2>5, <3>1
      <3>3. PlaceOf(c, i) = [block |-> b + i, prim |-> 1] BY <3>2 DEF PlaceOf
      <3>4. PlaceOf(c, i + 1) = [block |-> (b + i) + 1, prim |-> 1] BY <2>3, <3>2 DEF PlaceOf
      <3> HIDE DEF b
      <3>5. PlaceOf(c, i).block = b + i /\ PlaceOf(c, i).prim = 1 BY <3>3
      <3>6. ~ (1 < Len(blocks[b + i].prims)) BY <3>2
      <3> QED BY <3>4, <3>5, <3>6 DEF Leaf!Following
    <2>7. Leaf!Read(c)[j] = PlaceOf(c, j)
      <3> DEFINE first == [block |-> Leaf!getChildOffset(c) + 1, prim |-> node[c].startPrim + 1]
      <3>1. first = PlaceOf(c, 1) BY <2>2 DEF PlaceOf
      <3>2. runs[c] >= 2 => Leaf!Read(c)[2] = PlaceOf(c, 2)
        <4> SUFFICES ASSUME runs[c] >= 2 PROVE Leaf!Read(c)[2] = PlaceOf(c, 2) OBVIOUS
        <4>1. Leaf!Read(c)[2] = Leaf!Following(first) BY <2>1, ReadIs
        <4>2. Leaf!Following(PlaceOf(c, 1)) = PlaceOf(c, 2)
          <5>1. 1 \in 1 .. 2 /\ 1 + 1 <= runs[c] /\ 1 + 1 = 2 BY <2>1
          <5> QED BY <2>6, <5>1
        <4> QED BY <3>1, <4>1, <4>2
      <3>3. runs[c] >= 3 => Leaf!Read(c)[3] = PlaceOf(c, 3)
        <4> SUFFICES ASSUME runs[c] >= 3 PROVE Leaf!Read(c)[3] = PlaceOf(c, 3) OBVIOUS
        <4>1. Leaf!Read(c)[3] = Leaf!Following(Leaf!Following(first)) BY <2>1, ReadIs
        <4>2. Leaf!Following(PlaceOf(c, 1)) = PlaceOf(c, 2)
          <5>1. 1 \in 1 .. 2 /\ 1 + 1 <= runs[c] /\ 1 + 1 = 2 BY <2>1
          <5> QED BY <2>6, <5>1
        <4>3. Leaf!Following(PlaceOf(c, 2)) = PlaceOf(c, 3)
          <5>1. 2 \in 1 .. 2 /\ 2 + 1 <= runs[c] /\ 2 + 1 = 3 BY <2>1
          <5> QED BY <2>6, <5>1
        <4> QED BY <3>1, <4>1, <4>2, <4>3
      <3>4. j = 1 \/ (j = 2 /\ runs[c] >= 2) \/ (j = 3 /\ runs[c] >= 3) BY <1>3, <2>1
      <3> QED BY <2>4, <3>2, <3>3, <3>4
    <2>8. Leaf!Holds(PlaceOf(c, j), Leaf!FirstPrim(c) + j - 1, j = runs[c])
      BY <1>3, <2>1 DEF FatInv, ChildrenOK
    <2> QED BY <2>7, <2>8
  <1> QED BY <1>1, <1>2, <1>3 DEF Leaf!DecodesToChildren

(* DecodesToChildren: whatever the children of a fat leaf are, createQuads, *)
(* createProcedurals and createInstances use exactly the allocated blocks,  *)
(* and who follows the node from there to a child, through the two bits of  *)
(* blockIncr and the four of startPrim, reads the primitives of that child, *)
(* with their geometry, and ends at the last of them.                       *)
THEOREM FatLeavesDecode == SpecOfLeaves => []DecodesToChildren
  <1> DEFINE Inv == step = "fat leaf" => FatInv
  <1>1. InitOfLeaves => Inv BY FatInit DEF InitOfLeaves
  <1>2. Inv /\ [NextOfLeaves]_leavesVars => Inv'
    <2> SUFFICES ASSUME Inv, [NextOfLeaves]_leavesVars, step' = "fat leaf" PROVE FatInv'
      OBVIOUS
    <2>1. step = "fat leaf" /\ FatInv BY FatStays
    <2>2. \/ Leaf!AddQuads \/ Leaf!AddProcedural \/ Leaf!AddInstance \/ Leaf!SetChildren
          \/ UNCHANGED ofFatLeaf
      BY <2>1, FatStays
    <2> QED BY <2>1, <2>2, FatStep
  <1>3. Inv => DecodesToChildren BY FatDecodes DEF DecodesToChildren
  <1> QED BY <1>1, <1>2, <1>3, PTL DEF SpecOfLeaves

------------------------------------------------------------------------------
(* Quantised boxes.                                                         *)

TwoTo(n) == Node!Pow2[n]

(* The sizes of the format.                                                 *)
LEMMA NodeSizes ==
  /\ Mantissa \in Nat \ {0} /\ Grid \in Nat \ {0} /\ MinExp \in Nat \ {0}
  /\ Grid < Mantissa /\ Grid + Mantissa + 2 <= MinExp
  /\ Floats \subseteq Int /\ Others \subseteq Nat
  BY LeavesAssumption DEF LeavesAssumption, Node!QuantisedNodeAssumption

(* Powers of two double.                                                    *)
LEMMA TwoToFacts ==
  /\ TwoTo(0) = 1
  /\ \A n \in Nat : TwoTo(n) \in Nat \ {0} /\ TwoTo(n + 1) = 2 * TwoTo(n)
  <1> DEFINE f == Node!Pow2
  <1>1. f = CHOOSE g : IsPow2(g) BY DEF Node!Pow2, IsPow2, IsPow
  <1> HIDE DEF f
  <1>2. IsPow2(f) BY <1>1, Pow2Exists
  <1>3. f[0] = 1 /\ \A n \in Nat : f[n] \in Nat \ {0} /\ f[n + 1] = 2 * f[n] BY <1>2, Pow2Facts
  <1> QED BY <1>3 DEF TwoTo, f

(* Powers of two of a sum.                                                  *)
LEMMA TwoToSum ==
  ASSUME NEW a \in Nat, NEW b \in Nat
  PROVE  TwoTo(a + b) = TwoTo(a) * TwoTo(b)
  <1> DEFINE C == {n \in Nat : TwoTo(a + n) # TwoTo(a) * TwoTo(n)}
  <1>1. SUFFICES ASSUME C # {} PROVE FALSE OBVIOUS
  <1>2. PICK n \in C : \A m \in C : n <= m
    <2> C \in SUBSET Nat OBVIOUS
    <2> HIDE DEF C
    <2> QED BY <1>1, SmallestNat
  <1>3. n # 0
    <2>1. TwoTo(a) * 1 = TwoTo(a) /\ a + 0 = a BY TwoToFacts
    <2> QED BY <1>2, <2>1, TwoToFacts
  <1>4. PICK m \in Nat : n = m + 1
    <2>1. n - 1 \in Nat /\ n = (n - 1) + 1 BY <1>2, <1>3
    <2> QED BY <2>1
  <1>5. m \notin C BY <1>2, <1>4
  <1>6. TwoTo(a + m) = TwoTo(a) * TwoTo(m) BY <1>5
  <1>7. TwoTo((a + m) + 1) = 2 * TwoTo(a + m) /\ TwoTo(m + 1) = 2 * TwoTo(m) BY TwoToFacts
  <1>8. TwoTo(a) \in Nat /\ TwoTo(m) \in Nat BY TwoToFacts
  <1>9. 2 * (TwoTo(a) * TwoTo(m)) = TwoTo(a) * (2 * TwoTo(m)) BY <1>8
  <1>10. a + n = (a + m) + 1 BY <1>4
  <1>11. TwoTo(a + n) = TwoTo(a) * TwoTo(n) BY <1>4, <1>6, <1>7, <1>9, <1>10
  <1> QED BY <1>2, <1>11

(* Products with the same factor.                                           *)
LEMMA TimesMonotone ==
  ASSUME NEW a \in Int, NEW b \in Int, NEW c \in Nat, a <= b
  PROVE  c * a <= c * b
  <1>1. c * b = c * a + c * (b - a) OBVIOUS
  <1>2. b - a \in Nat OBVIOUS
  <1>3. c * (b - a) \in Nat BY <1>2
  <1>4. c * a \in Int /\ c * b \in Int OBVIOUS
  <1> QED BY <1>1, <1>3, <1>4

(* Powers of two grow.                                                      *)
LEMMA TwoToMonotone ==
  ASSUME NEW a \in Nat, NEW b \in Nat, a <= b
  PROVE  TwoTo(a) <= TwoTo(b)
  <1>1. b - a \in Nat /\ b = a + (b - a) OBVIOUS
  <1>2. TwoTo(b) = TwoTo(a) * TwoTo(b - a) BY <1>1, TwoToSum
  <1>3. TwoTo(a) \in Nat /\ TwoTo(b - a) \in Int /\ 1 <= TwoTo(b - a) BY <1>1, TwoToFacts
  <1>4. TwoTo(a) * 1 <= TwoTo(a) * TwoTo(b - a) BY <1>3, TimesMonotone
  <1>5. TwoTo(a) * 1 = TwoTo(a) BY <1>3
  <1> QED BY <1>2, <1>4, <1>5

------------------------------------------------------------------------------
(* e bits are needed for n.                                                 *)
IsBits(e, n) == e \in Nat /\ n < TwoTo(e) /\ (e # 0 => TwoTo(e - 1) <= n)

LEMMA BitsUnique ==
  ASSUME NEW n \in Nat, NEW d, NEW e, IsBits(d, n), IsBits(e, n)
  PROVE  d = e
  <1>1. ASSUME NEW x \in Nat, NEW y \in Nat, IsBits(x, n), IsBits(y, n), x < y PROVE FALSE
    <2>1. y - 1 \in Nat /\ x <= y - 1 /\ y # 0 BY <1>1
    <2>2. TwoTo(x) <= TwoTo(y - 1) BY <2>1, TwoToMonotone
    <2>3. TwoTo(x) \in Nat /\ TwoTo(y - 1) \in Nat BY <2>1, TwoToFacts
    <2>4. n < TwoTo(x) /\ TwoTo(y - 1) <= n BY <1>1, <2>1 DEF IsBits
    <2> QED BY <2>2, <2>3, <2>4
  <1>2. d \in Nat /\ e \in Nat BY DEF IsBits
  <1>3. ~ d < e /\ ~ e < d BY <1>1, <1>2
  <1> QED BY <1>2, <1>3

(* One bit more than for the half.                                          *)
LEMMA BitsOfHalf ==
  ASSUME NEW n \in Nat \ {0}, NEW e, IsBits(e, n \div 2)
  PROVE  IsBits(e + 1, n)
  <1> DEFINE h == n \div 2
  <1>1. h \in Nat /\ 2 * h <= n /\ n < 2 * h + 2 OBVIOUS
  <1> HIDE DEF h
  <1>2. e \in Nat /\ h < TwoTo(e) /\ (e # 0 => TwoTo(e - 1) <= h) BY DEF IsBits, h
  <1>3. TwoTo(e + 1) = 2 * TwoTo(e) /\ TwoTo(e) \in Nat BY <1>2, TwoToFacts
  <1>4. n < TwoTo(e + 1) BY <1>1, <1>2, <1>3
  <1>5. TwoTo(e) <= n
    <2>1. CASE e = 0 BY <2>1, TwoToFacts
    <2>2. CASE e # 0
      <3>1. e - 1 \in Nat /\ (e - 1) + 1 = e BY <1>2, <2>2
      <3>2. TwoTo(e) = 2 * TwoTo(e - 1) /\ TwoTo(e - 1) \in Nat BY <3>1, TwoToFacts
      <3> QED BY <1>1, <1>2, <2>2, <3>2
    <2> QED BY <2>1, <2>2
  <1>6. e + 1 \in Nat /\ (e + 1) - 1 = e BY <1>2
  <1> QED BY <1>4, <1>5, <1>6 DEF IsBits

LEMMA BitsExist ==
  ASSUME NEW n \in Nat
  PROVE  \E e : IsBits(e, n)
  <1> DEFINE C == {m \in Nat : ~ \E e : IsBits(e, m)}
  <1>1. SUFFICES ASSUME C # {} PROVE FALSE OBVIOUS
  <1>2. PICK m \in C : \A i \in C : m <= i
    <2> C \in SUBSET Nat OBVIOUS
    <2> HIDE DEF C
    <2> QED BY <1>1, SmallestNat
  <1>3. IsBits(0, 0) BY TwoToFacts DEF IsBits
  <1>4. m \in Nat /\ m # 0 BY <1>2, <1>3
  <1>5. m \div 2 \in Nat /\ m \div 2 < m BY <1>4
  <1>6. m \div 2 \notin C BY <1>2, <1>4, <1>5
  <1>7. PICK e : IsBits(e, m \div 2) BY <1>5, <1>6
  <1>8. IsBits(e + 1, m) BY <1>4, <1>7, BitsOfHalf
  <1> QED BY <1>2, <1>8

(* The equation of Bits.                                                    *)
IsBitsFunction(f) == f = [n \in Nat |-> IF n = 0 THEN 0 ELSE 1 + f[n \div 2]]

LEMMA BitsFunctionExists == \E f : IsBitsFunction(f)
  <1> DEFINE f == [n \in Nat |-> CHOOSE e : IsBits(e, n)]
             g == [n \in Nat |-> IF n = 0 THEN 0 ELSE 1 + f[n \div 2]]
  <1>1. ASSUME NEW n \in Nat PROVE IsBits(f[n], n) BY BitsExist
  <1>2. ASSUME NEW n \in Nat PROVE f[n] = g[n]
    <2>1. CASE n = 0
      <3>1. IsBits(0, 0) BY TwoToFacts DEF IsBits
      <3>2. IsBits(f[0], 0) BY <1>1
      <3> HIDE DEF f
      <3>3. f[0] = 0 BY <3>1, <3>2, BitsUnique
      <3> QED BY <2>1, <3>3
    <2>2. CASE n # 0
      <3>1. n \div 2 \in Nat OBVIOUS
      <3> HIDE DEF f
      <3>2. IsBits(f[n \div 2], n \div 2) BY <1>1, <3>1
      <3>3. IsBits(f[n \div 2] + 1, n) BY <2>2, <3>2, BitsOfHalf
      <3>4. f[n] = f[n \div 2] + 1 BY <1>1, <3>3, BitsUnique
      <3>5. f[n \div 2] \in Nat BY <3>2 DEF IsBits
      <3> QED BY <2>2, <3>4, <3>5
    <2> QED BY <2>1, <2>2
  <1>3. f = [n \in Nat |-> f[n]] /\ g = [n \in Nat |-> g[n]] OBVIOUS
  <1>4. f = g
    <2> HIDE DEF f, g
    <2> QED BY <1>2, <1>3
  <1> HIDE DEF f
  <1> QED BY <1>4 DEF IsBitsFunction

(* The exponent of a natural number is the number of its bits.              *)
LEMMA ExponentFacts ==
  ASSUME NEW n \in Nat
  PROVE  IsBits(Node!Bits[n], n)
  <1> DEFINE b == Node!Bits
  <1>1. b = CHOOSE f : IsBitsFunction(f) BY DEF Node!Bits, IsBitsFunction
  <1> HIDE DEF b
  <1>2. IsBitsFunction(b) BY <1>1, BitsFunctionExists
  <1>3. \A m \in Nat : b[m] = IF m = 0 THEN 0 ELSE 1 + b[m \div 2]
    <2>1. b = [m \in Nat |-> IF m = 0 THEN 0 ELSE 1 + b[m \div 2]] BY <1>2 DEF IsBitsFunction
    <2> QED BY <2>1
  <1> DEFINE C == {m \in Nat : ~ IsBits(b[m], m)}
  <1>4. ASSUME C # {} PROVE FALSE
    <2>1. PICK m \in C : \A i \in C : m <= i
      <3> C \in SUBSET Nat OBVIOUS
      <3> HIDE DEF C
      <3> QED BY <1>4, SmallestNat
    <2>2. IsBits(0, 0) BY TwoToFacts DEF IsBits
    <2>3. m \in Nat /\ m # 0 BY <1>3, <2>1, <2>2
    <2>4. m \div 2 \in Nat /\ m \div 2 < m BY <2>3
    <2>5. IsBits(b[m \div 2], m \div 2) BY <2>1, <2>3, <2>4
    <2>6. IsBits(b[m \div 2] + 1, m) BY <2>3, <2>5, BitsOfHalf
    <2>7. b[m \div 2] \in Nat BY <2>5 DEF IsBits
    <2>8. b[m] = b[m \div 2] + 1 BY <1>3, <2>3, <2>7
    <2> QED BY <2>1, <2>6, <2>8
  <1> QED BY <1>4 DEF b

------------------------------------------------------------------------------
(* Rounding.                                                                *)

(* The least mantissa of a normal number; the largest is below twice it.    *)
Unit == TwoTo(Mantissa - 1)

LEMMA UnitFacts ==
  /\ Unit \in Nat /\ 2 <= Unit /\ TwoTo(Mantissa) = 2 * Unit
  /\ Mantissa - 1 \in Nat
  <1>1. Mantissa - 1 \in Nat /\ 1 <= Mantissa - 1 /\ (Mantissa - 1) + 1 = Mantissa
    BY NodeSizes
  <1>2. TwoTo(0) = 1 /\ TwoTo(0 + 1) = 2 * TwoTo(0) BY TwoToFacts
  <1>3. TwoTo(1) <= TwoTo(Mantissa - 1) BY <1>1, TwoToMonotone
  <1>4. TwoTo(Mantissa) = 2 * TwoTo(Mantissa - 1) /\ TwoTo(Mantissa - 1) \in Nat
    BY <1>1, TwoToFacts
  <1> QED BY <1>1, <1>2, <1>3, <1>4 DEF Unit

(* q steps of s are rounded, when the rest is r / 2, to k steps.             *)
Steps(q, r, s) == IF r > s \/ (r = s /\ q % 2 = 1) THEN q + 1 ELSE q

StepsOf(a, s) == Steps(a \div s, 2 * (a % s), s)

(* How Round treats a natural number: those of few bits are kept, the others *)
(* have a step.                                                             *)
LEMMA RoundNat ==
  ASSUME NEW a \in Nat
  PROVE  \/ a < 2 * Unit /\ Node!Round(a) = a
         \/ \E j \in Nat \ {0} :
              /\ IsBits(Mantissa + j, a)
              /\ Node!Round(a) = TwoTo(j) * StepsOf(a, TwoTo(j))
  <1> DEFINE e == Node!Bits[a]
  <1>1. IsBits(e, a) BY ExponentFacts
  <1>2. Node!Exponent(a) = e /\ Node!Abs(a) = a /\ ~ a < 0 BY DEF Node!Exponent, Node!Abs
  <1> HIDE DEF e
  <1>3. e \in Nat /\ Mantissa \in Nat BY <1>1, NodeSizes DEF IsBits
  <1>4. CASE e <= Mantissa
    <2>1. Node!Round(a) = a BY <1>2, <1>4 DEF Node!Round
    <2>2. TwoTo(e) <= TwoTo(Mantissa) BY <1>3, <1>4, TwoToMonotone
    <2>3. TwoTo(e) \in Nat /\ a < TwoTo(e) BY <1>1, <1>3, TwoToFacts DEF IsBits
    <2> QED BY <2>1, <2>2, <2>3, UnitFacts
  <1>5. CASE ~ e <= Mantissa
    <2>1. e - Mantissa \in Nat \ {0} /\ Mantissa + (e - Mantissa) = e BY <1>3, <1>5
    <2>2. Node!Round(a) = TwoTo(e - Mantissa) * StepsOf(a, TwoTo(e - Mantissa))
      BY <1>2, <1>5 DEF Node!Round, StepsOf, Steps, TwoTo
    <2> QED BY <1>1, <2>1, <2>2
  <1> QED BY <1>4, <1>5

(* A number with a step s.                                                  *)
LEMMA StepFacts ==
  ASSUME NEW a \in Nat, NEW j \in Nat, IsBits(Mantissa + j, a)
  PROVE  LET s == TwoTo(j)
         IN /\ s \in Nat \ {0}
            /\ a \div s \in Unit .. 2 * Unit - 1
            /\ a % s \in 0 .. s - 1
            /\ a = s * (a \div s) + (a % s)
            /\ s * Unit <= a /\ a < s * (2 * Unit)
            /\ TwoTo(Mantissa + j) = s * (2 * Unit)
            /\ TwoTo((Mantissa + j) - 1) = s * Unit
  <1> DEFINE s == TwoTo(j)
             q == a \div s
             t == a % s
  <1>1. s \in Nat \ {0} BY TwoToFacts
  <1>2. TwoTo(Mantissa + j) = TwoTo(j) * TwoTo(Mantissa)
    <2>1. Mantissa \in Nat /\ Mantissa + j = j + Mantissa BY NodeSizes
    <2> QED BY <2>1, TwoToSum
  <1>3. TwoTo((Mantissa + j) - 1) = TwoTo(j) * TwoTo(Mantissa - 1)
    <2>1. Mantissa - 1 \in Nat /\ (Mantissa + j) - 1 = j + (Mantissa - 1) BY NodeSizes
    <2> QED BY <2>1, TwoToSum
  <1>4. TwoTo(Mantissa + j) = s * (2 * Unit) /\ TwoTo((Mantissa + j) - 1) = s * Unit
    BY <1>2, <1>3, UnitFacts DEF Unit
  <1>5. a < s * (2 * Unit) /\ s * Unit <= a
    <2>1. Mantissa + j # 0 BY NodeSizes
    <2> QED BY <1>4, <2>1 DEF IsBits
  <1>6. t \in 0 .. s - 1 /\ q \in Int /\ a = s * q + t
    <2> HIDE DEF s
    <2> QED BY <1>1, ModFacts
  <1>7. Unit \in Nat BY UnitFacts
  <1>8. Unit <= q
    <2>1. ASSUME q + 1 <= Unit PROVE FALSE
      <3> HIDE DEF s, q, t
      <3>1. s * (q + 1) <= s * Unit BY <1>1, <1>6, <1>7, <2>1, TimesMonotone
      <3>2. s * (q + 1) = s * q + s /\ s * q \in Int /\ s * Unit \in Int BY <1>1, <1>6, <1>7
      <3> QED BY <1>1, <1>5, <1>6, <3>1, <3>2
    <2> HIDE DEF s, q, t
    <2> QED BY <1>6, <1>7, <2>1
  <1>9. q <= 2 * Unit - 1
    <2>1. ASSUME 2 * Unit <= q PROVE FALSE
      <3> HIDE DEF s, q, t
      <3>1. 2 * Unit \in Int /\ s \in Nat BY <1>1, <1>7
      <3>2. s * (2 * Unit) <= s * q BY <1>6, <2>1, <3>1, TimesMonotone
      <3>3. s * q \in Int /\ s * (2 * Unit) \in Int BY <1>1, <1>6, <1>7
      <3> QED BY <1>5, <1>6, <3>2, <3>3
    <2> HIDE DEF s, q, t
    <2> QED BY <1>6, <1>7, <2>1
  <1>10. q \in Unit .. 2 * Unit - 1
    <2> HIDE DEF s, q, t
    <2> QED BY <1>6, <1>7, <1>8, <1>9
  <1>11. a = s * q + t /\ t \in 0 .. s - 1 BY <1>6
  <1> HIDE DEF s, q, t
  <1> QED
    BY <1>1, <1>4, <1>5, <1>10, <1>11 DEF s, q, t

(* A rounded number has a mantissa from Unit to 2 * Unit, and is at most    *)
(* half a step away.                                                        *)
LEMMA StepsFacts ==
  ASSUME NEW q \in Nat, NEW s \in Nat \ {0}, NEW t \in 0 .. s - 1
  PROVE  LET k == Steps(q, 2 * t, s)
         IN /\ k \in {q, q + 1}
            /\ k = q => 2 * t <= s
            /\ k = q + 1 => s <= 2 * t
  BY DEF Steps

LEMMA RoundShape ==
  ASSUME NEW a \in Nat, NEW j \in Nat, IsBits(Mantissa + j, a)
  PROVE  LET s == TwoTo(j)
             k == StepsOf(a, s)
         IN /\ k \in Unit .. 2 * Unit
            /\ s * k \in Nat
            /\ 2 * (s * k - a) <= s /\ 2 * (a - s * k) <= s
  <1> DEFINE s == TwoTo(j)
             q == a \div s
             t == a % s
             k == StepsOf(a, s)
  <1>1. /\ s \in Nat \ {0} /\ q \in Unit .. 2 * Unit - 1 /\ t \in 0 .. s - 1 /\ a = s * q + t
    BY StepFacts
  <1>2. Unit \in Nat BY UnitFacts
  <1>3. k = Steps(q, 2 * t, s) BY DEF StepsOf
  <1> HIDE DEF s, q, t, k
  <1>4. q \in Nat BY <1>1, <1>2
  <1>5. k \in {q, q + 1} /\ (k = q => 2 * t <= s) /\ (k = q + 1 => s <= 2 * t)
    BY <1>1, <1>3, <1>4, StepsFacts
  <1>6. k \in Unit .. 2 * Unit /\ k \in Nat BY <1>1, <1>2, <1>4, <1>5
  <1>7. s * q \in Nat /\ s * (q + 1) = s * q + s BY <1>1, <1>4
  <1>8. CASE k = q BY <1>1, <1>5, <1>6, <1>7, <1>8 DEF s, k
  <1>9. CASE k = q + 1
    <2>1. s * k = s * q + s BY <1>7, <1>9
    <2>2. /\ s * k \in Nat /\ 2 * (s * k - a) <= s /\ 2 * (a - s * k) <= s
      BY <1>1, <1>5, <1>7, <1>9, <2>1
    <2> QED BY <1>6, <2>2 DEF s, k
  <1> QED BY <1>5, <1>8, <1>9

LEMMA RoundNear ==
  ASSUME NEW a \in Nat
  PROVE  /\ Node!Round(a) \in Nat
         /\ (2 * Unit) * (Node!Round(a) - a) <= a
         /\ (2 * Unit) * (a - Node!Round(a)) <= a
  <1> DEFINE m == Node!Round(a)
  <1>1. Unit \in Nat BY UnitFacts
  <1>2. CASE m = a
    <2>1. (2 * Unit) * 0 = 0 /\ m - a = 0 /\ a - m = 0 BY <1>1, <1>2
    <2> QED BY <1>2, <2>1
  <1>3. ASSUME NEW j \in Nat \ {0}, IsBits(Mantissa + j, a),
               m = TwoTo(j) * StepsOf(a, TwoTo(j))
        PROVE  /\ m \in Nat
               /\ (2 * Unit) * (m - a) <= a
               /\ (2 * Unit) * (a - m) <= a
    <2> DEFINE s == TwoTo(j)
    <2>1. m \in Nat /\ 2 * (m - a) <= s /\ 2 * (a - m) <= s BY <1>3, RoundShape
    <2>2. s \in Nat /\ s * Unit <= a BY <1>3, StepFacts
    <2> HIDE DEF m, s
    <2>3. Unit * (2 * (m - a)) <= Unit * s /\ Unit * (2 * (a - m)) <= Unit * s
      BY <1>1, <2>1, <2>2, TimesMonotone
    <2>4. /\ Unit * (2 * (m - a)) = (2 * Unit) * (m - a)
          /\ Unit * (2 * (a - m)) = (2 * Unit) * (a - m)
          /\ Unit * s = s * Unit /\ s * Unit \in Int
          /\ (2 * Unit) * (m - a) \in Int /\ (2 * Unit) * (a - m) \in Int
      BY <1>1, <2>1, <2>2
    <2> QED BY <2>1, <2>2, <2>3, <2>4
  <1> QED BY <1>2, <1>3, RoundNat

(* A rounded number stays between the powers that a number is between.      *)
LEMMA RoundBetween ==
  ASSUME NEW a \in Nat, NEW j \in Nat, IsBits(Mantissa + j, a)
  PROVE  LET m == TwoTo(j) * StepsOf(a, TwoTo(j))
         IN m <= TwoTo(Mantissa + j) /\ TwoTo((Mantissa + j) - 1) <= m
  <1> DEFINE s == TwoTo(j)
             k == StepsOf(a, s)
  <1>1. k \in Unit .. 2 * Unit /\ Unit \in Nat BY RoundShape, UnitFacts
  <1>2. s \in Nat /\ TwoTo(Mantissa + j) = s * (2 * Unit) /\ TwoTo((Mantissa + j) - 1) = s * Unit
    BY StepFacts
  <1> HIDE DEF s, k
  <1>3. s * k <= s * (2 * Unit) /\ s * Unit <= s * k BY <1>1, <1>2, TimesMonotone
  <1> QED BY <1>2, <1>3 DEF s, k

(* With the same step.                                                      *)
LEMMA StepsMonotone ==
  ASSUME NEW s \in Nat \ {0}, NEW a \in Nat, NEW b \in Nat, a <= b
  PROVE  StepsOf(a, s) \in Nat /\ StepsOf(b, s) \in Nat /\ StepsOf(a, s) <= StepsOf(b, s)
  <1> DEFINE p == a \div s
             t == a % s
             q == b \div s
             u == b % s
  <1>1. /\ t \in 0 .. s - 1 /\ p \in Nat /\ a = s * p + t
        /\ u \in 0 .. s - 1 /\ q \in Nat /\ b = s * q + u
    <2>1. a \div s \in Nat /\ b \div s \in Nat OBVIOUS
    <2> QED BY <2>1, ModFacts
  <1>2. StepsOf(a, s) = Steps(p, 2 * t, s) /\ StepsOf(b, s) = Steps(q, 2 * u, s) BY DEF StepsOf
  <1> HIDE DEF p, t, q, u
  <1>3. Steps(p, 2 * t, s) \in {p, p + 1} /\ Steps(q, 2 * u, s) \in {q, q + 1} BY DEF Steps
  <1>4. ~ q < p
    <2>1. ASSUME q + 1 <= p PROVE FALSE
      <3>1. s * (q + 1) <= s * p BY <1>1, <2>1, TimesMonotone
      <3>2. s * (q + 1) = s * q + s /\ s * q \in Int /\ s * p \in Int BY <1>1
      <3> QED BY <1>1, <3>1, <3>2
    <2> QED BY <1>1, <2>1
  <1>5. CASE p < q BY <1>1, <1>2, <1>3, <1>5
  <1>6. CASE p = q
    <2>1. s * p \in Int BY <1>1
    <2>2. t <= u BY <1>1, <1>6, <2>1
    <2>3. Steps(p, 2 * t, s) = p + 1 => Steps(q, 2 * u, s) = q + 1
      BY <1>1, <1>6, <2>2 DEF Steps
    <2> QED BY <1>1, <1>2, <1>3, <1>6, <2>3
  <1> QED BY <1>1, <1>4, <1>5, <1>6

LEMMA RoundMonotoneNat ==
  ASSUME NEW a \in Nat, NEW b \in Nat, a <= b
  PROVE  Node!Round(a) <= Node!Round(b)
  <1> DEFINE Few(n) == n < 2 * Unit /\ Node!Round(n) = n
             Step(n, j) == /\ IsBits(Mantissa + j, n)
                           /\ Node!Round(n) = TwoTo(j) * StepsOf(n, TwoTo(j))
  <1>1. /\ Few(a) \/ \E j \in Nat \ {0} : Step(a, j)
        /\ Few(b) \/ \E j \in Nat \ {0} : Step(b, j)
    BY RoundNat
  <1>2. ASSUME NEW n \in Nat, NEW j \in Nat \ {0}, Step(n, j)
        PROVE  /\ TwoTo((Mantissa + j) - 1) <= n /\ n < TwoTo(Mantissa + j)
               /\ TwoTo((Mantissa + j) - 1) <= Node!Round(n)
               /\ Node!Round(n) <= TwoTo(Mantissa + j)
               /\ TwoTo((Mantissa + j) - 1) \in Nat /\ TwoTo(Mantissa + j) \in Nat
               /\ Node!Round(n) \in Nat
    <2>1. Mantissa + j \in Nat /\ (Mantissa + j) - 1 \in Nat /\ Mantissa + j # 0 BY NodeSizes
    <2>2. TwoTo((Mantissa + j) - 1) \in Nat /\ TwoTo(Mantissa + j) \in Nat BY <2>1, TwoToFacts
    <2>3. Node!Round(n) \in Nat BY RoundNear
    <2> QED BY <1>2, <2>1, <2>2, <2>3, RoundBetween DEF IsBits
  <1>3. TwoTo(Mantissa) = 2 * Unit /\ Unit \in Nat BY UnitFacts
  <1>4. ASSUME NEW i \in Nat, NEW j \in Nat, i < j
        PROVE  TwoTo(Mantissa + i) <= TwoTo((Mantissa + j) - 1)
    <2>1. /\ Mantissa + i \in Nat /\ (Mantissa + j) - 1 \in Nat
          /\ Mantissa + i <= (Mantissa + j) - 1
      BY <1>4, NodeSizes
    <2> QED BY <2>1, TwoToMonotone
  <1>5. ASSUME NEW j \in Nat \ {0}
        PROVE  2 * Unit <= TwoTo((Mantissa + j) - 1)
    <2>1. 0 < j /\ Mantissa + 0 = Mantissa BY NodeSizes
    <2> QED BY <1>3, <1>4, <2>1
  <1> HIDE DEF Step
  <1>6. CASE Few(a) /\ Few(b) BY <1>6
  <1>7. ASSUME Few(a), NEW j \in Nat \ {0}, Step(b, j) PROVE Node!Round(a) <= Node!Round(b)
    BY <1>2, <1>3, <1>5, <1>7
  <1>8. ASSUME Few(b), NEW j \in Nat \ {0}, Step(a, j) PROVE FALSE
    BY <1>2, <1>3, <1>5, <1>8
  <1>9. ASSUME NEW i \in Nat \ {0}, Step(a, i), NEW j \in Nat \ {0}, Step(b, j)
        PROVE  Node!Round(a) <= Node!Round(b)
    <2>1. CASE i = j
      <3> DEFINE s == TwoTo(i)
      <3>1. s \in Nat \ {0} BY TwoToFacts
      <3>2. Node!Round(a) = s * StepsOf(a, s) /\ Node!Round(b) = s * StepsOf(b, s)
        BY <1>9, <2>1 DEF Step
      <3> HIDE DEF s
      <3>3. StepsOf(a, s) \in Nat /\ StepsOf(b, s) \in Nat /\ StepsOf(a, s) <= StepsOf(b, s)
        BY <3>1, StepsMonotone
      <3>4. s * StepsOf(a, s) <= s * StepsOf(b, s) BY <3>1, <3>3, TimesMonotone
      <3> QED BY <3>2, <3>4
    <2>2. CASE i < j
      <3>1. TwoTo(Mantissa + i) <= TwoTo((Mantissa + j) - 1) BY <1>4, <2>2
      <3> QED BY <1>2, <1>9, <3>1
    <2>3. CASE j < i
      <3>1. TwoTo(Mantissa + j) <= TwoTo((Mantissa + i) - 1) BY <1>4, <2>3
      <3>2. a < TwoTo(Mantissa + i) /\ TwoTo((Mantissa + i) - 1) <= a /\ b < TwoTo(Mantissa + j)
            /\ TwoTo(Mantissa + j) \in Nat /\ TwoTo((Mantissa + i) - 1) \in Nat
        BY <1>2, <1>9
      <3> QED BY <3>1, <3>2
    <2> QED BY <2>1, <2>2, <2>3
  <1> QED BY <1>1, <1>6, <1>7, <1>8, <1>9

(* What has a mantissa of that size is kept.                                *)
LEMMA RoundKeeps ==
  ASSUME NEW j \in Nat, NEW k \in Unit .. 2 * Unit
  PROVE  Node!Round(TwoTo(j) * k) = TwoTo(j) * k
  <1>1. ASSUME NEW i \in Nat, NEW l \in Unit .. 2 * Unit - 1
        PROVE  Node!Round(TwoTo(i) * l) = TwoTo(i) * l
    <2> DEFINE s == TwoTo(i)
               a == s * l
    <2>1. s \in Nat \ {0} /\ Unit \in Nat /\ l \in Nat BY TwoToFacts, UnitFacts
    <2>2. a \in Nat BY <2>1
    <2>3. TwoTo(Mantissa + i) = s * (2 * Unit) /\ TwoTo((Mantissa + i) - 1) = s * Unit
      <3>1. /\ Mantissa \in Nat /\ Mantissa - 1 \in Nat /\ Mantissa + i = i + Mantissa
            /\ (Mantissa + i) - 1 = i + (Mantissa - 1)
        BY NodeSizes
      <3> QED BY <3>1, TwoToSum, UnitFacts DEF Unit
    <2>4. a < s * (2 * Unit) /\ s * Unit <= a
      <3> HIDE DEF s
      <3>1. s * Unit <= s * l /\ s * (l + 1) <= s * (2 * Unit) BY <2>1, TimesMonotone
      <3>2. s * (l + 1) = s * l + s /\ s * l \in Int /\ s * (2 * Unit) \in Int BY <2>1
      <3> QED BY <2>1, <3>1, <3>2
    <2>5. IsBits(Mantissa + i, a)
      <3>1. Mantissa + i \in Nat BY NodeSizes
      <3> HIDE DEF s, a
      <3> QED BY <2>3, <2>4, <3>1 DEF IsBits
    <2>6. StepsOf(a, s) = l
      <3> DEFINE q == a \div s
                 t == a % s
      <3>1. t \in 0 .. s - 1 /\ q \in Int /\ a = s * q + t
        <4> HIDE DEF s, a
        <4> QED BY <2>1, <2>2, ModFacts
      <3>2. StepsOf(a, s) = Steps(q, 2 * t, s) BY DEF StepsOf
      <3> HIDE DEF s, q, t
      <3>3. 0 \in 0 .. s - 1 /\ s * q + t = s * l + 0 BY <2>1, <3>1
      <3>4. q = l /\ t = 0 BY <2>1, <3>1, <3>3, ModUnique
      <3> QED BY <2>1, <3>2, <3>4 DEF Steps
    <2> HIDE DEF a
    <2>7. ASSUME NEW h \in Nat \ {0}, IsBits(Mantissa + h, a),
                 Node!Round(a) = TwoTo(h) * StepsOf(a, TwoTo(h))
          PROVE  Node!Round(a) = a
      <3>1. Mantissa + h = Mantissa + i BY <2>2, <2>5, <2>7, BitsUnique
      <3>2. h = i BY <3>1, NodeSizes
      <3>3. Node!Round(a) = s * StepsOf(a, s) BY <2>7, <3>2
      <3> QED BY <2>6, <3>3 DEF a
    <2>8. Node!Round(a) = a BY <2>2, <2>7, RoundNat
    <2> QED BY <2>8 DEF a
  <1>2. Unit \in Nat /\ 2 <= Unit BY UnitFacts
  <1>3. CASE k # 2 * Unit BY <1>1, <1>2, <1>3
  <1>4. CASE k = 2 * Unit
    <2>1. Node!Round(TwoTo(j + 1) * Unit) = TwoTo(j + 1) * Unit
      <3>1. j + 1 \in Nat /\ Unit \in Unit .. 2 * Unit - 1 BY <1>2
      <3> QED BY <1>1, <3>1
    <2>2. TwoTo(j + 1) = 2 * TwoTo(j) /\ TwoTo(j) \in Nat BY TwoToFacts
    <2>3. TwoTo(j + 1) * Unit = TwoTo(j) * k BY <1>2, <1>4, <2>2
    <2> QED BY <2>1, <2>3
  <1> QED BY <1>3, <1>4

LEMMA RoundTwice ==
  ASSUME NEW a \in Nat
  PROVE  Node!Round(Node!Round(a)) = Node!Round(a)
  <1>1. ASSUME NEW j \in Nat \ {0}, IsBits(Mantissa + j, a),
               Node!Round(a) = TwoTo(j) * StepsOf(a, TwoTo(j))
        PROVE  Node!Round(Node!Round(a)) = Node!Round(a)
    <2> DEFINE k == StepsOf(a, TwoTo(j))
    <2>1. k \in Unit .. 2 * Unit BY <1>1, RoundShape
    <2> HIDE DEF k
    <2>2. Node!Round(TwoTo(j) * k) = TwoTo(j) * k BY <2>1, RoundKeeps
    <2> QED BY <1>1, <2>2 DEF k
  <1>2. CASE Node!Round(a) = a BY <1>2
  <1> QED BY <1>1, <1>2, RoundNat

------------------------------------------------------------------------------
(* Rounding is symmetric.                                                   *)
LEMMA RoundSign ==
  /\ Node!Round(0) = 0
  /\ \A n \in Nat : Node!Round(-n) = -Node!Round(n)
  <1>1. Node!Round(0) = 0
    <2>1. (2 * Unit) * Node!Round(0) <= 0 /\ Node!Round(0) \in Nat
      <3>1. (2 * Unit) * (Node!Round(0) - 0) <= 0 /\ Node!Round(0) \in Nat BY RoundNear
      <3>2. Node!Round(0) - 0 = Node!Round(0) BY <3>1
      <3> QED BY <3>1, <3>2
    <2>2. Unit \in Nat /\ 2 <= Unit BY UnitFacts
    <2>3. Node!Round(0) * 1 <= Node!Round(0) * (2 * Unit) BY <2>1, <2>2, TimesMonotone
    <2>4. /\ Node!Round(0) * (2 * Unit) = (2 * Unit) * Node!Round(0)
          /\ (2 * Unit) * Node!Round(0) \in Int
      BY <2>1, <2>2
    <2> QED BY <2>1, <2>3, <2>4
  <1>2. ASSUME NEW n \in Nat, n # 0
        PROVE  Node!Round(-n) = -Node!Round(n)
    <2>1. /\ Node!Abs(-n) = n /\ Node!Abs(n) = n
          /\ Node!Exponent(-n) = Node!Bits[n] /\ Node!Exponent(n) = Node!Bits[n]
          /\ -n < 0 /\ ~ n < 0
      BY <1>2 DEF Node!Abs, Node!Exponent
    <2> QED BY <2>1 DEF Node!Round
  <1> QED BY <1>1, <1>2

LEMMA RoundFacts ==
  ASSUME NEW n \in Int
  PROVE  /\ Node!Round(n) \in Int
         /\ n >= 0 => Node!Round(n) >= 0
         /\ n <= 0 => Node!Round(n) <= 0
         /\ (2 * Unit) * (Node!Round(n) - n) <= Node!Abs(n)
         /\ (2 * Unit) * (n - Node!Round(n)) <= Node!Abs(n)
         /\ Node!Round(Node!Round(n)) = Node!Round(n)
  <1>1. CASE n \in Nat
    <2>1. n <= 0 => Node!Round(n) = 0 BY <1>1, RoundSign
    <2> QED BY <1>1, <2>1, RoundNear, RoundTwice DEF Node!Abs
  <1>2. CASE n \notin Nat
    <2> DEFINE a == -n
               m == Node!Round(a)
    <2>1. a \in Nat /\ n = -a /\ Node!Abs(n) = a /\ a # 0 BY <1>2 DEF Node!Abs
    <2> HIDE DEF a
    <2>2. m \in Nat /\ (2 * Unit) * (m - a) <= a /\ (2 * Unit) * (a - m) <= a /\ Node!Round(m) = m
      BY <2>1, RoundNear, RoundTwice
    <2>3. Node!Round(n) = -m BY <2>1, RoundSign
    <2> HIDE DEF m
    <2>4. Node!Round(-m) = -m BY <2>2, RoundSign
    <2>5. -m - n = a - m /\ n - (-m) = m - a BY <2>1, <2>2
    <2> QED BY <1>2, <2>1, <2>2, <2>3, <2>4, <2>5
  <1> QED BY <1>1, <1>2

LEMMA RoundMonotone ==
  ASSUME NEW a \in Int, NEW b \in Int, a <= b
  PROVE  Node!Round(a) <= Node!Round(b)
  <1>1. CASE a >= 0 BY <1>1, RoundMonotoneNat
  <1>2. CASE a <= 0 /\ 0 <= b
    <2>1. Node!Round(a) \in Int /\ Node!Round(a) <= 0 /\ Node!Round(b) \in Int /\ Node!Round(b) >= 0
      BY <1>2, RoundFacts
    <2> QED BY <2>1
  <1>3. CASE b < 0
    <2> DEFINE x == -b
               y == -a
    <2>1. x \in Nat /\ y \in Nat /\ x <= y /\ a = -y /\ b = -x BY <1>3
    <2> HIDE DEF x, y
    <2>2. Node!Round(x) <= Node!Round(y) /\ Node!Round(x) \in Nat /\ Node!Round(y) \in Nat
      BY <2>1, RoundMonotoneNat, RoundNear
    <2>3. Node!Round(a) = -Node!Round(y) /\ Node!Round(b) = -Node!Round(x) BY <2>1, RoundSign
    <2> QED BY <2>2, <2>3
  <1> QED BY <1>1, <1>2, <1>3

------------------------------------------------------------------------------
(* A box and its grid.                                                      *)

LEMMA LargestOfThree ==
  ASSUME NEW a \in Int, NEW b \in Int, NEW c \in Int
  PROVE  LET m == Node!Max({a, b, c})
         IN m \in {a, b, c} /\ a <= m /\ b <= m /\ c <= m
  <1> DEFINE S == {a, b, c}
             m == Node!Max(S)
  <1>1. \E x \in S : \A y \in S : x >= y OBVIOUS
  <1> HIDE DEF S
  <1>2. m \in S /\ \A y \in S : m >= y BY <1>1 DEF Node!Max
  <1> HIDE DEF m
  <1>3. S = {a, b, c} BY DEF S
  <1>4. m \in {a, b, c} /\ a <= m /\ b <= m /\ c <= m BY <1>2, <1>3
  <1> QED BY <1>4 DEF S, m

LEMMA UlpFacts ==
  /\ \A n \in Nat : Node!TimesUlp(n) = n \div Unit /\ Node!TimesUlp(n) \in Nat
  /\ \A m, n \in Nat : m <= n => Node!TimesUlp(m) <= Node!TimesUlp(n)
  <1>1. \A n : Node!TimesUlp(n) = n \div Unit BY DEF Node!TimesUlp, Unit, TwoTo
  <1>2. Unit \in Nat \ {0} BY UnitFacts
  <1>3. \A u \in Nat \ {0} : \A n \in Nat : n \div u \in Nat OBVIOUS
  <1>4. \A u \in Nat \ {0} : \A m, n \in Nat : m <= n => m \div u <= n \div u OBVIOUS
  <1> QED BY <1>1, <1>2, <1>3, <1>4

IntBox == [lower : Int, upper : Int]

(* The largest coordinate of a box, and what it is enlarged by.             *)
Furthest(b, other) == Node!Max({Node!Abs(b.lower), Node!Abs(b.upper), other})

Margin(b, other) == Node!TimesUlp(Furthest(b, other))

LEMMA FurthestFacts ==
  ASSUME NEW b \in IntBox, NEW other \in Nat
  PROVE  /\ Node!Abs(b.lower) \in Nat /\ Node!Abs(b.upper) \in Nat
         /\ Furthest(b, other) \in {Node!Abs(b.lower), Node!Abs(b.upper), other}
         /\ Node!Abs(b.lower) <= Furthest(b, other) /\ Node!Abs(b.upper) <= Furthest(b, other)
         /\ other <= Furthest(b, other)
  <1> DEFINE x == Node!Abs(b.lower)
             y == Node!Abs(b.upper)
  <1>1. b.lower \in Int /\ b.upper \in Int BY DEF IntBox
  <1>2. x \in Nat /\ y \in Nat BY <1>1 DEF Node!Abs
  <1>3. Furthest(b, other) = Node!Max({x, y, other}) BY DEF Furthest
  <1> HIDE DEF x, y
  <1>4. x \in Int /\ y \in Int /\ other \in Int BY <1>2
  <1> DEFINE m == Node!Max({x, y, other})
  <1>5. m \in {x, y, other} /\ x <= m /\ y <= m /\ other <= m BY <1>4, LargestOfThree
  <1> HIDE DEF m
  <1>6. Furthest(b, other) = m BY <1>3 DEF m
  <1> QED BY <1>2, <1>5, <1>6 DEF x, y

LEMMA MarginFacts ==
  ASSUME NEW b \in IntBox, NEW other \in Nat
  PROVE  /\ Margin(b, other) \in Nat
         /\ Node!conservativeBox(b, other) =
              [lower |-> Node!Round(b.lower - Margin(b, other)),
               upper |-> Node!Round(b.upper + Margin(b, other))]
  <1>1. Furthest(b, other) \in Nat BY FurthestFacts
  <1>2. Margin(b, other) \in Nat BY <1>1, UlpFacts DEF Margin
  <1>3. Node!conservativeBox(b, other) =
          [lower |-> Node!Round(b.lower - Margin(b, other)),
           upper |-> Node!Round(b.upper + Margin(b, other))]
    BY DEF Node!conservativeBox, Margin, Furthest
  <1> QED BY <1>2, <1>3

(* Enlarging keeps the order of the ends, and gives numbers of the format.  *)
LEMMA EnlargedFacts ==
  ASSUME NEW b \in IntBox, NEW other \in Nat, b.lower <= b.upper
  PROVE  LET c == Node!conservativeBox(b, other)
         IN /\ c.lower \in Int /\ c.upper \in Int /\ c.lower <= c.upper
            /\ Node!Round(c.lower) = c.lower /\ Node!Round(c.upper) = c.upper
  <1> DEFINE m == Margin(b, other)
             x == b.lower - m
             y == b.upper + m
             c == Node!conservativeBox(b, other)
  <1>1. m \in Nat /\ c = [lower |-> Node!Round(x), upper |-> Node!Round(y)] BY MarginFacts
  <1>2. c.lower = Node!Round(x) /\ c.upper = Node!Round(y) BY <1>1
  <1>3. x \in Int /\ y \in Int /\ x <= y
    <2>1. b.lower \in Int /\ b.upper \in Int BY DEF IntBox
    <2> HIDE DEF m
    <2> QED BY <1>1, <2>1
  <1> HIDE DEF x, y, c
  <1>4. Node!Round(x) <= Node!Round(y) BY <1>3, RoundMonotone
  <1>5. /\ Node!Round(x) \in Int /\ Node!Round(y) \in Int
        /\ Node!Round(Node!Round(x)) = Node!Round(x) /\ Node!Round(Node!Round(y)) = Node!Round(y)
    BY <1>3, RoundFacts
  <1>6. /\ c.lower \in Int /\ c.upper \in Int /\ c.lower <= c.upper
        /\ Node!Round(c.lower) = c.lower /\ Node!Round(c.upper) = c.upper
    BY <1>2, <1>4, <1>5
  <1> QED BY <1>6 DEF c

(* A box that holds another holds it when both are enlarged, since it is    *)
(* enlarged by no less.                                                     *)
LEMMA EnlargedHolds ==
  ASSUME NEW b \in IntBox, NEW a \in IntBox, NEW m \in Nat, NEW n \in Nat,
         b.lower <= a.lower, a.lower <= a.upper, a.upper <= b.upper, n <= m
  PROVE  /\ Node!conservativeBox(b, m).lower <= Node!conservativeBox(a, n).lower
         /\ Node!conservativeBox(a, n).upper <= Node!conservativeBox(b, m).upper
  <1> DEFINE x == Margin(b, m)
             y == Margin(a, n)
  <1>1. a.lower \in Int /\ a.upper \in Int /\ b.lower \in Int /\ b.upper \in Int BY DEF IntBox
  <1>2. x \in Nat /\ y \in Nat BY MarginFacts
  <1>3. y <= x
    <2> DEFINE g == Furthest(b, m)
               h == Furthest(a, n)
    <2>1. /\ Node!Abs(a.lower) \in Nat /\ Node!Abs(a.upper) \in Nat
          /\ Node!Abs(b.lower) \in Nat /\ Node!Abs(b.upper) \in Nat
      BY FurthestFacts
    <2>2. /\ g \in {Node!Abs(b.lower), Node!Abs(b.upper), m}
          /\ Node!Abs(b.lower) <= g /\ Node!Abs(b.upper) <= g /\ m <= g
      BY FurthestFacts
    <2>3. h \in {Node!Abs(a.lower), Node!Abs(a.upper), n} BY FurthestFacts
    <2> HIDE DEF g, h
    <2>4. /\ Node!Abs(a.lower) <= Node!Abs(b.lower) \/ Node!Abs(a.lower) <= Node!Abs(b.upper)
          /\ Node!Abs(a.upper) <= Node!Abs(b.lower) \/ Node!Abs(a.upper) <= Node!Abs(b.upper)
      BY <1>1 DEF Node!Abs
    <2>5. g \in Nat /\ h \in Nat /\ h <= g BY <2>1, <2>2, <2>3, <2>4
    <2>6. Node!TimesUlp(h) <= Node!TimesUlp(g) BY <2>5, UlpFacts
    <2> QED BY <2>6 DEF g, h, Margin
  <1>4. /\ Node!conservativeBox(b, m) =
             [lower |-> Node!Round(b.lower - x), upper |-> Node!Round(b.upper + x)]
        /\ Node!conservativeBox(a, n) =
             [lower |-> Node!Round(a.lower - y), upper |-> Node!Round(a.upper + y)]
    BY MarginFacts
  <1> HIDE DEF x, y
  <1>5. /\ b.lower - x \in Int /\ a.lower - y \in Int /\ b.lower - x <= a.lower - y
        /\ b.upper + x \in Int /\ a.upper + y \in Int /\ a.upper + y <= b.upper + x
    BY <1>1, <1>2, <1>3
  <1>6. Node!Round(b.lower - x) <= Node!Round(a.lower - y) BY <1>5, RoundMonotone
  <1>7. Node!Round(a.upper + y) <= Node!Round(b.upper + x) BY <1>5, RoundMonotone
  <1> QED BY <1>4, <1>6, <1>7

(* The cells of the grid, and those above its half.                         *)
LEMMA GridFacts ==
  /\ TwoTo(Grid) \in Nat \ {0} /\ Node!MaxCell = TwoTo(Grid) - 1
  /\ Node!MaxCell \in Nat \ {0} /\ TwoTo(Grid) <= 2 * Node!MaxCell
  /\ TwoTo(Grid - 1) \in Nat \ {0}
  <1>1. Grid - 1 \in Nat /\ (Grid - 1) + 1 = Grid BY NodeSizes
  <1>2. TwoTo(Grid) = 2 * TwoTo(Grid - 1) /\ TwoTo(Grid - 1) \in Nat \ {0} BY <1>1, TwoToFacts
  <1>3. Node!MaxCell = TwoTo(Grid) - 1 BY DEF Node!MaxCell, TwoTo
  <1> QED BY <1>2, <1>3

(* The cells are large enough for the grid to hold a size, and for all      *)
(* numbers of that size to have a step.                                     *)
LEMMA GridHolds ==
  ASSUME NEW size \in Nat, Node!Round(size) = size
  PROVE  LET e == Node!ExpOf(Node!Round(size + Node!TimesUlp(size)))
         IN /\ e - Grid \in Nat
            /\ TwoTo(e - Grid) \in Nat /\ 8 * Unit <= TwoTo(e - Grid)
            /\ size <= Node!MaxCell * TwoTo(e - Grid)
  <1> DEFINE more == size + Node!TimesUlp(size)
             len == Node!Round(more)
             d == Node!Bits[len]
             g == TwoTo(Grid)
             k == Node!MaxCell
             x == IF len * g > k * TwoTo(d) THEN d + 1 ELSE d
             e == Node!ExpOf(len)
             cell == TwoTo(e - Grid)
  <1>1. more \in Nat /\ size <= more BY UlpFacts
  <1>2. len \in Nat /\ size <= len
    <2> HIDE DEF more
    <2>1. size \in Int /\ more \in Int BY <1>1
    <2> QED BY <1>1, <2>1, RoundMonotone, RoundNear
  <1> HIDE DEF len
  <1>3. d \in Nat /\ len < TwoTo(d)
    <2>1. IsBits(d, len) BY <1>2, ExponentFacts
    <2> QED BY <2>1 DEF IsBits
  <1>4. e = Node!Max({MinExp, x})
    <2>1. Node!Exponent(len) = d BY <1>2 DEF Node!Exponent, Node!Abs
    <2> QED BY <2>1 DEF Node!ExpOf, TwoTo
  <1> HIDE DEF d
  <1>5. x \in Nat BY <1>3
  <1>6. e \in Nat /\ MinExp <= e /\ x <= e
    <2>1. MinExp \in Int /\ x \in Int BY <1>5, NodeSizes
    <2>2. {MinExp, x} = {MinExp, x, x} OBVIOUS
    <2> HIDE DEF x
    <2>3. /\ Node!Max({MinExp, x, x}) \in {MinExp, x, x}
          /\ MinExp <= Node!Max({MinExp, x, x}) /\ x <= Node!Max({MinExp, x, x})
      BY <2>1, LargestOfThree
    <2> QED BY <1>4, <1>5, <2>2, <2>3, NodeSizes
  <1>7. g \in Nat \ {0} /\ k \in Nat \ {0} /\ g <= 2 * k BY GridFacts
  <1> HIDE DEF g, k, e
  <1>8. len * g <= k * TwoTo(x)
    <2>1. CASE ~ len * g > k * TwoTo(d)
      <3>1. TwoTo(d) \in Nat BY <1>3, TwoToFacts
      <3>2. len * g \in Int /\ k * TwoTo(d) \in Int BY <1>2, <1>7, <3>1
      <3> QED BY <2>1, <3>2
    <2>2. CASE len * g > k * TwoTo(d)
      <3> DEFINE t == TwoTo(d)
      <3>1. t \in Nat /\ TwoTo(x) = 2 * t BY <1>3, <2>2, TwoToFacts
      <3>2. len < t BY <1>3
      <3> HIDE DEF t
      <3>3. g * len <= g * t BY <1>2, <1>7, <3>1, <3>2, TimesMonotone
      <3>4. t * g <= t * (2 * k) BY <1>7, <3>1, TimesMonotone
      <3>5. g * len = len * g /\ g * t = t * g /\ t * (2 * k) = k * (2 * t)
        BY <1>2, <1>7, <3>1
      <3>6. len * g \in Int /\ t * g \in Int /\ k * (2 * t) \in Int BY <1>2, <1>7, <3>1
      <3> QED BY <3>1, <3>3, <3>4, <3>5, <3>6
    <2> QED BY <2>1, <2>2
  <1> HIDE DEF x
  <1>9. e - Grid \in Nat /\ Mantissa + 2 <= e - Grid BY <1>6, NodeSizes
  <1>10. cell \in Nat /\ TwoTo(e) = cell * g
    <2>1. e = (e - Grid) + Grid /\ Grid \in Nat BY <1>6, NodeSizes
    <2> QED BY <1>9, <2>1, TwoToSum, TwoToFacts DEF g
  <1>11. 8 * Unit <= cell
    <2>1. /\ Mantissa \in Nat /\ Mantissa + 1 \in Nat /\ (Mantissa + 1) + 1 = Mantissa + 2
          /\ Mantissa + 2 \in Nat
      BY NodeSizes
    <2>2. TwoTo(Mantissa + 1) = 2 * TwoTo(Mantissa) /\ TwoTo(Mantissa + 2) = 2 * TwoTo(Mantissa + 1)
      BY <2>1, TwoToFacts
    <2>3. TwoTo(Mantissa + 2) <= cell BY <1>9, <2>1, TwoToMonotone
    <2> HIDE DEF cell
    <2> QED BY <2>2, <2>3, UnitFacts
  <1> HIDE DEF cell
  <1>12. len <= k * cell
    <2>1. TwoTo(x) <= TwoTo(e) /\ TwoTo(x) \in Int /\ TwoTo(e) \in Int
      <3>1. TwoTo(x) \in Nat /\ TwoTo(e) \in Nat BY <1>5, <1>6, TwoToFacts
      <3> QED BY <1>5, <1>6, <3>1, TwoToMonotone
    <2>2. k * TwoTo(x) <= k * TwoTo(e) BY <1>7, <2>1, TimesMonotone
    <2>3. k * TwoTo(e) = (k * cell) * g BY <1>7, <1>10
    <2>4. k * TwoTo(x) \in Int /\ k * cell \in Nat BY <1>7, <1>10, <2>1
    <2> DEFINE y == k * cell
    <2>5. len * g <= y * g
      <3>1. len * g \in Int /\ y * g \in Int BY <1>2, <1>7, <2>4
      <3> HIDE DEF y
      <3>2. k * TwoTo(x) <= y * g BY <2>2, <2>3 DEF y
      <3> QED BY <1>8, <2>4, <3>1, <3>2
    <2>6. y \in Nat BY <2>4
    <2> HIDE DEF y
    <2>7. ASSUME y + 1 <= len PROVE FALSE
      <3>1. g * (y + 1) <= g * len BY <1>2, <1>7, <2>6, <2>7, TimesMonotone
      <3>2. g * (y + 1) = y * g + g /\ g * len = len * g /\ y * g \in Int /\ len * g \in Int
        BY <1>2, <1>7, <2>6
      <3> QED BY <1>7, <2>5, <3>1, <3>2
    <2>8. len <= y BY <1>2, <2>6, <2>7
    <2> QED BY <2>8 DEF y
  <1>13. size <= k * cell
    <2>1. k * cell \in Int BY <1>7, <1>10
    <2> QED BY <1>2, <1>12, <2>1
  <1> QED BY <1>9, <1>10, <1>11, <1>13 DEF k, e, cell, len

------------------------------------------------------------------------------
(* The slack covers the rounding of a difference, by e1, and of a position, *)
(* by e2: each is relative to what it rounds.                               *)
LEMMA SlackCovers ==
  ASSUME NEW reach \in Nat, 8 * Unit <= reach, NEW e1 \in Int, NEW e2 \in Int,
         (2 * Unit) * e1 <= reach + e1, (2 * Unit) * e2 <= reach
  PROVE  e1 + e2 <= 2 * Node!TimesUlp(Node!Round(reach))
  <1> DEFINE r == Node!Round(reach)
             w == r \div Unit
             t == r % Unit
  <1>1. Unit \in Nat \ {0} /\ 2 <= Unit BY UnitFacts
  <1>2. r \in Nat /\ (2 * Unit) * (reach - r) <= reach BY RoundNear
  <1>3. Node!TimesUlp(r) = w BY <1>2, UlpFacts
  <1>4. w \in Int /\ t \in 0 .. Unit - 1 /\ r = Unit * w + t
    <2> HIDE DEF r
    <2> QED BY <1>1, <1>2, ModFacts
  <1> HIDE DEF r, w, t
  <1>5. 3 * e1 <= reach
    <2>1. CASE e1 <= 0 BY <2>1
    <2>2. CASE e1 > 0
      <3>1. e1 * 4 <= e1 * (2 * Unit) BY <1>1, <2>2, TimesMonotone
      <3>2. e1 * (2 * Unit) = (2 * Unit) * e1 /\ (2 * Unit) * e1 \in Int BY <1>1
      <3> QED BY <3>1, <3>2
    <2> QED BY <2>1, <2>2
  <1>6. 4 * (reach - r) <= reach
    <2>1. CASE reach <= r BY <1>2, <2>1
    <2>2. CASE reach > r
      <3> DEFINE x == reach - r
      <3>1. x \in Nat BY <1>2, <2>2
      <3>2. (2 * Unit) * x <= reach BY <1>2
      <3> HIDE DEF x
      <3>3. x * 4 <= x * (2 * Unit) BY <1>1, <3>1, TimesMonotone
      <3>4. x * (2 * Unit) = (2 * Unit) * x /\ (2 * Unit) * x \in Int BY <1>1, <3>1
      <3>5. 4 * x <= reach BY <3>1, <3>2, <3>3, <3>4
      <3> QED BY <3>5 DEF x
    <2> QED BY <1>2, <2>1, <2>2
  <1>7. ASSUME 2 * w + 1 <= e1 + e2 PROVE FALSE
    <2>1. (2 * Unit) * (2 * w + 1) <= (2 * Unit) * (e1 + e2) BY <1>1, <1>4, <1>7, TimesMonotone
    <2>2. /\ (2 * Unit) * (2 * w + 1) = 4 * (Unit * w) + 2 * Unit
          /\ (2 * Unit) * (e1 + e2) = (2 * Unit) * e1 + (2 * Unit) * e2
      BY <1>1, <1>4
    <2>3. Unit * w \in Int /\ (2 * Unit) * e1 \in Int /\ (2 * Unit) * e2 \in Int BY <1>1, <1>4
    <2> DEFINE x == (2 * Unit) * e1
               y == (2 * Unit) * e2
               z == Unit * w
    <2>4. /\ 4 * z + 2 * Unit <= x + y /\ x <= reach + e1 /\ y <= reach
          /\ r = z + t /\ x \in Int /\ y \in Int /\ z \in Int
      BY <1>4, <2>1, <2>2, <2>3
    <2> HIDE DEF x, y, z
    <2> QED BY <1>1, <1>2, <1>4, <1>5, <1>6, <2>4
  <1>8. e1 + e2 <= 2 * w BY <1>4, <1>7
  <1> QED BY <1>3, <1>8 DEF r

(* A coordinate c of the child, seen from the node at l. The grid reaches to *)
(* size, and x is where its cell begins or ends.                            *)
LEMMA ReadBelow ==
  ASSUME NEW l \in Int, NEW c \in Int, l <= c, Node!Round(c) = c,
         NEW size \in Nat, 8 * Unit <= size, Node!Round(c - l) <= size,
         NEW x \in Nat, x <= Node!Round(c - l)
  PROVE  Node!Round(Node!Round(l + x) - 2 * Node!TimesUlp(Node!Round(Node!Abs(l) + size))) <= c
  <1> DEFINE a == c - l
             p == l + x
             m == Node!Round(a)
             n == Node!Round(p)
             reach == Node!Abs(l) + size
             e1 == m - a
             e2 == n - p
             s == 2 * Node!TimesUlp(Node!Round(reach))
  <1>1. Unit \in Nat /\ 2 <= Unit BY UnitFacts
  <1>2. Node!Abs(l) \in Nat /\ reach \in Nat /\ 8 * Unit <= reach /\ size <= reach
    BY <1>1 DEF Node!Abs
  <1>3. a \in Nat /\ p \in Int /\ Node!Abs(p) <= reach
    <2>1. x <= size
      <3>1. m \in Nat BY RoundNear
      <3> QED BY <3>1
    <2> QED BY <2>1 DEF Node!Abs
  <1>4. m \in Nat /\ (2 * Unit) * (m - a) <= a
    <2> HIDE DEF a
    <2> QED BY <1>3, RoundNear
  <1>5. n \in Int /\ (2 * Unit) * (n - p) <= Node!Abs(p)
    <2> HIDE DEF p
    <2> QED BY <1>3, RoundFacts
  <1>6. e1 \in Int /\ e2 \in Int BY <1>3, <1>4, <1>5
  <1>7. m <= size /\ x <= m OBVIOUS
  <1>8. a + e1 = m /\ p + e2 = n /\ l + a = c BY <1>3, <1>4, <1>5
  <1>9. (2 * Unit) * e2 <= reach
    <2>1. (2 * Unit) * e2 \in Int BY <1>1, <1>6
    <2>2. Node!Abs(p) \in Int BY <1>3 DEF Node!Abs
    <2> HIDE DEF e2, reach, p
    <2>3. (2 * Unit) * e2 <= Node!Abs(p) BY <1>5 DEF e2
    <2> QED BY <1>2, <1>3, <2>1, <2>2, <2>3
  <1>10. (2 * Unit) * e1 <= a BY <1>4
  <1> HIDE DEF a, p, m, n, reach, e1, e2
  <1>11. (2 * Unit) * e1 <= reach + e1
    <2>1. CASE e1 >= 0
      <3>1. (2 * Unit) * e1 \in Int BY <1>1, <1>6
      <3> QED BY <1>2, <1>3, <1>4, <1>6, <1>7, <1>8, <1>10, <2>1, <3>1
    <2>2. CASE e1 < 0
      <3> DEFINE y == -e1
      <3>1. y \in Nat BY <1>6, <2>2
      <3>2. y * 1 <= y * (2 * Unit) BY <1>1, <3>1, TimesMonotone
      <3>3. y * (2 * Unit) = -((2 * Unit) * e1) /\ (2 * Unit) * e1 \in Int BY <1>1, <1>6
      <3> QED BY <1>2, <1>6, <3>2, <3>3
    <2> QED BY <1>6, <2>1, <2>2
  <1>12. e1 + e2 <= s BY <1>2, <1>6, <1>9, <1>11, SlackCovers
  <1>13. s \in Nat
    <2>1. Node!Round(reach) \in Nat BY <1>2, RoundNear
    <2> QED BY <2>1, UlpFacts
  <1> HIDE DEF s
  <1>14. n - s \in Int /\ n - s <= c
    <2>1. p = l + x BY DEF p
    <2> QED BY <1>3, <1>4, <1>5, <1>6, <1>7, <1>8, <1>12, <1>13, <2>1
  <1>15. Node!Round(n - s) <= Node!Round(c) BY <1>14, RoundMonotone
  <1> QED BY <1>15 DEF n, s, p, reach

LEMMA ReadAbove ==
  ASSUME NEW l \in Int, NEW c \in Int, l <= c, Node!Round(c) = c,
         NEW size \in Nat, 8 * Unit <= size, NEW x \in Nat, x <= size, Node!Round(c - l) <= x
  PROVE  c <= Node!Round(Node!Round(l + x) + 2 * Node!TimesUlp(Node!Round(Node!Abs(l) + size)))
  <1> DEFINE a == c - l
             p == l + x
             m == Node!Round(a)
             n == Node!Round(p)
             reach == Node!Abs(l) + size
             e1 == a - m
             e2 == p - n
             s == 2 * Node!TimesUlp(Node!Round(reach))
  <1>1. Unit \in Nat /\ 2 <= Unit BY UnitFacts
  <1>2. Node!Abs(l) \in Nat /\ reach \in Nat /\ 8 * Unit <= reach /\ size <= reach
    BY <1>1 DEF Node!Abs
  <1>3. a \in Nat /\ p \in Int /\ Node!Abs(p) <= reach BY DEF Node!Abs
  <1>4. m \in Nat /\ (2 * Unit) * (a - m) <= a
    <2> HIDE DEF a
    <2> QED BY <1>3, RoundNear
  <1>5. n \in Int /\ (2 * Unit) * (p - n) <= Node!Abs(p)
    <2> HIDE DEF p
    <2> QED BY <1>3, RoundFacts
  <1>6. e1 \in Int /\ e2 \in Int BY <1>3, <1>4, <1>5
  <1>7. m <= x OBVIOUS
  <1>8. m + e1 = a /\ n + e2 = p /\ l + a = c BY <1>3, <1>4, <1>5
  <1>9. (2 * Unit) * e2 <= reach
    <2>1. (2 * Unit) * e2 \in Int BY <1>1, <1>6
    <2>2. Node!Abs(p) \in Int BY <1>3 DEF Node!Abs
    <2> HIDE DEF e2, reach, p
    <2>3. (2 * Unit) * e2 <= Node!Abs(p) BY <1>5 DEF e2
    <2> QED BY <1>2, <1>3, <2>1, <2>2, <2>3
  <1>10. (2 * Unit) * e1 <= a BY <1>4
  <1> HIDE DEF a, p, m, n, reach, e1, e2
  <1>11. (2 * Unit) * e1 <= reach + e1
    <2>1. (2 * Unit) * e1 \in Int BY <1>1, <1>6
    <2> QED BY <1>2, <1>4, <1>6, <1>7, <1>8, <1>10, <2>1
  <1>12. e1 + e2 <= s BY <1>2, <1>6, <1>9, <1>11, SlackCovers
  <1>13. s \in Nat
    <2>1. Node!Round(reach) \in Nat BY <1>2, RoundNear
    <2> QED BY <2>1, UlpFacts
  <1> HIDE DEF s
  <1>14. n + s \in Int /\ c <= n + s
    <2>1. p = l + x BY DEF p
    <2> QED BY <1>3, <1>4, <1>5, <1>6, <1>7, <1>8, <1>12, <1>13, <2>1
  <1>15. Node!Round(c) <= Node!Round(n + s) BY <1>14, RoundMonotone
  <1> QED BY <1>15 DEF n, s, p, reach

(* The cells of a position inside the grid are the last that begins before   *)
(* it and the first that ends behind it.                                    *)
LEMMA CellFacts ==
  ASSUME NEW cell \in Nat \ {0}, NEW k \in Nat, NEW d \in Nat, d <= k * cell
  PROVE  /\ d \div cell \in 0 .. k
         /\ (d \div cell) * cell <= d
         /\ -((-d) \div cell) \in 0 .. k
         /\ d <= (-((-d) \div cell)) * cell
         /\ (-((-d) \div cell)) * cell <= k * cell
  <1> DEFINE q == d \div cell
             t == d % cell
             r == (-d) \div cell
             u == (-d) % cell
  <1>1. /\ t \in 0 .. cell - 1 /\ q \in Int /\ d = cell * q + t
        /\ u \in 0 .. cell - 1 /\ r \in Int /\ -d = cell * r + u
    <2>1. d \in Int /\ -d \in Int OBVIOUS
    <2> QED BY <2>1, ModFacts
  <1> HIDE DEF q, t, r, u
  <1>2. cell * q \in Int /\ cell * r \in Int /\ k * cell = cell * k /\ cell * k \in Int BY <1>1
  <1>3. ~ q < 0
    <2>1. ASSUME q + 1 <= 0 PROVE FALSE
      <3>1. cell * (q + 1) <= cell * 0 BY <1>1, <2>1, TimesMonotone
      <3>2. cell * (q + 1) = cell * q + cell /\ cell * 0 = 0 BY <1>1
      <3> QED BY <1>1, <1>2, <3>1, <3>2
    <2> QED BY <1>1, <2>1
  <1>4. ~ k < q
    <2>1. ASSUME k + 1 <= q PROVE FALSE
      <3>1. cell * (k + 1) <= cell * q BY <1>1, <2>1, TimesMonotone
      <3>2. cell * (k + 1) = cell * k + cell OBVIOUS
      <3> QED BY <1>1, <1>2, <3>1, <3>2
    <2> QED BY <1>1, <2>1
  <1>5. ~ 0 < r
    <2>1. ASSUME 1 <= r PROVE FALSE
      <3>1. cell * 1 <= cell * r BY <1>1, <2>1, TimesMonotone
      <3> QED BY <1>1, <1>2, <3>1
    <2> QED BY <1>1, <2>1
  <1>6. ~ r < -k
    <2>1. ASSUME r + 1 <= -k PROVE FALSE
      <3>1. cell * (r + 1) <= cell * (-k) BY <1>1, <2>1, TimesMonotone
      <3>2. cell * (r + 1) = cell * r + cell /\ cell * (-k) = -(cell * k) BY <1>1
      <3> QED BY <1>1, <1>2, <3>1, <3>2
    <2> QED BY <1>1, <2>1
  <1>7. q \in 0 .. k /\ -r \in 0 .. k BY <1>1, <1>3, <1>4, <1>5, <1>6
  <1>8. q * cell = cell * q /\ (-r) * cell = -(cell * r) BY <1>1
  <1>9. q * cell <= d /\ d <= (-r) * cell BY <1>1, <1>2, <1>8
  <1>10. (-r) * cell <= k * cell
    <2>1. cell * (-k) <= cell * r BY <1>1, <1>7, TimesMonotone
    <2>2. cell * (-k) = -(cell * k) OBVIOUS
    <2> QED BY <1>2, <1>8, <2>1, <2>2
  <1> QED BY <1>7, <1>9, <1>10 DEF q, r

------------------------------------------------------------------------------
(* The node's grid is that of its enlarged box, and its fields for the child *)
(* hold the cells of the child's enlarged box, once they are set.           *)
Grown == Node!conservativeBox(box, far.node)
GrownSize == Node!Round(Grown.upper - Grown.lower)

BoxTypes ==
  /\ box \in IntBox /\ child \in IntBox
  /\ box.lower <= child.lower /\ child.lower <= child.upper /\ child.upper <= box.upper
  /\ far.node \in Nat /\ far.child \in Nat /\ far.child <= far.node

NodeInv ==
  /\ BoxTypes
  /\ bounded \in {"new", "node", "child"}
  /\ bounded # "new" =>
       /\ lower = Grown.lower
       /\ exp = Node!ExpOf(Node!Round(GrownSize + Node!TimesUlp(GrownSize)))
  /\ bounded # "child" => qbounds = Node!Invalid
  /\ bounded = "child" =>
       qbounds = Node!quantize_bounds(Node!conservativeBox(child, far.child))

(* The grid reaches over the node's box.                                    *)
LEMMA NodeReaches ==
  ASSUME NodeInv, bounded # "new"
  PROVE  /\ lower \in Int /\ Grown.upper \in Int /\ lower <= Grown.upper
         /\ Node!Cell = TwoTo(exp - Grid)
         /\ Node!Cell \in Nat /\ 8 * Unit <= Node!Cell
         /\ Node!Round(Grown.upper - lower) <= Node!MaxCell * Node!Cell
  <1>1. /\ lower = Grown.lower
        /\ exp = Node!ExpOf(Node!Round(GrownSize + Node!TimesUlp(GrownSize)))
    BY DEF NodeInv
  <1>2. box \in IntBox /\ far.node \in Nat /\ box.lower <= box.upper
    <2>1. BoxTypes BY DEF NodeInv
    <2>2. box.lower \in Int /\ box.upper \in Int /\ child.lower \in Int /\ child.upper \in Int
      BY <2>1 DEF BoxTypes, IntBox
    <2> QED BY <2>1, <2>2 DEF BoxTypes
  <1>3. Grown.lower \in Int /\ Grown.upper \in Int /\ Grown.lower <= Grown.upper
    BY <1>2, EnlargedFacts DEF Grown
  <1>4. GrownSize \in Nat /\ Node!Round(GrownSize) = GrownSize
    <2> DEFINE d == Grown.upper - Grown.lower
    <2>1. d \in Nat BY <1>3
    <2>2. GrownSize = Node!Round(d) BY DEF GrownSize
    <2> HIDE DEF d
    <2> QED BY <2>1, <2>2, RoundNear, RoundTwice
  <1>5. Node!Cell = TwoTo(exp - Grid) BY DEF Node!Cell, TwoTo
  <1>6. /\ TwoTo(exp - Grid) \in Nat /\ 8 * Unit <= TwoTo(exp - Grid)
        /\ GrownSize <= Node!MaxCell * TwoTo(exp - Grid)
    BY <1>1, <1>4, GridHolds
  <1>7. GrownSize = Node!Round(Grown.upper - lower) BY <1>1 DEF GrownSize
  <1> QED BY <1>1, <1>3, <1>5, <1>6, <1>7

(* The child's enlarged box lies in the grid.                               *)
LEMMA ChildInside ==
  ASSUME NodeInv, bounded # "new"
  PROVE  LET b == Node!conservativeBox(child, far.child)
             k == Node!MaxCell * Node!Cell
         IN /\ b.lower \in Int /\ b.upper \in Int /\ lower <= b.lower /\ b.lower <= b.upper
            /\ Node!Round(b.lower) = b.lower /\ Node!Round(b.upper) = b.upper
            /\ Node!Round(b.lower - lower) \in Nat /\ Node!Round(b.upper - lower) \in Nat
            /\ Node!Round(b.lower - lower) <= Node!Round(b.upper - lower)
            /\ Node!Round(b.upper - lower) <= k
            /\ k \in Nat /\ 8 * Unit <= k
  <1> DEFINE b == Node!conservativeBox(child, far.child)
             k == Node!MaxCell * Node!Cell
  <1>1. BoxTypes BY DEF NodeInv
  <1>2. /\ lower \in Int /\ Grown.upper \in Int /\ lower <= Grown.upper
        /\ Node!Cell \in Nat /\ 8 * Unit <= Node!Cell
        /\ Node!Round(Grown.upper - lower) <= k
    BY NodeReaches
  <1>3. k \in Nat /\ 8 * Unit <= k
    <2>1. Node!MaxCell \in Nat \ {0} BY GridFacts
    <2>2. Node!Cell * 1 <= Node!Cell * Node!MaxCell BY <1>2, <2>1, TimesMonotone
    <2>3. k \in Nat /\ Node!Cell * Node!MaxCell = k BY <1>2, <2>1
    <2> QED BY <1>2, <2>2, <2>3, UnitFacts
  <1>4. lower = Grown.lower BY DEF NodeInv
  <1>5. /\ b.lower \in Int /\ b.upper \in Int /\ b.lower <= b.upper
        /\ Node!Round(b.lower) = b.lower /\ Node!Round(b.upper) = b.upper
    BY <1>1, EnlargedFacts DEF BoxTypes
  <1>6. lower <= b.lower /\ b.upper <= Grown.upper
    BY <1>1, <1>4, EnlargedHolds DEF BoxTypes, Grown
  <1> HIDE DEF b, k
  <1> DEFINE x == b.lower - lower
             y == b.upper - lower
             z == Grown.upper - lower
  <1>7. x \in Nat /\ y \in Nat /\ z \in Nat /\ x <= y /\ y <= z BY <1>2, <1>5, <1>6
  <1>8. Node!Round(z) <= k BY <1>2
  <1> HIDE DEF x, y, z
  <1>9. Node!Round(x) \in Nat /\ Node!Round(y) \in Nat /\ Node!Round(z) \in Nat BY <1>7, RoundNear
  <1>10. Node!Round(x) <= Node!Round(y) /\ Node!Round(y) <= Node!Round(z)
    BY <1>7, RoundMonotoneNat
  <1>11. Node!Round(y) <= k BY <1>3, <1>8, <1>9, <1>10
  <1> QED BY <1>3, <1>5, <1>6, <1>9, <1>10, <1>11 DEF b, k, x, y

(* A cell of the grid is not clamped.                                       *)
LEMMA NotClamped ==
  ASSUME NEW q \in 0 .. Node!MaxCell
  PROVE  Node!Clamp(q) = q
  <1> DEFINE k == Node!MaxCell
             m == Node!Min({k, q})
  <1>1. k \in Nat BY GridFacts
  <1>2. m = q
    <2> DEFINE S == {k, q}
    <2>1. q \in S /\ \A y \in S : q =< y BY <1>1
    <2>2. \A x \in S : (\A y \in S : x =< y) => x = q BY <1>1
    <2>3. m = CHOOSE x \in S : \A y \in S : x =< y BY DEF Node!Min
    <2> HIDE DEF S, m
    <2> QED BY <2>1, <2>2, <2>3
  <1> HIDE DEF m
  <1>3. Node!Max({0, m}) = m
    <2> DEFINE S == {0, m}
    <2>1. m \in S /\ \A y \in S : m >= y BY <1>1, <1>2
    <2>2. \A x \in S : (\A y \in S : x >= y) => x = m BY <1>1, <1>2
    <2>3. Node!Max(S) = CHOOSE x \in S : \A y \in S : x >= y BY DEF Node!Max
    <2> HIDE DEF S
    <2>4. Node!Max(S) = m BY <2>1, <2>2, <2>3
    <2> QED BY <2>4 DEF S
  <1> QED BY <1>2, <1>3 DEF Node!Clamp, m

(* The assertions of quantize_bounds and setChildBounds.                    *)
LEMMA NodeHoldsChild ==
  ASSUME NodeInv
  PROVE  Node!BoundsConservative
  <1>1. Node!MaxCell \in Nat /\ TwoTo(Grid - 1) \in Nat \ {0} BY GridFacts
  <1>2. CASE bounded # "child"
    <2>1. qbounds.lower = TwoTo(Grid - 1) /\ qbounds.upper = 0
      BY <1>2 DEF NodeInv, Node!Invalid, TwoTo
    <2>2. ~ Node!valid BY <1>1, <2>1 DEF Node!valid, Node!TopBit, TwoTo
    <2> QED BY <1>2, <2>2 DEF Node!BoundsConservative
  <1>3. CASE bounded = "child"
    <2> DEFINE b == Node!conservativeBox(child, far.child)
               k == Node!MaxCell * Node!Cell
               x == Node!Round(b.lower - lower)
               y == Node!Round(b.upper - lower)
               q == Node!Below(x)
               r == Node!Above(y)
               d == Node!dequantize_bounds(qbounds)
    <2>1. Node!Cell \in Nat \ {0}
      <3>1. Node!Cell \in Nat /\ 8 * Unit <= Node!Cell BY <1>3, NodeReaches
      <3> QED BY <3>1, UnitFacts
    <2>2. /\ b.lower \in Int /\ b.upper \in Int /\ lower <= b.lower /\ b.lower <= b.upper
          /\ Node!Round(b.lower) = b.lower /\ Node!Round(b.upper) = b.upper
          /\ x \in Nat /\ y \in Nat /\ x <= y /\ y <= k
          /\ k \in Nat /\ 8 * Unit <= k
      BY <1>3, ChildInside
    <2>3. lower \in Int BY <1>3, NodeReaches
    <2> HIDE DEF x, y, k, b
    <2>4. x <= k BY <2>2
    <2>5. k = Node!MaxCell * Node!Cell BY DEF k
    <2>6. q = x \div Node!Cell /\ r = -((-y) \div Node!Cell) BY DEF Node!Below, Node!Above
    <2>7. q \in 0 .. Node!MaxCell /\ q * Node!Cell <= x
      BY <1>1, <2>1, <2>2, <2>4, <2>5, <2>6, CellFacts
    <2>8. r \in 0 .. Node!MaxCell /\ y <= r * Node!Cell /\ r * Node!Cell <= k
      BY <1>1, <2>1, <2>2, <2>4, <2>5, <2>6, CellFacts
    <2> HIDE DEF q, r
    <2>9. qbounds = [lower |-> q, upper |-> r]
      <3>1. qbounds = Node!quantize_bounds(b) BY <1>3 DEF NodeInv, b
      <3>2. Node!quantize_bounds(b) = [lower |-> Node!Clamp(q), upper |-> Node!Clamp(r)]
        BY DEF Node!quantize_bounds, q, r, x, y
      <3> QED BY <2>7, <2>8, <3>1, <3>2, NotClamped
    <2>10. q <= r
      <3>1. q \in Int /\ r \in Int BY <1>1, <2>7, <2>8
      <3>2. ASSUME r + 1 <= q PROVE FALSE
        <4>1. Node!Cell * (r + 1) <= Node!Cell * q BY <2>1, <3>1, <3>2, TimesMonotone
        <4>2. /\ Node!Cell * (r + 1) = r * Node!Cell + Node!Cell
              /\ Node!Cell * q = q * Node!Cell
              /\ r * Node!Cell \in Int /\ q * Node!Cell \in Int
          BY <2>1, <3>1
        <4> QED BY <2>1, <2>2, <2>7, <2>8, <4>1, <4>2
      <3> QED BY <3>1, <3>2
    <2>11. Node!valid
      <3>1. qbounds.lower = q /\ qbounds.upper = r BY <2>9
      <3>2. q \in Int /\ r \in Int BY <1>1, <2>7, <2>8
      <3>3. TwoTo(Grid - 1) <= q => TwoTo(Grid - 1) <= r BY <1>1, <2>10, <3>2
      <3> QED BY <1>1, <3>1, <3>2, <3>3 DEF Node!valid, Node!TopBit, TwoTo
    <2>12. /\ q * Node!Cell \in Nat /\ r * Node!Cell \in Nat
      <3>1. q \in Nat /\ r \in Nat BY <1>1, <2>7, <2>8
      <3> QED BY <2>1, <3>1
    <2>13. /\ d.lower = Node!Round(lower + q * Node!Cell)
           /\ d.upper = Node!Round(lower + r * Node!Cell)
      BY <2>9 DEF Node!dequantize_bounds
    <2>14. Node!Slack = 2 * Node!TimesUlp(Node!Round(Node!Abs(lower) + k))
      BY DEF Node!Slack, k
    <2> HIDE DEF d
    <2>15. Node!Round(d.lower - Node!Slack) <= b.lower
      <3>1. Node!Round(b.lower - lower) <= k /\ q * Node!Cell <= Node!Round(b.lower - lower)
        BY <2>4, <2>7 DEF x
      <3> QED BY <2>2, <2>3, <2>12, <2>13, <2>14, <3>1, ReadBelow
    <2>16. b.upper <= Node!Round(d.upper + Node!Slack)
      <3>1. Node!Round(b.upper - lower) <= r * Node!Cell BY <2>8 DEF y
      <3>2. lower <= b.upper BY <2>2, <2>3
      <3> QED BY <2>2, <2>3, <2>8, <2>12, <2>13, <2>14, <3>1, <3>2, ReadAbove
    <2>17. 0 <= x /\ y <= Node!MaxCell * Node!Cell BY <2>2, <2>5
    <2> QED BY <1>3, <2>11, <2>15, <2>16, <2>17 DEF Node!BoundsConservative, x, y, b, d
  <1> QED BY <1>2, <1>3

LEMMA NodeInit == ASSUME Node!Init PROVE NodeInv
  <1>1. Floats \subseteq Int /\ Others \subseteq Nat BY NodeSizes
  <1>2. box \in Node!Boxes /\ child \in Node!Boxes BY DEF Node!Init
  <1>3. /\ box \in [lower : Floats, upper : Floats] /\ child \in [lower : Floats, upper : Floats]
        /\ child.lower <= child.upper
    BY <1>2 DEF Node!Boxes
  <1>4. box \in IntBox /\ child \in IntBox BY <1>1, <1>3 DEF IntBox
  <1>5. box.lower <= child.lower /\ child.upper <= box.upper BY DEF Node!Init
  <1>6. far \in [node : Others, child : Others] /\ far.child <= far.node BY DEF Node!Init
  <1>7. far.node \in Nat /\ far.child \in Nat BY <1>1, <1>6
  <1>8. BoxTypes BY <1>3, <1>4, <1>5, <1>6, <1>7 DEF BoxTypes
  <1> QED BY <1>8 DEF NodeInv, Node!Init

LEMMA NodeStep ==
  ASSUME NodeInv, Node!setNodeBounds \/ Node!setChildBounds \/ UNCHANGED ofNode
  PROVE  NodeInv'
  <1>1. CASE Node!setNodeBounds
    <2>1. /\ bounded = "new" /\ bounded' = "node"
          /\ box' = box /\ child' = child /\ far' = far /\ qbounds' = qbounds
      BY <1>1 DEF Node!setNodeBounds
    <2>2. /\ lower' = Grown.lower
          /\ exp' = Node!ExpOf(Node!Round(GrownSize + Node!TimesUlp(GrownSize)))
      BY <1>1 DEF Node!setNodeBounds, Grown, GrownSize
    <2>3. Grown' = Grown /\ GrownSize' = GrownSize BY <2>1 DEF Grown, GrownSize
    <2>4. BoxTypes' BY <2>1 DEF NodeInv, BoxTypes
    <2> QED BY <2>1, <2>2, <2>3, <2>4 DEF NodeInv
  <1>2. CASE Node!setChildBounds
    <2>1. /\ bounded = "node" /\ bounded' = "child"
          /\ box' = box /\ child' = child /\ far' = far /\ lower' = lower /\ exp' = exp
      BY <1>2 DEF Node!setChildBounds
    <2>2. Grown' = Grown /\ GrownSize' = GrownSize BY <2>1 DEF Grown, GrownSize
    <2>3. BoxTypes' BY <2>1 DEF NodeInv, BoxTypes
    <2>4. qbounds' = (Node!quantize_bounds(Node!conservativeBox(child, far.child)))'
      BY <1>2, <2>1 DEF Node!setChildBounds, Node!quantize_bounds, Node!Below, Node!Above, Node!Cell
    <2> QED BY <2>1, <2>2, <2>3, <2>4 DEF NodeInv
  <1>3. CASE UNCHANGED ofNode
    <2>1. /\ bounded' = bounded /\ qbounds' = qbounds
          /\ box' = box /\ child' = child /\ far' = far /\ lower' = lower /\ exp' = exp
      BY <1>3 DEF ofNode
    <2>2. Grown' = Grown /\ GrownSize' = GrownSize BY <2>1 DEF Grown, GrownSize
    <2>3. BoxTypes' BY <2>1 DEF NodeInv, BoxTypes
    <2>4. Node!quantize_bounds(Node!conservativeBox(child, far.child))
            = (Node!quantize_bounds(Node!conservativeBox(child, far.child)))'
      BY <2>1 DEF Node!quantize_bounds, Node!Below, Node!Above, Node!Cell
    <2> QED BY <2>1, <2>2, <2>3, <2>4 DEF NodeInv
  <1> QED BY <1>1, <1>2, <1>3

(* Whatever the formats and the boxes: a child is valid from setChildBounds *)
(* on, no cell of it is clamped, and what is read from its cells holds the  *)
(* enlarged box of the child but for the slack.                             *)
THEOREM ReadBoundsHold == SpecOfLeaves => []BoundsConservative
  <1> DEFINE Inv == step = "node" => NodeInv
  <1>1. InitOfLeaves => Inv BY NodeInit DEF InitOfLeaves
  <1>2. Inv /\ [NextOfLeaves]_leavesVars => Inv'
    <2> SUFFICES ASSUME Inv, [NextOfLeaves]_leavesVars, step' = "node" PROVE NodeInv'
      OBVIOUS
    <2>1. step' = step
      BY DEF NextOfLeaves, leavesVars, Push, MergePair, MergeSingle, Reject, Pair, CreateTriangles,
             CreateQuad, AddQuads, AddProcedural, AddInstance, SetChildren, SetNodeBounds,
             SetChildBounds, LeafEnded, KeepButPairing, KeepButQuad, KeepButFatLeaf, KeepButNode
    <2>2. step = "node" /\ NodeInv BY <2>1
    <2>3. Node!setNodeBounds \/ Node!setChildBounds \/ UNCHANGED ofNode
      BY <2>2 DEF NextOfLeaves, leavesVars, Push, MergePair, MergeSingle, Reject, Pair,
             CreateTriangles, CreateQuad, AddQuads, AddProcedural, AddInstance, SetChildren,
             SetNodeBounds, SetChildBounds, LeafEnded
    <2> QED BY <2>2, <2>3, NodeStep
  <1>3. Inv => BoundsConservative BY NodeHoldsChild DEF BoundsConservative
  <1> QED BY <1>1, <1>2, <1>3, PTL DEF SpecOfLeaves
=============================================================================
