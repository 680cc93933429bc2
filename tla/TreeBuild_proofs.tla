--------------------------- MODULE TreeBuild_proofs ---------------------------
(***************************************************************************)
(* For every tree, every choice of parallel nodes and ranges, and every     *)
(* order of the tasks: a node that is handed back as valid has nothing but  *)
(* valid children, no task outlives the call that spawned it, a build that  *)
(* succeeds has laid out every node and all leaf data without overlap, and  *)
(* one that fails has the reason that it gives.                             *)
(*                                                                          *)
(* Then the parallel passes that a build uses, as they are put together in  *)
(* MCPasses. The prefix sum: the partial sums of the tasks before one add   *)
(* up to what is below its cut. The radix sort: a task copies an item to    *)
(* its rank by the digit, and ranks are a permutation. The partition: the   *)
(* places on the wrong side, numbered along the ranges, are as many on the  *)
(* one side as on the other, and a task swaps those with its numbers.       *)
(***************************************************************************)
EXTENDS TreeBuild, MCPasses, SumTheorems, SequenceTheorems, TLAPS

Statuses == Active \union Returned \union {"idle", "skipped"}

TypeOK ==
  /\ status \in [Nodes -> Statuses]
  /\ starts \in [Nodes -> SUBSET Nat]
  /\ success \in [Nodes -> BOOLEAN]
  /\ cancelled \in [Nodes -> BOOLEAN]

Places(n) == DOMAIN Children[n]

Unstarted(c) == status[c] \in {"idle", "skipped"}

(* Only while a node builds its children, or after that, are any of them    *)
(* started.                                                                 *)
ChildrenWait ==
  \A n \in Nodes : status[n] \in {"idle", "skipped", "enter", "malloc"} =>
    \A i \in Places(n) : status[Child(n, i)] = "idle"

(* In a range a child is only started when all before it are valid.         *)
RangeOrder ==
  \A n \in Nodes : \A i, j \in Places(n) :
    i < j /\ j \in Rest(n, i) /\ ~Unstarted(Child(n, j)) => status[Child(n, i)] = "valid"

(* The first child begins a range, and the only one when a node builds its  *)
(* children itself; such a node has no group that could be cancelled.       *)
SerialRange ==
  \A n \in Nodes :
    /\ status[n] = "build" => 1 \in starts[n]
    /\ n \notin Parallel => ~cancelled[n] /\ (status[n] = "build" => starts[n] = {1})

(* A child is left out only after a failure or a cancellation.              *)
SkipsExplained ==
  \A n \in Nodes : \A i \in Places(n) :
    status[Child(n, i)] = "skipped" => ~success[n] \/ (n \in Parallel /\ IsCancelled(n))

BuildInv ==
  /\ TypeOK /\ ChildrenWait /\ RangeOrder /\ SerialRange /\ SkipsExplained
  /\ ValidComplete /\ NoOrphans

------------------------------------------------------------------------------
(* The places of the children, and that a child has one place of one parent. *)
LEMMA TreeFacts ==
  /\ \A n \in Nodes : \A i \in Places(n) : Child(n, i) \in Nodes \ {Root} /\ i \in Nat \ {0}
  /\ \A m, n \in Nodes : \A i \in Places(m), j \in Places(n) :
       Child(m, i) = Child(n, j) => m = n /\ i = j
  /\ \A n \in Nodes : ChildSet(n) = {Child(n, i) : i \in Places(n)}
  /\ \A c \in Nodes \ {Root} : Parent(c) \in Nodes /\ \E i \in Places(Parent(c)) : c = Child(Parent(c), i)
  /\ \A n \in Nodes : \A i \in Places(n) : Parent(Child(n, i)) = n
  /\ \A n \in Nodes : Places(n) = 1 .. Len(Children[n]) /\ Len(Children[n]) \in Nat
  <1>1. \A n \in Nodes : Places(n) = 1 .. Len(Children[n]) /\ Len(Children[n]) \in Nat
    BY TreeAssumption DEF Places
  <1>2. \A n \in Nodes : ChildSet(n) = {Child(n, i) : i \in Places(n)}
    BY DEF ChildSet, Child, Places
  <1>3. \A n \in Nodes : \A i \in Places(n) : Child(n, i) \in Nodes \ {Root} /\ i \in Nat \ {0}
    <2> SUFFICES ASSUME NEW n \in Nodes, NEW i \in Places(n)
                 PROVE  Child(n, i) \in Nodes \ {Root} /\ i \in Nat \ {0}
      OBVIOUS
    <2>1. Children[n] \in Seq(Nodes) /\ Root \notin ChildSet(n)
      BY TreeAssumption
    <2>2. Child(n, i) \in Nodes
      BY <1>1, <2>1 DEF Child
    <2> QED BY <1>1, <1>2, <2>1, <2>2
  <1>4. \A m, n \in Nodes : \A i \in Places(m), j \in Places(n) :
          Child(m, i) = Child(n, j) => m = n /\ i = j
    BY TreeAssumption DEF Child, Places
  <1>5. \A c \in Nodes \ {Root} : Parent(c) \in Nodes /\ c \in ChildSet(Parent(c))
    BY TreeAssumption DEF Parent
  <1>6. \A n \in Nodes : \A i \in Places(n) : Parent(Child(n, i)) = n
    BY <1>2, <1>3, <1>4, <1>5
  <1>7. \A c \in Nodes \ {Root} :
          Parent(c) \in Nodes /\ \E i \in Places(Parent(c)) : c = Child(Parent(c), i)
    BY <1>2, <1>5
  <1> QED
    <2> HIDE DEF Places
    <2> QED BY <1>1, <1>2, <1>3, <1>4, <1>6, <1>7

LEMMA BuildInvInit == Init => BuildInv
  <1> SUFFICES ASSUME Init PROVE BuildInv
    OBVIOUS
  <1>1. TypeOK
    <2>1. status \in [Nodes -> Statuses]
      BY DEF Init, Statuses, Active
    <2> QED BY <2>1 DEF Init, TypeOK
  <1>2. \A n \in Nodes : \A i \in Places(n) : status[Child(n, i)] = "idle"
    BY TreeFacts DEF Init
  <1>3. \A n \in Nodes : status[n] \in {"idle", "enter"} /\ (status[n] = "enter" => n = Root) /\ ~cancelled[n]
    BY DEF Init
  <1> QED BY <1>1, <1>2, <1>3
          DEF BuildInv, ChildrenWait, RangeOrder, Unstarted, SerialRange, SkipsExplained,
              ValidComplete, NoOrphans, Active

(* A started node goes on. When it leaves its children none of them is at   *)
(* work, and when it becomes valid they are.                                *)
LEMMA SelfKeeps ==
  ASSUME BuildInv, NEW n \in Nodes, NEW s \in Statuses \ {"idle", "skipped"},
         status[n] \in Active, status' = [status EXCEPT ![n] = s],
         starts' \in [Nodes -> SUBSET Nat],
         \A m \in Nodes : status[m] # "malloc" => starts'[m] = starts[m],
         s \in {"enter", "malloc"} => status[n] = "enter",
         s = "build" => /\ status[n] = "malloc" /\ 1 \in starts'[n]
                        /\ n \notin Parallel => starts'[n] = {1},
         status[n] = "build" => \A c \in ChildSet(n) : status[c] \notin Active,
         s = "valid" => \A c \in ChildSet(n) : status[c] = "valid",
         UNCHANGED <<success, cancelled>>
  PROVE  BuildInv'
  <1> USE DEF BuildInv
  <1>1. status'[n] = s /\ \A c \in Nodes \ {n} : status'[c] = status[c]
    BY DEF TypeOK
  <1>2. TypeOK'
    BY DEF TypeOK
  <1>4. \A c \in Nodes : Unstarted(c)' <=> Unstarted(c)
    BY <1>1 DEF Unstarted, Active
  <1>5. n # Root => status[Parent(n)] = "build"
    BY DEF NoOrphans
  <1>6. ChildrenWait'
    <2> SUFFICES ASSUME NEW m \in Nodes, NEW i \in Places(m),
                        status'[m] \in {"idle", "skipped", "enter", "malloc"}
                 PROVE  status'[Child(m, i)] = "idle"
      BY DEF ChildrenWait, Places, Child
    <2>1. status[m] \in {"idle", "skipped", "enter", "malloc"}
      BY <1>1
    <2>2. status[Child(m, i)] = "idle" /\ Child(m, i) \in Nodes
      BY <2>1, TreeFacts DEF ChildrenWait
    <2> QED BY <1>1, <2>2 DEF Active
  <1>7. RangeOrder'
    <2> SUFFICES ASSUME NEW m \in Nodes, NEW i \in Places(m), NEW j \in Places(m),
                        i < j, j \in Rest(m, i)', ~Unstarted(Child(m, j))'
                 PROVE  status'[Child(m, i)] = "valid"
      BY DEF RangeOrder, Places, Child
    <2>1. Child(m, i) \in Nodes /\ Child(m, j) \in Nodes
      BY TreeFacts
    <2>2. ~Unstarted(Child(m, j))
      BY <1>4, <2>1
    <2>3. status[m] # "malloc"
      BY <2>2 DEF ChildrenWait, Unstarted
    <2>4. status[Child(m, i)] = "valid"
      BY <2>2, <2>3 DEF RangeOrder, Rest
    <2> QED BY <1>1, <2>1, <2>4 DEF Active
  <1>8. SerialRange'
    BY <1>1 DEF SerialRange
  <1>9. SkipsExplained'
    <2>1. \A m \in Nodes : \A i \in Places(m) :
            status'[Child(m, i)] = "skipped" => status[Child(m, i)] = "skipped"
      BY <1>1, TreeFacts
    <2>2. \A m \in Nodes : IsCancelled(m)' <=> IsCancelled(m)
      BY DEF IsCancelled
    <2> QED BY <2>1, <2>2 DEF SkipsExplained, Places, Child
  <1>10. ValidComplete'
    <2> SUFFICES ASSUME NEW m \in Nodes, status'[m] = "valid", NEW c \in ChildSet(m)
                 PROVE  status'[c] = "valid"
      BY DEF ValidComplete, ChildSet
    <2>1. status[c] = "valid" /\ c \in Nodes
      BY <1>1, TreeFacts DEF ValidComplete
    <2> QED BY <1>1, <2>1 DEF Active
  <1>11. NoOrphans'
    <2> SUFFICES ASSUME NEW c \in Nodes \ {Root}, status'[c] \in Active
                 PROVE  status'[Parent(c)] = "build"
      BY DEF NoOrphans, Parent, ChildSet
    <2>1. status[c] \in Active
      BY <1>1
    <2>2. status[Parent(c)] = "build" /\ Parent(c) \in Nodes /\ c \in ChildSet(Parent(c))
      BY <2>1, TreeFacts DEF NoOrphans
    <2> QED BY <1>1, <2>1, <2>2
  <1> QED BY <1>2, <1>6, <1>7, <1>8, <1>9, <1>10, <1>11

(* A child is started when all before it in its range are valid.            *)
LEMMA StartKeeps ==
  ASSUME BuildInv, NEW n \in Nodes, NEW i \in Places(n),
         status[n] = "build", status[Child(n, i)] = "idle",
         status' = [status EXCEPT ![Child(n, i)] = "enter"],
         \A j \in Places(n) : j < i /\ i \in Rest(n, j) => status[Child(n, j)] = "valid",
         UNCHANGED <<starts, success, cancelled>>
  PROVE  BuildInv'
  <1> USE DEF BuildInv
  <1> DEFINE c == Child(n, i)
  <1>1. c \in Nodes \ {Root} /\ Parent(c) = n
    BY TreeFacts
  <1> HIDE DEF c
  <1>2. status'[c] = "enter" /\ \A d \in Nodes \ {c} : status'[d] = status[d]
    BY <1>1 DEF TypeOK, c
  <1>3. TypeOK'
    BY <1>1 DEF TypeOK, Statuses, Active
  <1>4. status[c] = "idle" /\ c # n
    BY DEF c
  <1>5. ChildrenWait'
    <2> SUFFICES ASSUME NEW m \in Nodes, NEW k \in Places(m),
                        status'[m] \in {"idle", "skipped", "enter", "malloc"}
                 PROVE  status'[Child(m, k)] = "idle"
      BY DEF ChildrenWait, Places, Child
    <2>1. status[m] \in {"idle", "skipped", "enter", "malloc"}
      BY <1>2, <1>4
    <2>2. status[Child(m, k)] = "idle" /\ Child(m, k) \in Nodes
      BY <2>1, TreeFacts DEF ChildrenWait
    <2>3. Child(m, k) # c
      BY <2>1, TreeFacts DEF c
    <2> QED BY <1>2, <2>2, <2>3
  <1>6. RangeOrder'
    <2> SUFFICES ASSUME NEW m \in Nodes, NEW a \in Places(m), NEW b \in Places(m),
                        a < b, b \in Rest(m, a)', ~Unstarted(Child(m, b))'
                 PROVE  status'[Child(m, a)] = "valid"
      BY DEF RangeOrder, Places, Child
    <2>1. Child(m, a) \in Nodes /\ Child(m, b) \in Nodes /\ b \in Rest(m, a)
      BY TreeFacts DEF Rest
    <2>2. CASE Child(m, b) = c
      <3>1. m = n /\ b = i
        BY <2>2, TreeFacts DEF c
      <3>2. status[Child(m, a)] = "valid"
        BY <2>1, <3>1
      <3> QED BY <1>2, <1>4, <2>1, <3>2
    <2>3. CASE Child(m, b) # c
      <3>1. ~Unstarted(Child(m, b))
        BY <1>2, <2>1, <2>3 DEF Unstarted
      <3>2. status[Child(m, a)] = "valid"
        BY <2>1, <3>1 DEF RangeOrder
      <3> QED BY <1>2, <1>4, <2>1, <3>2
    <2> QED BY <2>2, <2>3
  <1>7. SerialRange'
    BY <1>2, <1>4 DEF SerialRange
  <1>8. SkipsExplained'
    <2>1. \A m \in Nodes : \A k \in Places(m) :
            status'[Child(m, k)] = "skipped" => status[Child(m, k)] = "skipped"
      BY <1>2, TreeFacts
    <2>2. \A m \in Nodes : IsCancelled(m)' <=> IsCancelled(m)
      BY DEF IsCancelled
    <2> QED BY <2>1, <2>2 DEF SkipsExplained, Places, Child
  <1>9. ValidComplete'
    <2> SUFFICES ASSUME NEW m \in Nodes, status'[m] = "valid", NEW d \in ChildSet(m)
                 PROVE  status'[d] = "valid"
      BY DEF ValidComplete, ChildSet
    <2>1. status[d] = "valid" /\ d \in Nodes
      BY <1>2, TreeFacts DEF ValidComplete
    <2> QED BY <1>2, <1>4, <2>1
  <1>10. NoOrphans'
    <2> SUFFICES ASSUME NEW d \in Nodes \ {Root}, status'[d] \in Active
                 PROVE  status'[Parent(d)] = "build"
      BY DEF NoOrphans, Parent, ChildSet
    <2>1. status[Parent(d)] = "build" /\ Parent(d) \in Nodes
      BY <1>1, <1>2, TreeFacts DEF NoOrphans
    <2> QED BY <1>2, <1>4, <2>1
  <1> QED BY <1>3, <1>5, <1>6, <1>7, <1>8, <1>9, <1>10

(* Children that were not started are left out.                             *)
LEMMA SkipKeeps ==
  ASSUME BuildInv, NEW n \in Nodes, NEW J \in SUBSET Places(n), status[n] = "build", Skip(n, J),
         \A j \in J : Unstarted(Child(n, j)),
         success' \in [Nodes -> BOOLEAN], cancelled' \in [Nodes -> BOOLEAN],
         \A m \in Nodes : /\ success'[m] => success[m]
                          /\ cancelled[m] => cancelled'[m]
                          /\ m \notin Parallel => ~cancelled'[m],
         J # {} => ~success'[n] \/ (n \in Parallel /\ IsCancelled(n)'),
         \A m \in Nodes : IsCancelled(m) => IsCancelled(m)',
         starts' = starts
  PROVE  BuildInv'
  <1> USE DEF BuildInv
  <1>1. \A c \in Nodes : /\ status'[c] = "skipped" \/ status'[c] = status[c]
                         /\ status'[c] # status[c] =>
                              Unstarted(c) /\ \E j \in J : c = Child(n, j)
    BY DEF Skip
  <1>2. TypeOK'
    BY DEF TypeOK, Skip, Statuses
  <1>3. \A c \in Nodes : Unstarted(c)' <=> Unstarted(c)
    BY <1>1 DEF Unstarted
  <1>4. ChildrenWait'
    <2> SUFFICES ASSUME NEW m \in Nodes, NEW k \in Places(m),
                        status'[m] \in {"idle", "skipped", "enter", "malloc"}
                 PROVE  status'[Child(m, k)] = "idle"
      BY DEF ChildrenWait, Places, Child
    <2>1. status[m] \in {"idle", "skipped", "enter", "malloc"}
      BY <1>1 DEF Unstarted
    <2>2. status[Child(m, k)] = "idle" /\ Child(m, k) \in Nodes
      BY <2>1, TreeFacts DEF ChildrenWait
    <2>3. \A j \in J : Child(m, k) # Child(n, j)
      BY <2>1, TreeFacts
    <2> QED BY <1>1, <2>2, <2>3
  <1>5. RangeOrder'
    <2> SUFFICES ASSUME NEW m \in Nodes, NEW a \in Places(m), NEW b \in Places(m),
                        a < b, b \in Rest(m, a)', ~Unstarted(Child(m, b))'
                 PROVE  status'[Child(m, a)] = "valid"
      BY DEF RangeOrder, Places, Child
    <2>1. Child(m, a) \in Nodes /\ Child(m, b) \in Nodes /\ b \in Rest(m, a)
      BY TreeFacts DEF Rest
    <2>2. status[Child(m, a)] = "valid"
      BY <1>3, <2>1 DEF RangeOrder
    <2> QED BY <1>1, <2>1, <2>2 DEF Unstarted
  <1>6. SerialRange'
    BY <1>1 DEF SerialRange
  <1>7. SkipsExplained'
    <2> SUFFICES ASSUME NEW m \in Nodes, NEW k \in Places(m), status'[Child(m, k)] = "skipped"
                 PROVE  ~success'[m] \/ (m \in Parallel /\ IsCancelled(m)')
      BY DEF SkipsExplained, Places, Child
    <2>1. CASE status[Child(m, k)] = "skipped"
      BY <2>1 DEF SkipsExplained, TypeOK
    <2>2. CASE status[Child(m, k)] # "skipped"
      <3>1. J # {} /\ m = n
        BY <1>1, <2>2, TreeFacts
      <3> QED BY <3>1
    <2> QED BY <2>1, <2>2
  <1>8. ValidComplete'
    <2> SUFFICES ASSUME NEW m \in Nodes, status'[m] = "valid", NEW d \in ChildSet(m)
                 PROVE  status'[d] = "valid"
      BY DEF ValidComplete, ChildSet
    <2>1. status[d] = "valid" /\ d \in Nodes
      BY <1>1, TreeFacts DEF ValidComplete
    <2> QED BY <1>1, <2>1 DEF Unstarted
  <1>9. NoOrphans'
    <2> SUFFICES ASSUME NEW d \in Nodes \ {Root}, status'[d] \in Active
                 PROVE  status'[Parent(d)] = "build"
      BY DEF NoOrphans, Parent, ChildSet
    <2>1. status[Parent(d)] = "build" /\ Parent(d) \in Nodes
      BY <1>1, TreeFacts DEF NoOrphans, Active
    <2> QED BY <1>1, <2>1 DEF Unstarted
  <1> QED BY <1>2, <1>4, <1>5, <1>6, <1>7, <1>8, <1>9

------------------------------------------------------------------------------
(* After a child that is not valid, none of its range is started.           *)
LEMMA RestUnstarted ==
  ASSUME BuildInv, NEW n \in Nodes, NEW i \in Places(n), status[Child(n, i)] # "valid"
  PROVE  /\ Rest(n, i) \in SUBSET Places(n)
         /\ \A j \in Rest(n, i) \ {i} : Unstarted(Child(n, j))
  <1>1. /\ Places(n) = 1 .. Len(Children[n]) /\ Len(Children[n]) \in Nat
    BY TreeFacts
  <1>2. \A j \in Rest(n, i) \ {i} : j \in Places(n) /\ i < j
    BY <1>1 DEF Rest
  <1> QED BY <1>1, <1>2 DEF BuildInv, RangeOrder

LEMMA StepKeeps ==
  ASSUME BuildInv, NEW n \in Nodes,
         Throw(n) \/ Allocate(n) \/ ReadCur(n) \/ Reserve(n) \/ JoinChildren(n)
  PROVE  BuildInv'
  <1> USE DEF SetStatus
  <1>t. TypeOK
    BY DEF BuildInv
  <1>s. starts' = starts => /\ starts' \in [Nodes -> SUBSET Nat]
                            /\ \A m \in Nodes : status[m] # "malloc" => starts'[m] = starts[m]
    BY <1>t DEF TypeOK
  <1>a. \A s \in {"malloc", "valid", "invalid", "thrown", "build"} : s \in Statuses \ {"idle", "skipped"}
    BY DEF Statuses, Active, Returned
  <1>b. {"enter", "malloc", "build"} = Active
    BY DEF Active
  <1>1. CASE Throw(n)
    <2>1. /\ status[n] = "enter" /\ status' = [status EXCEPT ![n] = "thrown"]
          /\ UNCHANGED <<starts, success, cancelled>>
      BY <1>1 DEF Throw
    <2> QED BY <2>1, <1>s, <1>a, <1>b, SelfKeeps
  <1>2. CASE Allocate(n)
    <2>1. /\ status[n] = "enter" /\ UNCHANGED <<starts, success, cancelled>>
          /\ \/ status' = [status EXCEPT ![n] = "invalid"]
             \/ status' = [status EXCEPT ![n] = "malloc"]
      BY <1>2 DEF Allocate
    <2>2. CASE status' = [status EXCEPT ![n] = "invalid"]
      BY <2>1, <2>2, <1>s, <1>a, <1>b, SelfKeeps
    <2>3. CASE status' = [status EXCEPT ![n] = "malloc"]
      BY <2>1, <2>3, <1>s, <1>a, <1>b, SelfKeeps
    <2> QED BY <2>1, <2>2, <2>3
  <1>3. CASE ReadCur(n)
    BY <1>3 DEF ReadCur, BuildInv, TypeOK, ChildrenWait, RangeOrder, SerialRange, SkipsExplained,
                ValidComplete, NoOrphans, Unstarted, Rest, Child, Places, IsCancelled
  <1>4. CASE Reserve(n)
    <2>1. status[n] = "malloc" /\ UNCHANGED <<success, cancelled>>
      BY <1>4 DEF Reserve
    <2>2. CASE status' = [status EXCEPT ![n] = "invalid"] /\ starts' = starts
      BY <2>1, <2>2, <1>s, <1>a, <1>b, SelfKeeps
    <2>3. CASE status' = [status EXCEPT ![n] = "valid"] /\ starts' = starts /\ Children[n] = <<>>
      <3>1. ChildSet(n) = {}
        BY <2>3 DEF ChildSet
      <3> QED BY <2>1, <2>3, <3>1, <1>s, <1>a, <1>b, SelfKeeps
    <2>4. ASSUME NEW S \in RangesOf(n), status' = [status EXCEPT ![n] = "build"],
                 starts' = [starts EXCEPT ![n] = S]
          PROVE  BuildInv'
      <3>1. S \in SUBSET Nat /\ 1 \in S /\ (n \notin Parallel => S = {1})
        BY TreeFacts DEF RangesOf, Places
      <3>2. /\ starts' \in [Nodes -> SUBSET Nat] /\ starts'[n] = S
            /\ \A m \in Nodes : status[m] # "malloc" => starts'[m] = starts[m]
        BY <2>1, <2>4, <3>1, <1>t DEF TypeOK
      <3> QED BY <2>1, <2>4, <3>1, <3>2, <1>a, <1>b, SelfKeeps
    <2>5. \/ status' = [status EXCEPT ![n] = "invalid"] /\ starts' = starts
          \/ status' = [status EXCEPT ![n] = "valid"] /\ starts' = starts /\ Children[n] = <<>>
          \/ /\ status' = [status EXCEPT ![n] = "build"]
             /\ \E S \in RangesOf(n) : starts' = [starts EXCEPT ![n] = S]
      BY <1>4 DEF Reserve
    <2> QED BY <2>2, <2>3, <2>4, <2>5
  <1>5. CASE JoinChildren(n)
    <2> DEFINE s == IF n \in Parallel /\ IsCancelled(n) THEN "thrown"
                    ELSE IF success[n] THEN "valid" ELSE "invalid"
    <2>1. /\ status[n] = "build" /\ RangesDone(n) /\ status' = [status EXCEPT ![n] = s]
          /\ UNCHANGED <<starts, success, cancelled>>
      BY <1>5 DEF JoinChildren
    <2>2. \A c \in ChildSet(n) :
            /\ status[c] \in Returned \union {"skipped"}
            /\ status[c] = "invalid" => ~success[n]
            /\ status[c] = "thrown" => cancelled[n]
            /\ status[c] = "skipped" => ~success[n] \/ (n \in Parallel /\ IsCancelled(n))
      BY <2>1, TreeFacts DEF RangesDone, Places, BuildInv, SkipsExplained
    <2>3. cancelled[n] => n \in Parallel /\ IsCancelled(n)
      BY DEF BuildInv, SerialRange, IsCancelled
    <2>4. s = "valid" => \A c \in ChildSet(n) : status[c] = "valid"
      BY <2>2, <2>3 DEF Returned
    <2>5. \A c \in ChildSet(n) : status[c] \notin Active
      BY <2>2 DEF Returned, Active
    <2>6. s \in {"thrown", "valid", "invalid"}
      OBVIOUS
    <2> HIDE DEF s
    <2>7. s \in Statuses \ {"idle", "skipped"} /\ s \notin {"enter", "malloc", "build"}
      BY <2>6 DEF Statuses, Returned
    <2> QED BY <2>1, <2>4, <2>5, <2>7, <1>s, <1>b, SelfKeeps
  <1> QED BY <1>1, <1>2, <1>3, <1>4, <1>5

LEMMA RangeStepKeeps ==
  ASSUME BuildInv, NEW n \in Nodes, NEW i \in Places(n),
         \/ StartRange(n, i) \/ DropRange(n, i) \/ NextChild(n, i)
         \/ FailRange(n, i) \/ ThrowRange(n, i) \/ Unwind(n, i)
  PROVE  BuildInv'
  <1> USE DEF SetStatus
  <1>t. TypeOK
    BY DEF BuildInv
  <1>p. i \in Nat \ {0} /\ Child(n, i) \in Nodes /\ Places(n) = 1 .. Len(Children[n]) /\ Len(Children[n]) \in Nat
    BY TreeFacts
  <1>c. cancelled' = cancelled => \A m \in Nodes : IsCancelled(m)' <=> IsCancelled(m)
    BY DEF IsCancelled
  <1>s. \A m \in Nodes : m \notin Parallel => ~cancelled[m]
    BY DEF BuildInv, SerialRange
  <1>1. CASE StartRange(n, i) /\ success[n]
    <2>1. \A j \in Places(n) : ~(j < i /\ i \in Rest(n, j))
      BY <1>1, <1>p DEF StartRange, Rest
    <2> QED BY <1>1, <2>1, StartKeeps DEF StartRange
  <1>2. CASE (StartRange(n, i) /\ ~success[n]) \/ DropRange(n, i)
    <2>1. /\ status[n] = "build" /\ status[Child(n, i)] = "idle" /\ Skip(n, Rest(n, i))
          /\ UNCHANGED <<starts, success, cancelled>>
          /\ ~success[n] \/ (n \in Parallel /\ IsCancelled(n))
      BY <1>2 DEF StartRange, DropRange
    <2>2. Rest(n, i) \in SUBSET Places(n) /\ \A j \in Rest(n, i) : Unstarted(Child(n, j))
      BY <2>1, RestUnstarted DEF Unstarted
    <2>3. /\ success' \in [Nodes -> BOOLEAN] /\ cancelled' \in [Nodes -> BOOLEAN]
          /\ \A m \in Nodes : success'[m] = success[m] /\ cancelled'[m] = cancelled[m]
      BY <1>t, <2>1 DEF TypeOK
    <2>4. /\ \A m \in Nodes : IsCancelled(m) => IsCancelled(m)'
          /\ ~success'[n] \/ (n \in Parallel /\ IsCancelled(n)')
      BY <1>c, <2>1, <2>3
    <2> QED BY <1>s, <2>1, <2>2, <2>3, <2>4, SkipKeeps
  <1>3. CASE NextChild(n, i)
    <2>1. /\ status[n] = "build" /\ i \notin starts[n] /\ status[Child(n, i)] = "idle"
          /\ status[Child(n, i - 1)] = "valid"
      BY <1>3 DEF NextChild
    <2>2. i # 1
      BY <2>1 DEF BuildInv, SerialRange
    <2>3. i - 1 \in Places(n)
      BY <2>2, <1>p
    <2>4. ASSUME NEW j \in Places(n), j < i, i \in Rest(n, j)
          PROVE  status[Child(n, j)] = "valid"
      <3>1. CASE j = i - 1
        BY <2>1, <3>1
      <3>2. CASE j # i - 1
        <4>1. j < i - 1 /\ i - 1 \in Rest(n, j)
          BY <2>3, <2>4, <3>2, <1>p DEF Rest
        <4>2. ~Unstarted(Child(n, i - 1))
          BY <2>1 DEF Unstarted
        <4> QED BY <2>3, <4>1, <4>2 DEF BuildInv, RangeOrder
      <3> QED BY <3>1, <3>2
    <2> QED BY <1>3, <2>1, <2>4, StartKeeps DEF NextChild
  <1>4. CASE FailRange(n, i)
    <2>1. /\ status[n] = "build" /\ status[Child(n, i)] # "valid" /\ Skip(n, Rest(n, i) \ {i})
          /\ success' = [success EXCEPT ![n] = FALSE] /\ UNCHANGED <<starts, cancelled>>
      BY <1>4 DEF FailRange
    <2>2. Rest(n, i) \ {i} \in SUBSET Places(n) /\ \A j \in Rest(n, i) \ {i} : Unstarted(Child(n, j))
      BY <2>1, RestUnstarted
    <2>3. /\ success' \in [Nodes -> BOOLEAN] /\ ~success'[n]
          /\ \A m \in Nodes : success'[m] => success[m]
      BY <1>t, <2>1 DEF TypeOK
    <2>4. /\ cancelled' \in [Nodes -> BOOLEAN]
          /\ \A m \in Nodes : cancelled'[m] = cancelled[m] /\ (IsCancelled(m) => IsCancelled(m)')
      BY <1>t, <1>c, <2>1 DEF TypeOK
    <2> QED BY <1>s, <2>1, <2>2, <2>3, <2>4, SkipKeeps
  <1>5. CASE ThrowRange(n, i)
    <2>1. /\ status[n] = "build" /\ status[Child(n, i)] # "valid" /\ Skip(n, Rest(n, i) \ {i})
          /\ n \in Parallel
          /\ cancelled' = [cancelled EXCEPT ![n] = TRUE] /\ UNCHANGED <<starts, success>>
      BY <1>5 DEF ThrowRange
    <2>2. Rest(n, i) \ {i} \in SUBSET Places(n) /\ \A j \in Rest(n, i) \ {i} : Unstarted(Child(n, j))
      BY <2>1, RestUnstarted
    <2>3. /\ cancelled' \in [Nodes -> BOOLEAN] /\ cancelled'[n]
          /\ \A m \in Nodes \ {n} : cancelled'[m] = cancelled[m]
      BY <1>t, <2>1 DEF TypeOK
    <2>4. IsCancelled(n)'
      BY <2>3 DEF IsCancelled
    <2>5. ASSUME NEW m \in Nodes, IsCancelled(m)
          PROVE  IsCancelled(m)'
      <3>1. PICK p \in Nodes : cancelled[p] /\ p \in {m} \union Above[m]
        BY <2>5 DEF IsCancelled
      <3>2. cancelled'[p]
        BY <2>1, <3>1, <1>t DEF TypeOK
      <3> QED BY <3>1, <3>2 DEF IsCancelled
    <2> QED BY <1>t, <1>s, <2>1, <2>2, <2>3, <2>4, <2>5, SkipKeeps DEF TypeOK
  <1>6. CASE Unwind(n, i)
    <2>1. /\ status[n] = "build" /\ n \notin Parallel /\ status[Child(n, i)] = "thrown"
          /\ status' = [status EXCEPT ![n] = "thrown"] /\ UNCHANGED <<starts, success, cancelled>>
      BY <1>6 DEF Unwind
    <2>2. starts[n] = {1}
      BY <2>1 DEF BuildInv, SerialRange
    <2>3. ASSUME NEW j \in Places(n)
          PROVE  status[Child(n, j)] \notin Active
      <3>1. CASE j < i
        <4>1. i \in Rest(n, j) /\ ~Unstarted(Child(n, i))
          BY <2>1, <2>2, <3>1, <1>p DEF Rest, Unstarted
        <4>2. status[Child(n, j)] = "valid"
          BY <3>1, <4>1 DEF BuildInv, RangeOrder
        <4> QED BY <4>2 DEF Active
      <3>2. CASE i < j
        <4>1. j \in Rest(n, i) \ {i}
          BY <2>2, <3>2, <1>p DEF Rest
        <4>2. Unstarted(Child(n, j))
          BY <2>1, <4>1, RestUnstarted
        <4> QED BY <4>2 DEF Active, Unstarted
      <3>3. CASE i = j
        BY <2>1, <3>3 DEF Active
      <3> QED BY <3>1, <3>2, <3>3, <1>p
    <2>4. \A c \in ChildSet(n) : status[c] \notin Active
      BY <2>3, TreeFacts
    <2>5. /\ "thrown" \in Statuses \ {"idle", "skipped"} /\ "build" \in Active
          /\ starts' \in [Nodes -> SUBSET Nat] /\ \A m \in Nodes : starts'[m] = starts[m]
      BY <1>t, <2>1 DEF TypeOK, Statuses, Active, Returned
    <2> QED BY <2>1, <2>4, <2>5, SelfKeeps
  <1> QED BY <1>1, <1>2, <1>3, <1>4, <1>5, <1>6

LEMMA BuildInvStep == BuildInv /\ [Next]_vars => BuildInv'
  <1>1. CASE UNCHANGED <<status, starts, success, cancelled>>
    BY <1>1 DEF BuildInv, TypeOK, ChildrenWait, RangeOrder, SerialRange, SkipsExplained,
                ValidComplete, NoOrphans, Unstarted, Rest, Child, Places, IsCancelled
  <1>2. CASE UNCHANGED vars \/ Finish
    BY <1>1, <1>2 DEF vars, Finish
  <1>3. ASSUME BuildInv, NEW n \in Nodes, NodeStep(n)
        PROVE  BuildInv'
    BY <1>3, StepKeeps, RangeStepKeeps DEF NodeStep, Places
  <1> QED BY <1>2, <1>3 DEF Next

(* Whatever fails, is skipped or is cancelled, and in whatever order: a     *)
(* node that createInternalNode hands back as valid has nothing but valid   *)
(* children.                                                                *)
THEOREM NothingHalfBuilt == Spec => []ValidComplete
  <1>1. BuildInv => ValidComplete
    BY DEF BuildInv
  <1> QED BY <1>1, BuildInvInit, BuildInvStep, PTL DEF Spec

(* While a task is under way the call that spawned it has not returned, so  *)
(* that the arrays in its stack frame live.                                 *)
THEOREM NoTaskOutlivesItsFrame == Spec => []NoOrphans
  <1>1. BuildInv => NoOrphans
    BY DEF BuildInv
  <1> QED BY <1>1, BuildInvInit, BuildInvStep, PTL DEF Spec

------------------------------------------------------------------------------
(* Where nodes and leaf data are. What a node was given lies behind the     *)
(* root and below the counter, apart from what others were given; and the   *)
(* counter reaches the end only with a failure, which stays.                *)
HasMemory(n) == result[n] # NullPtr

LayoutType ==
  /\ leafData \in [Leaves -> 1 .. MaxLeafData]
  /\ cur \in Nat /\ cur >= FirstFree
  /\ req \in [Nodes -> [bytes : Nat, align : {16, 64}]]
  /\ extra \in [Nodes -> Nat]
  /\ result \in [Nodes -> Nat \union {NullPtr}]

AskedFor == \A n \in Nodes : status[n] = "malloc" => req[n] = RequestOf(n)

GivenOnce ==
  \A n \in Nodes :
    /\ status[n] \in {"idle", "skipped", "enter", "malloc"} => ~HasMemory(n)
    /\ status[n] \in {"build", "valid"} => HasMemory(n)

GivenInside ==
  \A n \in Nodes : HasMemory(n) => result[n] >= FirstFree /\ result[n] + BytesOf(n) <= cur

GivenApart ==
  \A m, n \in Nodes : m # n /\ HasMemory(m) /\ HasMemory(n) =>
    result[m] + BytesOf(m) <= result[n] \/ result[n] + BytesOf(n) <= result[m]

FullFailed == cur >= End => \E n \in Nodes : status[n] = "invalid"

AnswerKept == answer = "SUCCESS" => status[Root] = "valid" /\ bytesOut = cur

LayoutInv ==
  /\ LayoutType /\ AskedFor /\ GivenOnce /\ GivenInside /\ GivenApart
  /\ FullFailed /\ AnswerKept

LEMMA BytesPositive ==
  ASSUME LayoutType, NEW n \in Nodes
  PROVE  /\ BytesOf(n) \in Nat
         /\ Children[n] # <<>> => BytesOf(n) = Len(Children[n]) * NodeBytes
         /\ Children[n] = <<>> => BytesOf(n) = leafData[n]
  <1>1. Len(Children[n]) \in Nat
    BY TreeFacts
  <1>2. CASE Children[n] = <<>>
    <2>1. n \in Leaves
      BY <1>2 DEF Leaves
    <2>2. leafData[n] \in 1 .. MaxLeafData
      BY <2>1 DEF LayoutType
    <2>3. leafData[n] \in Nat
      BY <2>2
    <2> QED BY <1>2, <2>3 DEF BytesOf
  <1> QED BY <1>1, <1>2 DEF BytesOf, NodeBytes

(* When the root is valid everything is.                                    *)
LEMMA AllValid ==
  ASSUME BuildInv, status[Root] = "valid"
  PROVE  \A n \in Nodes : status[n] = "valid"
  <1> DEFINE S == {n \in Nodes : status[n] = "valid"}
  <1>1. Root \in S
    BY TreeAssumption
  <1>2. \A n \in S : ChildSet(n) \subseteq S
    BY TreeFacts DEF BuildInv, ValidComplete
  <1>3. S \in SUBSET Nodes
    OBVIOUS
  <1> HIDE DEF S
  <1>4. S = Nodes
    BY <1>1, <1>2, <1>3, TreeAssumption
  <1> QED BY <1>4 DEF S

LEMMA LayoutInit == Init => LayoutInv
  <1> SUFFICES ASSUME Init PROVE LayoutInv
    OBVIOUS
  <1>1. LayoutType
    <2>1. leafData \in [Leaves -> 1 .. MaxLeafData]
      BY TreeAssumption DEF Init, LeafSizes
    <2>2. cur \in Nat /\ cur >= FirstFree
      BY DEF Init, FirstFree, HeaderBytes, NodeBytes
    <2>3. req \in [Nodes -> [bytes : Nat, align : {16, 64}]]
      BY DEF Init, Alloc!NoRequest
    <2>4. extra \in [Nodes -> Nat] /\ result \in [Nodes -> Nat \union {NullPtr}]
      BY DEF Init
    <2> QED BY <2>1, <2>2, <2>3, <2>4 DEF LayoutType
  <1>2. \A n \in Nodes : ~HasMemory(n) /\ status[n] \in {"idle", "enter"}
    BY DEF Init, HasMemory
  <1>3. ~(cur >= End) /\ answer # "SUCCESS"
    BY EndAssumption DEF Init, FirstFree, HeaderBytes, NodeBytes
  <1> QED BY <1>1, <1>2, <1>3
          DEF LayoutInv, AskedFor, GivenOnce, GivenInside, GivenApart, FullFailed, AnswerKept

(* Steps that leave the allocator alone.                                    *)
LEMMA QuietKeeps ==
  ASSUME LayoutInv, UNCHANGED <<leafData, cur, req, extra, result, answer, bytesOut>>,
         \A m \in Nodes :
           \/ status'[m] = status[m]
           \/ Unstarted(m) /\ status'[m] \in {"skipped", "enter"}
           \/ status[m] \in {"enter", "build"} /\ status'[m] \in {"thrown", "invalid"}
           \/ status[m] = "build" /\ status'[m] = "valid"
  PROVE  LayoutInv'
  <1> USE DEF LayoutInv
  <1>1. LayoutType'
    BY DEF LayoutType
  <1>2. AskedFor'
    BY DEF AskedFor, RequestOf, BytesOf
  <1>3. \A m \in Nodes : HasMemory(m)' <=> HasMemory(m)
    BY DEF HasMemory
  <1>4. GivenOnce'
    BY <1>3 DEF GivenOnce, Unstarted
  <1>5. GivenInside' /\ GivenApart'
    BY <1>3 DEF GivenInside, GivenApart, BytesOf
  <1>6. FullFailed'
    BY DEF FullFailed, Unstarted
  <1>7. AnswerKept'
    BY TreeAssumption DEF AnswerKept, Unstarted
  <1> QED BY <1>1, <1>2, <1>4, <1>5, <1>6, <1>7

LEMMA RangeStepLayout ==
  ASSUME BuildInv, LayoutInv, NEW n \in Nodes, NEW i \in Places(n),
         \/ StartRange(n, i) \/ DropRange(n, i) \/ NextChild(n, i)
         \/ FailRange(n, i) \/ ThrowRange(n, i) \/ Unwind(n, i)
  PROVE  LayoutInv'
  <1> USE DEF SetStatus
  <1>t. status \in [Nodes -> Statuses]
    BY DEF BuildInv, TypeOK
  <1>p. Child(n, i) \in Nodes
    BY TreeFacts
  <1>q. UNCHANGED <<leafData, cur, req, extra, result, answer, bytesOut>>
    BY DEF StartRange, DropRange, NextChild, FailRange, ThrowRange, Unwind, inputs, allocVars
  <1>1. CASE status[Child(n, i)] = "idle" /\ status' = [status EXCEPT ![Child(n, i)] = "enter"]
    BY <1>1, <1>t, <1>p, <1>q, QuietKeeps DEF Unstarted
  <1>2. ASSUME NEW J \in SUBSET Rest(n, i), Skip(n, J), \A j \in J : Unstarted(Child(n, j))
        PROVE  LayoutInv'
    <2>1. \A m \in Nodes : \/ status'[m] = status[m]
                           \/ Unstarted(m) /\ status'[m] = "skipped"
      BY <1>2, <1>t DEF Skip
    <2> QED BY <2>1, <1>q, QuietKeeps
  <1>3. CASE status[n] = "build" /\ status' = [status EXCEPT ![n] = "thrown"]
    BY <1>3, <1>t, <1>q, QuietKeeps
  <1>4. status[Child(n, i)] = "idle" => \A j \in Rest(n, i) : Unstarted(Child(n, j))
    BY RestUnstarted DEF Unstarted
  <1>5. status[Child(n, i)] \in {"invalid", "thrown"} =>
          \A j \in Rest(n, i) \ {i} : Unstarted(Child(n, j))
    BY RestUnstarted
  <1>6. \/ status[Child(n, i)] = "idle" /\ status' = [status EXCEPT ![Child(n, i)] = "enter"]
        \/ status[Child(n, i)] = "idle" /\ Skip(n, Rest(n, i))
        \/ status[Child(n, i)] \in {"invalid", "thrown"} /\ Skip(n, Rest(n, i) \ {i})
        \/ status[n] = "build" /\ status' = [status EXCEPT ![n] = "thrown"]
    BY DEF StartRange, DropRange, NextChild, FailRange, ThrowRange, Unwind
  <1> QED BY <1>1, <1>2, <1>3, <1>4, <1>5, <1>6

(* malloc, at last, moves the counter.                                      *)
LEMMA ReserveLayout ==
  ASSUME BuildInv, LayoutInv, NEW n \in Nodes, Reserve(n)
  PROVE  LayoutInv'
  <1> USE DEF LayoutInv, SetStatus
  <1> DEFINE start == cur + extra[n]
  <1>t. status \in [Nodes -> Statuses]
    BY DEF BuildInv, TypeOK
  <1>b. \A m \in Nodes : BytesOf(m) \in Nat /\ BytesOf(m)' = BytesOf(m)
    BY BytesPositive DEF Reserve, inputs, BytesOf
  <1>1. status[n] = "malloc" /\ ~HasMemory(n) /\ req[n].bytes = BytesOf(n)
    <2>1. status[n] = "malloc"
      BY DEF Reserve
    <2>2. ~HasMemory(n)
      BY <2>1 DEF GivenOnce
    <2>3. req[n] = RequestOf(n)
      BY <2>1 DEF AskedFor
    <2> QED BY <2>1, <2>2, <2>3 DEF RequestOf
  <1>2. answer # "SUCCESS" /\ answer' = answer /\ leafData' = leafData
    BY <1>1, AllValid DEF AnswerKept, Reserve, inputs
  <1>3. /\ start \in Nat /\ start >= cur /\ cur \in Nat
        /\ cur' = start + BytesOf(n) /\ cur' \in Nat /\ cur' >= cur
    BY <1>1, <1>b DEF LayoutType, Reserve, Alloc!FetchAdd
  <1>4. /\ req' = [req EXCEPT ![n] = Alloc!NoRequest]
        /\ extra' = [extra EXCEPT ![n] = 0]
        /\ \/ cur' >= End /\ result' = [result EXCEPT ![n] = NullPtr]
           \/ ~(cur' >= End) /\ result' = [result EXCEPT ![n] = start]
    BY DEF Reserve, Alloc!FetchAdd, Alloc!Return, Alloc!NullPtr, NullPtr
  <1>5. LayoutType'
    <2>1. result' \in [Nodes -> Nat \union {NullPtr}] /\ extra' \in [Nodes -> Nat]
      BY <1>3, <1>4 DEF LayoutType
    <2>2. req' \in [Nodes -> [bytes : Nat, align : {16, 64}]]
      BY <1>4 DEF LayoutType, Alloc!NoRequest
    <2> QED BY <1>2, <1>3, <2>1, <2>2 DEF LayoutType, FirstFree, HeaderBytes, NodeBytes
  <1>6. \A m \in Nodes \ {n} : /\ status'[m] = status[m] /\ result'[m] = result[m]
                               /\ req'[m] = req[m] /\ (HasMemory(m)' <=> HasMemory(m))
    BY <1>4, <1>t DEF Reserve, LayoutType, HasMemory
  <1>7. \/ /\ cur' >= End /\ ~HasMemory(n)' /\ status'[n] = "invalid"
        \/ /\ ~(cur' >= End) /\ HasMemory(n)' /\ result'[n] = start
           /\ status'[n] \in {"valid", "build"}
    <2>1. CASE cur' >= End /\ result' = [result EXCEPT ![n] = NullPtr]
      BY <2>1, <1>t DEF LayoutType, Reserve, HasMemory
    <2>2. CASE ~(cur' >= End) /\ result' = [result EXCEPT ![n] = start]
      <3>1. result'[n] = start /\ start # NullPtr
        BY <2>2, <1>3 DEF LayoutType, NullPtr
      <3> QED BY <2>2, <3>1, <1>t DEF Reserve, HasMemory
    <2> QED BY <2>1, <2>2, <1>4
  <1>8. AskedFor'
    BY <1>6, <1>7, <1>b DEF AskedFor, RequestOf
  <1>9. GivenOnce'
    BY <1>6, <1>7 DEF GivenOnce
  <1>10. GivenInside'
    <2> SUFFICES ASSUME NEW m \in Nodes, HasMemory(m)'
                 PROVE  result'[m] >= FirstFree /\ result'[m] + BytesOf(m) <= cur'
      BY <1>b DEF GivenInside
    <2>1. CASE m = n
      BY <2>1, <1>3, <1>7, <1>b DEF LayoutType, FirstFree, HeaderBytes, NodeBytes
    <2>2. CASE m # n
      <3>1. result[m] >= FirstFree /\ result[m] + BytesOf(m) <= cur /\ result[m] \in Nat
        BY <2>2, <1>6 DEF GivenInside, LayoutType, HasMemory
      <3> QED BY <2>2, <3>1, <1>3, <1>6, <1>b
    <2> QED BY <2>1, <2>2
  <1>11. GivenApart'
    <2>1. ASSUME NEW m \in Nodes \ {n}, HasMemory(m)', HasMemory(n)'
          PROVE  result'[m] + BytesOf(m) <= result'[n]
      <3>1. result[m] + BytesOf(m) <= cur /\ result[m] \in Nat
        BY <2>1, <1>6 DEF GivenInside, LayoutType, HasMemory
      <3> QED BY <2>1, <3>1, <1>3, <1>6, <1>7, <1>b
    <2>2. ASSUME NEW k \in Nodes \ {n}, NEW m \in Nodes \ {n}, k # m,
                 HasMemory(k)', HasMemory(m)'
          PROVE  \/ result'[k] + BytesOf(k) <= result'[m]
                 \/ result'[m] + BytesOf(m) <= result'[k]
      BY <2>2, <1>6 DEF GivenApart
    <2> QED BY <2>1, <2>2, <1>b DEF GivenApart
  <1>12. FullFailed'
    BY <1>7 DEF FullFailed
  <1>13. AnswerKept'
    BY <1>2 DEF AnswerKept
  <1> QED BY <1>5, <1>8, <1>9, <1>10, <1>11, <1>12, <1>13

LEMMA StepLayout ==
  ASSUME BuildInv, LayoutInv, NEW n \in Nodes,
         Throw(n) \/ Allocate(n) \/ ReadCur(n) \/ JoinChildren(n)
  PROVE  LayoutInv'
  <1> USE DEF SetStatus
  <1>t. status \in [Nodes -> Statuses] /\ LayoutType
    BY DEF BuildInv, TypeOK, LayoutInv
  <1>1. CASE Throw(n)
    BY <1>1, <1>t, QuietKeeps DEF Throw, inputs, allocVars
  <1>2. CASE Allocate(n) /\ cur >= End
    <2>1. /\ UNCHANGED <<leafData, cur, req, extra, answer, bytesOut>>
          /\ result' = [result EXCEPT ![n] = NullPtr]
          /\ status[n] = "enter" /\ status' = [status EXCEPT ![n] = "invalid"]
      BY <1>2 DEF Allocate, Alloc!BeginMalloc, Alloc!NullPtr, NullPtr, inputs
    <2>2. result[n] = NullPtr
      BY <2>1 DEF LayoutInv, GivenOnce, HasMemory
    <2>3. result' = result
      BY <1>t, <2>1, <2>2 DEF LayoutType
    <2> QED BY <1>t, <2>1, <2>3, QuietKeeps
  <1>3. CASE Allocate(n) /\ ~(cur >= End)
    <2>1. /\ UNCHANGED <<leafData, cur, result, extra, answer, bytesOut>>
          /\ req' = [req EXCEPT ![n] = RequestOf(n)]
          /\ status[n] = "enter" /\ status' = [status EXCEPT ![n] = "malloc"]
      BY <1>3 DEF Allocate, Alloc!BeginMalloc, inputs
    <2>2. RequestOf(n) \in [bytes : Nat, align : {16, 64}]
      BY <1>t, BytesPositive DEF RequestOf
    <2>3. LayoutType'
      BY <1>t, <2>1, <2>2 DEF LayoutType
    <2>4. \A m \in Nodes : BytesOf(m)' = BytesOf(m) /\ RequestOf(m)' = RequestOf(m)
      BY <2>1 DEF BytesOf, RequestOf
    <2>5. /\ status'[n] = "malloc" /\ req'[n] = RequestOf(n)
          /\ \A m \in Nodes \ {n} : status'[m] = status[m] /\ req'[m] = req[m]
      BY <1>t, <2>1 DEF LayoutType
    <2>6. AskedFor' /\ GivenOnce'
      BY <2>1, <2>4, <2>5 DEF LayoutInv, AskedFor, GivenOnce, HasMemory
    <2>7. GivenInside' /\ GivenApart'
      BY <2>1, <2>4 DEF LayoutInv, GivenInside, GivenApart, HasMemory
    <2>8. FullFailed' /\ AnswerKept'
      BY <2>1, <2>5, TreeAssumption DEF LayoutInv, FullFailed, AnswerKept
    <2> QED BY <2>3, <2>6, <2>7, <2>8 DEF LayoutInv
  <1>4. CASE ReadCur(n)
    <2>1. /\ UNCHANGED <<leafData, cur, req, result, status, answer, bytesOut>>
          /\ extra' = [extra EXCEPT ![n] = (0 - cur) % req[n].align]
      BY <1>4 DEF ReadCur, Alloc!ReadCur, Alloc!Padding, inputs
    <2>2. req[n].align \in {16, 64} /\ cur \in Nat
      BY <1>t DEF LayoutType
    <2>3. (0 - cur) % req[n].align \in Nat
      BY <2>2
    <2>4. LayoutType'
      BY <1>t, <2>1, <2>3 DEF LayoutType
    <2> QED BY <2>1, <2>4 DEF LayoutInv, AskedFor, GivenOnce, GivenInside, GivenApart,
                              FullFailed, AnswerKept, HasMemory, RequestOf, BytesOf
  <1>5. CASE JoinChildren(n)
    BY <1>5, <1>t, QuietKeeps DEF JoinChildren, inputs, allocVars
  <1> QED BY <1>1, <1>2, <1>3, <1>4, <1>5

LEMMA LayoutStep == BuildInv /\ LayoutInv /\ [Next]_vars => LayoutInv'
  <1> SUFFICES ASSUME BuildInv, LayoutInv, [Next]_vars PROVE LayoutInv'
    OBVIOUS
  <1>1. CASE UNCHANGED vars
    BY <1>1, QuietKeeps DEF vars, inputs, allocVars
  <1>2. CASE Finish
    <2>1. /\ UNCHANGED <<leafData, cur, req, extra, result, status>>
          /\ answer' = "SUCCESS" => status[Root] = "valid" /\ bytesOut' = cur
      BY <1>2 DEF Finish, inputs, allocVars
    <2> QED BY <2>1 DEF LayoutInv, LayoutType, AskedFor, GivenOnce, GivenInside, GivenApart,
                        FullFailed, AnswerKept, HasMemory, RequestOf, BytesOf
  <1>3. ASSUME NEW n \in Nodes, NodeStep(n)
        PROVE  LayoutInv'
    BY <1>3, StepLayout, ReserveLayout, RangeStepLayout DEF NodeStep, Places
  <1> QED BY <1>1, <1>2, <1>3 DEF Next

(* The slot of a node is in the block that its parent was given, and no two *)
(* nodes of a parent have the same.                                         *)
LEMMA SlotInParent ==
  ASSUME LayoutInv, \A n \in Nodes : HasMemory(n), NEW c \in Nodes \ {Root}
  PROVE  /\ Parent(c) \in Nodes /\ BytesOf(Parent(c)) \in Nat
         /\ Children[Parent(c)] # <<>>
         /\ c = Child(Parent(c), Position(c))
         /\ Position(c) \in Nat \ {0} /\ Offset(c) \in Nat
         /\ Offset(c) = result[Parent(c)] + (Position(c) - 1) * NodeBytes
         /\ Offset(c) >= result[Parent(c)]
         /\ Offset(c) + NodeBytes <= result[Parent(c)] + BytesOf(Parent(c))
  <1> DEFINE p == Parent(c)
             i == Position(c)
  <1>1. p \in Nodes /\ \E j \in DOMAIN Children[p] : Children[p][j] = c
    BY TreeFacts DEF Places, Child
  <1>2. i \in DOMAIN Children[p] /\ Children[p][i] = c
    BY <1>1 DEF Position
  <1>3. i \in 1 .. Len(Children[p]) /\ Len(Children[p]) \in Nat /\ c = Child(p, i)
    BY <1>1, <1>2, TreeFacts DEF Places, Child
  <1>4. Children[p] # <<>>
    BY <1>3
  <1>5. BytesOf(p) = Len(Children[p]) * 64
    BY <1>1, <1>4, BytesPositive DEF LayoutInv, NodeBytes
  <1>6. result[p] \in Nat
    BY <1>1 DEF LayoutInv, LayoutType, HasMemory
  <1>7. Offset(c) = result[p] + (i - 1) * 64
    BY DEF Offset, NodeBytes
  <1> HIDE DEF p, i
  <1>8. /\ BytesOf(p) \in Nat /\ i \in Nat \ {0} /\ Offset(c) \in Nat /\ Offset(c) >= result[p]
        /\ Offset(c) + 64 <= result[p] + BytesOf(p)
    BY <1>3, <1>5, <1>6, <1>7
  <1> QED BY <1>1, <1>3, <1>4, <1>7, <1>8 DEF p, i, NodeBytes

LEMMA SlotsApart ==
  ASSUME LayoutInv, \A n \in Nodes : HasMemory(n), NEW c \in Nodes, NEW d \in Nodes, c # d
  PROVE  Offset(c) + NodeBytes <= Offset(d) \/ Offset(d) + NodeBytes <= Offset(c)
  <1>r. \A x \in Nodes \ {Root} : Offset(Root) + NodeBytes <= Offset(x)
    <2> SUFFICES ASSUME NEW x \in Nodes \ {Root}
                 PROVE  Offset(Root) + NodeBytes <= Offset(x)
      OBVIOUS
    <2>1. result[Parent(x)] >= FirstFree /\ Offset(x) >= result[Parent(x)] /\ Offset(x) \in Nat
          /\ result[Parent(x)] \in Nat
      BY SlotInParent DEF LayoutInv, LayoutType, GivenInside, HasMemory
    <2> QED BY <2>1 DEF Offset, RootOffset, FirstFree, HeaderBytes, NodeBytes
  <1>1. CASE c = Root \/ d = Root
    BY <1>1, <1>r
  <1>2. CASE c # Root /\ d # Root /\ Parent(c) # Parent(d)
    <2> DEFINE p == Parent(c)
               q == Parent(d)
    <2>1. /\ p \in Nodes /\ q \in Nodes /\ BytesOf(p) \in Nat /\ BytesOf(q) \in Nat
          /\ Offset(c) \in Nat /\ Offset(c) >= result[p]
          /\ Offset(c) + NodeBytes <= result[p] + BytesOf(p)
          /\ Offset(d) \in Nat /\ Offset(d) >= result[q]
          /\ Offset(d) + NodeBytes <= result[q] + BytesOf(q)
      BY <1>2, SlotInParent
    <2>2. result[p] \in Nat /\ result[q] \in Nat
      BY <2>1 DEF LayoutInv, LayoutType, HasMemory
    <2>3. result[p] + BytesOf(p) <= result[q] \/ result[q] + BytesOf(q) <= result[p]
      BY <1>2, <2>1 DEF LayoutInv, GivenApart
    <2> HIDE DEF p, q
    <2> QED BY <2>1, <2>2, <2>3 DEF NodeBytes
  <1>3. CASE c # Root /\ d # Root /\ Parent(c) = Parent(d)
    <2> DEFINE p == Parent(c)
               i == Position(c)
               j == Position(d)
    <2>1. /\ p \in Nodes /\ c = Child(p, i) /\ d = Child(p, j)
          /\ i \in Nat /\ j \in Nat
          /\ Offset(c) = result[p] + (i - 1) * NodeBytes
          /\ Offset(d) = result[p] + (j - 1) * NodeBytes
      BY <1>3, SlotInParent
    <2>2. result[p] \in Nat /\ i # j
      BY <2>1 DEF LayoutInv, LayoutType, HasMemory
    <2> HIDE DEF p, i, j
    <2> QED BY <2>1, <2>2 DEF NodeBytes
  <1> QED BY <1>1, <1>2, <1>3

(* The data of a leaf are not where a node is, nor where the data of another *)
(* leaf are.                                                                *)
LEMMA DataApart ==
  ASSUME LayoutInv, \A n \in Nodes : HasMemory(n), NEW n \in Leaves
  PROVE  /\ n \in Nodes /\ BytesOf(n) = leafData[n] /\ leafData[n] \in Nat /\ result[n] \in Nat
         /\ \A c \in Nodes : \/ result[n] + leafData[n] <= Offset(c)
                             \/ Offset(c) + NodeBytes <= result[n]
         /\ \A m \in Leaves : m # n => \/ result[n] + leafData[n] <= result[m]
                                       \/ result[m] + leafData[m] <= result[n]
  <1>1. \A m \in Leaves : /\ m \in Nodes /\ Children[m] = <<>> /\ BytesOf(m) = leafData[m]
                          /\ BytesOf(m) \in Nat /\ result[m] \in Nat /\ result[m] >= FirstFree
    BY BytesPositive DEF Leaves, LayoutInv, LayoutType, HasMemory, GivenInside
  <1>2. ASSUME NEW c \in Nodes
        PROVE  \/ result[n] + leafData[n] <= Offset(c)
               \/ Offset(c) + NodeBytes <= result[n]
    <2>1. CASE c = Root
      BY <1>1, <2>1 DEF Offset, RootOffset, FirstFree, HeaderBytes, NodeBytes
    <2>2. CASE c # Root
      <3> DEFINE p == Parent(c)
      <3>1. /\ p \in Nodes /\ BytesOf(p) \in Nat /\ Children[p] # <<>>
            /\ Offset(c) \in Nat /\ Offset(c) >= result[p]
            /\ Offset(c) + NodeBytes <= result[p] + BytesOf(p)
        BY <2>2, SlotInParent
      <3>2. p # n /\ result[p] \in Nat
        BY <1>1, <3>1 DEF LayoutInv, LayoutType, HasMemory
      <3>3. result[p] + BytesOf(p) <= result[n] \/ result[n] + BytesOf(n) <= result[p]
        BY <1>1, <3>1, <3>2 DEF LayoutInv, GivenApart
      <3> HIDE DEF p
      <3> QED BY <1>1, <3>1, <3>2, <3>3 DEF NodeBytes
    <2> QED BY <2>1, <2>2
  <1>3. \A m \in Leaves : m # n => \/ result[n] + leafData[n] <= result[m]
                                   \/ result[m] + leafData[m] <= result[n]
    BY <1>1 DEF LayoutInv, GivenApart
  <1> QED BY <1>1, <1>2, <1>3

LEMMA LayoutImpliesSuccess ==
  ASSUME BuildInv, LayoutInv
  PROVE  SuccessLayout
  <1> SUFFICES ASSUME answer = "SUCCESS"
               PROVE  /\ \A n \in Nodes : status[n] = "valid"
                      /\ bytesOut = cur
                      /\ bytesOut < End
                      /\ \A f \in Footprints : /\ f.start >= HeaderBytes
                                               /\ f.start + f.bytes <= bytesOut
                      /\ \A f, g \in Footprints : f # g => Alloc!Disjoint(f, g)
    BY DEF SuccessLayout
  <1>1. \A n \in Nodes : status[n] = "valid"
    BY AllValid DEF LayoutInv, AnswerKept
  <1>2. bytesOut = cur /\ cur \in Nat
    BY DEF LayoutInv, AnswerKept, LayoutType
  <1>3. bytesOut < End
    BY <1>1, <1>2, EndAssumption DEF LayoutInv, FullFailed
  <1>4. \A n \in Nodes : HasMemory(n)
    BY <1>1 DEF LayoutInv, GivenOnce
  <1>5. \A f \in Footprints :
          \/ f.of \in Nodes /\ f.start = Offset(f.of) /\ f.bytes = NodeBytes
             /\ f = [of |-> f.of, start |-> Offset(f.of), bytes |-> NodeBytes]
          \/ f.of \in Leaves /\ f.start = result[f.of] /\ f.bytes = leafData[f.of]
             /\ f = [of |-> f.of, start |-> result[f.of], bytes |-> leafData[f.of]]
    BY DEF Footprints, Leaves
  <1>6. ASSUME NEW n \in Nodes
        PROVE  /\ result[n] \in Nat /\ result[n] >= FirstFree
               /\ BytesOf(n) \in Nat /\ result[n] + BytesOf(n) <= cur
    BY <1>4, BytesPositive DEF LayoutInv, GivenInside, LayoutType, HasMemory
  <1>7. ASSUME NEW f \in Footprints
        PROVE  f.start >= HeaderBytes /\ f.start + f.bytes <= bytesOut
    <2>1. CASE f.of \in Leaves /\ f.start = result[f.of] /\ f.bytes = leafData[f.of]
      BY <2>1, <1>2, <1>4, <1>6, DataApart DEF FirstFree, HeaderBytes, NodeBytes
    <2>2. CASE f.of = Root /\ f.start = Offset(f.of) /\ f.bytes = NodeBytes
      BY <2>2, <1>2 DEF LayoutInv, LayoutType, Offset, RootOffset, FirstFree, HeaderBytes, NodeBytes
    <2>3. CASE f.of \in Nodes \ {Root} /\ f.start = Offset(f.of) /\ f.bytes = NodeBytes
      <3>1. /\ Parent(f.of) \in Nodes /\ f.start \in Nat /\ f.start >= result[Parent(f.of)]
            /\ f.start + f.bytes <= result[Parent(f.of)] + BytesOf(Parent(f.of))
        BY <2>3, <1>4, SlotInParent
      <3> QED BY <2>3, <3>1, <1>2, <1>6 DEF FirstFree, HeaderBytes, NodeBytes
    <2> QED BY <2>1, <2>2, <2>3, <1>5
  <1>8. ASSUME NEW f \in Footprints, NEW g \in Footprints, f # g
        PROVE  f.start + f.bytes <= g.start \/ g.start + g.bytes <= f.start
    <2>1. CASE /\ f.of \in Leaves /\ f.start = result[f.of] /\ f.bytes = leafData[f.of]
               /\ f = [of |-> f.of, start |-> result[f.of], bytes |-> leafData[f.of]]
               /\ g.of \in Leaves /\ g.start = result[g.of] /\ g.bytes = leafData[g.of]
               /\ g = [of |-> g.of, start |-> result[g.of], bytes |-> leafData[g.of]]
      <3>1. f.of # g.of
        BY <1>8, <2>1
      <3> QED BY <2>1, <3>1, <1>4, DataApart
    <2>2. CASE /\ f.of \in Leaves /\ f.start = result[f.of] /\ f.bytes = leafData[f.of]
               /\ g.of \in Nodes /\ g.start = Offset(g.of) /\ g.bytes = NodeBytes
      BY <2>2, <1>4, DataApart
    <2>3. CASE /\ g.of \in Leaves /\ g.start = result[g.of] /\ g.bytes = leafData[g.of]
               /\ f.of \in Nodes /\ f.start = Offset(f.of) /\ f.bytes = NodeBytes
      BY <2>3, <1>4, DataApart
    <2>4. CASE /\ f.of \in Nodes /\ f.start = Offset(f.of) /\ f.bytes = NodeBytes
               /\ f = [of |-> f.of, start |-> Offset(f.of), bytes |-> NodeBytes]
               /\ g.of \in Nodes /\ g.start = Offset(g.of) /\ g.bytes = NodeBytes
               /\ g = [of |-> g.of, start |-> Offset(g.of), bytes |-> NodeBytes]
      <3>1. f.of # g.of
        BY <1>8, <2>4
      <3> QED BY <2>4, <3>1, <1>4, SlotsApart
    <2> QED BY <2>1, <2>2, <2>3, <2>4, <1>5
  <1> QED BY <1>1, <1>2, <1>3, <1>7, <1>8 DEF Alloc!Disjoint

(* For every tree and every order of its tasks: when a build succeeds every *)
(* node and all leaf data have been written, each at a place of its own     *)
(* behind the header, and inside the size that is reported.                 *)
THEOREM SuccessIsLaidOut == Spec => []SuccessLayout
  <1>1. BuildInv /\ LayoutInv => SuccessLayout
    BY LayoutImpliesSuccess
  <1>2. Init => BuildInv /\ LayoutInv
    BY BuildInvInit, LayoutInit
  <1>3. BuildInv /\ LayoutInv /\ [Next]_vars => (BuildInv /\ LayoutInv)'
    BY BuildInvStep, LayoutStep
  <1> QED BY <1>1, <1>2, <1>3, PTL DEF Spec
------------------------------------------------------------------------------
(* Why a build fails. The counter never passes what the nodes that have     *)
(* called malloc need, because all sizes are whole blocks and nothing is    *)
(* lost to alignment; a failure is one of malloc, which found the buffer    *)
(* full, and an exception is one of a tree that is too deep.                *)
Served == {n \in Nodes : status[n] \in Returned \union {"build"}}

SizeOf == [n \in Nodes |-> BytesOf(n)]

WholeBlocks ==
  /\ \A n \in Nodes : BytesOf(n) % 64 = 0 /\ extra[n] = 0
  /\ cur % 64 = 0

NoneWasted == cur <= FirstFree + SumFunctionOnSet(SizeOf, Served)

FailureMeansFull ==
  \A n \in Nodes : status[n] = "invalid" \/ ~success[n] => refused /\ cur >= End

ThrowMeansDeep ==
  \A n \in Nodes : status[n] = "thrown" \/ cancelled[n] => tooDeep # {}

JustInv ==
  /\ WholeBlocks /\ NoneWasted /\ FailureMeansFull /\ ThrowMeansDeep /\ AnswerJustified

LEMMA SizeFacts ==
  ASSUME LayoutInv
  PROVE  /\ IsFiniteSet(Nodes) /\ IsFiniteSet(Served) /\ Served \subseteq Nodes
         /\ \A n \in Nodes : SizeOf[n] = BytesOf(n) /\ SizeOf[n] \in Nat
         /\ SumFunctionOnSet(SizeOf, Served) \in Nat
         /\ SumFunctionOnSet(SizeOf, Nodes) \in Nat
         /\ SumFunctionOnSet(SizeOf, Served) <= SumFunctionOnSet(SizeOf, Nodes)
         /\ cur \in Nat /\ End \in Nat
  <1>1. IsFiniteSet(Nodes)
    BY TreeAssumption
  <1>2. Served \subseteq Nodes /\ IsFiniteSet(Served)
    BY <1>1, FS_Subset DEF Served
  <1>3. \A n \in Nodes : SizeOf[n] = BytesOf(n) /\ SizeOf[n] \in Nat
    BY BytesPositive DEF SizeOf, LayoutInv
  <1> HIDE DEF Served, SizeOf
  <1>4. SumFunctionOnSet(SizeOf, Served) \in Nat
    <2>1. \A n \in Served : SizeOf[n] \in Nat
      BY <1>2, <1>3
    <2> QED BY <1>2, <2>1, SumNat
  <1>5. SumFunctionOnSet(SizeOf, Nodes) \in Nat
    BY <1>1, <1>3, SumNat
  <1>6. SumFunctionOnSet(SizeOf, Served) <= SumFunctionOnSet(SizeOf, Nodes)
    BY <1>1, <1>2, <1>3, SumSubset
  <1> QED BY <1>1, <1>2, <1>3, <1>4, <1>5, <1>6, EndAssumption DEF LayoutInv, LayoutType

LEMMA JustInit == Init => JustInv
  <1> SUFFICES ASSUME Init PROVE JustInv
    OBVIOUS
  <1>1. ASSUME NEW n \in Nodes
        PROVE  BytesOf(n) % 64 = 0
    <2>1. CASE Children[n] = <<>>
      <3>1. leafData \in [Leaves -> LeafSizes] /\ n \in Leaves
        BY <2>1, TreeAssumption DEF Init, Leaves
      <3>2. leafData[n] \in LeafSizes
        BY <3>1
      <3> QED BY <2>1, <3>2 DEF BytesOf, LeafSizes
    <2>2. CASE Children[n] # <<>>
      <3>1. Len(Children[n]) \in Nat
        BY TreeFacts
      <3>2. \A k \in Nat : (k * 64) % 64 = 0
        OBVIOUS
      <3> QED BY <2>2, <3>1, <3>2 DEF BytesOf, NodeBytes
    <2> QED BY <2>1, <2>2
  <1>2. WholeBlocks
    BY <1>1 DEF Init, WholeBlocks, FirstFree, HeaderBytes, NodeBytes
  <1>3. NoneWasted
    <2>1. Served = {}
      BY DEF Init, Served, Returned
    <2> HIDE DEF Served
    <2>2. SumFunctionOnSet(SizeOf, {}) = 0
      BY SumEmpty
    <2> QED BY <2>1, <2>2 DEF NoneWasted, Init, FirstFree, HeaderBytes, NodeBytes
  <1>4. FailureMeansFull /\ ThrowMeansDeep
    BY DEF Init, FailureMeansFull, ThrowMeansDeep
  <1>5. AnswerJustified
    BY DEF Init, AnswerJustified
  <1> QED BY <1>2, <1>3, <1>4, <1>5 DEF JustInv

(* Steps that leave the counter alone.                                      *)
LEMMA QuietJustified ==
  ASSUME LayoutInv, JustInv, UNCHANGED <<inputs, cur, answer>>, LayoutInv',
         refused => refused',
         \A n \in Nodes :
           /\ extra'[n] = 0
           /\ n \in Served => n \in Served'
           /\ status'[n] = "invalid" \/ ~success'[n] => refused' /\ cur >= End
           /\ status'[n] = "thrown" \/ cancelled'[n] => tooDeep # {}
  PROVE  JustInv'
  <1>1. \A n \in Nodes : BytesOf(n)' = BytesOf(n)
    BY DEF BytesOf, inputs
  <1>2. WholeBlocks'
    BY <1>1 DEF JustInv, WholeBlocks
  <1>3. NoneWasted'
    <2>1. SizeOf' = SizeOf
      BY <1>1 DEF SizeOf
    <2>2. Served \subseteq Served' /\ Served' \subseteq Nodes
      BY DEF Served
    <2>4. IsFiniteSet(Nodes) /\ \A n \in Nodes : SizeOf[n] \in Nat
      BY SizeFacts
    <2>5. /\ SumFunctionOnSet(SizeOf, Served) <= SumFunctionOnSet(SizeOf, Served')
          /\ SumFunctionOnSet(SizeOf, Served') \in Nat
      <3> DEFINE S == Served'
      <3>1. IsFiniteSet(S)
        BY <2>2, <2>4, FS_Subset
      <3>2. Served \in SUBSET S /\ \A n \in S : SizeOf[n] \in Nat
        BY <2>2, <2>4
      <3> HIDE DEF S
      <3>3. /\ SumFunctionOnSet(SizeOf, Served) <= SumFunctionOnSet(SizeOf, S)
            /\ SumFunctionOnSet(SizeOf, S) \in Nat
        BY <3>1, <3>2, SumSubset, SumNat
      <3> QED BY <3>3 DEF S
    <2>6. /\ cur' = cur /\ cur \in Nat
          /\ SumFunctionOnSet(SizeOf, Served) \in Nat
          /\ cur <= FirstFree + SumFunctionOnSet(SizeOf, Served)
      BY SizeFacts DEF JustInv, NoneWasted
    <2> QED BY <2>1, <2>5, <2>6 DEF NoneWasted, FirstFree, HeaderBytes, NodeBytes
  <1>4. FailureMeansFull' /\ ThrowMeansDeep'
    BY DEF FailureMeansFull, ThrowMeansDeep, inputs
  <1>5. BytesNeeded' = BytesNeeded
    BY <1>1 DEF BytesNeeded
  <1>6. AnswerJustified'
    BY <1>5 DEF JustInv, AnswerJustified, inputs
  <1> QED BY <1>2, <1>3, <1>4, <1>6 DEF JustInv

(* malloc adds the size of its node to the counter, no more, and fails only *)
(* when that reaches the end.                                               *)
LEMMA ReserveJustified ==
  ASSUME BuildInv, LayoutInv, JustInv, NEW n \in Nodes, Reserve(n), LayoutInv'
  PROVE  JustInv'
  <1> USE DEF SetStatus
  <1>t. status \in [Nodes -> Statuses] /\ extra \in [Nodes -> Nat]
    BY DEF BuildInv, TypeOK, LayoutInv, LayoutType
  <1>1. \A m \in Nodes : BytesOf(m)' = BytesOf(m)
    BY DEF Reserve, BytesOf, inputs
  <1>2. /\ status[n] = "malloc" /\ req[n].bytes = BytesOf(n) /\ extra[n] = 0
        /\ UNCHANGED <<inputs, success, cancelled, answer>>
    <2>1. status[n] = "malloc" /\ UNCHANGED <<inputs, success, cancelled, answer>>
      BY DEF Reserve
    <2>2. req[n] = RequestOf(n) /\ extra[n] = 0
      BY <2>1 DEF LayoutInv, AskedFor, JustInv, WholeBlocks
    <2> QED BY <2>1, <2>2 DEF RequestOf
  <1>3. cur \in Nat /\ BytesOf(n) \in Nat /\ cur' = cur + BytesOf(n)
    BY <1>2, BytesPositive DEF LayoutInv, LayoutType, Reserve, Alloc!FetchAdd
  <1>4. /\ extra' = [extra EXCEPT ![n] = 0]
        /\ refused \/ result'[n] = NullPtr => refused'
        /\ status' = [status EXCEPT ![n] = status'[n]]
        /\ status'[n] \in {"valid", "build", "invalid"}
        /\ result'[n] = NullPtr <=> status'[n] = "invalid"
        /\ status'[n] = "invalid" => cur' >= End
    <2>1. /\ extra' = [extra EXCEPT ![n] = 0]
          /\ \/ /\ cur' >= End /\ result' = [result EXCEPT ![n] = NullPtr]
                /\ refused' = (refused \/ NullPtr = NullPtr)
             \/ /\ ~(cur' >= End) /\ result' = [result EXCEPT ![n] = cur]
                /\ refused' = (refused \/ cur = NullPtr)
      BY <1>2, <1>3 DEF Reserve, Alloc!FetchAdd, Alloc!Return, Alloc!NullPtr, NullPtr
    <2>2. /\ cur' >= End => result'[n] = NullPtr /\ refused'
          /\ ~(cur' >= End) => result'[n] # NullPtr
          /\ refused => refused'
      <3>1. result \in [Nodes -> Nat \union {NullPtr}] /\ cur # NullPtr
        BY <1>3 DEF LayoutInv, LayoutType, NullPtr
      <3>2. CASE cur' >= End
        BY <2>1, <3>1, <3>2
      <3>3. CASE ~(cur' >= End)
        BY <2>1, <3>1, <3>3
      <3> QED BY <3>2, <3>3
    <2>3. /\ status' = [status EXCEPT ![n] = status'[n]]
          /\ status'[n] \in {"valid", "build", "invalid"}
          /\ result'[n] = NullPtr <=> status'[n] = "invalid"
      BY <1>t DEF Reserve
    <2> QED BY <2>1, <2>2, <2>3
  <1>5. WholeBlocks'
    <2>1. cur % 64 = 0 /\ BytesOf(n) % 64 = 0
      BY DEF JustInv, WholeBlocks
    <2>2. cur' % 64 = 0
      BY <1>3, <2>1
    <2>3. \A m \in Nodes : extra'[m] = 0
      BY <1>4, <1>t DEF JustInv, WholeBlocks
    <2> QED BY <1>1, <2>2, <2>3 DEF JustInv, WholeBlocks
  <1>6. NoneWasted'
    <2>1. SizeOf' = SizeOf
      BY <1>1 DEF SizeOf
    <2>2. Served' = Served \union {n} /\ n \notin Served
      BY <1>2, <1>4, <1>t DEF Served, Returned
    <2>3. /\ IsFiniteSet(Served) /\ SizeOf[n] = BytesOf(n) /\ SizeOf[n] \in Int
          /\ \A m \in Served : SizeOf[m] \in Int
          /\ SumFunctionOnSet(SizeOf, Served) \in Nat
      BY SizeFacts
    <2>4. SumFunctionOnSet(SizeOf, Served \union {n})
            = SizeOf[n] + SumFunctionOnSet(SizeOf, Served)
      <3> HIDE DEF SizeOf, Served
      <3> QED BY <2>2, <2>3, SumAdd
    <2>5. cur <= FirstFree + SumFunctionOnSet(SizeOf, Served)
      BY DEF JustInv, NoneWasted
    <2>6. cur + BytesOf(n) <= FirstFree + SumFunctionOnSet(SizeOf, Served \union {n})
      BY <1>3, <2>3, <2>4, <2>5 DEF FirstFree, HeaderBytes, NodeBytes
    <2> QED BY <1>3, <2>1, <2>2, <2>6 DEF NoneWasted
  <1>7. FailureMeansFull'
    <2> SUFFICES ASSUME NEW m \in Nodes, status'[m] = "invalid" \/ ~success'[m]
                 PROVE  refused' /\ cur' >= End
      BY DEF FailureMeansFull
    <2>1. CASE m = n /\ status'[m] = "invalid"
      BY <2>1, <1>4
    <2>2. CASE ~(m = n /\ status'[m] = "invalid")
      <3>1. status[m] = "invalid" \/ ~success[m]
        BY <2>2, <1>2, <1>4, <1>t
      <3>2. refused /\ cur >= End
        BY <3>1 DEF JustInv, FailureMeansFull
      <3>3. End \in Nat
        BY EndAssumption
      <3> QED BY <3>2, <3>3, <1>3, <1>4
    <2> QED BY <2>1, <2>2
  <1>8. ThrowMeansDeep'
    BY <1>2, <1>4, <1>t DEF ThrowMeansDeep, JustInv, inputs
  <1>9. AnswerJustified'
    <2>1. BytesNeeded' = BytesNeeded
      BY <1>1 DEF BytesNeeded
    <2> QED BY <2>1, <1>2, <1>4 DEF JustInv, AnswerJustified, inputs
  <1> QED BY <1>5, <1>6, <1>7, <1>8, <1>9 DEF JustInv

LEMMA StepJustified ==
  ASSUME BuildInv, LayoutInv, JustInv, LayoutInv', NEW n \in Nodes,
         Throw(n) \/ Allocate(n) \/ ReadCur(n) \/ JoinChildren(n)
  PROVE  JustInv'
  <1> USE DEF SetStatus
  <1>t. status \in [Nodes -> Statuses] /\ \A m \in Nodes : extra[m] = 0
    BY DEF BuildInv, TypeOK, JustInv, WholeBlocks
  <1>o. /\ \A m \in Nodes : status[m] = "invalid" \/ ~success[m] => refused /\ cur >= End
        /\ \A m \in Nodes : status[m] = "thrown" \/ cancelled[m] => tooDeep # {}
    BY DEF JustInv, FailureMeansFull, ThrowMeansDeep
  <1>1. CASE Throw(n)
    BY <1>1, <1>t, <1>o, QuietJustified DEF Throw, inputs, allocVars, Served, Returned
  <1>2. CASE Allocate(n)
    <2>1. /\ status[n] = "enter" /\ UNCHANGED <<inputs, cur, extra, success, cancelled, answer>>
          /\ \/ /\ cur >= End /\ status' = [status EXCEPT ![n] = "invalid"] /\ refused'
             \/ /\ status' = [status EXCEPT ![n] = "malloc"] /\ refused' = refused
      BY <1>2 DEF Allocate, Alloc!BeginMalloc
    <2> QED BY <2>1, <1>t, <1>o, QuietJustified DEF Served, Returned
  <1>3. CASE ReadCur(n)
    <2>1. /\ UNCHANGED <<inputs, cur, status, success, cancelled, answer, refused>>
          /\ extra' = [extra EXCEPT ![n] = (0 - cur) % req[n].align]
          /\ req[n] = RequestOf(n)
      BY <1>3 DEF ReadCur, Alloc!ReadCur, Alloc!Padding, LayoutInv, AskedFor
    <2>2. cur \in Nat /\ cur % 64 = 0
      BY DEF LayoutInv, LayoutType, JustInv, WholeBlocks
    <2>3. (0 - cur) % 64 = 0
      BY <2>2
    <2>4. \A m \in Nodes : extra'[m] = 0
      BY <1>t, <2>1, <2>3 DEF RequestOf, LayoutInv, LayoutType
    <2> QED BY <2>1, <2>4, <1>o, QuietJustified DEF Served
  <1>4. CASE JoinChildren(n)
    <2>1. IsCancelled(n) => tooDeep # {}
      BY <1>o DEF IsCancelled
    <2>2. /\ status[n] = "build" /\ UNCHANGED <<inputs, cur, extra, success, cancelled, answer, refused>>
          /\ \/ status' = [status EXCEPT ![n] = "thrown"] /\ tooDeep # {}
             \/ status' = [status EXCEPT ![n] = "valid"]
             \/ status' = [status EXCEPT ![n] = "invalid"] /\ ~success[n]
      BY <1>4, <2>1 DEF JoinChildren, allocVars
    <2> QED BY <2>2, <1>t, <1>o, QuietJustified DEF Served, Returned
  <1> QED BY <1>1, <1>2, <1>3, <1>4

LEMMA RangeStepJustified ==
  ASSUME BuildInv, LayoutInv, JustInv, LayoutInv', NEW n \in Nodes, NEW i \in Places(n),
         \/ StartRange(n, i) \/ DropRange(n, i) \/ NextChild(n, i)
         \/ FailRange(n, i) \/ ThrowRange(n, i) \/ Unwind(n, i)
  PROVE  JustInv'
  <1> USE DEF SetStatus
  <1>t. /\ status \in [Nodes -> Statuses] /\ success \in [Nodes -> BOOLEAN]
        /\ cancelled \in [Nodes -> BOOLEAN] /\ Child(n, i) \in Nodes
    BY TreeFacts DEF BuildInv, TypeOK
  <1>q. UNCHANGED <<inputs, cur, extra, refused, answer>> /\ \A m \in Nodes : extra'[m] = 0
    BY DEF StartRange, DropRange, NextChild, FailRange, ThrowRange, Unwind, inputs, allocVars,
           JustInv, WholeBlocks
  <1>o. /\ \A m \in Nodes : status[m] = "invalid" \/ ~success[m] => refused /\ cur >= End
        /\ \A m \in Nodes : status[m] = "thrown" \/ cancelled[m] => tooDeep # {}
    BY DEF JustInv, FailureMeansFull, ThrowMeansDeep
  <1>1. /\ \A m \in Nodes : ~success'[m] => ~success[m] \/ status[Child(n, i)] = "invalid"
        /\ \A m \in Nodes : cancelled'[m] => cancelled[m] \/ status[Child(n, i)] = "thrown"
    BY <1>t DEF StartRange, DropRange, NextChild, FailRange, ThrowRange, Unwind
  <1>2. /\ \A m \in Nodes : ~success'[m] => refused /\ cur >= End
        /\ \A m \in Nodes : cancelled'[m] => tooDeep # {}
    BY <1>1, <1>o, <1>t
  <1>3. \A m \in Nodes :
           \/ status'[m] = status[m]
           \/ Unstarted(m) /\ status'[m] \in {"skipped", "enter"}
           \/ status[m] = "build" /\ status'[m] = "thrown" /\ tooDeep # {}
    <2>1. status[Child(n, i)] = "idle" => \A j \in Rest(n, i) : Unstarted(Child(n, j))
      BY RestUnstarted DEF Unstarted
    <2>2. status[Child(n, i)] \in {"invalid", "thrown"} =>
            \A j \in Rest(n, i) \ {i} : Unstarted(Child(n, j))
      BY RestUnstarted
    <2>3. \/ status[Child(n, i)] = "idle" /\ status' = [status EXCEPT ![Child(n, i)] = "enter"]
          \/ status[Child(n, i)] = "idle" /\ Skip(n, Rest(n, i))
          \/ status[Child(n, i)] \in {"invalid", "thrown"} /\ Skip(n, Rest(n, i) \ {i})
          \/ /\ status[n] = "build" /\ status' = [status EXCEPT ![n] = "thrown"]
             /\ status[Child(n, i)] = "thrown"
      BY DEF StartRange, DropRange, NextChild, FailRange, ThrowRange, Unwind
    <2>4. CASE status[Child(n, i)] = "idle" /\ status' = [status EXCEPT ![Child(n, i)] = "enter"]
      BY <2>4, <1>t DEF Unstarted
    <2>5. CASE status[Child(n, i)] = "idle" /\ Skip(n, Rest(n, i))
      BY <2>1, <2>5 DEF Skip
    <2>6. CASE status[Child(n, i)] \in {"invalid", "thrown"} /\ Skip(n, Rest(n, i) \ {i})
      BY <2>2, <2>6 DEF Skip
    <2>7. CASE /\ status[n] = "build" /\ status' = [status EXCEPT ![n] = "thrown"]
               /\ status[Child(n, i)] = "thrown"
      BY <2>7, <1>t, <1>o
    <2> QED BY <2>3, <2>4, <2>5, <2>6, <2>7
  <1>4. \A m \in Nodes : /\ m \in Served => m \in Served'
                         /\ status'[m] = "invalid" => status[m] = "invalid"
                         /\ status'[m] = "thrown" => tooDeep # {}
    BY <1>3, <1>o DEF Served, Returned, Unstarted
  <1> QED BY <1>2, <1>4, <1>o, <1>q, QuietJustified

LEMMA FinishJustified ==
  ASSUME LayoutInv, JustInv, LayoutInv', Finish
  PROVE  JustInv'
  <1>1. UNCHANGED <<inputs, cur, extra, refused, status, success, cancelled>>
    BY DEF Finish, allocVars
  <1>2. BytesNeeded = FirstFree + SumFunctionOnSet(SizeOf, Nodes)
    BY DEF BytesNeeded, SizeOf
  <1>3. WholeBlocks' /\ NoneWasted' /\ FailureMeansFull' /\ ThrowMeansDeep'
    BY <1>1 DEF JustInv, WholeBlocks, NoneWasted, FailureMeansFull, ThrowMeansDeep,
                BytesOf, SizeOf, Served, inputs
  <1>4. status[Root] = "invalid" => refused /\ BytesNeeded >= End
    <2>1. status[Root] = "invalid" => refused /\ cur >= End
      BY TreeAssumption DEF JustInv, FailureMeansFull
    <2>2. cur <= FirstFree + SumFunctionOnSet(SizeOf, Served)
      BY DEF JustInv, NoneWasted
    <2> QED BY <1>2, <2>1, <2>2, SizeFacts DEF FirstFree, HeaderBytes, NodeBytes
  <1>5. status[Root] = "thrown" => tooDeep # {}
    BY TreeAssumption DEF JustInv, ThrowMeansDeep
  <1>6. BytesNeeded' = BytesNeeded
    BY <1>1 DEF BytesNeeded, BytesOf, inputs
  <1>7. AnswerJustified'
    BY <1>1, <1>4, <1>5, <1>6 DEF Finish, AnswerJustified, inputs
  <1> QED BY <1>3, <1>7 DEF JustInv

LEMMA JustStep == BuildInv /\ LayoutInv /\ JustInv /\ [Next]_vars => JustInv'
  <1> SUFFICES ASSUME BuildInv, LayoutInv, JustInv, [Next]_vars PROVE JustInv'
    OBVIOUS
  <1>1. LayoutInv'
    BY LayoutStep
  <1>2. CASE UNCHANGED vars
    BY <1>2 DEF vars, inputs, allocVars, JustInv, WholeBlocks, NoneWasted, FailureMeansFull,
                ThrowMeansDeep, AnswerJustified, BytesOf, BytesNeeded, SizeOf, Served
  <1>3. CASE Finish
    BY <1>1, <1>3, FinishJustified
  <1>4. ASSUME NEW n \in Nodes, NodeStep(n)
        PROVE  JustInv'
    BY <1>1, <1>4, StepJustified, ReserveJustified, RangeStepJustified DEF NodeStep, Places
  <1> QED BY <1>2, <1>3, <1>4 DEF Next

(* For every tree and every order of its tasks: a caller that is told to    *)
(* retry had a buffer that could not hold the tree, and only a tree that is *)
(* too deep is an unknown error.                                            *)
THEOREM FailuresAreJustified == Spec => []AnswerJustified
  <1>1. JustInv => AnswerJustified
    BY DEF JustInv
  <1>2. Init => BuildInv /\ LayoutInv /\ JustInv
    BY BuildInvInit, LayoutInit, JustInit
  <1>3. BuildInv /\ LayoutInv /\ JustInv /\ [Next]_vars => (BuildInv /\ LayoutInv /\ JustInv)'
    BY BuildInvStep, LayoutStep, JustStep
  <1> QED BY <1>1, <1>2, <1>3, PTL DEF Spec

------------------------------------------------------------------------------
(* The prefix sum. The model's sums are those of SumTheorems.               *)
LEMMA PrefixSumIs ==
  /\ \A S : PrefixSum!Sum(S) = SumFunctionOnSet(src, S)
  /\ \A S : PrefixSum!MapThenSumSet(LAMBDA u : counts[u], S) = SumFunctionOnSet(counts, S)
  BY DEF PrefixSum!Sum, PrefixSum!MapThenSumSet, PrefixSum!MapThenFoldSet,
         SumFunctionOnSet, FoldFunctionOnSet, MapThenFoldSet

LEMMA SegmentIs == \A t : PrefixSum!Segment(t) = Segment(t, N, PrefixSum!taskCount)
  BY DEF PrefixSum!Segment, Segment, Cut

(* s has n items, k tasks sum them; the tasks in lf have not run. Counts,   *)
(* once made, stay, and each task finds in sm what is before its segment.   *)
SumsOK(n, s, k, p, lf, cn, sm, d, tot) ==
  /\ n \in Nat /\ s \in [0 .. n - 1 -> Nat]
  /\ p \in 0 .. 3 /\ (p \notin {1, 2} => lf = {})
  /\ cn = [t \in 0 .. MaxTasks - 1 |-> cn[t]] /\ sm = [t \in 0 .. MaxTasks - 1 |-> sm[t]]
  /\ d = [i \in 0 .. n - 1 |-> d[i]]
  /\ p \in {1, 2} =>
       /\ k \in 1 .. MaxTasks
       /\ lf \subseteq 0 .. k - 1
       /\ \A t \in 0 .. k - 1 :
            p = 2 \/ t \notin lf => cn[t] = SumFunctionOnSet(s, Segment(t, n, k))
  /\ p = 2 =>
       /\ \A t \in 0 .. k - 1 : sm[t] = Below(s, Cut(t, n, k))
       /\ \A t \in 0 .. k - 1 : t \notin lf =>
            \A i \in Segment(t, n, k) : d[i] = Below(s, i)
  /\ p = 3 =>
       /\ \A i \in 0 .. n - 1 : d[i] = Below(s, i)
       /\ tot = Below(s, n)

PrefixInv ==
  SumsOK(N, src, PrefixSum!taskCount, pass, leftOnes, counts, sums, dst, total)

LEMMA PrefixSumMin ==
  ASSUME NEW S, \E x \in S : \A y \in S : x <= y
  PROVE  PrefixSum!Min(S) \in S /\ \A y \in S : PrefixSum!Min(S) <= y
  BY DEF PrefixSum!Min

LEMMA PrefixTaskCount ==
  ASSUME PrefixSum!PrefixSumAssumption, N \in Nat, threadCount \in Nat \ {0}, N >= Threshold
  PROVE  PrefixSum!taskCount \in 1 .. MaxTasks
  <1> DEFINE S == {threadCount, PrefixSum!numBlocks, MaxTasks}
  <1>1. N \in Nat \ {0} /\ MinStepSize \in Nat \ {0} /\ MaxTasks \in Nat \ {0}
    BY DEF PrefixSum!PrefixSumAssumption
  <1>2. PrefixSum!numBlocks \in Nat \ {0}
    <2>1. N + MinStepSize - 1 \in Nat /\ N + MinStepSize - 1 >= MinStepSize
      BY <1>1
    <2>2. \A x, y \in Nat : y # 0 /\ x >= y => x \div y \in Nat \ {0}
      OBVIOUS
    <2> QED BY <1>1, <2>1, <2>2 DEF PrefixSum!numBlocks
  <1>3. S \subseteq Nat \ {0} /\ S # {} /\ MaxTasks \in S
    BY <1>1, <1>2
  <1>4. PrefixSum!taskCount = PrefixSum!Min(S)
    BY DEF PrefixSum!taskCount
  <1> HIDE DEF S
  <1>5. \E x \in S : \A y \in S : x <= y
    BY <1>3, SmallestNat
  <1>6. PrefixSum!Min(S) \in S /\ \A y \in S : PrefixSum!Min(S) <= y
    BY <1>5, PrefixSumMin
  <1>7. PrefixSum!taskCount \in Nat \ {0} /\ PrefixSum!taskCount <= MaxTasks
    BY <1>3, <1>4, <1>6
  <1> QED BY <1>1, <1>7

LEMMA PrefixInit ==
  ASSUME PrefixSum!PrefixSumAssumption, PrefixSum!Init
  PROVE  PrefixInv /\ threadCount \in Nat \ {0}
  <1>1. N \in Nat /\ src \in [0 .. N - 1 -> Nat] /\ threadCount \in Nat \ {0}
    BY DEF PrefixSum!Init, PrefixSum!PrefixSumAssumption, PrefixSum!Items
  <1> QED BY <1>1 DEF PrefixSum!Init, PrefixSum!Items, PrefixSum!Tasks, PrefixInv, SumsOK

LEMMA PrefixSerial ==
  ASSUME PrefixInv, PrefixSum!Serial
  PROVE  PrefixInv'
  <1>1. /\ pass = 0 /\ pass' = 3 /\ dst' = [i \in 0 .. N - 1 |-> Below(src, i)] /\ total' = Below(src, N)
        /\ UNCHANGED <<N, src, threadCount, leftOnes, counts, sums>>
    BY PrefixSumIs DEF PrefixSum!Serial, PrefixSum!Items, Below
  <1> QED BY <1>1 DEF PrefixInv, SumsOK

LEMMA PrefixBegin ==
  ASSUME PrefixSum!PrefixSumAssumption, threadCount \in Nat \ {0}, PrefixInv, PrefixSum!Begin
  PROVE  PrefixInv'
  <1>1. PrefixSum!taskCount \in 1 .. MaxTasks
    BY PrefixTaskCount DEF PrefixInv, SumsOK, PrefixSum!Begin
  <1>2. PrefixSum!taskCount' = PrefixSum!taskCount
    BY DEF PrefixSum!Begin, PrefixSum!taskCount, PrefixSum!numBlocks
  <1> QED BY <1>1, <1>2 DEF PrefixInv, SumsOK, PrefixSum!Begin

LEMMA PrefixRunTask ==
  ASSUME PrefixSum!PrefixSumAssumption, PrefixInv, NEW t, PrefixSum!RunTask(t)
  PROVE  PrefixInv'
  <1> DEFINE k == PrefixSum!taskCount
             own == Segment(t, N, k)
  <1>1. /\ N \in Nat /\ src \in [0 .. N - 1 -> Nat] /\ k \in 1 .. MaxTasks /\ k \in Nat \ {0}
        /\ leftOnes \subseteq 0 .. k - 1 /\ t \in leftOnes /\ t \in 0 .. k - 1 /\ pass \in {1, 2}
        /\ counts = [u \in 0 .. MaxTasks - 1 |-> counts[u]]
        /\ dst = [i \in 0 .. N - 1 |-> dst[i]]
    BY DEF PrefixInv, SumsOK, PrefixSum!RunTask
  <1>2. /\ UNCHANGED <<N, src, threadCount, pass, sums, total>> /\ leftOnes' = leftOnes \ {t}
        /\ counts' = [counts EXCEPT ![t] = SumFunctionOnSet(src, own)]
        /\ dst' = IF pass = 1 THEN dst
                  ELSE [i \in 0 .. N - 1 |->
                          IF i \in own THEN sums[t] + SumFunctionOnSet(src, own \cap (0 .. i - 1))
                          ELSE dst[i]]
    <2>1. \A S : PrefixSum!Sum(S) = SumFunctionOnSet(src, S)
      BY PrefixSumIs
    <2>2. PrefixSum!Segment(t) = own
      BY SegmentIs
    <2> HIDE DEF own
    <2> QED BY <2>1, <2>2 DEF PrefixSum!RunTask, PrefixSum!Items
  <1>3. k' = k
    BY <1>2 DEF PrefixSum!taskCount, PrefixSum!numBlocks
  <1> HIDE DEF k
  <1>4. \A u \in 0 .. k - 1 : pass = 2 \/ u \notin leftOnes \ {t} =>
          counts'[u] = SumFunctionOnSet(src, Segment(u, N, k))
    <2>1. \A u \in 0 .. k - 1 : pass = 2 \/ u \notin leftOnes =>
            counts[u] = SumFunctionOnSet(src, Segment(u, N, k))
      BY <1>1 DEF PrefixInv, SumsOK, k
    <2>4. MaxTasks \in Nat
      BY DEF PrefixSum!PrefixSumAssumption
    <2>5. k \in 1 .. MaxTasks
      BY <1>1
    <2>6. 0 .. k - 1 \subseteq 0 .. MaxTasks - 1
      BY <2>4, <2>5
    <2>7. DOMAIN counts = 0 .. MaxTasks - 1
      BY <1>1
    <2>2. /\ DOMAIN counts = 0 .. MaxTasks - 1 /\ 0 .. k - 1 \subseteq 0 .. MaxTasks - 1
          /\ counts' = [counts EXCEPT ![t] = SumFunctionOnSet(src, own)]
      BY <1>2, <2>6, <2>7
    <2>3. \A u \in 0 .. k - 1 :
            counts'[u] = IF u = t THEN SumFunctionOnSet(src, own) ELSE counts[u]
      BY <2>2
    <2> QED BY <2>1, <2>3
  <1>0. N \in Nat /\ k \in Nat \ {0} /\ src \in [0 .. N - 1 -> Nat]
    BY <1>1
  <1>5. ASSUME pass = 2, NEW u \in 0 .. k - 1, u \notin leftOnes \ {t},
               NEW i \in Segment(u, N, k)
        PROVE  dst'[i] = Below(src, i)
    <2>1. Cut(u, N, k) \in 0 .. N /\ Cut(u + 1, N, k) \in 0 .. N
      <3>1. u \in 0 .. k /\ u + 1 \in 0 .. k
        BY <1>0
      <3> QED BY <1>0, <3>1, CutFacts
    <2>2. /\ i \in 0 .. N - 1 /\ i \in Cut(u, N, k) .. N
          /\ i \in Cut(u, N, k) .. Cut(u + 1, N, k) - 1
      BY <1>0, <2>1 DEF Segment
    <2>3. CASE u = t
      <3>1. sums[t] = Below(src, Cut(t, N, k))
        BY <1>1, <1>5 DEF PrefixInv, SumsOK, k
      <3>2. own \cap (0 .. i - 1) = Cut(t, N, k) .. i - 1
        <4> DEFINE a == Cut(t, N, k)
                   z == Cut(t + 1, N, k)
        <4>1. a \in Nat /\ z \in Nat /\ i \in a .. z - 1 /\ own = a .. z - 1
          BY <2>1, <2>2, <2>3 DEF Segment
        <4> HIDE DEF a, z, own
        <4>2. own \cap (0 .. i - 1) = a .. i - 1
          BY <4>1
        <4> QED BY <4>2 DEF a
      <3>3. Below(src, i) = Below(src, Cut(t, N, k)) + SumFunctionOnSet(src, Cut(t, N, k) .. i - 1)
        <4>1. Cut(t, N, k) \in 0 .. N /\ i \in Cut(t, N, k) .. N
          BY <2>1, <2>2, <2>3
        <4> QED BY <1>0, <4>1, BelowSplit
      <3>4. i \in own
        BY <1>5, <2>3
      <3> HIDE DEF own
      <3>5. dst'[i] = sums[t] + SumFunctionOnSet(src, own \cap (0 .. i - 1))
        BY <1>2, <1>5, <2>2, <3>4
      <3> QED BY <3>1, <3>2, <3>3, <3>5
    <2>4. CASE u # t
      <3>1. u \notin leftOnes
        BY <1>5, <2>4
      <3>2. dst[i] = Below(src, i)
        BY <1>5, <3>1 DEF PrefixInv, SumsOK, k
      <3>3. i \notin own
        BY <1>1, <1>5, <2>4, CutApart DEF Segment
      <3> HIDE DEF own
      <3> QED BY <1>2, <1>5, <2>2, <3>2, <3>3
    <2> QED BY <2>3, <2>4
  <1>6. counts' = [u \in 0 .. MaxTasks - 1 |-> counts'[u]] /\ dst' = [i \in 0 .. N - 1 |-> dst'[i]]
    BY <1>1, <1>2
  <1>7. leftOnes' \subseteq 0 .. k - 1
    BY <1>1, <1>2
  <1>8. /\ sums = [u \in 0 .. MaxTasks - 1 |-> sums[u]]
        /\ pass = 2 => \A u \in 0 .. k - 1 : sums[u] = Below(src, Cut(u, N, k))
    BY DEF PrefixInv, SumsOK, k
  <1> HIDE DEF own
  <1>9. SumsOK(N, src, k, pass, leftOnes \ {t}, counts', sums, dst', total)
    <2>1. /\ N \in Nat /\ src \in [0 .. N - 1 -> Nat] /\ k \in 1 .. MaxTasks
          /\ leftOnes \ {t} \subseteq 0 .. k - 1 /\ pass \in {1, 2}
      BY <1>1
    <2>2. pass = 2 => \A u \in 0 .. k - 1 : u \notin leftOnes \ {t} =>
                         \A i \in Segment(u, N, k) : dst'[i] = Below(src, i)
      BY <1>5
    <2>3. CASE pass = 1
      BY <1>4, <1>6, <1>8, <2>1, <2>3 DEF SumsOK
    <2>4. CASE pass = 2
      BY <1>4, <1>6, <1>8, <2>1, <2>2, <2>4 DEF SumsOK
    <2> QED BY <2>1, <2>3, <2>4
  <1> QED BY <1>2, <1>3, <1>9 DEF PrefixInv, k

LEMMA PrefixReduce ==
  ASSUME PrefixSum!PrefixSumAssumption, PrefixInv, PrefixSum!Reduce
  PROVE  PrefixInv'
  <1> DEFINE k == PrefixSum!taskCount
             total2 == SumFunctionOnSet(counts, 0 .. k - 1)
  <1>1. /\ N \in Nat /\ src \in [0 .. N - 1 -> Nat] /\ k \in 1 .. MaxTasks /\ k \in Nat \ {0}
        /\ pass \in {1, 2} /\ leftOnes = {}
        /\ counts = [u \in 0 .. MaxTasks - 1 |-> counts[u]]
        /\ dst = [i \in 0 .. N - 1 |-> dst[i]]
        /\ \A t \in 0 .. k - 1 : counts[t] = SumFunctionOnSet(src, Segment(t, N, k))
    BY DEF PrefixInv, SumsOK, PrefixSum!Reduce
  <1>2. /\ UNCHANGED <<N, src, threadCount, counts, dst>> /\ pass' = pass + 1
        /\ sums' = [t \in 0 .. MaxTasks - 1 |->
                      IF t < k THEN SumFunctionOnSet(counts, 0 .. t - 1) ELSE sums[t]]
        /\ pass = 1 => leftOnes' = 0 .. k - 1 /\ total' = total
        /\ pass = 2 => leftOnes' = {} /\ total' = SumFunctionOnSet(counts, 0 .. k - 1)
    <2>1. \A S : PrefixSum!MapThenSumSet(LAMBDA u : counts[u], S) = SumFunctionOnSet(counts, S)
      BY PrefixSumIs
    <2>2. /\ sums' = [t \in 0 .. MaxTasks - 1 |->
                        IF t < k THEN PrefixSum!MapThenSumSet(LAMBDA u : counts[u], 0 .. t - 1)
                        ELSE sums[t]]
          /\ pass = 1 => leftOnes' = 0 .. k - 1 /\ total' = total
          /\ pass = 2 =>
               /\ leftOnes' = {}
               /\ total' = PrefixSum!MapThenSumSet(LAMBDA u : counts[u], 0 .. k - 1)
          /\ UNCHANGED <<N, src, threadCount, counts, dst>> /\ pass' = pass + 1
      BY DEF PrefixSum!Reduce, PrefixSum!Tasks
    <2> QED BY <2>1, <2>2
  <1>3. k' = k
    BY <1>2 DEF PrefixSum!taskCount, PrefixSum!numBlocks
  <1> HIDE DEF k
  <1>4. \A t \in 0 .. k : SumFunctionOnSet(counts, 0 .. t - 1) = Below(src, Cut(t, N, k))
    <2>1. \A i \in 0 .. N - 1 : src[i] \in Nat
      BY <1>1
    <2>2. \A t \in 0 .. k - 1 :
            counts[t] = SumFunctionOnSet(src, Cut(t, N, k) .. Cut(t + 1, N, k) - 1)
      BY <1>1 DEF Segment
    <2>3. N \in Nat /\ k \in Nat \ {0}
      BY <1>1
    <2>4. ShareSums(counts, src, N, k)
      BY <2>2 DEF ShareSums
    <2>5. \A t \in 0 .. k :
            SumFunctionOnSet(counts, 0 .. t - 1) = SumFunctionOnSet(src, 0 .. Cut(t, N, k) - 1)
      BY <2>1, <2>3, <2>4, CutSums
    <2> QED BY <2>5 DEF Below
  <1>5. ASSUME pass = 1
        PROVE  SumsOK(N, src, k, pass', leftOnes', counts, sums', dst, total')
    <2>1. \A t \in 0 .. k - 1 : t \in 0 .. MaxTasks - 1 /\ t < k /\ t \in 0 .. k
      <3>1. MaxTasks \in Nat /\ k \in 1 .. MaxTasks
        BY <1>1 DEF PrefixSum!PrefixSumAssumption
      <3> QED BY <3>1
    <2>2. \A t \in 0 .. k - 1 : sums'[t] = SumFunctionOnSet(counts, 0 .. t - 1)
      BY <1>2, <2>1
    <2>3. \A t \in 0 .. k - 1 : sums'[t] = Below(src, Cut(t, N, k))
      BY <1>4, <2>1, <2>2
    <2>4. pass' = 2 /\ leftOnes' = 0 .. k - 1
          /\ sums' = [t \in 0 .. MaxTasks - 1 |-> sums'[t]]
      BY <1>2, <1>5
    <2>5. /\ N \in Nat /\ src \in [0 .. N - 1 -> Nat] /\ k \in 1 .. MaxTasks
          /\ counts = [u \in 0 .. MaxTasks - 1 |-> counts[u]]
          /\ dst = [i \in 0 .. N - 1 |-> dst[i]]
          /\ \A t \in 0 .. k - 1 : counts[t] = SumFunctionOnSet(src, Segment(t, N, k))
      BY <1>1
    <2>6. \A t \in 0 .. k - 1 : t \in leftOnes'
      BY <2>4
    <2> QED BY <2>3, <2>4, <2>5, <2>6 DEF SumsOK
  <1>6. ASSUME pass = 2
        PROVE  SumsOK(N, src, k, pass', leftOnes', counts, sums', dst, total')
    <2>1. total' = Below(src, N)
      <3>1. k \in 0 .. k /\ Cut(k, N, k) = N
        BY <1>1, CutFacts
      <3> QED BY <1>2, <1>4, <1>6, <3>1
    <2>2. ASSUME NEW i \in 0 .. N - 1 PROVE dst[i] = Below(src, i)
      <3>1. PICK t \in 0 .. k - 1 : i \in Segment(t, N, k)
        BY <1>1, CutTiles DEF Segment
      <3> QED BY <1>1, <1>6, <3>1 DEF PrefixInv, SumsOK, k
    <2> QED BY <1>1, <1>2, <1>6, <2>1, <2>2 DEF SumsOK
  <1> QED BY <1>1, <1>2, <1>3, <1>5, <1>6 DEF PrefixInv, k

(* What the prefix sum computes.                                            *)
LEMMA PrefixAnswer ==
  ASSUME PrefixInv
  PROVE  PrefixSum!PrefixSumExact
  <1>1. N \in Nat => PrefixSum!Items = 0 .. N - 1
    BY DEF PrefixSum!Items
  <1> QED BY <1>1, PrefixSumIs DEF PrefixInv, SumsOK, PrefixSum!PrefixSumExact, Below

(* One of the four runs, and what its step leaves alone.                    *)
SumStep ==
  PrefixSum!Serial \/ PrefixSum!Begin \/ PrefixSum!Reduce
    \/ \E t \in PrefixSum!Tasks : PrefixSum!RunTask(t)

SumInv == algorithm = "prefix sum" => PrefixInv /\ threadCount \in Nat \ {0}

LEMMA SumInvStep ==
  ASSUME PrefixSum!PrefixSumAssumption, PrefixInv, threadCount \in Nat \ {0}, SumStep
  PROVE  PrefixInv' /\ threadCount' \in Nat \ {0}
  <1>1. threadCount' = threadCount
    BY DEF SumStep, PrefixSum!Serial, PrefixSum!Begin, PrefixSum!Reduce, PrefixSum!RunTask
  <1>2. CASE PrefixSum!Serial
    BY <1>1, <1>2, PrefixSerial
  <1>3. CASE PrefixSum!Begin
    BY <1>1, <1>3, PrefixBegin
  <1>4. CASE PrefixSum!Reduce
    BY <1>1, <1>4, PrefixReduce
  <1>5. CASE \E t \in PrefixSum!Tasks : PrefixSum!RunTask(t)
    BY <1>1, <1>5, PrefixRunTask
  <1> QED BY <1>2, <1>3, <1>4, <1>5 DEF SumStep

LEMMA AlgorithmStays ==
  ASSUME NextOfPasses \/ UNCHANGED passesVars
  PROVE  algorithm' = algorithm
  BY DEF NextOfPasses, SplitTask, SplitGeometry, SplitDone, Quadify, StoreRefs, NextPass, FinishRefs,
         Serial, Begin, Reduce, RunTask, SequentialSort, StartSort, CountDigits, CopyItems,
         SegmentStep, FindMisplaced, SwapStep, Return, PassesEnded, passesVars,
         KeepPrimRefs, KeepPrefixSum, KeepSort, KeepPartition

LEMMA SumInvNext ==
  ASSUME PassesAssumption, SumInv, NextOfPasses \/ UNCHANGED passesVars
  PROVE  SumInv'
  <1>1. algorithm' = algorithm
    BY AlgorithmStays
  <1>2. CASE algorithm # "prefix sum"
    BY <1>1, <1>2 DEF SumInv
  <1>3. CASE algorithm = "prefix sum"
    <2>1. SumStep \/ UNCHANGED passesVars
      BY <1>3 DEF NextOfPasses, SplitTask, SplitGeometry, SplitDone, Quadify, StoreRefs, NextPass,
         FinishRefs, Serial, Begin, Reduce, RunTask, SequentialSort, StartSort, CountDigits,
         CopyItems, SegmentStep, FindMisplaced, SwapStep, Return, PassesEnded, SumStep
    <2>2. CASE SumStep
      <3>1. PrefixSum!PrefixSumAssumption
        BY DEF PassesAssumption
      <3> QED BY <1>3, <2>2, <3>1, SumInvStep DEF SumInv
    <2>3. CASE UNCHANGED passesVars
      BY <1>1, <1>3, <2>3 DEF SumInv, PrefixInv, PrefixSum!taskCount, PrefixSum!numBlocks,
         passesVars, ofPrefixSum
    <2> QED BY <2>1, <2>2, <2>3
  <1> QED BY <1>2, <1>3

(* The prefix sum by two passes of tasks over a shared state is the one of  *)
(* a loop, for every array, number of threads and order of the tasks.       *)
THEOREM PrefixSumsAreExact == SpecOfPasses => []PrefixSumExact
  <1>1. InitOfPasses => SumInv
    <2> SUFFICES ASSUME InitOfPasses, algorithm = "prefix sum" PROVE SumInv
      BY DEF SumInv
    <2>1. PrefixSum!Init
      BY DEF InitOfPasses, InitSort, InitPrimRefs, InitPrefixSum, InitPartition
    <2> QED BY <2>1, PassesAssumption, PrefixInit DEF PassesAssumption, SumInv
  <1>2. SumInv /\ [NextOfPasses]_passesVars => SumInv'
    BY PassesAssumption, SumInvNext
  <1>3. SumInv => PrefixSumExact
    BY PrefixAnswer DEF SumInv, PrefixSumExact
  <1> QED BY <1>1, <1>2, <1>3, PTL DEF SpecOfPasses

------------------------------------------------------------------------------
(* The radix sort. Its weights are powers and its sums those of SumTheorems.*)
LEMMA SortPower == IsPow(Sorting!Power, BUCKETS)
  <1>1. Sorting!Power = CHOOSE f : IsPow(f, BUCKETS)
    BY DEF Sorting!Power, IsPow
  <1> QED BY <1>1, PowExists

IsCountSum(h, S, b) ==
  h = [s \in SUBSET S |->
         IF s = {} THEN 0 ELSE radixCount[Pick(s)][b] + h[s \ {Pick(s)}]]

LEMMA CountOfIs ==
  ASSUME NEW S, IsFiniteSet(S), NEW b, NEW g, \A t \in S : g[t] = radixCount[t][b]
  PROVE  Sorting!CountOf(S, b) = SumFunctionOnSet(g, S)
  <1>1. Sorting!CountOf(S, b) = (CHOOSE h : IsCountSum(h, S, b))[S]
    BY DEF Sorting!CountOf, Sorting!MapThenSumSet, Sorting!MapThenFoldSet, IsCountSum, Pick
  <1>2. SumFunctionOnSet(g, S) = (CHOOSE h : IsSum(h, g, S))[S]
    BY DEF SumFunctionOnSet, FoldFunctionOnSet, MapThenFoldSet, IsSum, Pick
  <1>3. ASSUME NEW h PROVE IsCountSum(h, S, b) <=> IsSum(h, g, S)
    <2>1. \A s \in SUBSET S : s # {} => g[Pick(s)] = radixCount[Pick(s)][b]
      BY DEF Pick
    <2> QED BY <2>1 DEF IsCountSum, IsSum
  <1>4. (CHOOSE h : IsCountSum(h, S, b)) = (CHOOSE h : IsSum(h, g, S))
    <2>1. PICK h : IsSum(h, g, S) /\ \A k : IsSum(k, g, S) => k = h
      BY SumUnique
    <2> QED BY <1>3, <2>1
  <1> QED BY <1>1, <1>2, <1>4

IsCountsSum(h, S) ==
  h = [s \in SUBSET S |->
         IF s = {} THEN 0 ELSE Sorting!CountOf(Sorting!Tasks, Pick(s)) + h[s \ {Pick(s)}]]

LEMMA CountsOfIs ==
  ASSUME NEW S, IsFiniteSet(S), NEW g, \A c \in S : g[c] = Sorting!CountOf(Sorting!Tasks, c)
  PROVE  Sorting!MapThenSumSet(LAMBDA c : Sorting!CountOf(Sorting!Tasks, c), S)
           = SumFunctionOnSet(g, S)
  <1>1. Sorting!MapThenSumSet(LAMBDA c : Sorting!CountOf(Sorting!Tasks, c), S)
          = (CHOOSE h : IsCountsSum(h, S))[S]
    BY DEF Sorting!MapThenSumSet, Sorting!MapThenFoldSet, IsCountsSum, Pick
  <1>2. SumFunctionOnSet(g, S) = (CHOOSE h : IsSum(h, g, S))[S]
    BY DEF SumFunctionOnSet, FoldFunctionOnSet, MapThenFoldSet, IsSum, Pick
  <1>3. ASSUME NEW h PROVE IsCountsSum(h, S) <=> IsSum(h, g, S)
    <2>1. \A s \in SUBSET S : s # {} => g[Pick(s)] = Sorting!CountOf(Sorting!Tasks, Pick(s))
      BY DEF Pick
    <2> QED BY <2>1 DEF IsCountsSum, IsSum
  <1>4. (CHOOSE h : IsCountsSum(h, S)) = (CHOOSE h : IsSum(h, g, S))
    <2>1. PICK h : IsSum(h, g, S) /\ \A k : IsSum(k, g, S) => k = h
      BY SumUnique
    <2> QED BY <1>3, <2>1
  <1> QED BY <1>1, <1>2, <1>4

(* Item i of From has digit SortDigits[i] in this iteration. The tasks in   *)
(* S have counted their shares.                                             *)
SortDigits == [i \in 0 .. N - 1 |-> Sorting!Digit(Sorting!From[i])]

To == IF pass % 2 = 0 THEN tmp ELSE src

Counted(rc, f, n, k, S, bs) ==
  \A t \in S : rc[t] = [b \in 0 .. bs - 1 |-> Cardinality(InShare(f, n, k, t, b))]

SortInv ==
  /\ N \in Nat /\ threadCount \in Nat \ {0}
  /\ keys \in [0 .. N - 1 -> 0 .. Sorting!Power[Digits] - 1]
  /\ IsArray(src, N) /\ IsArray(tmp, N)
  /\ progress \in {"start", "count", "copy", "done"}
  /\ progress = "start" => src = [i \in 0 .. N - 1 |-> i] /\ pass = 0 /\ ran = {}
  /\ progress \in {"count", "copy"} =>
       /\ Sorting!numTasks \in Nat \ {0} /\ pass \in 0 .. Digits - 1
       /\ ran \subseteq 0 .. Sorting!numTasks - 1
       /\ Perm(Sorting!From, N) /\ OrderedMod(Sorting!From, N, keys, Sorting!Power[pass])
       /\ DOMAIN radixCount = 0 .. Sorting!numTasks - 1
  /\ progress = "count" => Counted(radixCount, SortDigits, N, Sorting!numTasks, ran, BUCKETS)
  /\ progress = "copy" =>
       /\ Counted(radixCount, SortDigits, N, Sorting!numTasks, 0 .. Sorting!numTasks - 1, BUCKETS)
       /\ \A t \in ran :
            Moved(SortDigits, N, Segment(t, N, Sorting!numTasks), Sorting!From, To)
  /\ progress = "done" => Perm(src, N) /\ Sorting!IsSorted(src)

LEMMA SortMin ==
  ASSUME NEW S, \E x \in S : \A y \in S : x <= y
  PROVE  Sorting!Min(S) \in S /\ \A y \in S : Sorting!Min(S) <= y
  BY DEF Sorting!Min

LEMMA SortTaskCount ==
  ASSUME Sorting!RadixSortAssumption, N \in Nat, threadCount \in Nat \ {0}, N > BlockSize
  PROVE  Sorting!numTasks \in Nat \ {0}
  <1> DEFINE d == (N + BlockSize - 1) \div BlockSize
             S == {d, threadCount, MaxTasks}
  <1>1. BlockSize \in Nat \ {0} /\ MaxTasks \in Nat \ {0}
    BY DEF Sorting!RadixSortAssumption
  <1>2. d \in Nat \ {0}
    <2>1. N + BlockSize - 1 \in Nat /\ N + BlockSize - 1 >= BlockSize
      BY <1>1
    <2>2. \A x, y \in Nat : y # 0 /\ x >= y => x \div y \in Nat \ {0}
      OBVIOUS
    <2> QED BY <1>1, <2>1, <2>2
  <1>3. Sorting!numTasks = Sorting!Min(S)
    BY DEF Sorting!numTasks
  <1> HIDE DEF d
  <1>4. S \subseteq Nat \ {0} /\ S # {}
    BY <1>1, <1>2
  <1> HIDE DEF S
  <1>5. \E x \in S : \A y \in S : x <= y
    BY <1>4, SmallestNat
  <1> QED BY <1>3, <1>4, <1>5, SortMin

LEMMA SortWeights ==
  ASSUME Sorting!RadixSortAssumption
  PROVE  /\ Sorting!Power[0] = 1 /\ BUCKETS \in Nat \ {0}
         /\ \A n \in Nat : /\ Sorting!Power[n] \in Nat \ {0}
                           /\ Sorting!Power[n + 1] = Sorting!Power[n] * BUCKETS
  <1>1. BUCKETS \in Nat \ {0}
    BY DEF Sorting!RadixSortAssumption
  <1>2. /\ Sorting!Power[0] = 1
        /\ \A n \in Nat : /\ Sorting!Power[n] \in Nat \ {0}
                          /\ Sorting!Power[n + 1] = BUCKETS * Sorting!Power[n]
    BY <1>1, SortPower, PowFacts
  <1> QED BY <1>1, <1>2

LEMMA SortDigitsType ==
  ASSUME Sorting!RadixSortAssumption, N \in Nat, pass \in Nat, Perm(Sorting!From, N),
         keys \in [0 .. N - 1 -> 0 .. Sorting!Power[Digits] - 1]
  PROVE  /\ SortDigits \in [0 .. N - 1 -> 0 .. BUCKETS - 1]
         /\ SortDigits \in [0 .. N - 1 -> Nat]
         /\ keys \in [0 .. N - 1 -> Nat]
         /\ \A i \in 0 .. N - 1 :
              SortDigits[i] = (keys[Sorting!From[i]] \div Sorting!Power[pass]) % BUCKETS
  <1>1. Sorting!From \in [0 .. N - 1 -> 0 .. N - 1]
    BY DEF Perm, Bijection, Injection
  <1>2. Digits \in Nat /\ BUCKETS \in Nat \ {0}
    BY DEF Sorting!RadixSortAssumption
  <1>3. Sorting!Power[pass] \in Nat \ {0} /\ Sorting!Power[Digits] \in Nat
    BY <1>2, SortWeights
  <1>4. keys \in [0 .. N - 1 -> Nat]
    BY <1>3
  <1>5. \A i \in 0 .. N - 1 :
          SortDigits[i] = (keys[Sorting!From[i]] \div Sorting!Power[pass]) % BUCKETS
    BY DEF SortDigits, Sorting!Digit
  <1>6. ASSUME NEW i \in 0 .. N - 1 PROVE SortDigits[i] \in 0 .. BUCKETS - 1
    <2>1. \A x \in Nat, y \in Nat \ {0} : x \div y \in Nat
      OBVIOUS
    <2>2. \A x \in Nat, y \in Nat \ {0} : x % y \in 0 .. y - 1
      OBVIOUS
    <2> DEFINE x == keys[Sorting!From[i]]
               w == Sorting!Power[pass]
    <2>3. x \in Nat
      BY <1>1, <1>4
    <2>4. SortDigits[i] = (x \div w) % BUCKETS
      BY <1>5
    <2>5. w \in Nat \ {0}
      BY <1>3
    <2> HIDE DEF x, w
    <2>6. x \div w \in Nat
      BY <2>1, <2>3, <2>5
    <2>7. (x \div w) % BUCKETS \in 0 .. BUCKETS - 1
      BY <1>2, <2>2, <2>6
    <2> QED BY <2>4, <2>7
  <1>7. SortDigits \in [0 .. N - 1 -> 0 .. BUCKETS - 1]
    BY <1>6 DEF SortDigits
  <1> QED BY <1>2, <1>4, <1>5, <1>7

LEMMA SortCardinality == \A S : Sorting!Cardinality(S) = Cardinality(S)
  BY DEF Sorting!Cardinality, Cardinality

LEMMA SortBuckets ==
  ASSUME N \in Nat, Sorting!numTasks \in Nat \ {0}, NEW t \in 0 .. Sorting!numTasks - 1
  PROVE  /\ Sorting!Share(t) = Segment(t, N, Sorting!numTasks)
         /\ \A b : Sorting!InBucket(t, b) = InShare(SortDigits, N, Sorting!numTasks, t, b)
  <1>1. Sorting!Share(t) = Segment(t, N, Sorting!numTasks)
    BY DEF Sorting!Share, Segment, Cut
  <1> DEFINE k == Sorting!numTasks
  <1> HIDE DEF k
  <1>2. Segment(t, N, k) \subseteq 0 .. N - 1
    BY SegmentFinite DEF k
  <1>3. \A i \in Segment(t, N, k) : SortDigits[i] = Sorting!Digit(Sorting!From[i])
    BY <1>2 DEF SortDigits
  <1>4. Sorting!Share(t) = Segment(t, N, k)
    BY <1>1 DEF k
  <1>5. \A b : Sorting!InBucket(t, b) = InShare(SortDigits, N, k, t, b)
    BY <1>3, <1>4 DEF Sorting!InBucket, InShare
  <1> QED BY <1>4, <1>5 DEF k

(* The sum of some tasks' counts.                                           *)
LEMMA CountOfTasks ==
  ASSUME N \in Nat, Sorting!numTasks \in Nat \ {0}, BUCKETS \in Nat \ {0},
         Counted(radixCount, SortDigits, N, Sorting!numTasks, 0 .. Sorting!numTasks - 1, BUCKETS),
         NEW s \in 0 .. Sorting!numTasks, NEW b \in 0 .. BUCKETS - 1
  PROVE  Sorting!CountOf(0 .. s - 1, b)
           = Cardinality(Holders(SortDigits, Cut(s, N, Sorting!numTasks), b))
  <1> DEFINE k == Sorting!numTasks
             f == SortDigits
             g == [u \in 0 .. k - 1 |-> Cardinality(InShare(f, N, k, u, b))]
             S == 0 .. s - 1
  <1>1. k \in Nat \ {0} /\ s \in 0 .. k
    OBVIOUS
  <1> HIDE DEF k, f
  <1>2. IsFiniteSet(S)
    <2>1. 0 \in Int /\ s - 1 \in Int
      BY <1>1
    <2> QED BY <2>1, FS_Interval
  <1>3. \A u \in 0 .. k - 1 : radixCount[u][b] = g[u]
    BY DEF Counted, k, f
  <1>4. \A u \in S : u \in 0 .. k - 1
    BY <1>1
  <1>5. RadixCounts(g, f, N, k, b)
    BY DEF RadixCounts
  <1> HIDE DEF g
  <1>6. SumFunctionOnSet(g, S) = Cardinality(Holders(f, Cut(s, N, k), b))
    BY <1>1, <1>5, TaskSum
  <1> HIDE DEF S
  <1>7. Sorting!CountOf(S, b) = SumFunctionOnSet(g, S)
    BY <1>2, <1>3, <1>4, CountOfIs
  <1> QED BY <1>6, <1>7 DEF S, k, f

LEMMA SortTarget ==
  ASSUME Sorting!RadixSortAssumption, SortInv, progress = "copy",
         NEW t \in 0 .. Sorting!numTasks - 1, NEW i \in Segment(t, N, Sorting!numTasks)
  PROVE  Sorting!Target(t, i) = Rank(SortDigits, N, i)
  <1> DEFINE k == Sorting!numTasks
             f == SortDigits
             b == f[i]
  <1>1. /\ N \in Nat /\ k \in Nat \ {0} /\ t \in 0 .. k - 1 /\ i \in 0 .. N - 1
        /\ BUCKETS \in Nat \ {0} /\ i \in Segment(t, N, k)
    <2>1. N \in Nat /\ k \in Nat \ {0}
      BY DEF SortInv
    <2>2. BUCKETS \in Nat \ {0}
      BY DEF Sorting!RadixSortAssumption
    <2> QED BY <2>1, <2>2, SegmentFinite
  <1>2. f \in [0 .. N - 1 -> Nat] /\ f \in [0 .. N - 1 -> 0 .. BUCKETS - 1]
    <2>1. /\ pass \in Nat /\ Perm(Sorting!From, N)
          /\ keys \in [0 .. N - 1 -> 0 .. Sorting!Power[Digits] - 1]
      BY DEF SortInv
    <2> QED BY <1>1, <2>1, SortDigitsType
  <1>3. b \in 0 .. BUCKETS - 1 /\ b \in Nat
    BY <1>1, <1>2
  <1>4. ASSUME NEW s \in 0 .. k, NEW c \in 0 .. BUCKETS - 1
        PROVE  Sorting!CountOf(0 .. s - 1, c) = Cardinality(Holders(f, Cut(s, N, k), c))
    <2>1. Counted(radixCount, f, N, k, 0 .. k - 1, BUCKETS)
      BY DEF SortInv
    <2> QED BY <1>1, <2>1, CountOfTasks
  <1>5. Sorting!Tasks = 0 .. k - 1 /\ Cut(k, N, k) = N
    BY <1>1, CutFacts DEF Sorting!Tasks
  <1>6. Sorting!InBucket(t, b) = InShare(f, N, k, t, b)
    BY <1>1, SortBuckets
  <1>7. Sorting!Digit(Sorting!From[i]) = b
    BY <1>1 DEF SortDigits
  <1> HIDE DEF k, f, b
  <1>8. \A c \in 0 .. BUCKETS - 1 : Sorting!CountOf(Sorting!Tasks, c) = Cardinality(Holders(f, N, c))
    <2>1. k \in 0 .. k
      BY <1>1
    <2> QED BY <1>4, <1>5, <2>1
  <1>9. Sorting!MapThenSumSet(LAMBDA c : Sorting!CountOf(Sorting!Tasks, c), 0 .. b - 1)
          = Cardinality(Smaller(f, N, b))
    <2> DEFINE g == [c \in 0 .. b - 1 |-> Cardinality(Holders(f, N, c))]
               S == 0 .. b - 1
    <2>1. IsFiniteSet(S)
      <3>1. 0 \in Int /\ b - 1 \in Int
        BY <1>3
      <3> QED BY <3>1, FS_Interval
    <2>2. \A c \in S : g[c] = Sorting!CountOf(Sorting!Tasks, c)
      <3>1. \A c \in S : c \in 0 .. BUCKETS - 1
        BY <1>1, <1>3
      <3>2. \A c \in S : g[c] = Cardinality(Holders(f, N, c))
        OBVIOUS
      <3> HIDE DEF S, g
      <3> QED BY <1>8, <3>1, <3>2
    <2>3. SumFunctionOnSet(g, S) = Cardinality(Smaller(f, N, b))
      BY <1>1, <1>2, <1>3, DigitSum
    <2> HIDE DEF g, S
    <2>4. Sorting!MapThenSumSet(LAMBDA c : Sorting!CountOf(Sorting!Tasks, c), S) = SumFunctionOnSet(g, S)
      BY <2>1, <2>2, CountsOfIs
    <2> QED BY <2>3, <2>4 DEF S
  <1>10. Sorting!CountOf(0 .. t - 1, b) = Cardinality(Holders(f, Cut(t, N, k), b))
    <2>1. t \in 0 .. k
      BY <1>1
    <2> QED BY <1>3, <1>4, <2>1
  <1>11. Sorting!Offset(t, b)
           = Cardinality(Smaller(f, N, b)) + Cardinality(Holders(f, Cut(t, N, k), b))
    BY <1>9, <1>10 DEF Sorting!Offset
  <1>12. Sorting!Target(t, i)
           = Sorting!Offset(t, b) + Cardinality(EarlierInShare(f, N, k, t, i))
    BY <1>6, <1>7, SortCardinality DEF Sorting!Target, EarlierInShare, b
  <1>13. Cardinality(Smaller(f, N, b)) + Cardinality(Holders(f, Cut(t, N, k), b))
           + Cardinality(EarlierInShare(f, N, k, t, i)) = Rank(f, N, i)
    <2>1. /\ N \in Nat /\ k \in Nat \ {0} /\ t \in 0 .. k - 1 /\ i \in Segment(t, N, k)
          /\ f \in [0 .. N - 1 -> Nat]
      BY <1>1, <1>2
    <2>2. Cardinality(Smaller(f, N, f[i])) + Cardinality(Holders(f, Cut(t, N, k), f[i]))
            + Cardinality(EarlierInShare(f, N, k, t, i)) = Rank(f, N, i)
      BY <2>1, TargetIsRank
    <2>3. b = f[i]
      BY DEF b
    <2> QED BY <2>2, <2>3
  <1> QED BY <1>11, <1>12, <1>13 DEF f

(* What a task's copying changes: the places of its own items.              *)
SortSources(t, p) == {i \in Sorting!Share(t) : Sorting!Target(t, i) = p}

LEMMA SortCopied ==
  ASSUME Sorting!RadixSortAssumption, SortInv, progress = "copy",
         NEW t \in 0 .. Sorting!numTasks - 1, NEW to, IsArray(to, N)
  PROVE  /\ IsArray(Sorting!Copied(t, to), N)
         /\ Moved(SortDigits, N, Segment(t, N, Sorting!numTasks), Sorting!From,
                  Sorting!Copied(t, to))
         /\ \A p \in 0 .. N - 1 :
              (\A i \in Segment(t, N, Sorting!numTasks) : Rank(SortDigits, N, i) # p)
                => Sorting!Copied(t, to)[p] = to[p]
  <1> DEFINE k == Sorting!numTasks
             f == SortDigits
             own == Segment(t, N, k)
             from == Sorting!From
             sources(p) == {i \in own : Rank(f, N, i) = p}
             new == Sorting!Copied(t, to)
  <1>1. N \in Nat /\ k \in Nat \ {0} /\ own \subseteq 0 .. N - 1 /\ f \in [0 .. N - 1 -> Int]
    <2>1. N \in Nat /\ k \in Nat \ {0}
      BY DEF SortInv
    <2>2. own \subseteq 0 .. N - 1
      BY <2>1, SegmentFinite
    <2>3. pass \in Nat /\ Perm(from, N) /\ keys \in [0 .. N - 1 -> 0 .. Sorting!Power[Digits] - 1]
      BY DEF SortInv
    <2>4. f \in [0 .. N - 1 -> Nat]
      BY <2>1, <2>3, SortDigitsType
    <2> QED BY <2>1, <2>2, <2>4
  <1>2. Sorting!Share(t) = own
    BY <1>1, SortBuckets
  <1>3. \A i \in own : Sorting!Target(t, i) = Rank(f, N, i)
    BY SortTarget
  <1>4. new = [p \in 0 .. N - 1 |->
                 IF sources(p) = {} THEN to[p] ELSE from[Sorting!Max(sources(p))]]
    <2>1. \A p : {i \in Sorting!Share(t) : Sorting!Target(t, i) = p} = sources(p)
      <3> HIDE DEF own, f, k
      <3> QED BY <1>2, <1>3
    <2>2. Sorting!Copied(t, to) =
            [p \in 0 .. N - 1 |-> IF SortSources(t, p) = {} THEN to[p]
                                 ELSE from[Sorting!Max(SortSources(t, p))]]
      BY DEF Sorting!Copied, Sorting!Places, SortSources
    <2>3. \A p : SortSources(t, p) = sources(p)
      BY <2>1 DEF SortSources
    <2> HIDE DEF sources, own, f
    <2> QED BY <2>2, <2>3
  <1> HIDE DEF k, f, own, new
  <1>5. \A i, j \in own : Rank(f, N, i) = Rank(f, N, j) => i = j
    <2>1. \A i, j \in 0 .. N - 1 : Rank(f, N, i) = Rank(f, N, j) => i = j
      BY <1>1, RankPermutes
    <2> QED BY <1>1, <2>1
  <1>6. ASSUME NEW i \in own PROVE new[Rank(f, N, i)] = from[i]
    <2>1. sources(Rank(f, N, i)) = {i}
      BY <1>5
    <2>2. Rank(f, N, i) \in 0 .. N - 1
      BY <1>1, RankPermutes
    <2>3. Sorting!Max({i}) = i
      <3>1. i >= i
        BY <1>1
      <3>2. (CHOOSE x \in {i} : \A y \in {i} : x >= y) = i
        BY <3>1
      <3> QED BY <3>2 DEF Sorting!Max
    <2> HIDE DEF sources, from
    <2> QED BY <1>4, <2>1, <2>2, <2>3
  <1>7. ASSUME NEW p \in 0 .. N - 1, \A i \in own : Rank(f, N, i) # p
        PROVE  new[p] = to[p]
    <2>1. sources(p) = {}
      BY <1>7
    <2> HIDE DEF sources, from
    <2> QED BY <1>4, <2>1
  <1>8. IsArray(new, N)
    BY <1>4 DEF IsArray
  <1>9. Moved(f, N, own, from, new)
    BY <1>6 DEF Moved
  <1> QED BY <1>7, <1>8, <1>9 DEF new, own, f, k

LEMMA SortInit ==
  ASSUME Sorting!RadixSortAssumption, Sorting!Init
  PROVE  SortInv
  <1>1. N \in Nat /\ threadCount \in Nat \ {0}
    BY DEF Sorting!Init, Sorting!RadixSortAssumption
  <1>2. IsArray(src, N) /\ IsArray(tmp, N)
    BY DEF Sorting!Init, Sorting!Places, IsArray
  <1> QED BY <1>1, <1>2 DEF Sorting!Init, Sorting!Places, SortInv

LEMMA SortSequential ==
  ASSUME SortInv, Sorting!SequentialSort
  PROVE  SortInv'
  <1>1. /\ progress' = "done" /\ src' \in Sorting!Bijection(0 .. N - 1, 0 .. N - 1)
        /\ Sorting!IsSorted(src')
        /\ UNCHANGED <<N, keys, threadCount, tmp, radixCount, pass, ran>>
    BY DEF Sorting!SequentialSort, Sorting!Places
  <1>2. Perm(src', N)
    BY <1>1 DEF Perm, Bijection, Injection, Surjection, IsInjective, Sorting!Bijection,
                Sorting!Injection, Sorting!Surjection, Sorting!IsInjective
  <1>3. IsArray(src', N)
    <2>1. src' \in [0 .. N - 1 -> 0 .. N - 1]
      BY <1>2 DEF Perm, Bijection, Injection
    <2> QED BY <2>1 DEF IsArray
  <1>4. Sorting!IsSorted(src)'
    BY <1>1 DEF Sorting!IsSorted, Sorting!Places
  <1>5. /\ N \in Nat /\ threadCount \in Nat \ {0} /\ IsArray(tmp, N)
        /\ keys \in [0 .. N - 1 -> 0 .. Sorting!Power[Digits] - 1]
    BY DEF SortInv
  <1> QED BY <1>1, <1>2, <1>3, <1>4, <1>5 DEF SortInv

LEMMA SortStart ==
  ASSUME Sorting!RadixSortAssumption, SortInv, Sorting!Start
  PROVE  SortInv'
  <1>1. /\ progress = "start" /\ progress' = "count" /\ N > BlockSize
        /\ DOMAIN radixCount' = 0 .. Sorting!numTasks - 1
        /\ UNCHANGED <<N, keys, threadCount, src, tmp, pass, ran>>
    BY DEF Sorting!Start, Sorting!Tasks
  <1>2. /\ N \in Nat /\ threadCount \in Nat \ {0} /\ IsArray(src, N) /\ IsArray(tmp, N)
        /\ keys \in [0 .. N - 1 -> 0 .. Sorting!Power[Digits] - 1]
        /\ src = [i \in 0 .. N - 1 |-> i] /\ pass = 0 /\ ran = {}
    BY <1>1 DEF SortInv
  <1>3. Sorting!numTasks \in Nat \ {0} /\ Sorting!numTasks' = Sorting!numTasks
    BY <1>1, <1>2, SortTaskCount DEF Sorting!numTasks
  <1>4. Sorting!From = src /\ Sorting!From' = src
    BY <1>1, <1>2 DEF Sorting!From
  <1>5. Perm(src, N)
    <2>1. src \in [0 .. N - 1 -> 0 .. N - 1] /\ \A i \in 0 .. N - 1 : src[i] = i
      BY <1>2
    <2> QED BY <2>1 DEF Perm, Bijection, Injection, Surjection, IsInjective
  <1>6. OrderedMod(src, N, keys, Sorting!Power[0])
    <2>1. Sorting!Power[0] = 1 /\ Sorting!Power[Digits] \in Nat
      BY SortWeights DEF Sorting!RadixSortAssumption
    <2>2. \A x \in Nat : x % 1 = 0
      OBVIOUS
    <2>3. \A i \in 0 .. N - 1 : keys[src[i]] \in Nat
      BY <1>2, <2>1
    <2>4. \A i \in 0 .. N - 1 : keys[src[i]] % Sorting!Power[0] = 0
      BY <2>1, <2>2, <2>3
    <2> QED BY <2>4 DEF OrderedMod
  <1>7. Digits \in Nat \ {0}
    BY DEF Sorting!RadixSortAssumption
  <1>8. pass' \in 0 .. Digits - 1 /\ pass' = 0 /\ ran' = {}
    BY <1>1, <1>2, <1>7
  <1>9. Perm(Sorting!From', N') /\ OrderedMod(Sorting!From', N', keys', Sorting!Power[pass'])
    BY <1>1, <1>4, <1>5, <1>6, <1>8
  <1>10. Sorting!Power' = Sorting!Power
    BY DEF Sorting!Power
  <1>11. Counted(radixCount, SortDigits, N, Sorting!numTasks, ran, BUCKETS)'
    BY <1>8 DEF Counted
  <1> QED BY <1>1, <1>2, <1>3, <1>8, <1>9, <1>10, <1>11 DEF SortInv

LEMMA SortCount ==
  ASSUME Sorting!RadixSortAssumption, SortInv, NEW t, Sorting!CountDigits(t)
  PROVE  SortInv'
  <1> DEFINE k == Sorting!numTasks
             f == SortDigits
  <1>1. /\ progress = "count" /\ t \in 0 .. k - 1 /\ t \notin ran
        /\ radixCount' = [radixCount EXCEPT ![t] = [b \in 0 .. BUCKETS - 1 |->
                                                     Cardinality(Sorting!InBucket(t, b))]]
        /\ UNCHANGED <<N, keys, threadCount, src, tmp>>
    BY SortCardinality DEF Sorting!CountDigits, Sorting!Tasks, Sorting!Buckets
  <1>2. /\ pass' = pass
        /\ \/ ran \union {t} = 0 .. k - 1 /\ ran' = {} /\ progress' = "copy"
           \/ ran' = ran \union {t} /\ progress' = "count"
    BY <1>1 DEF Sorting!CountDigits, Sorting!Ran, Sorting!Tasks
  <1>3. /\ N \in Nat /\ threadCount \in Nat \ {0} /\ IsArray(src, N) /\ IsArray(tmp, N)
        /\ keys \in [0 .. N - 1 -> 0 .. Sorting!Power[Digits] - 1]
        /\ k \in Nat \ {0} /\ pass \in 0 .. Digits - 1 /\ ran \subseteq 0 .. k - 1
        /\ Perm(Sorting!From, N) /\ OrderedMod(Sorting!From, N, keys, Sorting!Power[pass])
        /\ DOMAIN radixCount = 0 .. k - 1
        /\ Counted(radixCount, f, N, k, ran, BUCKETS)
    BY <1>1 DEF SortInv
  <1>4. Sorting!numTasks' = k /\ Sorting!From' = Sorting!From /\ Sorting!Power' = Sorting!Power
    BY <1>1, <1>2 DEF Sorting!numTasks, Sorting!From, Sorting!Power
  <1>5. SortDigits' = f
    BY <1>1, <1>2, <1>4 DEF SortDigits, Sorting!Digit
  <1>6. \A b : Sorting!InBucket(t, b) = InShare(f, N, k, t, b)
    BY <1>1, <1>3, SortBuckets
  <1> HIDE DEF k, f
  <1>7. DOMAIN radixCount' = 0 .. k - 1 /\ Counted(radixCount', f, N, k, ran \union {t}, BUCKETS)
    <2>1. /\ DOMAIN radixCount' = 0 .. k - 1
          /\ \A u \in 0 .. k - 1 :
               radixCount'[u] = IF u = t
                                THEN [b \in 0 .. BUCKETS - 1 |-> Cardinality(Sorting!InBucket(t, b))]
                                ELSE radixCount[u]
      BY <1>1, <1>3
    <2>2. radixCount'[t] = [b \in 0 .. BUCKETS - 1 |-> Cardinality(InShare(f, N, k, t, b))]
      BY <1>1, <1>6, <2>1
    <2>3. \A u \in ran : radixCount'[u] = radixCount[u]
      BY <1>1, <1>3, <2>1
    <2> QED BY <1>3, <2>1, <2>2, <2>3 DEF Counted
  <1>8. /\ N' \in Nat /\ threadCount' \in Nat \ {0} /\ IsArray(src', N') /\ IsArray(tmp', N')
        /\ keys' \in [0 .. N' - 1 -> 0 .. Sorting!Power'[Digits] - 1]
        /\ Sorting!numTasks' \in Nat \ {0} /\ pass' \in 0 .. Digits - 1
        /\ Perm(Sorting!From', N') /\ OrderedMod(Sorting!From', N', keys', Sorting!Power'[pass'])
        /\ DOMAIN radixCount' = 0 .. Sorting!numTasks' - 1
    BY <1>1, <1>2, <1>3, <1>4, <1>7
  <1>9. CASE ran \union {t} = 0 .. k - 1 /\ ran' = {} /\ progress' = "copy"
    <2>1. Counted(radixCount', SortDigits', N', Sorting!numTasks', 0 .. Sorting!numTasks' - 1, BUCKETS)
      BY <1>1, <1>4, <1>5, <1>7, <1>9
    <2> QED BY <1>8, <1>9, <2>1 DEF SortInv
  <1>10. CASE ran' = ran \union {t} /\ progress' = "count"
    <2>1. Counted(radixCount', SortDigits', N', Sorting!numTasks', ran', BUCKETS)
      BY <1>1, <1>4, <1>5, <1>7, <1>10
    <2>2. ran' \subseteq 0 .. Sorting!numTasks' - 1
      BY <1>1, <1>3, <1>4, <1>10
    <2> QED BY <1>8, <1>10, <2>1, <2>2 DEF SortInv
  <1> QED BY <1>2, <1>9, <1>10

(* The last iteration's order is that of the whole keys.                    *)
LEMMA WholeKeys ==
  ASSUME NEW n \in Nat, NEW w \in Nat, NEW ks \in [0 .. n - 1 -> 0 .. w - 1], NEW a,
         Perm(a, n), OrderedMod(a, n, ks, w)
  PROVE  \A i, j \in 0 .. n - 1 : i < j => ks[a[i]] <= ks[a[j]]
  <1>1. \A x \in 0 .. w - 1 : x % w = x
    OBVIOUS
  <1>2. a \in [0 .. n - 1 -> 0 .. n - 1]
    BY DEF Perm, Bijection, Injection
  <1>3. \A i \in 0 .. n - 1 : ks[a[i]] % w = ks[a[i]]
    BY <1>1, <1>2
  <1> QED BY <1>3 DEF OrderedMod

LEMMA SortCopy ==
  ASSUME Sorting!RadixSortAssumption, SortInv, NEW t, Sorting!CopyItems(t)
  PROVE  SortInv'
  <1> DEFINE k == Sorting!numTasks
             f == SortDigits
             from == Sorting!From
             to == To
             new == Sorting!Copied(t, to)
             w == Sorting!Power[pass]
  <1>1. /\ progress = "copy" /\ t \in 0 .. k - 1 /\ t \notin ran
        /\ UNCHANGED <<N, keys, threadCount, radixCount>>
    BY DEF Sorting!CopyItems, Sorting!Tasks
  <1>2. IF pass % 2 = 0 THEN tmp' = new /\ src' = src ELSE src' = new /\ tmp' = tmp
    BY DEF Sorting!CopyItems, To
  <1>3. \/ /\ ran \union {t} = 0 .. k - 1 /\ ran' = {} /\ pass' = pass + 1
           /\ progress' = IF pass = Digits - 1 THEN "done" ELSE "count"
        \/ ran' = ran \union {t} /\ progress' = progress /\ pass' = pass
    BY DEF Sorting!CopyItems, Sorting!Ran, Sorting!Tasks
  <1>4. /\ N \in Nat /\ threadCount \in Nat \ {0} /\ IsArray(src, N) /\ IsArray(tmp, N)
        /\ keys \in [0 .. N - 1 -> 0 .. Sorting!Power[Digits] - 1]
        /\ k \in Nat \ {0} /\ pass \in 0 .. Digits - 1 /\ ran \subseteq 0 .. k - 1
        /\ Perm(from, N) /\ OrderedMod(from, N, keys, w)
        /\ DOMAIN radixCount = 0 .. k - 1
        /\ Counted(radixCount, f, N, k, 0 .. k - 1, BUCKETS)
        /\ \A u \in ran : Moved(f, N, Segment(u, N, k), from, to)
    BY <1>1 DEF SortInv
  <1>5. Digits \in Nat \ {0} /\ Digits % 2 = 0 /\ pass \in Nat
    BY <1>4 DEF Sorting!RadixSortAssumption
  <1>6. IsArray(to, N)
    BY <1>4 DEF To
  <1>7. /\ IsArray(new, N) /\ Moved(f, N, Segment(t, N, k), from, new)
        /\ \A p \in 0 .. N - 1 :
             (\A i \in Segment(t, N, k) : Rank(f, N, i) # p) => new[p] = to[p]
    <2> HIDE DEF to
    <2> QED BY <1>1, <1>6, SortCopied
  <1>8. /\ f \in [0 .. N - 1 -> Nat] /\ keys \in [0 .. N - 1 -> Nat]
        /\ \A i \in 0 .. N - 1 : f[i] = (keys[from[i]] \div w) % BUCKETS
    BY <1>4, <1>5, SortDigitsType
  <1>9. /\ w \in Nat \ {0} /\ BUCKETS \in Nat \ {0} /\ Sorting!Power[pass + 1] = w * BUCKETS
        /\ Sorting!Power[Digits] \in Nat
    BY <1>5, SortWeights
  <1>10. Sorting!numTasks' = k /\ Sorting!Power' = Sorting!Power
    BY <1>1 DEF Sorting!numTasks, Sorting!Power
  <1> HIDE DEF k, f, new, w
  <1>11. \A u \in ran \union {t} : Moved(f, N, Segment(u, N, k), from, new)
    <2> SUFFICES ASSUME NEW u \in ran, NEW i \in Segment(u, N, k)
                 PROVE  new[Rank(f, N, i)] = from[i]
      BY <1>7 DEF Moved
    <2>1. to[Rank(f, N, i)] = from[i]
      BY <1>4 DEF Moved
    <2>2. u \in 0 .. k - 1 /\ u # t
      BY <1>1, <1>4
    <2>3. i \in 0 .. N - 1 /\ Segment(t, N, k) \subseteq 0 .. N - 1
      BY <1>1, <1>4, <2>2, SegmentFinite
    <2>4. f \in [0 .. N - 1 -> Int]
      BY <1>8
    <2>5. ASSUME NEW j \in Segment(t, N, k) PROVE Rank(f, N, j) # Rank(f, N, i)
      <3>0. N \in Nat /\ i \in 0 .. N - 1 /\ j \in 0 .. N - 1
        BY <1>4, <2>3
      <3>1. Rank(f, N, j) = Rank(f, N, i) => j = i
        BY <2>4, <3>0, RankPermutes
      <3>2. j # i
        BY <1>1, <1>4, <2>2, CutApart DEF Segment
      <3> QED BY <3>1, <3>2
    <2>6. Rank(f, N, i) \in 0 .. N - 1
      BY <1>4, <2>3, <2>4, RankPermutes
    <2> HIDE DEF to, from
    <2> QED BY <1>7, <2>1, <2>5, <2>6
  <1>12. /\ N' \in Nat /\ threadCount' \in Nat \ {0} /\ IsArray(src', N') /\ IsArray(tmp', N')
         /\ keys' \in [0 .. N' - 1 -> 0 .. Sorting!Power'[Digits] - 1]
         /\ DOMAIN radixCount' = 0 .. Sorting!numTasks' - 1
         /\ Sorting!numTasks' \in Nat \ {0}
    BY <1>1, <1>2, <1>4, <1>7, <1>10
  <1>13. CASE ran' = ran \union {t} /\ progress' = progress /\ pass' = pass
    <2>1. Sorting!From' = from /\ To' = new
      BY <1>2, <1>13 DEF Sorting!From, To
    <2>2. SortDigits' = f
      BY <1>1, <1>10, <1>13, <2>1 DEF SortDigits, Sorting!Digit, f
    <2>3. /\ ran' \subseteq 0 .. Sorting!numTasks' - 1 /\ pass' \in 0 .. Digits - 1
          /\ progress' = "copy"
      BY <1>1, <1>4, <1>10, <1>13
    <2>4. Perm(Sorting!From', N') /\ OrderedMod(Sorting!From', N', keys', Sorting!Power'[pass'])
      BY <1>1, <1>4, <1>10, <1>13, <2>1 DEF w
    <2>5. Counted(radixCount', SortDigits', N', Sorting!numTasks', 0 .. Sorting!numTasks' - 1, BUCKETS)
      BY <1>1, <1>4, <1>10, <2>2
    <2>6. \A u \in ran' : Moved(SortDigits', N', Segment(u, N', Sorting!numTasks'), Sorting!From', To')
      BY <1>1, <1>10, <1>11, <1>13, <2>1, <2>2
    <2> QED BY <1>12, <2>3, <2>4, <2>5, <2>6 DEF SortInv
  <1>14. CASE /\ ran \union {t} = 0 .. k - 1 /\ ran' = {} /\ pass' = pass + 1
              /\ progress' = IF pass = Digits - 1 THEN "done" ELSE "count"
    <2>1. Moved(f, N, 0 .. N - 1, from, new)
      <3> SUFFICES ASSUME NEW i \in 0 .. N - 1 PROVE new[Rank(f, N, i)] = from[i]
        BY DEF Moved
      <3>1. PICK u \in 0 .. k - 1 : i \in Segment(u, N, k)
        BY <1>4, CutTiles DEF Segment
      <3>2. u \in ran \union {t}
        BY <1>14
      <3> HIDE DEF from
      <3> QED BY <1>11, <3>1, <3>2 DEF Moved
    <2>2. Perm(new, N) /\ OrderedMod(new, N, keys, w * BUCKETS)
      <3> HIDE DEF from
      <3> QED BY <1>4, <1>7, <1>8, <1>9, <2>1, IterationSorts
    <2>3. CASE pass # Digits - 1
      <3>1. pass % 2 = 0 <=> (pass + 1) % 2 # 0
        BY <1>5
      <3>2. Sorting!From' = new
        BY <1>2, <1>14, <3>1 DEF Sorting!From
      <3>3. pass' \in 0 .. Digits - 1 /\ ran' = {} /\ progress' = "count"
        BY <1>4, <1>5, <1>14, <2>3
      <3>4. Perm(Sorting!From', N') /\ OrderedMod(Sorting!From', N', keys', Sorting!Power'[pass'])
        BY <1>1, <1>9, <1>10, <1>14, <2>2, <3>2
      <3>5. Counted(radixCount', SortDigits', N', Sorting!numTasks', ran', BUCKETS)
        BY <3>3 DEF Counted
      <3> QED BY <1>12, <3>3, <3>4, <3>5 DEF SortInv
    <2>4. CASE pass = Digits - 1
      <3>1. pass % 2 # 0 /\ pass + 1 = Digits
        BY <1>5, <2>4
      <3>2. src' = new /\ progress' = "done"
        BY <1>2, <1>14, <2>4, <3>1
      <3>3. OrderedMod(new, N, keys, Sorting!Power[Digits])
        BY <1>9, <2>2, <3>1
      <3>4. \A i, j \in 0 .. N - 1 : i < j => keys[new[i]] <= keys[new[j]]
        BY <1>4, <1>9, <2>2, <3>3, WholeKeys
      <3>5. Perm(src', N') /\ Sorting!IsSorted(src)'
        BY <1>1, <2>2, <3>2, <3>4 DEF Sorting!IsSorted, Sorting!Places
      <3> QED BY <1>12, <3>2, <3>5 DEF SortInv
    <2> QED BY <2>3, <2>4
  <1> QED BY <1>3, <1>13, <1>14

LEMMA SortAnswer ==
  ASSUME Sorting!RadixSortAssumption, SortInv
  PROVE  Sorting!RadixSorted
  <1> DEFINE k == Sorting!numTasks
             f == SortDigits
  <1>1. ASSUME progress = "done"
        PROVE  src \in Sorting!Bijection(Sorting!Places, Sorting!Places) /\ Sorting!IsSorted(src)
    <2>1. Perm(src, N) /\ Sorting!IsSorted(src)
      BY <1>1 DEF SortInv
    <2> QED BY <2>1 DEF Perm, Bijection, Injection, Surjection, IsInjective, Sorting!Places,
                Sorting!Bijection, Sorting!Injection, Sorting!Surjection, Sorting!IsInjective
  <1>2. ASSUME progress = "copy"
        PROVE  /\ \A t \in Sorting!Tasks : \A i \in Sorting!Share(t) :
                    Sorting!Target(t, i) \in Sorting!Places
               /\ \A t, u \in Sorting!Tasks : \A i \in Sorting!Share(t), j \in Sorting!Share(u) :
                    i # j => Sorting!Target(t, i) # Sorting!Target(u, j)
    <2>1. /\ N \in Nat /\ k \in Nat \ {0} /\ pass \in Nat /\ Perm(Sorting!From, N)
          /\ keys \in [0 .. N - 1 -> 0 .. Sorting!Power[Digits] - 1]
      BY <1>2 DEF SortInv
    <2>2. f \in [0 .. N - 1 -> Nat]
      BY <2>1, SortDigitsType
    <2>3. f \in [0 .. N - 1 -> Int]
      BY <2>2
    <2>4. Sorting!Tasks = 0 .. k - 1 /\ Sorting!Places = 0 .. N - 1
      BY DEF Sorting!Tasks, Sorting!Places
    <2>5. ASSUME NEW t \in 0 .. k - 1, NEW i \in Sorting!Share(t)
          PROVE  i \in 0 .. N - 1 /\ Sorting!Target(t, i) = Rank(f, N, i)
      <3>1. Sorting!Share(t) = Segment(t, N, k)
        BY <2>1, SortBuckets
      <3>2. Segment(t, N, k) \subseteq 0 .. N - 1
        BY <2>1, SegmentFinite
      <3>3. i \in Segment(t, N, k)
        BY <3>1
      <3> QED BY <1>2, <3>2, <3>3, SortTarget
    <2> HIDE DEF k, f
    <2>6. /\ \A i \in 0 .. N - 1 : Rank(f, N, i) \in 0 .. N - 1
          /\ \A i, j \in 0 .. N - 1 : Rank(f, N, i) = Rank(f, N, j) => i = j
      BY <2>1, <2>3, RankPermutes
    <2>7. ASSUME NEW t \in 0 .. k - 1, NEW i \in Sorting!Share(t)
          PROVE  Sorting!Target(t, i) \in 0 .. N - 1
      BY <2>5, <2>6
    <2>8. ASSUME NEW t \in 0 .. k - 1, NEW u \in 0 .. k - 1, NEW i \in Sorting!Share(t),
                 NEW j \in Sorting!Share(u), Sorting!Target(t, i) = Sorting!Target(u, j)
          PROVE  i = j
      BY <2>5, <2>6, <2>8
    <2> QED BY <2>4, <2>7, <2>8
  <1> QED BY <1>1, <1>2 DEF Sorting!RadixSorted

SortStep ==
  \/ Sorting!SequentialSort \/ Sorting!Start
  \/ \E t \in Sorting!Tasks : Sorting!CountDigits(t)
  \/ \E t \in Sorting!Tasks : Sorting!CopyItems(t)

SortingInv == algorithm = "sort" => SortInv

LEMMA SortInvNext ==
  ASSUME PassesAssumption, SortingInv, NextOfPasses \/ UNCHANGED passesVars
  PROVE  SortingInv'
  <1>1. algorithm' = algorithm
    BY AlgorithmStays
  <1>2. CASE algorithm # "sort"
    BY <1>1, <1>2 DEF SortingInv
  <1>3. CASE algorithm = "sort"
    <2>0. Sorting!RadixSortAssumption /\ SortInv
      BY <1>3 DEF PassesAssumption, SortingInv
    <2>1. SortStep \/ UNCHANGED passesVars
      BY <1>3 DEF NextOfPasses, SplitTask, SplitGeometry, SplitDone, Quadify, StoreRefs, NextPass,
         FinishRefs, Serial, Begin, Reduce, RunTask, SequentialSort, StartSort, CountDigits,
         CopyItems, SegmentStep, FindMisplaced, SwapStep, Return, PassesEnded, SortStep
    <2>2. CASE SortStep
      <3>1. SortInv'
        BY <2>0, <2>2, SortSequential, SortStart, SortCount, SortCopy DEF SortStep
      <3> QED BY <3>1 DEF SortingInv
    <2>3. CASE UNCHANGED passesVars
      <3>1. UNCHANGED <<N, keys, threadCount, src, tmp, radixCount, pass, progress, ran>>
        BY <2>3 DEF passesVars, ofPrefixSum, ofSort
      <3>2. /\ Sorting!numTasks' = Sorting!numTasks /\ Sorting!From' = Sorting!From
            /\ Sorting!Power' = Sorting!Power /\ To' = To
        BY <3>1 DEF Sorting!numTasks, Sorting!From, Sorting!Power, To
      <3>3. SortDigits' = SortDigits
        BY <3>1, <3>2 DEF SortDigits, Sorting!Digit
      <3>4. Sorting!IsSorted(src)' = Sorting!IsSorted(src)
        BY <3>1 DEF Sorting!IsSorted, Sorting!Places
      <3>5. SortInv'
        BY <2>0, <3>1, <3>2, <3>3, <3>4 DEF SortInv
      <3> QED BY <3>5 DEF SortingInv
    <2> QED BY <2>1, <2>2, <2>3
  <1> QED BY <1>2, <1>3

(* The parallel sort loses no item and leaves them in the order of their    *)
(* whole keys, and no two tasks ever copy to one place or past the array's  *)
(* end: for every input, base, number of digits, threads, tasks and order   *)
(* of the tasks.                                                            *)
THEOREM ItemsAreSorted == SpecOfPasses => []RadixSorted
  <1>1. InitOfPasses => SortingInv
    <2> SUFFICES ASSUME InitOfPasses, algorithm = "sort" PROVE SortInv
      BY DEF SortingInv
    <2>1. Sorting!Init
      BY DEF InitOfPasses, InitSort, InitPrimRefs, InitPrefixSum, InitPartition
    <2>2. Sorting!RadixSortAssumption
      BY PassesAssumption DEF PassesAssumption
    <2> QED BY <2>1, <2>2, SortInit
  <1>2. SortingInv /\ [NextOfPasses]_passesVars => SortingInv'
    BY PassesAssumption, SortInvNext
  <1>3. SortingInv => RadixSorted
    BY PassesAssumption, SortAnswer DEF PassesAssumption, SortingInv, RadixSorted
  <1> QED BY <1>1, <1>2, <1>3, PTL DEF SpecOfPasses

------------------------------------------------------------------------------
(* Partitioning.                                                            *)

Parts == Partition!numTasks

InRange(range, p) == p \in range.begin .. range.end - 1

(* Ranges between two places, one behind the other and none empty.          *)
RangesOK(seq, lo, hi) ==
  /\ seq \in Seq([begin : Int, end : Int])
  /\ \A i \in 1 .. Len(seq) :
       lo <= seq[i].begin /\ seq[i].begin < seq[i].end /\ seq[i].end <= hi
  /\ \A i, j \in 1 .. Len(seq) : i < j => seq[i].end <= seq[j].begin

(* The places in the ranges before the n-th.                                *)
RangeSum(seq, n) ==
  SumFunctionOnSet([i \in 1 .. Len(seq) |-> seq[i].end - seq[i].begin], 1 .. n - 1)

(* Counted along the ranges, p is the place number k.                       *)
Numbered(seq, p, k) ==
  \E i \in 1 .. Len(seq) : InRange(seq[i], p) /\ k = RangeSum(seq, i) + (p - seq[i].begin)

(* A pointer into the ranges at the place number k, or behind the range     *)
(* that ends before it.                                                     *)
Stands(seq, range, done, k) ==
  /\ range \in 1 .. Len(seq)
  /\ done \in 0 .. seq[range].end - seq[range].begin
  /\ RangeSum(seq, range) + done = k

(* Where the share of task t ends of which size places are left.            *)
Reached(sw, t, items, k) == Cut(t + 1, items, k) - sw[t].size

(* The numbers of the places that were swapped.                             *)
SwappedBy(sw, t, items, k) == Cut(t, items, k) .. Reached(sw, t, items, k) - 1

SwappedNumbers(sw, items, k) == UNION {SwappedBy(sw, t, items, k) : t \in 0 .. k - 1}

(* On the wrong side are the places in the ranges that are not yet swapped. *)
SidesOK(a, left, m, n, lm, rm, D) ==
  /\ \A p \in 0 .. m - 1 : a[p] \notin left <=> \E k \in Nat \ D : Numbered(lm, p, k)
  /\ \A p \in m .. n - 1 : a[p] \in left <=> \E k \in Nat \ D : Numbered(rm, p, k)

SharesOK(sw, lm, rm, items, k) ==
  \A t \in 0 .. k - 1 :
    /\ sw[t].size \in Nat /\ sw[t].size <= Cut(t + 1, items, k) - Cut(t, items, k)
    /\ Stands(lm, sw[t].lRange, sw[t].lDone, Reached(sw, t, items, k))
    /\ Stands(rm, sw[t].rRange, sw[t].rDone, Reached(sw, t, items, k))

(* A task touches what it swaps.                                            *)
TouchedOK(tc, sw, n, lm, rm, items, k) ==
  \A p \in 0 .. n - 1 : \A t \in tc[p] :
    \E j \in SwappedBy(sw, t, items, k) : Numbered(lm, p, j) \/ Numbered(rm, p, j)

(* A segment from c to d: what a task passed from its left end to x and     *)
(* from its right end to y is on its side, and in its reductions L and R.   *)
SegmentOK(a, left, c, d, x, y, L, R) ==
  /\ x \in Int /\ y \in Int /\ c <= x /\ x <= y + 1 /\ y + 1 <= d
  /\ \A i \in c .. x - 1 : a[i] \in left
  /\ \A i \in y + 1 .. d - 1 : a[i] \notin left
  /\ L = {a[i] : i \in c .. x - 1} /\ R = {a[i] : i \in y + 1 .. d - 1}

SegmentsOK(a, left, n, k, lo, hi, red) ==
  \A t \in 0 .. k - 1 :
    SegmentOK(a, left, Cut(t, n, k), Cut(t + 1, n, k), lo[t], hi[t], red[t].left, red[t].right)

ReductionsOK(red, left, n, k) ==
  /\ UNION {red[t].left : t \in 0 .. k - 1} = left
  /\ UNION {red[t].right : t \in 0 .. k - 1} = (0 .. n - 1) \ left

SwapsOK(a, left, m, n, k, lm, rm, sw, tc) ==
  LET items == RangeSum(lm, Len(lm) + 1)
  IN /\ RangesOK(lm, 0, m) /\ RangesOK(rm, m, n)
     /\ RangeSum(rm, Len(rm) + 1) = items /\ items \in Nat \ {0}
     /\ SharesOK(sw, lm, rm, items, k)
     /\ SidesOK(a, left, m, n, lm, rm, SwappedNumbers(sw, items, k))
     /\ TouchedOK(tc, sw, n, lm, rm, items, k)

PartInputs == N \in Nat /\ leftOnes \subseteq 0 .. N - 1 /\ threadCount \in Nat \ {0}

PartInv ==
  /\ PartInputs
  /\ progress \in {"segments", "swaps", "done"}
  /\ Perm(array, N)
  /\ lPtr = [t \in 0 .. Parts - 1 |-> lPtr[t]] /\ rPtr = [t \in 0 .. Parts - 1 |-> rPtr[t]]
  /\ reduced \in [0 .. Parts - 1 -> [left : SUBSET (0 .. N - 1), right : SUBSET (0 .. N - 1)]]
  /\ swap = [t \in 0 .. Parts - 1 |-> swap[t]]
  /\ touched \in [0 .. N - 1 -> SUBSET (0 .. Parts - 1)]
  /\ progress = "segments" =>
       /\ SegmentsOK(array, leftOnes, N, Parts, lPtr, rPtr, reduced)
       /\ touched = [p \in 0 .. N - 1 |-> {}]
  /\ progress # "segments" =>
       /\ mid \in 0 .. N
       /\ ReductionsOK(reduced, leftOnes, N, Parts)
  /\ progress = "swaps" =>
       SwapsOK(array, leftOnes, mid, N, Parts, ranges.left, ranges.right, swap, touched)
  /\ progress = "done" =>
       /\ \A p \in 0 .. mid - 1 : array[p] \in leftOnes
       /\ \A p \in mid .. N - 1 : array[p] \notin leftOnes
       /\ \A p \in 0 .. N - 1 : \A t, u \in touched[p] : t = u

LEMMA RangeSumFacts ==
  ASSUME NEW lo, NEW hi, NEW seq, RangesOK(seq, lo, hi)
  PROVE  /\ Len(seq) \in Nat
         /\ \A i \in 1 .. Len(seq) : seq[i].begin \in Int /\ seq[i].end \in Int
         /\ \A n \in 1 .. Len(seq) + 1 : RangeSum(seq, n) \in Nat
         /\ RangeSum(seq, 1) = 0
         /\ \A n \in 1 .. Len(seq) :
              RangeSum(seq, n + 1) = RangeSum(seq, n) + (seq[n].end - seq[n].begin)
         /\ \A i, j \in 1 .. Len(seq) + 1 : i <= j => RangeSum(seq, i) <= RangeSum(seq, j)
  <1> DEFINE len == Len(seq)
             g == [i \in 1 .. len |-> seq[i].end - seq[i].begin]
  <1>1. len \in Nat BY LenProperties DEF RangesOK
  <1>2. \A i \in 1 .. len : seq[i].begin \in Int /\ seq[i].end \in Int /\ seq[i].begin < seq[i].end
    <2>1. \A i \in 1 .. len : seq[i] \in [begin : Int, end : Int]
      BY ElementOfSeq DEF RangesOK
    <2> QED BY <2>1 DEF RangesOK
  <1> HIDE DEF len
  <1>3. \A i \in 1 .. len : g[i] \in Nat BY <1>2
  <1>4. \A n : RangeSum(seq, n) = SumFunctionOnSet(g, 1 .. n - 1) BY DEF RangeSum, len
  <1>5. \A i \in 1 .. len : g[i] = seq[i].end - seq[i].begin OBVIOUS
  <1> HIDE DEF g
  <1>6. ASSUME NEW n \in 1 .. len + 1
        PROVE  IsFiniteSet(1 .. n - 1) /\ 1 .. n - 1 \subseteq 1 .. len /\ n \in Int
    <2>1. n \in Int /\ 1 \in Int /\ n - 1 \in Int BY <1>1
    <2>2. IsFiniteSet(1 .. n - 1) BY <2>1, FS_Interval
    <2> QED BY <1>1, <2>1, <2>2
  <1>7. ASSUME NEW n \in 1 .. len + 1 PROVE RangeSum(seq, n) \in Nat
    BY <1>3, <1>4, <1>6, SumNat
  <1>8. RangeSum(seq, 1) = 0
    <2>1. 1 .. 1 - 1 = {} OBVIOUS
    <2> QED BY <1>4, <2>1, SumEmpty
  <1>9. ASSUME NEW n \in 1 .. len
        PROVE  RangeSum(seq, n + 1) = RangeSum(seq, n) + (seq[n].end - seq[n].begin)
    <2>1. n \in 1 .. len + 1 /\ n + 1 \in 1 .. len + 1 BY <1>1
    <2>2. n \notin 1 .. n - 1 /\ 1 .. (n + 1) - 1 = (1 .. n - 1) \union {n} BY <1>1
    <2>3. IsFiniteSet(1 .. n - 1) /\ 1 .. n - 1 \subseteq 1 .. len BY <1>6, <2>1
    <2>4. g[n] \in Int /\ \A y \in 1 .. n - 1 : g[y] \in Int BY <1>3, <2>3
    <2>5. SumFunctionOnSet(g, (1 .. n - 1) \union {n}) = g[n] + SumFunctionOnSet(g, 1 .. n - 1)
      BY <2>2, <2>3, <2>4, SumAdd
    <2>6. RangeSum(seq, n + 1) = g[n] + RangeSum(seq, n) BY <1>4, <2>2, <2>5
    <2>7. RangeSum(seq, n) \in Nat BY <1>7, <2>1
    <2> QED BY <1>5, <2>4, <2>6, <2>7
  <1>10. ASSUME NEW i \in 1 .. len + 1, NEW j \in 1 .. len + 1, i <= j
         PROVE  RangeSum(seq, i) <= RangeSum(seq, j)
    <2>1. 1 .. i - 1 \in SUBSET (1 .. j - 1) BY <1>1, <1>10
    <2>2. IsFiniteSet(1 .. j - 1) /\ \A x \in 1 .. j - 1 : g[x] \in Nat BY <1>3, <1>6
    <2> QED BY <1>4, <2>1, <2>2, SumSubset
  <1> QED BY <1>1, <1>2, <1>7, <1>8, <1>9, <1>10 DEF len

LEMMA NumberedOnce ==
  ASSUME NEW lo, NEW hi, NEW seq, RangesOK(seq, lo, hi), NEW p, NEW k, NEW q, NEW j,
         Numbered(seq, p, k), Numbered(seq, q, j)
  PROVE  p = q <=> k = j
  <1>1. PICK a \in 1 .. Len(seq) : InRange(seq[a], p) /\ k = RangeSum(seq, a) + (p - seq[a].begin)
    BY DEF Numbered
  <1>2. PICK b \in 1 .. Len(seq) : InRange(seq[b], q) /\ j = RangeSum(seq, b) + (q - seq[b].begin)
    BY DEF Numbered
  <1>3. /\ seq[a].begin \in Int /\ seq[a].end \in Int /\ seq[b].begin \in Int /\ seq[b].end \in Int
        /\ Len(seq) \in Nat /\ a \in Nat /\ b \in Nat
    BY RangeSumFacts
  <1>4. p \in Int /\ q \in Int BY <1>1, <1>2, <1>3 DEF InRange
  <1>5. ASSUME NEW c \in 1 .. Len(seq), NEW d \in 1 .. Len(seq), c < d
        PROVE  /\ seq[c].end <= seq[d].begin
               /\ RangeSum(seq, c) + (seq[c].end - seq[c].begin) <= RangeSum(seq, d)
    <2>1. c + 1 \in 1 .. Len(seq) + 1 /\ d \in 1 .. Len(seq) + 1 /\ c + 1 <= d BY <1>3, <1>5
    <2>2. RangeSum(seq, c + 1) <= RangeSum(seq, d) BY <2>1, RangeSumFacts
    <2>3. RangeSum(seq, c + 1) = RangeSum(seq, c) + (seq[c].end - seq[c].begin) BY RangeSumFacts
    <2>4. seq[c].end <= seq[d].begin BY <1>5 DEF RangesOK
    <2> QED BY <2>2, <2>3, <2>4
  <1>6. RangeSum(seq, a) \in Nat /\ RangeSum(seq, b) \in Nat
    <2>1. a \in 1 .. Len(seq) + 1 /\ b \in 1 .. Len(seq) + 1 BY <1>3
    <2> QED BY <2>1, RangeSumFacts
  <1> DEFINE x == RangeSum(seq, a)
             y == RangeSum(seq, b)
             u == seq[a].begin
             v == seq[b].begin
  <1>11. k = x + (p - u) /\ j = y + (q - v) BY <1>1, <1>2
  <1>12. /\ x \in Nat /\ y \in Nat /\ u \in Int /\ v \in Int
         /\ u <= p /\ v <= q /\ p < seq[a].end /\ q < seq[b].end
    <2>1. p \in seq[a].begin .. seq[a].end - 1 /\ q \in seq[b].begin .. seq[b].end - 1
      BY <1>1, <1>2 DEF InRange
    <2> QED BY <1>3, <1>6, <2>1
  <1>13. a = b => x = y /\ u = v OBVIOUS
  <1> HIDE DEF x, y, u, v
  <1>10. k \in Int /\ j \in Int BY <1>4, <1>11, <1>12
  <1>7. CASE a = b BY <1>4, <1>7, <1>11, <1>12, <1>13
  <1>8. CASE a < b
    <2>1. /\ seq[a].end <= seq[b].begin
          /\ RangeSum(seq, a) + (seq[a].end - seq[a].begin) <= RangeSum(seq, b)
      BY <1>5, <1>8
    <2>2. seq[a].end <= v /\ x + (seq[a].end - u) <= y BY <2>1 DEF x, y, u, v
    <2>3. p < q BY <1>3, <1>4, <1>12, <2>2
    <2>4. k < j BY <1>3, <1>4, <1>11, <1>12, <2>2
    <2> QED BY <1>4, <1>10, <2>3, <2>4
  <1>9. CASE b < a
    <2>1. /\ seq[b].end <= seq[a].begin
          /\ RangeSum(seq, b) + (seq[b].end - seq[b].begin) <= RangeSum(seq, a)
      BY <1>5, <1>9
    <2>2. seq[b].end <= u /\ y + (seq[b].end - v) <= x BY <2>1 DEF x, y, u, v
    <2>3. q < p BY <1>3, <1>4, <1>12, <2>2
    <2>4. j < k BY <1>3, <1>4, <1>11, <1>12, <2>2
    <2> QED BY <1>4, <1>10, <2>3, <2>4
  <1> QED BY <1>3, <1>7, <1>8, <1>9

LEMMA NumberedBounds ==
  ASSUME NEW lo \in Int, NEW hi \in Int, NEW seq, RangesOK(seq, lo, hi), NEW p, NEW k,
         Numbered(seq, p, k)
  PROVE  p \in lo .. hi - 1 /\ k \in 0 .. RangeSum(seq, Len(seq) + 1) - 1
  <1>1. PICK a \in 1 .. Len(seq) : InRange(seq[a], p) /\ k = RangeSum(seq, a) + (p - seq[a].begin)
    BY DEF Numbered
  <1>2. /\ seq[a].begin \in Int /\ seq[a].end \in Int /\ Len(seq) \in Nat
        /\ RangeSum(seq, a + 1) = RangeSum(seq, a) + (seq[a].end - seq[a].begin)
    BY RangeSumFacts
  <1>3. a \in 1 .. Len(seq) + 1 /\ a + 1 \in 1 .. Len(seq) + 1 /\ Len(seq) + 1 \in 1 .. Len(seq) + 1
        /\ a + 1 <= Len(seq) + 1
    BY <1>2
  <1>4. /\ RangeSum(seq, a) \in Nat /\ RangeSum(seq, Len(seq) + 1) \in Nat
        /\ RangeSum(seq, a + 1) <= RangeSum(seq, Len(seq) + 1)
    BY <1>3, RangeSumFacts
  <1>5. lo <= seq[a].begin /\ seq[a].end <= hi BY DEF RangesOK
  <1>6. p \in seq[a].begin .. seq[a].end - 1 BY <1>1 DEF InRange
  <1>7. p \in lo .. hi - 1 BY <1>2, <1>5, <1>6
  <1>8. /\ k = RangeSum(seq, a) + (p - seq[a].begin) /\ p - seq[a].begin \in Nat
        /\ p - seq[a].begin < seq[a].end - seq[a].begin
    BY <1>1, <1>2, <1>6
  <1>9. k \in 0 .. RangeSum(seq, Len(seq) + 1) - 1
    <2> DEFINE x == RangeSum(seq, a)
               y == RangeSum(seq, a + 1)
               z == RangeSum(seq, Len(seq) + 1)
               d == p - seq[a].begin
               e == seq[a].end - seq[a].begin
    <2>1. /\ k = x + d /\ d \in Nat /\ d < e /\ e \in Int /\ x \in Nat /\ y = x + e
          /\ y <= z /\ z \in Nat
      BY <1>2, <1>4, <1>8
    <2> HIDE DEF x, y, z, d, e
    <2>2. k \in 0 .. z - 1 BY <2>1
    <2> QED BY <2>2 DEF z
  <1> QED BY <1>7, <1>9

LEMMA StandsAt ==
  ASSUME NEW lo, NEW hi, NEW seq, RangesOK(seq, lo, hi), NEW range, NEW done, NEW k,
         Stands(seq, range, done, k), NEW i \in Nat, done + i < seq[range].end - seq[range].begin
  PROVE  Numbered(seq, (seq[range].begin + done) + i, k + i)
  <1>1. /\ range \in 1 .. Len(seq) /\ done \in 0 .. seq[range].end - seq[range].begin
        /\ RangeSum(seq, range) + done = k
    BY DEF Stands
  <1>2. seq[range].begin \in Int /\ seq[range].end \in Int /\ Len(seq) \in Nat
    BY <1>1, RangeSumFacts
  <1>3. RangeSum(seq, range) \in Nat
    <2>1. range \in 1 .. Len(seq) + 1 BY <1>1, <1>2
    <2> QED BY <2>1, RangeSumFacts
  <1>4. InRange(seq[range], (seq[range].begin + done) + i) BY <1>1, <1>2 DEF InRange
  <1>5. k + i = RangeSum(seq, range) + (((seq[range].begin + done) + i) - seq[range].begin)
    BY <1>1, <1>2, <1>3
  <1> QED BY <1>1, <1>4, <1>5 DEF Numbered

LEMMA CursorStands ==
  ASSUME NEW lo, NEW hi, NEW seq, RangesOK(seq, lo, hi), NEW range, NEW done, NEW k,
         Stands(seq, range, done, k), k < RangeSum(seq, Len(seq) + 1),
         NEW c, c = Partition!Cursor(seq, range, done)
  PROVE  Stands(seq, c.range, c.done, k) /\ c.done < seq[c.range].end - seq[c.range].begin
  <1> DEFINE size == seq[range].end - seq[range].begin
  <1>1. range \in 1 .. Len(seq) /\ done \in 0 .. size /\ RangeSum(seq, range) + done = k
    BY DEF Stands
  <1>2. seq[range].begin \in Int /\ seq[range].end \in Int /\ Len(seq) \in Nat
    BY <1>1, RangeSumFacts
  <1>3. CASE done = size
    <2>1. c.range = range + 1 /\ c.done = 0
      BY <1>3 DEF Partition!Cursor, Partition!Size
    <2>2. RangeSum(seq, range + 1) = k BY <1>1, <1>3, RangeSumFacts
    <2>3. range + 1 # Len(seq) + 1
      <3>1. Len(seq) + 1 \in 1 .. Len(seq) + 1 BY <1>2
      <3>2. RangeSum(seq, Len(seq) + 1) \in Nat BY <3>1, RangeSumFacts
      <3> QED BY <2>2, <3>2
    <2>4. range + 1 \in 1 .. Len(seq) BY <1>1, <1>2, <2>3
    <2>5. /\ seq[range + 1].begin \in Int /\ seq[range + 1].end \in Int
          /\ seq[range + 1].begin < seq[range + 1].end
      BY <2>4, RangeSumFacts DEF RangesOK
    <2>6. RangeSum(seq, range + 1) + 0 = k
      <3>1. range + 1 \in 1 .. Len(seq) + 1 BY <1>1, <1>2
      <3>2. RangeSum(seq, range + 1) \in Nat BY <3>1, RangeSumFacts
      <3> QED BY <2>2, <3>2
    <2>7. 0 \in 0 .. seq[range + 1].end - seq[range + 1].begin BY <2>5
    <2>8. Stands(seq, range + 1, 0, k) BY <2>4, <2>6, <2>7 DEF Stands
    <2>9. 0 < seq[range + 1].end - seq[range + 1].begin BY <2>5
    <2> QED BY <2>1, <2>8, <2>9
  <1>4. CASE done # size
    <2>1. c.range = range /\ c.done = done
      BY <1>4 DEF Partition!Cursor, Partition!Size
    <2>2. done < seq[range].end - seq[range].begin BY <1>1, <1>2, <1>4
    <2> QED BY <2>1, <2>2
  <1> QED BY <1>3, <1>4

LEMMA PartitionSum == \A f, S : Partition!SumFunctionOnSet(f, S) = SumFunctionOnSet(f, S)
  BY DEF Partition!SumFunctionOnSet, SumFunctionOnSet, Partition!FoldFunctionOnSet,
     FoldFunctionOnSet, Partition!MapThenFoldSet, MapThenFoldSet

LEMMA BeforeIs ==
  ASSUME NEW lo, NEW hi, NEW seq, RangesOK(seq, lo, hi)
  PROVE  /\ \A m : Partition!Before(seq, m) = RangeSum(seq, m)
         /\ Partition!Total(seq) = RangeSum(seq, Len(seq) + 1)
  <1>1. DOMAIN seq = 1 .. Len(seq) BY LenProperties DEF RangesOK
  <1> DEFINE g == [i \in 1 .. Len(seq) |-> seq[i].end - seq[i].begin]
  <1>2. \A m : Partition!Before(seq, m) = Partition!SumFunctionOnSet(g, 1 .. m - 1)
    BY <1>1 DEF Partition!Before, Partition!Size
  <1>3. \A m : RangeSum(seq, m) = SumFunctionOnSet(g, 1 .. m - 1) BY DEF RangeSum
  <1> HIDE DEF g
  <1>4. \A m : Partition!Before(seq, m) = RangeSum(seq, m) BY <1>2, <1>3, PartitionSum
  <1> QED BY <1>4 DEF Partition!Total

LEMMA StartStands ==
  ASSUME NEW lo, NEW hi, NEW seq, RangesOK(seq, lo, hi),
         NEW k \in 0 .. RangeSum(seq, Len(seq) + 1) - 1,
         NEW c, c = Partition!Start(seq, k)
  PROVE  Stands(seq, c.range, c.done, k)
  <1> DEFINE len == Len(seq)
             S == {m \in 1 .. len : k < RangeSum(seq, m + 1)}
             n == Partition!Min(S)
  <1>1. DOMAIN seq = 1 .. len /\ len \in Nat
    BY LenProperties DEF RangesOK
  <1>2. \A m : Partition!Before(seq, m) = RangeSum(seq, m)
    BY BeforeIs
  <1>3. c.range = n /\ c.done = k - RangeSum(seq, n)
    BY <1>1, <1>2 DEF Partition!Start
  <1>4. len # 0
    <2>1. SUFFICES ASSUME len = 0 PROVE FALSE OBVIOUS
    <2>2. RangeSum(seq, len + 1) = 0 BY <2>1, RangeSumFacts
    <2>3. k \in 0 .. 0 - 1 BY <2>2
    <2> QED BY <2>3
  <1>5. len \in S
    <2>1. len + 1 \in 1 .. Len(seq) + 1 BY <1>1
    <2>2. RangeSum(seq, len + 1) \in Nat BY <2>1, RangeSumFacts
    <2>3. k < RangeSum(seq, len + 1) BY <2>2
    <2>4. len \in 1 .. len BY <1>1, <1>4
    <2> QED BY <2>3, <2>4
  <1>6. n \in S /\ \A m \in S : n <= m
    <2>1. S \in SUBSET Nat /\ S # {} BY <1>1, <1>5
    <2>2. \E x \in S : \A y \in S : x <= y
      <3> HIDE DEF S
      <3> QED BY <2>1, SmallestNat
    <2> HIDE DEF S
    <2> QED BY <2>2 DEF Partition!Min
  <1> HIDE DEF n
  <1>7. n \in 1 .. len /\ k < RangeSum(seq, n + 1) BY <1>6
  <1>8. RangeSum(seq, n) \in Nat /\ RangeSum(seq, n) <= k
    <2>1. RangeSum(seq, n) \in Nat
      <3>1. n \in 1 .. len + 1 BY <1>1, <1>7
      <3> QED BY <3>1, RangeSumFacts
    <2>2. CASE n = 1
      <3>1. RangeSum(seq, n) = 0 BY <2>2, RangeSumFacts
      <3> QED BY <2>1, <3>1
    <2>3. CASE n # 1
      <3>1. n - 1 \in 1 .. len /\ (n - 1) + 1 = n BY <1>1, <1>7, <2>3
      <3>2. n - 1 \notin S
        <4> HIDE DEF S
        <4>1. ~(n <= n - 1) BY <3>1
        <4> QED BY <1>6, <4>1
      <3>3. ~(k < RangeSum(seq, n)) BY <3>1, <3>2
      <3> QED BY <2>1, <3>3
    <2> QED BY <2>2, <2>3
  <1>9. RangeSum(seq, n + 1) = RangeSum(seq, n) + (seq[n].end - seq[n].begin)
    BY <1>7, RangeSumFacts
  <1>10. seq[n].begin \in Int /\ seq[n].end \in Int BY <1>7, RangeSumFacts
  <1>11. k - RangeSum(seq, n) \in 0 .. seq[n].end - seq[n].begin
    BY <1>7, <1>8, <1>9, <1>10
  <1>12. RangeSum(seq, n) + (k - RangeSum(seq, n)) = k BY <1>8
  <1> QED BY <1>3, <1>7, <1>11, <1>12 DEF Stands

(* Exchanging two stretches of places on different sides.                   *)
SwapRuns(a, n, lp, rp, c) ==
  [i \in 0 .. n - 1 |->
     IF i \in lp .. lp + c - 1 THEN a[rp + i - lp]
     ELSE IF i \in rp .. rp + c - 1 THEN a[lp + i - rp]
     ELSE a[i]]

LEMMA SwapPerm ==
  ASSUME NEW n \in Nat, NEW a, Perm(a, n), NEW c \in Nat, NEW lp \in Nat, NEW rp \in Nat,
         lp + c <= rp, rp + c <= n
  PROVE  Perm(SwapRuns(a, n, lp, rp, c), n)
  <1> DEFINE b == SwapRuns(a, n, lp, rp, c)
             P == 0 .. n - 1
             s(i) == IF i \in lp .. lp + c - 1 THEN rp + i - lp
                     ELSE IF i \in rp .. rp + c - 1 THEN lp + i - rp
                     ELSE i
  <1>1. /\ a \in [P -> P] /\ \A i, j \in P : a[i] = a[j] => i = j
        /\ \A x \in P : \E i \in P : a[i] = x
    BY DEF Perm, Bijection, Injection, Surjection, IsInjective
  <1>2. \A i \in P : s(i) \in P /\ s(s(i)) = i
    OBVIOUS
  <1>3. b = [i \in P |-> a[s(i)]] BY DEF SwapRuns
  <1> HIDE DEF b, s, P
  <1>4. b \in [P -> P] BY <1>1, <1>2, <1>3
  <1>5. ASSUME NEW i \in P, NEW j \in P, b[i] = b[j] PROVE i = j
    <2>1. a[s(i)] = a[s(j)] BY <1>3, <1>5
    <2>2. s(i) = s(j) BY <1>1, <1>2, <2>1
    <2> QED BY <1>2, <2>2
  <1>6. ASSUME NEW x \in P PROVE \E i \in P : b[i] = x
    <2>1. PICK i \in P : a[i] = x BY <1>1
    <2>2. s(i) \in P /\ b[s(i)] = a[s(s(i))] BY <1>2, <1>3
    <2> QED BY <1>2, <2>1, <2>2
  <1>7. b \in Bijection(P, P)
    BY <1>4, <1>5, <1>6 DEF Bijection, Injection, Surjection, IsInjective
  <1> QED BY <1>7 DEF Perm, P, b

LEMMA SwapSides ==
  ASSUME NEW n \in Nat, NEW m \in 0 .. n, NEW a, NEW left, NEW lm, NEW rm, NEW D, NEW k \in Nat,
         RangesOK(lm, 0, m), RangesOK(rm, m, n), SidesOK(a, left, m, n, lm, rm, D),
         NEW c \in Nat, NEW lp \in Nat, NEW rp \in Nat, lp + c <= m, m <= rp, rp + c <= n,
         \A i \in 0 .. c - 1 : Numbered(lm, lp + i, k + i) /\ Numbered(rm, rp + i, k + i),
         \A i \in 0 .. c - 1 : k + i \notin D
  PROVE  SidesOK(SwapRuns(a, n, lp, rp, c), left, m, n, lm, rm, D \union (k .. k + c - 1))
  <1> DEFINE b == SwapRuns(a, n, lp, rp, c)
             E == D \union (k .. k + c - 1)
  <1>1. ASSUME NEW i \in 0 .. c - 1
        PROVE  /\ lp + i \in 0 .. m - 1 /\ rp + i \in m .. n - 1 /\ k + i \in Nat \ D
               /\ a[lp + i] \notin left /\ a[rp + i] \in left
               /\ b[lp + i] = a[rp + i] /\ b[rp + i] = a[lp + i]
    <2>1. lp + i \in 0 .. m - 1 /\ rp + i \in m .. n - 1 OBVIOUS
    <2>2. k + i \in Nat \ D OBVIOUS
    <2>3. Numbered(lm, lp + i, k + i) /\ Numbered(rm, rp + i, k + i) OBVIOUS
    <2>4. a[lp + i] \notin left BY <2>1, <2>2, <2>3 DEF SidesOK
    <2>5. a[rp + i] \in left BY <2>1, <2>2, <2>3 DEF SidesOK
    <2>6. lp + i \in 0 .. n - 1 /\ lp + i \in lp .. lp + c - 1 /\ rp + (lp + i) - lp = rp + i OBVIOUS
    <2>7. b[lp + i] = a[rp + i] BY <2>6 DEF SwapRuns
    <2>8. /\ rp + i \in 0 .. n - 1 /\ rp + i \in rp .. rp + c - 1 /\ rp + i \notin lp .. lp + c - 1
          /\ lp + (rp + i) - rp = lp + i
      OBVIOUS
    <2>9. b[rp + i] = a[lp + i] BY <2>8 DEF SwapRuns
    <2> QED BY <2>1, <2>2, <2>4, <2>5, <2>7, <2>9
  <1>2. ASSUME NEW p \in 0 .. n - 1, p \notin lp .. lp + c - 1, p \notin rp .. rp + c - 1
        PROVE  b[p] = a[p]
    BY <1>2 DEF SwapRuns
  <1> HIDE DEF b
  <1>3. ASSUME NEW p \in 0 .. m - 1
        PROVE  b[p] \notin left <=> \E j \in Nat \ E : Numbered(lm, p, j)
    <2>1. CASE p \in lp .. lp + c - 1
      <3>1. PICK i \in 0 .. c - 1 : p = lp + i
        <4>1. p - lp \in 0 .. c - 1 /\ p = lp + (p - lp) BY <2>1
        <4> QED BY <4>1
      <3>2. b[p] \in left BY <1>1, <3>1
      <3>3. ASSUME NEW j \in Nat \ E, Numbered(lm, p, j) PROVE FALSE
        <4>1. Numbered(lm, p, k + i) BY <3>1
        <4>2. j = k + i BY <3>3, <4>1, NumberedOnce
        <4> QED BY <4>2
      <3> QED BY <3>2, <3>3
    <2>2. CASE p \notin lp .. lp + c - 1
      <3>1. p \in 0 .. n - 1 /\ p \notin rp .. rp + c - 1 OBVIOUS
      <3>2. b[p] = a[p] BY <1>2, <2>2, <3>1
      <3>3. ASSUME NEW j \in Nat, Numbered(lm, p, j), j \in k .. k + c - 1 PROVE FALSE
        <4>1. j - k \in 0 .. c - 1 /\ k + (j - k) = j BY <3>3
        <4>2. Numbered(lm, lp + (j - k), j) BY <4>1
        <4>3. p = lp + (j - k) BY <3>3, <4>2, NumberedOnce
        <4> QED BY <2>2, <4>1, <4>3
      <3>4. a[p] \notin left <=> \E j \in Nat \ D : Numbered(lm, p, j) BY DEF SidesOK
      <3> QED BY <3>2, <3>3, <3>4
    <2> QED BY <2>1, <2>2
  <1>4. ASSUME NEW p \in m .. n - 1
        PROVE  b[p] \in left <=> \E j \in Nat \ E : Numbered(rm, p, j)
    <2>1. CASE p \in rp .. rp + c - 1
      <3>1. PICK i \in 0 .. c - 1 : p = rp + i
        <4>1. p - rp \in 0 .. c - 1 /\ p = rp + (p - rp) BY <2>1
        <4> QED BY <4>1
      <3>2. b[p] \notin left BY <1>1, <3>1
      <3>3. ASSUME NEW j \in Nat \ E, Numbered(rm, p, j) PROVE FALSE
        <4>1. Numbered(rm, p, k + i) BY <3>1
        <4>2. j = k + i BY <3>3, <4>1, NumberedOnce
        <4> QED BY <4>2
      <3> QED BY <3>2, <3>3
    <2>2. CASE p \notin rp .. rp + c - 1
      <3>1. p \in 0 .. n - 1 /\ p \notin lp .. lp + c - 1 OBVIOUS
      <3>2. b[p] = a[p] BY <1>2, <2>2, <3>1
      <3>3. ASSUME NEW j \in Nat, Numbered(rm, p, j), j \in k .. k + c - 1 PROVE FALSE
        <4>1. j - k \in 0 .. c - 1 /\ k + (j - k) = j BY <3>3
        <4>2. Numbered(rm, rp + (j - k), j) BY <4>1
        <4>3. p = rp + (j - k) BY <3>3, <4>2, NumberedOnce
        <4> QED BY <2>2, <4>1, <4>3
      <3>4. a[p] \in left <=> \E j \in Nat \ D : Numbered(rm, p, j) BY DEF SidesOK
      <3> QED BY <3>2, <3>3, <3>4
    <2> QED BY <2>1, <2>2
  <1> QED BY <1>3, <1>4 DEF SidesOK, b

(* The loop that leaves out what is empty.                                  *)
LengthOf(range) == range.end - range.begin

IsKept(f, rs, k) ==
  f = [t \in 0 .. k |->
         IF t = 0 THEN <<>>
         ELSE IF LengthOf(rs[t - 1]) > 0 THEN Append(f[t - 1], rs[t - 1]) ELSE f[t - 1]]

Kept(rs, k) == CHOOSE f : IsKept(f, rs, k)

LEMMA KeptExists ==
  ASSUME NEW rs, NEW n \in Nat
  PROVE  \E f : IsKept(f, rs, n)
  <1> DEFINE C == {l \in Nat : ~ \E f : IsKept(f, rs, l)}
             next(s, t) == IF LengthOf(rs[t - 1]) > 0 THEN Append(s, rs[t - 1]) ELSE s
  <1>1. SUFFICES ASSUME C # {} PROVE FALSE OBVIOUS
  <1>2. PICK l \in C : \A m \in C : l <= m
    <2> C \in SUBSET Nat OBVIOUS
    <2> HIDE DEF C
    <2> QED BY <1>1, SmallestNat
  <1>0. \A f, m : IsKept(f, rs, m) <=>
                    f = [t \in 0 .. m |-> IF t = 0 THEN <<>> ELSE next(f[t - 1], t)]
    BY DEF IsKept
  <1> HIDE DEF next
  <1>3. CASE l = 0
    <2> DEFINE f == [t \in 0 .. 0 |-> <<>>]
    <2>1. f = [t \in 0 .. 0 |-> IF t = 0 THEN <<>> ELSE next(f[t - 1], t)] OBVIOUS
    <2> HIDE DEF f
    <2> QED BY <1>0, <1>2, <1>3, <2>1
  <1>4. CASE l # 0
    <2>1. l - 1 \in Nat /\ l - 1 \notin C BY <1>2, <1>4
    <2>2. PICK f : IsKept(f, rs, l - 1) BY <2>1
    <2> DEFINE g == [t \in 0 .. l |-> IF t = l THEN next(f[l - 1], l) ELSE f[t]]
    <2>3. ASSUME NEW t \in 0 .. l
          PROVE  g[t] = IF t = 0 THEN <<>> ELSE next(g[t - 1], t)
      <3>1. f = [i \in 0 .. l - 1 |-> IF i = 0 THEN <<>> ELSE next(f[i - 1], i)]
        BY <1>0, <2>2
      <3>2. CASE t = l BY <1>4, <2>1, <3>2
      <3>3. CASE t # l
        <4>1. t \in 0 .. l - 1 BY <2>1, <3>3
        <4>2. f[t] = IF t = 0 THEN <<>> ELSE next(f[t - 1], t) BY <3>1, <4>1
        <4>3. t # 0 => t - 1 \in 0 .. l /\ t - 1 # l BY <4>1
        <4> QED BY <3>3, <4>2, <4>3
      <3> QED BY <3>2, <3>3
    <2>4. IsKept(g, rs, l)
      <3> DEFINE h == [t \in 0 .. l |-> IF t = 0 THEN <<>> ELSE next(g[t - 1], t)]
      <3>1. \A t \in 0 .. l : g[t] = h[t]
        <4> HIDE DEF g
        <4> QED BY <2>3
      <3>2. g = [t \in 0 .. l |-> g[t]] /\ h = [t \in 0 .. l |-> h[t]] OBVIOUS
      <3>3. g = h
        <4> HIDE DEF g, h
        <4> QED BY <3>1, <3>2
      <3> HIDE DEF g
      <3> QED BY <1>0, <3>3
    <2> HIDE DEF g
    <2> QED BY <1>2, <2>4
  <1> QED BY <1>3, <1>4

(* Of the ranges of tasks in their order, some may be empty.                *)
RunsOK(rs, k, lo, hi) ==
  /\ \A t \in 0 .. k - 1 : rs[t] \in [begin : Int, end : Int]
  /\ \A t \in 0 .. k - 1 : LengthOf(rs[t]) > 0 => lo <= rs[t].begin /\ rs[t].end <= hi
  /\ \A t, u \in 0 .. k - 1 :
       t < u /\ LengthOf(rs[t]) > 0 /\ LengthOf(rs[u]) > 0 => rs[t].end <= rs[u].begin

(* A sequence of those that are not empty, of the first j.                  *)
KeptOK(s, rs, hs, j, lo, hi) ==
  /\ RangesOK(s, lo, hi)
  /\ \A i \in 1 .. Len(s) : \E t \in 0 .. j - 1 : rs[t] = s[i]
  /\ \A t \in 0 .. j - 1 : LengthOf(rs[t]) > 0 => \E i \in 1 .. Len(s) : s[i] = rs[t]
  /\ RangeSum(s, Len(s) + 1) = SumFunctionOnSet(hs, 0 .. j - 1)

LEMMA KeptStep ==
  ASSUME NEW k \in Nat, NEW lo \in Int, NEW hi \in Int, NEW rs, RunsOK(rs, k, lo, hi),
         NEW j \in 0 .. k - 1, NEW s, NEW hs, KeptOK(s, rs, hs, j, lo, hi),
         \A t \in 0 .. k - 1 : hs[t] = IF LengthOf(rs[t]) > 0 THEN LengthOf(rs[t]) ELSE 0
  PROVE  KeptOK(IF LengthOf(rs[j]) > 0 THEN Append(s, rs[j]) ELSE s, rs, hs, j + 1, lo, hi)
  <1> DEFINE x == rs[j]
             q == Append(s, x)
             R == [begin : Int, end : Int]
  <1>1. RangesOK(s, lo, hi) /\ Len(s) \in Nat /\ s \in Seq(R) /\ x \in R
    BY RangeSumFacts DEF KeptOK, RangesOK, RunsOK
  <1>2. x.begin \in Int /\ x.end \in Int /\ LengthOf(x) \in Int
    <2> HIDE DEF x
    <2> QED BY <1>1 DEF LengthOf
  <1>3. SumFunctionOnSet(hs, 0 .. (j + 1) - 1) = hs[j] + SumFunctionOnSet(hs, 0 .. j - 1)
    <2>1. j \notin 0 .. j - 1 /\ 0 .. (j + 1) - 1 = (0 .. j - 1) \union {j} OBVIOUS
    <2>2. IsFiniteSet(0 .. j - 1)
      <3>1. 0 \in Int /\ j - 1 \in Int OBVIOUS
      <3> QED BY <3>1, FS_Interval
    <2>3. \A t \in 0 .. k - 1 : LengthOf(rs[t]) \in Int BY DEF LengthOf, RunsOK
    <2>4. \A t \in 0 .. k - 1 : hs[t] \in Int BY <2>3
    <2>5. j \in 0 .. k - 1 /\ 0 .. j - 1 \subseteq 0 .. k - 1 OBVIOUS
    <2> QED BY <2>1, <2>2, <2>4, <2>5, SumAdd
  <1>4. CASE ~(LengthOf(x) > 0)
    <2>1. hs[j] = 0 BY <1>4
    <2>2. RangeSum(s, Len(s) + 1) = SumFunctionOnSet(hs, 0 .. j - 1) BY DEF KeptOK
    <2>3. RangeSum(s, Len(s) + 1) \in Nat
      <3>1. Len(s) + 1 \in 1 .. Len(s) + 1 BY <1>1
      <3> QED BY <1>1, <3>1, RangeSumFacts
    <2>4. RangeSum(s, Len(s) + 1) = SumFunctionOnSet(hs, 0 .. (j + 1) - 1)
      BY <1>3, <2>1, <2>2, <2>3
    <2>5. \A i \in 1 .. Len(s) : \E t \in 0 .. (j + 1) - 1 : rs[t] = s[i]
      <3>1. 0 .. j - 1 \subseteq 0 .. (j + 1) - 1 OBVIOUS
      <3> QED BY <3>1 DEF KeptOK
    <2>6. \A t \in 0 .. (j + 1) - 1 : LengthOf(rs[t]) > 0 => \E i \in 1 .. Len(s) : s[i] = rs[t]
      <3>1. \A t \in 0 .. (j + 1) - 1 : t = j \/ t \in 0 .. j - 1 OBVIOUS
      <3> QED BY <1>4, <3>1 DEF KeptOK
    <2> QED BY <1>1, <1>4, <2>4, <2>5, <2>6 DEF KeptOK
  <1>5. CASE LengthOf(x) > 0
    <2>1. /\ q \in Seq(R) /\ Len(q) = Len(s) + 1
          /\ \A i \in 1 .. Len(s) : q[i] = s[i]
          /\ q[Len(s) + 1] = x
      BY <1>1, AppendProperties
    <2> HIDE DEF q, x
    <2>2. ASSUME NEW i \in 1 .. Len(q) PROVE i \in 1 .. Len(s) \/ i = Len(s) + 1
      BY <1>1, <2>1
    <2>3. lo <= x.begin /\ x.begin < x.end /\ x.end <= hi
      <3>1. lo <= x.begin /\ x.end <= hi BY <1>5 DEF RunsOK, x
      <3> QED BY <1>2, <1>5, <3>1 DEF LengthOf
    <2>4. ASSUME NEW i \in 1 .. Len(s) PROVE s[i].end <= x.begin
      <3>1. PICK t \in 0 .. j - 1 : rs[t] = s[i] BY DEF KeptOK
      <3>2. s[i].begin < s[i].end /\ s[i].begin \in Int /\ s[i].end \in Int
        BY <1>1, RangeSumFacts DEF RangesOK
      <3>3. LengthOf(rs[t]) > 0 BY <3>1, <3>2 DEF LengthOf
      <3>4. t \in 0 .. k - 1 /\ t < j OBVIOUS
      <3> QED BY <1>5, <3>1, <3>3, <3>4 DEF RunsOK, x
    <2>5. RangesOK(q, lo, hi)
      <3>1. ASSUME NEW i \in 1 .. Len(q)
            PROVE  lo <= q[i].begin /\ q[i].begin < q[i].end /\ q[i].end <= hi
        BY <1>1, <2>1, <2>2, <2>3 DEF RangesOK
      <3>2. ASSUME NEW a \in 1 .. Len(q), NEW b \in 1 .. Len(q), a < b
            PROVE  q[a].end <= q[b].begin
        <4>1. a \in 1 .. Len(s) BY <1>1, <2>1, <3>2
        <4>2. CASE b \in 1 .. Len(s) BY <1>1, <2>1, <3>2, <4>1, <4>2 DEF RangesOK
        <4>3. CASE b = Len(s) + 1 BY <2>1, <2>4, <4>1, <4>3
        <4> QED BY <2>2, <4>2, <4>3
      <3> QED BY <2>1, <3>1, <3>2 DEF RangesOK
    <2>6. \A i \in 1 .. Len(q) : \E t \in 0 .. (j + 1) - 1 : rs[t] = q[i]
      <3>1. 0 .. j - 1 \subseteq 0 .. (j + 1) - 1 /\ j \in 0 .. (j + 1) - 1 OBVIOUS
      <3>2. ASSUME NEW i \in 1 .. Len(s) PROVE \E t \in 0 .. (j + 1) - 1 : rs[t] = q[i]
        BY <2>1, <3>1 DEF KeptOK
      <3>3. rs[j] = q[Len(s) + 1] BY <2>1 DEF x
      <3> QED BY <2>2, <3>1, <3>2, <3>3
    <2>7. \A t \in 0 .. (j + 1) - 1 : LengthOf(rs[t]) > 0 => \E i \in 1 .. Len(q) : q[i] = rs[t]
      <3>1. \A t \in 0 .. (j + 1) - 1 : t = j \/ t \in 0 .. j - 1 OBVIOUS
      <3>2. Len(s) + 1 \in 1 .. Len(q) /\ 1 .. Len(s) \subseteq 1 .. Len(q) BY <1>1, <2>1
      <3>3. ASSUME NEW t \in 0 .. j - 1, LengthOf(rs[t]) > 0
            PROVE  \E i \in 1 .. Len(q) : q[i] = rs[t]
        <4>1. PICK i \in 1 .. Len(s) : s[i] = rs[t] BY <3>3 DEF KeptOK
        <4> QED BY <2>1, <3>2, <4>1
      <3>4. q[Len(s) + 1] = rs[j] BY <2>1 DEF x
      <3> QED BY <3>1, <3>2, <3>3, <3>4
    <2>8. RangeSum(q, Len(q) + 1) = SumFunctionOnSet(hs, 0 .. (j + 1) - 1)
      <3> DEFINE g == [i \in 1 .. Len(s) |-> s[i].end - s[i].begin]
                 h == [i \in 1 .. Len(q) |-> q[i].end - q[i].begin]
                 n == Len(s) + 1
      <3>1. n \in 1 .. Len(q) /\ 1 .. n - 1 = 1 .. Len(s) /\ 1 .. Len(s) \subseteq 1 .. Len(q)
            /\ Len(q) + 1 = n + 1 /\ n \in 1 .. Len(s) + 1
        BY <1>1, <2>1
      <3>2. RangeSum(q, n + 1) = RangeSum(q, n) + (q[n].end - q[n].begin)
        BY <2>5, <3>1, RangeSumFacts
      <3>3. \A i \in 1 .. Len(s) : g[i] \in Int /\ g[i] = h[i]
        <4>1. \A i \in 1 .. Len(s) : s[i].begin \in Int /\ s[i].end \in Int
          BY <1>1, RangeSumFacts
        <4>2. \A i \in 1 .. Len(s) : g[i] = s[i].end - s[i].begin OBVIOUS
        <4>3. \A i \in 1 .. Len(q) : h[i] = q[i].end - q[i].begin OBVIOUS
        <4> HIDE DEF g, h
        <4>4. ASSUME NEW i \in 1 .. Len(s) PROVE g[i] \in Int /\ g[i] = h[i]
          <5>1. i \in 1 .. Len(q) /\ q[i] = s[i] BY <2>1, <3>1
          <5>2. h[i] = s[i].end - s[i].begin BY <4>3, <5>1
          <5>3. s[i].end - s[i].begin \in Int BY <4>1
          <5> QED BY <4>2, <5>2, <5>3
        <4> QED BY <4>4
      <3>4. RangeSum(s, n) = SumFunctionOnSet(g, 1 .. Len(s)) BY <3>1 DEF RangeSum
      <3>5. RangeSum(q, n) = SumFunctionOnSet(h, 1 .. Len(s)) BY <3>1 DEF RangeSum
      <3>6. IsFiniteSet(1 .. Len(s))
        <4>1. 1 \in Int /\ Len(s) \in Int BY <1>1
        <4> QED BY <4>1, FS_Interval
      <3> HIDE DEF g, h
      <3>7. RangeSum(q, n) = RangeSum(s, n) BY <3>3, <3>4, <3>5, <3>6, SumSame
      <3>8. RangeSum(s, n) \in Nat BY <1>1, <3>1, RangeSumFacts
      <3>9. RangeSum(s, n) = SumFunctionOnSet(hs, 0 .. j - 1) BY DEF KeptOK
      <3>10. hs[j] = LengthOf(x) BY <1>5 DEF x
      <3>11. q[n] = x BY <2>1
      <3>12. RangeSum(q, n + 1) = RangeSum(s, n) + LengthOf(x) BY <3>2, <3>7, <3>11 DEF LengthOf
      <3>13. SumFunctionOnSet(hs, 0 .. (j + 1) - 1) = LengthOf(x) + RangeSum(s, n)
        BY <1>3, <3>9, <3>10
      <3>14. Len(q) + 1 = n + 1 BY <3>1
      <3> HIDE DEF n
      <3> QED BY <1>2, <3>8, <3>12, <3>13, <3>14
    <2>9. KeptOK(q, rs, hs, j + 1, lo, hi) BY <2>5, <2>6, <2>7, <2>8 DEF KeptOK
    <2> QED BY <1>5, <2>9 DEF q, x
  <1> QED BY <1>4, <1>5

LEMMA KeptFacts ==
  ASSUME NEW k \in Nat, NEW lo \in Int, NEW hi \in Int, NEW rs, RunsOK(rs, k, lo, hi), NEW hs,
         \A t \in 0 .. k - 1 : hs[t] = IF LengthOf(rs[t]) > 0 THEN LengthOf(rs[t]) ELSE 0
  PROVE  KeptOK(Kept(rs, k)[k], rs, hs, k, lo, hi)
  <1>1. PICK f : f = Kept(rs, k) OBVIOUS
  <1>2. f = [t \in 0 .. k |->
               IF t = 0 THEN <<>>
               ELSE IF LengthOf(rs[t - 1]) > 0 THEN Append(f[t - 1], rs[t - 1]) ELSE f[t - 1]]
    <2>1. IsKept(f, rs, k) BY <1>1, KeptExists DEF Kept
    <2> QED BY <2>1 DEF IsKept
  <1> DEFINE C == {j \in 0 .. k : ~KeptOK(f[j], rs, hs, j, lo, hi)}
  <1>3. SUFFICES ASSUME C # {} PROVE FALSE
    <2>1. k \in 0 .. k OBVIOUS
    <2> QED BY <1>1, <2>1
  <1>4. PICK j \in C : \A m \in C : j <= m
    <2> C \in SUBSET Nat OBVIOUS
    <2> HIDE DEF C
    <2> QED BY <1>3, SmallestNat
  <1>5. CASE j = 0
    <2> DEFINE e == <<>>
    <2>1. f[0] = e BY <1>2
    <2>2. e \in Seq([begin : Int, end : Int]) /\ Len(e) = 0 BY EmptySeq
    <2> HIDE DEF e
    <2>3. RangesOK(e, lo, hi) BY <2>2 DEF RangesOK
    <2>4. RangeSum(e, Len(e) + 1) = 0
      <3>1. RangeSum(e, 1) = 0 BY <2>3, RangeSumFacts
      <3> QED BY <2>2, <3>1
    <2>5. SumFunctionOnSet(hs, 0 .. 0 - 1) = 0
      <3>1. 0 .. 0 - 1 = {} OBVIOUS
      <3> QED BY <3>1, SumEmpty
    <2>6. KeptOK(e, rs, hs, 0, lo, hi) BY <2>2, <2>3, <2>4, <2>5 DEF KeptOK
    <2> QED BY <1>4, <1>5, <2>1, <2>6
  <1>6. CASE j # 0
    <2>1. j - 1 \in 0 .. k - 1 /\ j - 1 \in 0 .. k /\ (j - 1) + 1 = j /\ j \in 0 .. k BY <1>4, <1>6
    <2>2. j - 1 \notin C
      <3>1. ~(j <= j - 1) BY <2>1
      <3> HIDE DEF C
      <3> QED BY <1>4, <3>1
    <2>3. KeptOK(f[j - 1], rs, hs, j - 1, lo, hi) BY <2>1, <2>2
    <2> DEFINE next == IF LengthOf(rs[j - 1]) > 0 THEN Append(f[j - 1], rs[j - 1]) ELSE f[j - 1]
    <2>4. f[j] = next BY <1>2, <1>6, <2>1
    <2>5. KeptOK(next, rs, hs, (j - 1) + 1, lo, hi) BY <2>1, <2>3, KeptStep
    <2> HIDE DEF next
    <2> QED BY <1>4, <2>1, <2>4, <2>5
  <1> QED BY <1>5, <1>6

------------------------------------------------------------------------------
(* How many places are on the wrong side.                                   *)

LEMMA PlacesFinite == \A n \in Int : IsFiniteSet(0 .. n)
  <1>1. ASSUME NEW n \in Int PROVE IsFiniteSet(0 .. n)
    <2>1. 0 \in Int OBVIOUS
    <2> QED BY <2>1, FS_Interval
  <1> QED BY <1>1

LEMMA Telescope ==
  ASSUME NEW k \in Nat, NEW F, \A t \in 0 .. k : F[t] \in Int,
         NEW g, \A t \in 0 .. k - 1 : g[t] = F[t + 1] - F[t]
  PROVE  SumFunctionOnSet(g, 0 .. k - 1) = F[k] - F[0]
  <1> DEFINE C == {j \in 0 .. k : SumFunctionOnSet(g, 0 .. j - 1) # F[j] - F[0]}
  <1>1. SUFFICES ASSUME C # {} PROVE FALSE
    <2>1. k \in 0 .. k OBVIOUS
    <2> QED BY <2>1
  <1>2. PICK j \in C : \A m \in C : j <= m
    <2> C \in SUBSET Nat OBVIOUS
    <2> HIDE DEF C
    <2> QED BY <1>1, SmallestNat
  <1>3. CASE j = 0
    <2>1. 0 .. 0 - 1 = {} OBVIOUS
    <2>2. F[0] \in Int OBVIOUS
    <2> QED BY <1>2, <1>3, <2>1, <2>2, SumEmpty
  <1>4. CASE j # 0
    <2> DEFINE i == j - 1
    <2>1. i \in 0 .. k - 1 /\ i \in 0 .. k /\ i + 1 = j /\ j \in 0 .. k BY <1>2, <1>4
    <2>2. i \notin C
      <3>1. ~(j <= i) BY <2>1
      <3> HIDE DEF C
      <3> QED BY <1>2, <3>1
    <2>3. SumFunctionOnSet(g, 0 .. i - 1) = F[i] - F[0] BY <2>1, <2>2
    <2> HIDE DEF i
    <2>4. F[i] \in Int /\ F[j] \in Int /\ F[0] \in Int BY <2>1
    <2>5. g[i] = F[j] - F[i] BY <2>1
    <2>6. i \notin 0 .. i - 1 /\ 0 .. j - 1 = (0 .. i - 1) \union {i} /\ i - 1 \in Int
      BY <2>1
    <2>7. IsFiniteSet(0 .. i - 1) BY <2>6, PlacesFinite
    <2>8. \A t \in 0 .. k - 1 : g[t] \in Int
      <3>1. ASSUME NEW t \in 0 .. k - 1 PROVE g[t] \in Int
        <4>1. t \in 0 .. k /\ t + 1 \in 0 .. k OBVIOUS
        <4>2. F[t] \in Int /\ F[t + 1] \in Int BY <4>1
        <4> QED BY <4>2
      <3> QED BY <3>1
    <2>9. 0 .. i - 1 \subseteq 0 .. k - 1 BY <2>1
    <2>10. SumFunctionOnSet(g, 0 .. j - 1) = g[i] + SumFunctionOnSet(g, 0 .. i - 1)
      BY <2>1, <2>6, <2>7, <2>8, <2>9, SumAdd
    <2>11. SumFunctionOnSet(g, 0 .. j - 1) = F[j] - F[0] BY <2>3, <2>4, <2>5, <2>10
    <2> QED BY <1>2, <2>11
  <1> QED BY <1>3, <1>4

LesserOf(x, y) == IF x < y THEN x ELSE y
GreaterOf(x, y) == IF x > y THEN x ELSE y
AtLeastNone(x) == IF x > 0 THEN x ELSE 0

(* What is left of the mid point but right in its segment, and the other    *)
(* way round.                                                               *)
LeftGap(f, m, n, k, t) == AtLeastNone(LesserOf(m, Cut(t + 1, n, k)) - f[t])
RightGap(f, m, n, k, t) == AtLeastNone(f[t] - GreaterOf(m, Cut(t, n, k)))

LeftGaps(f, m, n, k) == [t \in 0 .. k - 1 |-> LeftGap(f, m, n, k, t)]
RightGaps(f, m, n, k) == [t \in 0 .. k - 1 |-> RightGap(f, m, n, k, t)]

(* How many places of each segment are left of its pointer.                 *)
Passed(f, n, k) == [t \in 0 .. k - 1 |-> f[t] - Cut(t, n, k)]

LEMMA GapsBalance ==
  ASSUME NEW c \in Nat, NEW d \in Nat, NEW x \in Int, c <= x, x <= d, NEW m \in Nat
  PROVE  AtLeastNone(LesserOf(m, d) - x) + (x - c)
           = AtLeastNone(x - GreaterOf(m, c)) + (LesserOf(m, d) - LesserOf(m, c))
  <1>1. CASE m <= c
    <2>1. LesserOf(m, d) = m /\ LesserOf(m, c) = m BY <1>1 DEF LesserOf
    <2>2. GreaterOf(m, c) = c BY <1>1 DEF GreaterOf
    <2> QED BY <1>1, <2>1, <2>2 DEF AtLeastNone
  <1>2. CASE m >= d
    <2>1. LesserOf(m, d) = d /\ LesserOf(m, c) = c BY <1>2 DEF LesserOf
    <2>2. GreaterOf(m, c) = m BY <1>2 DEF GreaterOf
    <2> QED BY <1>2, <2>1, <2>2 DEF AtLeastNone
  <1>3. CASE c < m /\ m < d
    <2>1. LesserOf(m, d) = m /\ LesserOf(m, c) = c /\ GreaterOf(m, c) = m
      BY <1>3 DEF LesserOf, GreaterOf
    <2> QED BY <1>3, <2>1 DEF AtLeastNone
  <1> QED BY <1>1, <1>2, <1>3

(* Pointers within the segments.                                            *)
PointersOK(f, n, k) ==
  \A t \in 0 .. k - 1 : f[t] \in Int /\ Cut(t, n, k) <= f[t] /\ f[t] <= Cut(t + 1, n, k)

(* As many places are wrong on the one side as on the other.                *)
LEMMA SidesMatch ==
  ASSUME NEW n \in Nat, NEW k \in Nat \ {0}, NEW f, PointersOK(f, n, k),
         NEW m, m = SumFunctionOnSet(Passed(f, n, k), 0 .. k - 1)
  PROVE  /\ m \in 0 .. n
         /\ SumFunctionOnSet(LeftGaps(f, m, n, k), 0 .. k - 1)
              = SumFunctionOnSet(RightGaps(f, m, n, k), 0 .. k - 1)
  <1> DEFINE hl == LeftGaps(f, m, n, k)
             hr == RightGaps(f, m, n, k)
             d == Passed(f, n, k)
  <1>0. /\ \A t \in 0 .. k - 1 : d[t] = f[t] - Cut(t, n, k)
        /\ \A t \in 0 .. k - 1 : hl[t] = LeftGap(f, m, n, k, t)
        /\ \A t \in 0 .. k - 1 : hr[t] = RightGap(f, m, n, k, t)
        /\ m = SumFunctionOnSet(d, 0 .. k - 1)
        /\ \A t \in 0 .. k - 1 : f[t] \in Int /\ Cut(t, n, k) <= f[t] /\ f[t] <= Cut(t + 1, n, k)
    BY DEF LeftGaps, RightGaps, Passed, PointersOK
  <1> HIDE DEF hl, hr, d
  <1> DEFINE T == 0 .. k - 1
             F == [t \in 0 .. k |-> Cut(t, n, k)]
             w == [t \in T |-> Cut(t + 1, n, k) - Cut(t, n, k)]
             M == [t \in 0 .. k |-> LesserOf(m, Cut(t, n, k))]
             e == [t \in T |-> LesserOf(m, Cut(t + 1, n, k)) - LesserOf(m, Cut(t, n, k))]
             s == [t \in T |-> hl[t] + d[t]]
  <1>1. IsFiniteSet(T)
    <2>1. k - 1 \in Int OBVIOUS
    <2> QED BY <2>1, PlacesFinite
  <1>2. \A t \in T : Cut(t, n, k) \in Nat /\ Cut(t + 1, n, k) \in Nat BY ShareFacts
  <1>3. \A t \in T : d[t] \in Nat /\ d[t] <= w[t] /\ w[t] \in Int /\ d[t] \in Int
    <2>1. ASSUME NEW t \in T PROVE d[t] \in Nat /\ d[t] <= w[t] /\ w[t] \in Int /\ d[t] \in Int
      <3> DEFINE x == Cut(t, n, k) y == Cut(t + 1, n, k) z == f[t]
      <3>1. x \in Nat /\ y \in Nat /\ z \in Int /\ x <= z /\ z <= y BY <1>0, <1>2
      <3>2. d[t] = z - x /\ w[t] = y - x BY <1>0
      <3> HIDE DEF x, y, z, w
      <3> QED BY <3>1, <3>2
    <2> QED BY <2>1
  <1>4. SumFunctionOnSet(w, T) = n
    <2>1. \A t \in 0 .. k : F[t] \in Int BY CutFacts
    <2>2. F[k] = n /\ F[0] = 0
      <3>1. k \in 0 .. k /\ 0 \in 0 .. k OBVIOUS
      <3> QED BY <3>1, CutFacts
    <2>3. \A t \in T : w[t] = F[t + 1] - F[t]
      <3>1. \A t \in T : t \in 0 .. k /\ t + 1 \in 0 .. k OBVIOUS
      <3> QED BY <3>1
    <2> HIDE DEF F, w
    <2>4. SumFunctionOnSet(w, T) = F[k] - F[0] BY <2>1, <2>3, Telescope
    <2> QED BY <2>2, <2>4
  <1>5. m \in Nat /\ m <= n
    <2> HIDE DEF w
    <2>1. m \in Nat BY <1>0, <1>1, <1>3, SumNat DEF T
    <2>2. SumFunctionOnSet(d, T) <= SumFunctionOnSet(w, T) BY <1>1, <1>3, SumMonotone
    <2>3. m = SumFunctionOnSet(d, T) BY <1>0
    <2> HIDE DEF T
    <2>4. m <= n BY <1>4, <2>2, <2>3
    <2> QED BY <2>1, <2>4
  <1>6. SumFunctionOnSet(e, T) = m
    <2>1. \A t \in 0 .. k : Cut(t, n, k) \in Nat
      <3>1. 0 .. k \subseteq Nat OBVIOUS
      <3> QED BY <3>1, CutFacts
    <2>2. \A t \in 0 .. k : M[t] \in Int BY <1>5, <2>1 DEF LesserOf
    <2>3. M[k] = m /\ M[0] = 0
      <3>1. k \in 0 .. k /\ 0 \in 0 .. k OBVIOUS
      <3>2. Cut(k, n, k) = n /\ Cut(0, n, k) = 0 BY CutFacts
      <3>3. M[k] = LesserOf(m, n) /\ M[0] = LesserOf(m, 0) BY <3>1, <3>2
      <3> QED BY <1>5, <3>3 DEF LesserOf
    <2>4. \A t \in T : e[t] = M[t + 1] - M[t]
      <3>1. \A t \in T : t \in 0 .. k /\ t + 1 \in 0 .. k OBVIOUS
      <3> QED BY <3>1
    <2> HIDE DEF M, e
    <2>5. SumFunctionOnSet(e, T) = M[k] - M[0] BY <2>2, <2>4, Telescope
    <2> QED BY <1>5, <2>3, <2>5
  <1>7. \A t \in T : hl[t] \in Int /\ hr[t] \in Int /\ e[t] \in Int /\ s[t] = hl[t] + d[t]
                      /\ s[t] = hr[t] + e[t]
    <2>1. ASSUME NEW t \in T
          PROVE  hl[t] \in Int /\ hr[t] \in Int /\ e[t] \in Int /\ s[t] = hr[t] + e[t]
      <3> DEFINE x == Cut(t, n, k) y == Cut(t + 1, n, k) z == f[t]
      <3>1. x \in Nat /\ y \in Nat /\ z \in Int /\ x <= z /\ z <= y BY <1>0, <1>2
      <3>2. /\ hl[t] = AtLeastNone(LesserOf(m, y) - z)
            /\ hr[t] = AtLeastNone(z - GreaterOf(m, x))
        BY <1>0 DEF LeftGap, RightGap
      <3>3. e[t] = LesserOf(m, y) - LesserOf(m, x) OBVIOUS
      <3>4. d[t] = z - x BY <1>0
      <3>5. s[t] = hl[t] + d[t] OBVIOUS
      <3> HIDE DEF x, y, z, e, s
      <3>6. LesserOf(m, x) \in Int /\ LesserOf(m, y) \in Int /\ GreaterOf(m, x) \in Int
        BY <1>5, <3>1 DEF LesserOf, GreaterOf
      <3>7. AtLeastNone(LesserOf(m, y) - z) + (z - x)
              = AtLeastNone(z - GreaterOf(m, x)) + (LesserOf(m, y) - LesserOf(m, x))
        BY <1>5, <3>1, GapsBalance
      <3>8. hl[t] \in Int /\ hr[t] \in Int BY <3>1, <3>2, <3>6 DEF AtLeastNone
      <3>9. e[t] \in Int BY <3>3, <3>6
      <3>10. s[t] = hr[t] + e[t] BY <3>2, <3>3, <3>4, <3>5, <3>7
      <3> QED BY <3>8, <3>9, <3>10
    <2>2. \A t \in T : s[t] = hl[t] + d[t] OBVIOUS
    <2> QED BY <2>1, <2>2
  <1> HIDE DEF e, s
  <1>8. SumFunctionOnSet(s, T) = SumFunctionOnSet(hl, T) + SumFunctionOnSet(d, T)
    BY <1>1, <1>3, <1>7, SumPlus
  <1>9. SumFunctionOnSet(s, T) = SumFunctionOnSet(hr, T) + SumFunctionOnSet(e, T)
    BY <1>1, <1>7, SumPlus
  <1>10. SumFunctionOnSet(hl, T) \in Int /\ SumFunctionOnSet(hr, T) \in Int
    BY <1>1, <1>7, SumType
  <1>11. SumFunctionOnSet(d, T) = m BY <1>0 DEF T
  <1>12. SumFunctionOnSet(hl, T) = SumFunctionOnSet(hr, T)
    BY <1>5, <1>6, <1>8, <1>9, <1>10, <1>11
  <1> QED BY <1>5, <1>12 DEF T, hl, hr

LeftRuns(f, m, n, k) ==
  [t \in 0 .. k - 1 |-> [begin |-> f[t], end |-> LesserOf(m, Cut(t + 1, n, k))]]

RightRuns(f, m, n, k) ==
  [t \in 0 .. k - 1 |-> [begin |-> GreaterOf(m, Cut(t, n, k)), end |-> f[t]]]

LEMMA RunsAre ==
  ASSUME NEW n \in Nat, NEW k \in Nat \ {0}, NEW f, NEW m \in 0 .. n,
         \A t \in 0 .. k - 1 : f[t] \in Int /\ Cut(t, n, k) <= f[t] /\ f[t] <= Cut(t + 1, n, k)
  PROVE  /\ RunsOK(LeftRuns(f, m, n, k), k, 0, m)
         /\ RunsOK(RightRuns(f, m, n, k), k, m, n)
  <1> DEFINE rl == LeftRuns(f, m, n, k)
             rr == RightRuns(f, m, n, k)
  <1>1. \A t \in 0 .. k - 1 : Cut(t, n, k) \in Nat /\ Cut(t + 1, n, k) \in Nat
                               /\ Cut(t + 1, n, k) <= n
    <2>1. \A t \in 0 .. k - 1 : Cut(t, n, k) \in Nat /\ Cut(t + 1, n, k) \in 0 .. n
      BY ShareFacts
    <2> QED BY <2>1
  <1>2. \A t \in 0 .. k - 1 :
          /\ rl[t] = [begin |-> f[t], end |-> LesserOf(m, Cut(t + 1, n, k))]
          /\ rr[t] = [begin |-> GreaterOf(m, Cut(t, n, k)), end |-> f[t]]
    BY DEF LeftRuns, RightRuns
  <1> HIDE DEF rl, rr
  <1>3. \A t \in 0 .. k - 1 :
          /\ rl[t].begin = f[t] /\ rl[t].end = LesserOf(m, Cut(t + 1, n, k))
          /\ rr[t].begin = GreaterOf(m, Cut(t, n, k)) /\ rr[t].end = f[t]
    <2>1. ASSUME NEW t \in 0 .. k - 1, NEW x, NEW y, x = LesserOf(m, Cut(t + 1, n, k)),
                 y = GreaterOf(m, Cut(t, n, k))
          PROVE  rl[t].begin = f[t] /\ rl[t].end = x /\ rr[t].begin = y /\ rr[t].end = f[t]
      <3>1. rl[t] = [begin |-> f[t], end |-> x] /\ rr[t] = [begin |-> y, end |-> f[t]]
        BY <1>2, <2>1
      <3> QED BY <3>1
    <2> QED BY <2>1
  <1>4. \A t, u \in 0 .. k - 1 : t < u => Cut(t + 1, n, k) <= Cut(u, n, k)
    <2>1. \A t, u \in 0 .. k - 1 : t < u => t + 1 \in Nat /\ u \in Nat /\ t + 1 <= u OBVIOUS
    <2> QED BY <2>1, CutFacts
  <1>5. \A t \in 0 .. k - 1 : rl[t] \in [begin : Int, end : Int] /\ rr[t] \in [begin : Int, end : Int]
    <2>1. ASSUME NEW t \in 0 .. k - 1, NEW x, NEW y, x = LesserOf(m, Cut(t + 1, n, k)),
                 y = GreaterOf(m, Cut(t, n, k))
          PROVE  rl[t] \in [begin : Int, end : Int] /\ rr[t] \in [begin : Int, end : Int]
      <3>1. rl[t] = [begin |-> f[t], end |-> x] /\ rr[t] = [begin |-> y, end |-> f[t]]
        BY <1>2, <2>1
      <3>2. x \in Int /\ y \in Int /\ f[t] \in Int BY <1>1, <2>1 DEF LesserOf, GreaterOf
      <3> QED BY <3>1, <3>2
    <2> QED BY <2>1
  <1>6. \A t \in 0 .. k - 1 :
          /\ 0 <= rl[t].begin /\ rl[t].end <= m /\ rl[t].end <= Cut(t + 1, n, k)
          /\ m <= rr[t].begin /\ rr[t].end <= n /\ Cut(t, n, k) <= rr[t].begin
    <2>1. ASSUME NEW t \in 0 .. k - 1
          PROVE  /\ 0 <= rl[t].begin /\ rl[t].end <= m /\ rl[t].end <= Cut(t + 1, n, k)
                 /\ m <= rr[t].begin /\ rr[t].end <= n /\ Cut(t, n, k) <= rr[t].begin
      <3> DEFINE x == Cut(t, n, k) y == Cut(t + 1, n, k) z == f[t]
      <3>1. x \in Nat /\ y \in Nat /\ y <= n /\ z \in Int /\ x <= z /\ z <= y BY <1>1
      <3>2. /\ rl[t].begin = z /\ rl[t].end = LesserOf(m, y)
            /\ rr[t].begin = GreaterOf(m, x) /\ rr[t].end = z
        BY <1>3
      <3> HIDE DEF x, y, z
      <3>3. 0 <= z /\ LesserOf(m, y) <= m /\ LesserOf(m, y) <= y /\ m <= GreaterOf(m, x) /\ z <= n
            /\ x <= GreaterOf(m, x)
        BY <3>1 DEF LesserOf, GreaterOf
      <3>4. /\ 0 <= rl[t].begin /\ rl[t].end <= m /\ rl[t].end <= y
            /\ m <= rr[t].begin /\ rr[t].end <= n /\ x <= rr[t].begin
        BY <3>2, <3>3
      <3> QED BY <3>4 DEF x, y
    <2> QED BY <2>1
  <1>7. ASSUME NEW t \in 0 .. k - 1, NEW u \in 0 .. k - 1, t < u
        PROVE  rl[t].end <= rl[u].begin /\ rr[t].end <= rr[u].begin
    <2> DEFINE x == Cut(t + 1, n, k) y == Cut(u, n, k)
    <2>1. x \in Nat /\ y \in Nat /\ x <= y BY <1>1, <1>4, <1>7
    <2>2. rl[t].end \in Int /\ rl[t].end <= x BY <1>5, <1>6
    <2>3. rl[u].begin \in Int /\ y <= rl[u].begin BY <1>3
    <2>4. rr[t].end \in Int /\ rr[t].end <= x BY <1>3
    <2>5. rr[u].begin \in Int /\ y <= rr[u].begin BY <1>5, <1>6
    <2> HIDE DEF x, y
    <2> QED BY <2>1, <2>2, <2>3, <2>4, <2>5
  <1>8. RunsOK(rl, k, 0, m) BY <1>5, <1>6, <1>7 DEF RunsOK
  <1>9. RunsOK(rr, k, m, n) BY <1>5, <1>6, <1>7 DEF RunsOK
  <1> QED BY <1>8, <1>9 DEF rl, rr

(* A place in a run that was kept has a number.                             *)
LEMMA KeptNumbers ==
  ASSUME NEW k \in Nat, NEW lo \in Int, NEW hi \in Int, NEW s, NEW rs, NEW hs,
         KeptOK(s, rs, hs, k, lo, hi), NEW p
  PROVE  (\E x \in Nat : Numbered(s, p, x)) <=>
           \E t \in 0 .. k - 1 : LengthOf(rs[t]) > 0 /\ InRange(rs[t], p)
  <1>1. RangesOK(s, lo, hi) BY DEF KeptOK
  <1>2. ASSUME NEW x \in Nat, Numbered(s, p, x)
        PROVE  \E t \in 0 .. k - 1 : LengthOf(rs[t]) > 0 /\ InRange(rs[t], p)
    <2>1. PICK i \in 1 .. Len(s) : InRange(s[i], p) BY <1>2 DEF Numbered
    <2>2. PICK t \in 0 .. k - 1 : rs[t] = s[i] BY DEF KeptOK
    <2>3. s[i].begin \in Int /\ s[i].end \in Int /\ s[i].begin < s[i].end
      BY <1>1, RangeSumFacts DEF RangesOK
    <2>4. LengthOf(s[i]) > 0 BY <2>3 DEF LengthOf
    <2> QED BY <2>1, <2>2, <2>4
  <1>3. ASSUME NEW t \in 0 .. k - 1, LengthOf(rs[t]) > 0, InRange(rs[t], p)
        PROVE  \E x \in Nat : Numbered(s, p, x)
    <2>1. PICK i \in 1 .. Len(s) : s[i] = rs[t] BY <1>3 DEF KeptOK
    <2>2. InRange(s[i], p) BY <1>3, <2>1
    <2>3. s[i].begin \in Int /\ s[i].end \in Int BY <1>1, RangeSumFacts
    <2>4. i \in 1 .. Len(s) + 1 BY <1>1, RangeSumFacts
    <2>5. RangeSum(s, i) \in Nat BY <1>1, <2>4, RangeSumFacts
    <2> DEFINE x == RangeSum(s, i) + (p - s[i].begin)
    <2>6. p \in Int /\ s[i].begin <= p BY <2>2, <2>3 DEF InRange
    <2>7. x \in Nat BY <2>3, <2>5, <2>6
    <2>8. Numbered(s, p, x) BY <2>2 DEF Numbered
    <2> HIDE DEF x
    <2> QED BY <2>7, <2>8
  <1> QED BY <1>2, <1>3

LEMMA MisplacedPlaces ==
  ASSUME NEW n \in Nat, NEW k \in Nat \ {0}, NEW f, NEW m \in 0 .. n, NEW a, NEW left,
         \A t \in 0 .. k - 1 : f[t] \in Int /\ Cut(t, n, k) <= f[t] /\ f[t] <= Cut(t + 1, n, k),
         \A t \in 0 .. k - 1 : \A i \in Cut(t, n, k) .. f[t] - 1 : a[i] \in left,
         \A t \in 0 .. k - 1 : \A i \in f[t] .. Cut(t + 1, n, k) - 1 : a[i] \notin left,
         NEW lm, NEW hl, KeptOK(lm, LeftRuns(f, m, n, k), hl, k, 0, m),
         NEW rm, NEW hr, KeptOK(rm, RightRuns(f, m, n, k), hr, k, m, n)
  PROVE  SidesOK(a, left, m, n, lm, rm, {})
  <1> DEFINE rl == LeftRuns(f, m, n, k)
             rr == RightRuns(f, m, n, k)
  <1>1. \A t \in 0 .. k - 1 : Cut(t, n, k) \in Nat /\ Cut(t + 1, n, k) \in Nat
    BY ShareFacts
  <1>2. \A t \in 0 .. k - 1 :
          /\ rl[t].begin = f[t] /\ rl[t].end = LesserOf(m, Cut(t + 1, n, k))
          /\ rr[t].begin = GreaterOf(m, Cut(t, n, k)) /\ rr[t].end = f[t]
    BY DEF LeftRuns, RightRuns
  <1> HIDE DEF rl, rr
  <1>3. ASSUME NEW t \in 0 .. k - 1, NEW p \in Int
        PROVE  /\ (LengthOf(rl[t]) > 0 /\ InRange(rl[t], p)) <=>
                    (f[t] <= p /\ p < m /\ p < Cut(t + 1, n, k))
               /\ (LengthOf(rr[t]) > 0 /\ InRange(rr[t], p)) <=>
                    (m <= p /\ Cut(t, n, k) <= p /\ p < f[t])
    <2> DEFINE x == Cut(t, n, k) y == Cut(t + 1, n, k) z == f[t]
    <2>1. x \in Nat /\ y \in Nat /\ z \in Int BY <1>1
    <2>2. /\ rl[t].begin = z /\ rl[t].end = LesserOf(m, y)
          /\ rr[t].begin = GreaterOf(m, x) /\ rr[t].end = z
      BY <1>2
    <2> HIDE DEF x, y, z
    <2>3. /\ (LengthOf(rl[t]) > 0 /\ InRange(rl[t], p)) <=> (z <= p /\ p < m /\ p < y)
      BY <2>1, <2>2 DEF LengthOf, InRange, LesserOf
    <2>4. /\ (LengthOf(rr[t]) > 0 /\ InRange(rr[t], p)) <=> (m <= p /\ x <= p /\ p < z)
      BY <2>1, <2>2 DEF LengthOf, InRange, GreaterOf
    <2> QED BY <2>3, <2>4 DEF x, y, z
  <1>4. ASSUME NEW p \in 0 .. n - 1
        PROVE  \E t \in 0 .. k - 1 : Cut(t, n, k) <= p /\ p < Cut(t + 1, n, k)
    <2>1. PICK t \in 0 .. k - 1 : p \in Cut(t, n, k) .. Cut(t + 1, n, k) - 1 BY CutTiles
    <2>2. Cut(t, n, k) <= p /\ p < Cut(t + 1, n, k) BY <1>1, <2>1
    <2> QED BY <2>2
  <1>5. ASSUME NEW p \in 0 .. n - 1, NEW t \in 0 .. k - 1,
               Cut(t, n, k) <= p, p < Cut(t + 1, n, k)
        PROVE  a[p] \in left <=> p < f[t]
    <2>1. CASE p < f[t]
      <3>1. p \in Cut(t, n, k) .. f[t] - 1 BY <1>1, <1>5, <2>1
      <3> QED BY <2>1, <3>1
    <2>2. CASE ~(p < f[t])
      <3>1. p \in f[t] .. Cut(t + 1, n, k) - 1 BY <1>1, <1>5, <2>2
      <3> QED BY <2>2, <3>1
    <2> QED BY <2>1, <2>2
  <1>6. ASSUME NEW p \in 0 .. m - 1
        PROVE  a[p] \notin left <=> \E x \in Nat \ {} : Numbered(lm, p, x)
    <2>0. p \in 0 .. n - 1 /\ p < m OBVIOUS
    <2>1. (\E x \in Nat : Numbered(lm, p, x)) <=>
             \E t \in 0 .. k - 1 : LengthOf(rl[t]) > 0 /\ InRange(rl[t], p)
      <3>1. k \in Nat /\ 0 \in Int /\ m \in Int OBVIOUS
      <3> QED BY <3>1, KeptNumbers DEF rl
    <2>2. (\E x \in Nat : Numbered(lm, p, x)) <=>
             \E t \in 0 .. k - 1 : f[t] <= p /\ p < Cut(t + 1, n, k)
      BY <1>3, <2>0, <2>1
    <2>3. ASSUME NEW t \in 0 .. k - 1, f[t] <= p, p < Cut(t + 1, n, k) PROVE a[p] \notin left
      <3>1. Cut(t, n, k) <= p BY <1>1, <2>3
      <3>2. ~(p < f[t]) BY <2>3
      <3> QED BY <1>5, <2>0, <2>3, <3>1, <3>2
    <2>4. ASSUME a[p] \notin left
          PROVE  \E t \in 0 .. k - 1 : f[t] <= p /\ p < Cut(t + 1, n, k)
      <3>1. PICK t \in 0 .. k - 1 : Cut(t, n, k) <= p /\ p < Cut(t + 1, n, k) BY <1>4, <2>0
      <3>2. ~(p < f[t]) BY <1>5, <2>0, <2>4, <3>1
      <3>3. f[t] <= p BY <3>2
      <3> QED BY <3>1, <3>3
    <2> QED BY <2>2, <2>3, <2>4
  <1>7. ASSUME NEW p \in m .. n - 1
        PROVE  a[p] \in left <=> \E x \in Nat \ {} : Numbered(rm, p, x)
    <2>0. p \in 0 .. n - 1 /\ m <= p OBVIOUS
    <2>1. (\E x \in Nat : Numbered(rm, p, x)) <=>
             \E t \in 0 .. k - 1 : LengthOf(rr[t]) > 0 /\ InRange(rr[t], p)
      <3>1. k \in Nat /\ n \in Int /\ m \in Int OBVIOUS
      <3> QED BY <3>1, KeptNumbers DEF rr
    <2>2. (\E x \in Nat : Numbered(rm, p, x)) <=>
             \E t \in 0 .. k - 1 : Cut(t, n, k) <= p /\ p < f[t]
      BY <1>3, <2>0, <2>1
    <2>3. ASSUME NEW t \in 0 .. k - 1, Cut(t, n, k) <= p, p < f[t] PROVE a[p] \in left
      <3>1. p < Cut(t + 1, n, k) BY <1>1, <2>3
      <3> QED BY <1>5, <2>0, <2>3, <3>1
    <2>4. ASSUME a[p] \in left
          PROVE  \E t \in 0 .. k - 1 : Cut(t, n, k) <= p /\ p < f[t]
      <3>1. PICK t \in 0 .. k - 1 : Cut(t, n, k) <= p /\ p < Cut(t + 1, n, k) BY <1>4, <2>0
      <3> QED BY <1>5, <2>0, <2>4, <3>1
    <2> QED BY <2>2, <2>3, <2>4
  <1> QED BY <1>6, <1>7 DEF SidesOK

------------------------------------------------------------------------------
(* The loop over a segment.                                                 *)

LEMMA PartMinMax ==
  ASSUME NEW S, NEW x \in S, \A y \in S : x \in Int /\ y \in Int
  PROVE  /\ (\A y \in S : x <= y) => Partition!Min(S) = x
         /\ (\A y \in S : y <= x) => Partition!Max(S) = x
  <1>1. ASSUME \A y \in S : x <= y PROVE Partition!Min(S) = x
    <2> DEFINE q == CHOOSE z \in S : \A y \in S : z <= y
    <2>1. q \in S /\ \A y \in S : q <= y BY <1>1
    <2>2. Partition!Min(S) = q BY DEF Partition!Min
    <2> HIDE DEF q
    <2>3. q <= x /\ x <= q /\ q \in Int /\ x \in Int BY <1>1, <2>1
    <2> QED BY <2>2, <2>3
  <1>2. ASSUME \A y \in S : y <= x PROVE Partition!Max(S) = x
    <2> DEFINE q == CHOOSE z \in S : \A y \in S : z >= y
    <2>1. q \in S /\ \A y \in S : q >= y
      <3>1. \A y \in S : x >= y BY <1>2
      <3> QED BY <3>1
    <2>2. Partition!Max(S) = q BY DEF Partition!Max
    <2> HIDE DEF q
    <2>3. q <= x /\ x <= q /\ q \in Int /\ x \in Int BY <1>2, <2>1
    <2> QED BY <2>2, <2>3
  <1> QED BY <1>1, <1>2

UpSet(a, left, x, y) == {i \in x .. y : a[i] \notin left} \union {y + 1}
DownSet(a, left, x, y) == {i \in x .. y : a[i] \in left} \union {x - 1}

LEMMA UpStops ==
  ASSUME NEW a, NEW left, NEW x \in Nat, NEW y \in Int, x <= y,
         NEW u, u = Partition!Min(UpSet(a, left, x, y))
  PROVE  /\ u \in Nat /\ x <= u /\ u <= y + 1
         /\ \A i \in x .. u - 1 : a[i] \in left
         /\ u <= y => a[u] \notin left
  <1> DEFINE S == UpSet(a, left, x, y)
  <1>0. \A i : i \in S <=> (i \in x .. y /\ a[i] \notin left) \/ i = y + 1 BY DEF UpSet
  <1> HIDE DEF S
  <1>1. S \in SUBSET Nat /\ y + 1 \in S /\ \A i \in S : i <= y + 1 BY <1>0
  <1>2. \A i \in x .. y : a[i] \notin left => i \in S BY <1>0
  <1>3. \A i \in S : x <= i /\ (i = y + 1 \/ a[i] \notin left) BY <1>0
  <1>4. u = Partition!Min(S) BY DEF S
  <1>5. PICK z \in S : \A i \in S : z <= i BY <1>1, SmallestNat
  <1>6. u = z
    <2>1. \A i \in S : z \in Int /\ i \in Int BY <1>1
    <2> QED BY <1>4, <1>5, <2>1, PartMinMax
  <1>7. u \in Nat /\ x <= u /\ u <= y + 1 BY <1>1, <1>3, <1>5, <1>6
  <1>8. ASSUME NEW i \in x .. u - 1 PROVE a[i] \in left
    <2>1. i \in x .. y /\ ~(u <= i) BY <1>7
    <2> QED BY <1>2, <1>5, <1>6, <2>1
  <1>9. u <= y => a[u] \notin left
    <2>1. u \in S BY <1>6
    <2>2. u <= y => u # y + 1 BY <1>7
    <2> QED BY <1>3, <2>1, <2>2
  <1> QED BY <1>7, <1>8, <1>9

LEMMA DownStops ==
  ASSUME NEW a, NEW left, NEW u \in Nat, NEW y \in Int, u <= y + 1,
         NEW d, d = Partition!Max(DownSet(a, left, u, y))
  PROVE  /\ d \in Int /\ u - 1 <= d /\ d <= y
         /\ \A i \in d + 1 .. y : a[i] \notin left
         /\ u <= d => a[d] \in left
  <1> DEFINE T == {i \in u .. y : a[i] \in left}
             S == DownSet(a, left, u, y)
  <1>0. \A i : i \in S <=> i \in T \/ i = u - 1 BY DEF DownSet
  <1> HIDE DEF S
  <1>1. T \in SUBSET Nat /\ T \subseteq u .. y /\ \A i \in T : i \in Int /\ u <= i /\ i <= y
    OBVIOUS
  <1>2. IsFiniteSet(T)
    <2>1. u \in Int OBVIOUS
    <2>2. IsFiniteSet(u .. y) BY <2>1, FS_Interval
    <2> HIDE DEF T
    <2> QED BY <1>1, <2>2, FS_Subset
  <1>3. \A i \in u .. y : i \in T <=> a[i] \in left OBVIOUS
  <1>4. d = Partition!Max(S) BY DEF S
  <1>5. \A i \in S : i \in T \/ i = u - 1 BY <1>0
  <1>6. u - 1 \in S /\ T \subseteq S BY <1>0
  <1> HIDE DEF T
  <1>7. CASE T = {}
    <2>1. d = u - 1
      <3> DEFINE z == u - 1
      <3>1. z \in S /\ \A i \in S : z \in Int /\ i \in Int /\ i <= z BY <1>5, <1>6, <1>7
      <3> HIDE DEF z
      <3>2. Partition!Max(S) = z BY <3>1, PartMinMax
      <3> QED BY <1>4, <3>2 DEF z
    <2>2. \A i \in d + 1 .. y : i \in u .. y BY <2>1
    <2>3. d \in Int /\ u - 1 <= d /\ d <= y /\ ~(u <= d) BY <2>1
    <2> QED BY <1>3, <1>7, <2>2, <2>3
  <1>8. CASE T # {}
    <2>1. PICK z \in T : \A i \in T : i <= z BY <1>1, <1>2, <1>8, LargestNat
    <2>2. d = z
      <3>1. z \in S /\ \A i \in S : z \in Int /\ i \in Int /\ i <= z
        BY <1>1, <1>5, <1>6, <2>1
      <3>2. Partition!Max(S) = z BY <3>1, PartMinMax
      <3> QED BY <1>4, <3>2
    <2>3. d \in Int /\ u <= d /\ d <= y /\ d \in u .. y BY <1>1, <2>1, <2>2
    <2>4. ASSUME NEW i \in d + 1 .. y PROVE a[i] \notin left
      <3>1. i \in u .. y /\ ~(i <= d) BY <2>3
      <3> QED BY <1>3, <2>1, <2>2, <3>1
    <2>5. a[d] \in left BY <1>3, <2>1, <2>2, <2>3
    <2> QED BY <2>3, <2>4, <2>5
  <1> QED BY <1>7, <1>8

(* The last iteration, without a swap.                                      *)
LEMMA SegmentEnds ==
  ASSUME NEW a, NEW left, NEW c \in Nat, NEW d \in Nat, NEW x, NEW y, NEW L, NEW R,
         SegmentOK(a, left, c, d, x, y, L, R),
         NEW u \in Int, NEW v \in Int, x <= u, u - 1 = v, v <= y,
         \A i \in x .. u - 1 : a[i] \in left, \A i \in v + 1 .. y : a[i] \notin left
  PROVE  SegmentOK(a, left, c, d, u, v, L \union {a[i] : i \in x .. u - 1},
                   R \union {a[i] : i \in v + 1 .. y})
  <1>1. x \in Int /\ y \in Int /\ c <= x /\ x <= y + 1 /\ y + 1 <= d BY DEF SegmentOK
  <1>2. \A i \in c .. u - 1 : i \in c .. x - 1 \/ i \in x .. u - 1 BY <1>1
  <1>3. \A i \in v + 1 .. d - 1 : i \in v + 1 .. y \/ i \in y + 1 .. d - 1 BY <1>1
  <1>4. L \union {a[i] : i \in x .. u - 1} = {a[i] : i \in c .. u - 1}
    <2>1. L = {a[i] : i \in c .. x - 1} BY DEF SegmentOK
    <2>2. c .. u - 1 = (c .. x - 1) \union (x .. u - 1) BY <1>1
    <2> QED BY <2>1, <2>2
  <1>5. R \union {a[i] : i \in v + 1 .. y} = {a[i] : i \in v + 1 .. d - 1}
    <2>1. R = {a[i] : i \in y + 1 .. d - 1} BY DEF SegmentOK
    <2>2. v + 1 .. d - 1 = (v + 1 .. y) \union (y + 1 .. d - 1) BY <1>1
    <2> QED BY <2>1, <2>2
  <1>6. u \in Int /\ v \in Int /\ c <= u /\ u <= v + 1 /\ v + 1 <= d BY <1>1
  <1>7. \A i \in c .. u - 1 : a[i] \in left BY <1>2 DEF SegmentOK
  <1>8. \A i \in v + 1 .. d - 1 : a[i] \notin left BY <1>3 DEF SegmentOK
  <1> QED BY <1>4, <1>5, <1>6, <1>7, <1>8 DEF SegmentOK

(* An iteration that swaps a pair.                                          *)
LEMMA SegmentSwaps ==
  ASSUME NEW a, NEW left, NEW c \in Nat, NEW d \in Nat, NEW x, NEW y, NEW L, NEW R,
         SegmentOK(a, left, c, d, x, y, L, R),
         NEW u \in Int, NEW v \in Int, x <= u, u < v, v <= y,
         \A i \in x .. u - 1 : a[i] \in left, \A i \in v + 1 .. y : a[i] \notin left,
         a[u] \notin left, a[v] \in left,
         NEW b, b[u] = a[v], b[v] = a[u], \A i \in c .. d - 1 : i # u /\ i # v => b[i] = a[i]
  PROVE  SegmentOK(b, left, c, d, u + 1, v - 1, L \union {a[i] : i \in x .. u - 1} \union {a[v]},
                   R \union {a[i] : i \in v + 1 .. y} \union {a[u]})
  <1>1. x \in Int /\ y \in Int /\ c <= x /\ x <= y + 1 /\ y + 1 <= d BY DEF SegmentOK
  <1> DEFINE u1 == u + 1 v1 == v - 1
  <1>2. /\ \A i \in c .. u1 - 1 : i = u \/ i \in c .. x - 1 \/ i \in x .. u - 1
        /\ \A i \in c .. x - 1 : i # u /\ i # v /\ i \in c .. d - 1 /\ i \in c .. u1 - 1
        /\ \A i \in x .. u - 1 : i # u /\ i # v /\ i \in c .. d - 1 /\ i \in c .. u1 - 1
        /\ u \in c .. u1 - 1
    BY <1>1
  <1>3. /\ \A i \in v1 + 1 .. d - 1 : i = v \/ i \in v + 1 .. y \/ i \in y + 1 .. d - 1
        /\ \A i \in v + 1 .. y : i # u /\ i # v /\ i \in c .. d - 1 /\ i \in v1 + 1 .. d - 1
        /\ \A i \in y + 1 .. d - 1 : i # u /\ i # v /\ i \in c .. d - 1 /\ i \in v1 + 1 .. d - 1
        /\ v \in v1 + 1 .. d - 1
    BY <1>1
  <1>4. u1 \in Int /\ v1 \in Int /\ c <= u1 /\ u1 <= v1 + 1 /\ v1 + 1 <= d BY <1>1
  <1> HIDE DEF u1, v1
  <1>5. /\ \A i \in c .. x - 1 : a[i] \in left
        /\ \A i \in y + 1 .. d - 1 : a[i] \notin left
        /\ L = {a[i] : i \in c .. x - 1} /\ R = {a[i] : i \in y + 1 .. d - 1}
    BY DEF SegmentOK
  <1>6. ASSUME NEW i \in c .. u1 - 1 PROVE b[i] \in left BY <1>2, <1>5
  <1>7. ASSUME NEW i \in v1 + 1 .. d - 1 PROVE b[i] \notin left BY <1>3, <1>5
  <1> DEFINE P == L \union {a[i] : i \in x .. u - 1} \union {a[v]}
             Q == R \union {a[i] : i \in v + 1 .. y} \union {a[u]}
  <1>8. P = {b[i] : i \in c .. u1 - 1}
    <2>1. ASSUME NEW z \in P PROVE z \in {b[i] : i \in c .. u1 - 1}
      <3>1. CASE z = a[v] BY <1>2, <3>1
      <3>2. CASE \E i \in c .. x - 1 : z = a[i] BY <1>2, <3>2
      <3>3. CASE \E i \in x .. u - 1 : z = a[i] BY <1>2, <3>3
      <3> QED BY <1>5, <3>1, <3>2, <3>3
    <2>2. ASSUME NEW i \in c .. u1 - 1 PROVE b[i] \in P BY <1>2, <1>5
    <2> HIDE DEF P
    <2> QED BY <2>1, <2>2
  <1>9. Q = {b[i] : i \in v1 + 1 .. d - 1}
    <2>1. ASSUME NEW z \in Q PROVE z \in {b[i] : i \in v1 + 1 .. d - 1}
      <3>1. CASE z = a[u] BY <1>3, <3>1
      <3>2. CASE \E i \in y + 1 .. d - 1 : z = a[i] BY <1>3, <3>2
      <3>3. CASE \E i \in v + 1 .. y : z = a[i] BY <1>3, <3>3
      <3> QED BY <1>5, <3>1, <3>2, <3>3
    <2>2. ASSUME NEW i \in v1 + 1 .. d - 1 PROVE b[i] \in Q BY <1>3, <1>5
    <2> HIDE DEF Q
    <2> QED BY <2>1, <2>2
  <1>10. SegmentOK(b, left, c, d, u1, v1, P, Q) BY <1>4, <1>6, <1>7, <1>8, <1>9 DEF SegmentOK
  <1> QED BY <1>10 DEF u1, v1, P, Q

(* What a segment holds does not depend on the other segments.              *)
LEMMA SegmentApart ==
  ASSUME NEW a, NEW b, NEW left, NEW c \in Int, NEW d \in Int, NEW x, NEW y, NEW L, NEW R,
         SegmentOK(a, left, c, d, x, y, L, R), \A i \in c .. d - 1 : b[i] = a[i]
  PROVE  SegmentOK(b, left, c, d, x, y, L, R)
  <1>1. x \in Int /\ y \in Int /\ c <= x /\ x <= y + 1 /\ y + 1 <= d BY DEF SegmentOK
  <1>2. \A i \in c .. x - 1 : i \in c .. d - 1 BY <1>1
  <1>3. \A i \in y + 1 .. d - 1 : i \in c .. d - 1 BY <1>1
  <1>4. {a[i] : i \in c .. x - 1} = {b[i] : i \in c .. x - 1} BY <1>2
  <1>5. {a[i] : i \in y + 1 .. d - 1} = {b[i] : i \in y + 1 .. d - 1} BY <1>3
  <1> QED BY <1>1, <1>2, <1>3, <1>4, <1>5 DEF SegmentOK

------------------------------------------------------------------------------
(* The first parallel loop.                                                 *)

LEMMA PartsOK ==
  ASSUME Partition!BoundsAssumption, PartInputs
  PROVE  N \in Nat /\ Parts \in Nat \ {0}
  <1>1. N \in Nat /\ threadCount \in Nat \ {0} /\ BlockSize \in Nat \ {0}
    BY DEF Partition!BoundsAssumption, PartInputs
  <1>2. N >= BlockSize => (N + BlockSize - 1) \div BlockSize \in Nat \ {0}
    <2> DEFINE z == N + BlockSize - 1
    <2>1. N >= BlockSize => z \in Nat /\ z >= BlockSize BY <1>1
    <2> HIDE DEF z
    <2>2. ASSUME z \in Nat, z >= BlockSize PROVE z \div BlockSize \in Nat \ {0}
      <3>1. z \div BlockSize \in Nat BY <1>1, <2>2
      <3>2. \A k \in Nat \ {0} : \A b \in Nat : b >= k => b \div k >= 1
        <4>1. ASSUME NEW k \in Nat \ {0}, NEW b \in Nat, b >= k PROVE b \div k >= 1
          <5>1. (k * 1) \div k = 1 OBVIOUS
          <5>2. \A x, y \in Nat : x <= y => x \div k <= y \div k OBVIOUS
          <5>3. k * 1 \in Nat /\ k * 1 <= b BY <4>1
          <5> QED BY <5>1, <5>2, <5>3
        <4> QED BY <4>1
      <3>3. z \div BlockSize >= 1 BY <1>1, <2>2, <3>2
      <3> QED BY <3>1, <3>3
    <2> QED BY <2>1, <2>2 DEF z
  <1> DEFINE q == (N + BlockSize - 1) \div BlockSize
  <1>3. Parts = IF N < BlockSize THEN 1 ELSE IF q < threadCount THEN q ELSE threadCount
    BY DEF Parts, Partition!numTasks, Partition!Least
  <1> HIDE DEF q
  <1>4. Parts \in Nat \ {0}
    <2>1. CASE N < BlockSize BY <1>3, <2>1
    <2>2. CASE ~(N < BlockSize)
      <3>1. q \in Nat \ {0} BY <1>1, <1>2, <2>2 DEF q
      <3> QED BY <1>1, <1>3, <2>2, <3>1
    <2> QED BY <2>1, <2>2
  <1> QED BY <1>1, <1>4

LEMMA ShareIs == \A t, items : Partition!Share(t, items) = Cut(t, items, Parts)
  BY DEF Partition!Share, Cut, Parts

LEMMA PartInit ==
  ASSUME Partition!BoundsAssumption, Partition!Init
  PROVE  PartInv
  <1>1. PartInputs
    <2>1. N \in PartitionSizes /\ leftOnes \in LeftSets[N] /\ threadCount \in 1 .. MaxThreads
      BY DEF Partition!Init
    <2>2. N \in Nat /\ LeftSets[N] \subseteq SUBSET (0 .. N - 1) /\ MaxThreads \in Nat
      BY <2>1 DEF Partition!BoundsAssumption
    <2>3. threadCount \in Nat \ {0} BY <2>1, <2>2
    <2>4. leftOnes \subseteq 0 .. N - 1 BY <2>1, <2>2
    <2> QED BY <2>2, <2>3, <2>4 DEF PartInputs
  <1>2. N \in Nat /\ Parts \in Nat \ {0} BY <1>1, PartsOK
  <1>3. /\ progress = "segments" /\ array = [i \in 0 .. N - 1 |-> i]
        /\ lPtr = [t \in 0 .. Parts - 1 |-> Cut(t, N, Parts)]
        /\ rPtr = [t \in 0 .. Parts - 1 |-> Cut(t + 1, N, Parts) - 1]
        /\ reduced = [t \in 0 .. Parts - 1 |-> [left |-> {}, right |-> {}]]
        /\ swap = [t \in 0 .. Parts - 1 |-> Partition!Idle]
        /\ touched = [i \in 0 .. N - 1 |-> {}]
    BY ShareIs DEF Partition!Init, Partition!Tasks, Partition!Places, Parts
  <1>4. Perm(array, N)
    BY <1>3 DEF Perm, Bijection, Injection, Surjection, IsInjective
  <1>5. ASSUME NEW t \in 0 .. Parts - 1
        PROVE  SegmentOK(array, leftOnes, Cut(t, N, Parts), Cut(t + 1, N, Parts),
                         lPtr[t], rPtr[t], reduced[t].left, reduced[t].right)
    <2> DEFINE x == Cut(t, N, Parts) y == Cut(t + 1, N, Parts)
    <2>1. x \in Nat /\ y \in Nat /\ x <= y BY <1>2, ShareFacts
    <2>2. lPtr[t] = x /\ rPtr[t] = y - 1 /\ reduced[t].left = {} /\ reduced[t].right = {}
      BY <1>3
    <2> HIDE DEF x, y
    <2>3. x .. x - 1 = {} /\ (y - 1) + 1 .. y - 1 = {} BY <2>1
    <2>4. {array[i] : i \in x .. x - 1} = {} /\ {array[i] : i \in (y - 1) + 1 .. y - 1} = {}
      BY <2>3
    <2>5. SegmentOK(array, leftOnes, x, y, x, y - 1, {}, {})
      BY <2>1, <2>3, <2>4 DEF SegmentOK
    <2> QED BY <2>2, <2>5 DEF x, y
  <1>6. SegmentsOK(array, leftOnes, N, Parts, lPtr, rPtr, reduced) BY <1>5 DEF SegmentsOK
  <1>7. touched \in [0 .. N - 1 -> SUBSET (0 .. Parts - 1)] BY <1>3
  <1>8. /\ lPtr = [t \in 0 .. Parts - 1 |-> lPtr[t]] /\ rPtr = [t \in 0 .. Parts - 1 |-> rPtr[t]]
        /\ swap = [t \in 0 .. Parts - 1 |-> swap[t]]
    BY <1>3
  <1>9. reduced \in [0 .. Parts - 1 -> [left : SUBSET (0 .. N - 1), right : SUBSET (0 .. N - 1)]]
    BY <1>3
  <1> QED BY <1>1, <1>3, <1>4, <1>6, <1>7, <1>8, <1>9 DEF PartInv

LEMMA ExchangePerm ==
  ASSUME NEW n \in Nat, NEW a, Perm(a, n), NEW u \in 0 .. n - 1, NEW v \in 0 .. n - 1, u < v,
         NEW b, b = [i \in 0 .. n - 1 |-> b[i]], b[u] = a[v], b[v] = a[u],
         \A i \in 0 .. n - 1 : i # u /\ i # v => b[i] = a[i]
  PROVE  Perm(b, n)
  <1> DEFINE s == SwapRuns(a, n, u, v, 1)
  <1>3. \A i \in 0 .. n - 1 : s[i] = b[i]
    <2>1. ASSUME NEW i \in 0 .. n - 1
          PROVE  s[i] = IF i = u THEN a[v] ELSE IF i = v THEN a[u] ELSE a[i]
      <3>1. i \in u .. u + 1 - 1 <=> i = u OBVIOUS
      <3>2. i \in v .. v + 1 - 1 <=> i = v OBVIOUS
      <3>3. s[i] = IF i \in u .. u + 1 - 1 THEN a[v + i - u]
                   ELSE IF i \in v .. v + 1 - 1 THEN a[u + i - v] ELSE a[i]
        BY DEF SwapRuns
      <3>4. (v + u) - u = v /\ (u + v) - v = u OBVIOUS
      <3> HIDE DEF s
      <3> QED BY <3>1, <3>2, <3>3, <3>4
    <2> HIDE DEF s
    <2>2. u # v OBVIOUS
    <2> QED BY <2>1, <2>2
  <1>4. Perm(s, n)
    <2>1. u \in Nat /\ v \in Nat /\ 1 \in Nat /\ u + 1 <= v /\ v + 1 <= n OBVIOUS
    <2> QED BY <2>1, SwapPerm
  <1>5. s = [i \in 0 .. n - 1 |-> s[i]] BY DEF SwapRuns
  <1> HIDE DEF s
  <1>6. s = b BY <1>3, <1>5
  <1> QED BY <1>4, <1>6

LEMMA PartSegment ==
  ASSUME Partition!BoundsAssumption, PartInv,
         NEW t \in Partition!Tasks, Partition!SegmentStep(t)
  PROVE  PartInv'
  <1> DEFINE x == lPtr[t] y == rPtr[t]
             c == Cut(t, N, Parts) d == Cut(t + 1, N, Parts)
             L == reduced[t].left R == reduced[t].right
             up == Partition!Up(t) down == Partition!Down(t)
  <1>1. PartInputs /\ N \in Nat /\ Parts \in Nat \ {0} /\ t \in 0 .. Parts - 1
    BY PartsOK DEF PartInv, Partition!Tasks, Parts
  <1>2. /\ progress = "segments" /\ x <= y
        /\ progress' = progress
        /\ UNCHANGED <<N, leftOnes, threadCount, mid, ranges, swap, touched>>
    BY DEF Partition!SegmentStep, Partition!inputs
  <1>3. Parts' = Parts /\ PartInputs' BY <1>1, <1>2 DEF Parts, Partition!numTasks, PartInputs
  <1>4. SegmentsOK(array, leftOnes, N, Parts, lPtr, rPtr, reduced) /\ Perm(array, N)
    BY <1>2 DEF PartInv
  <1>5. SegmentOK(array, leftOnes, c, d, x, y, L, R)
    BY <1>1, <1>4 DEF SegmentsOK
  <1>6. c \in 0 .. N /\ d \in 0 .. N /\ c \in Nat /\ d \in Nat /\ c <= d BY <1>1, ShareFacts
  <1>7. x \in Nat /\ y \in Int /\ c <= x /\ y + 1 <= d
    <2> HIDE DEF x, y, c, d, L, R
    <2> QED BY <1>5, <1>6 DEF SegmentOK
  <1>8. up = Partition!Min({i \in x .. y : array[i] \notin leftOnes} \union {y + 1})
    BY DEF Partition!Up
  <1>9. down = Partition!Max({i \in up .. y : array[i] \in leftOnes} \union {up - 1})
    BY DEF Partition!Down
  <1> HIDE DEF x, y, c, d, L, R, up, down
  <1>10. /\ up \in Nat /\ x <= up /\ up <= y + 1
         /\ \A i \in x .. up - 1 : array[i] \in leftOnes
         /\ up <= y => array[up] \notin leftOnes
    <2>1. up = Partition!Min(UpSet(array, leftOnes, x, y)) BY <1>8 DEF UpSet
    <2> QED BY <1>2, <1>7, <2>1, UpStops
  <1>11. /\ down \in Int /\ up - 1 <= down /\ down <= y
         /\ \A i \in down + 1 .. y : array[i] \notin leftOnes
         /\ up <= down => array[down] \in leftOnes
    <2>1. down = Partition!Max(DownSet(array, leftOnes, up, y)) BY <1>9 DEF DownSet
    <2> QED BY <1>7, <1>10, <2>1, DownStops
  <1>12. \E u, v, NL, NR :
           /\ lPtr' = [lPtr EXCEPT ![t] = u] /\ rPtr' = [rPtr EXCEPT ![t] = v]
           /\ reduced' = [reduced EXCEPT ![t].left = NL, ![t].right = NR]
           /\ SegmentOK(array', leftOnes, c, d, u, v, NL, NR)
           /\ \A i \in 0 .. N - 1 : i \notin c .. d - 1 => array'[i] = array[i]
           /\ Perm(array', N)
    <2>1. CASE down < up
      <3> DEFINE NL == L \union {array[i] : i \in x .. up - 1}
                 NR == R \union {array[i] : i \in down + 1 .. y}
      <3>1. /\ lPtr' = [lPtr EXCEPT ![t] = up] /\ rPtr' = [rPtr EXCEPT ![t] = down]
            /\ array' = array
            /\ reduced' = [reduced EXCEPT ![t].left = @ \union Partition!Items(x .. up - 1),
                                          ![t].right = @ \union Partition!Items(down + 1 .. y)]
        BY <2>1 DEF Partition!SegmentStep, x, y, up, down
      <3>2. reduced' = [reduced EXCEPT ![t].left = NL, ![t].right = NR]
        BY <3>1 DEF Partition!Items, L, R
      <3>3. up - 1 = down BY <1>10, <1>11, <2>1
      <3>4. SegmentOK(array, leftOnes, c, d, up, down, NL, NR)
        BY <1>5, <1>6, <1>10, <1>11, <3>3, SegmentEnds
      <3> HIDE DEF NL, NR
      <3> QED BY <1>4, <3>1, <3>2, <3>4
    <2>2. CASE ~(down < up)
      <3> DEFINE NL == L \union {array[i] : i \in x .. up - 1} \union {array[down]}
                 NR == R \union {array[i] : i \in down + 1 .. y} \union {array[up]}
      <3>1. /\ lPtr' = [lPtr EXCEPT ![t] = up + 1] /\ rPtr' = [rPtr EXCEPT ![t] = down - 1]
            /\ array' = [array EXCEPT ![up] = array[down], ![down] = array[up]]
            /\ reduced' = [reduced EXCEPT
                  ![t].left = @ \union Partition!Items(x .. up - 1) \union {array[down]},
                  ![t].right = @ \union Partition!Items(down + 1 .. y) \union {array[up]}]
        BY <2>2 DEF Partition!SegmentStep, Partition!Exchange, x, y, up, down
      <3>2. reduced' = [reduced EXCEPT ![t].left = NL, ![t].right = NR]
        BY <3>1 DEF Partition!Items, L, R
      <3>3. array[up] \notin leftOnes /\ array[down] \in leftOnes
        <4>1. up <= down /\ up <= y BY <1>7, <1>10, <1>11, <2>2
        <4> QED BY <1>10, <1>11, <4>1
      <3>4. up < down
        <4>1. up <= down /\ up # down BY <1>10, <1>11, <2>2, <3>3
        <4> QED BY <1>10, <1>11, <4>1
      <3>5. up \in 0 .. N - 1 /\ down \in 0 .. N - 1 /\ up \in c .. d - 1 /\ down \in c .. d - 1
        BY <1>1, <1>6, <1>7, <1>10, <1>11, <3>4
      <3>6. /\ Perm(array', N) /\ array'[up] = array[down] /\ array'[down] = array[up]
            /\ \A i \in 0 .. N - 1 : i # up /\ i # down => array'[i] = array[i]
        <4>1. array = [i \in 0 .. N - 1 |-> array[i]]
          BY <1>4 DEF Perm, Bijection, Injection, Surjection
        <4>2. /\ array' = [i \in 0 .. N - 1 |-> array'[i]]
              /\ array'[up] = array[down] /\ array'[down] = array[up]
              /\ \A i \in 0 .. N - 1 : i # up /\ i # down => array'[i] = array[i]
          BY <3>1, <3>5, <4>1
        <4> QED BY <1>1, <1>4, <3>4, <3>5, <4>2, ExchangePerm
      <3>7. c .. d - 1 \subseteq 0 .. N - 1 BY <1>1, <1>6
      <3>8. \A i \in c .. d - 1 : i # up /\ i # down => array'[i] = array[i] BY <3>6, <3>7
      <3>9. up \in Int BY <1>10
      <3>10. SegmentOK(array', leftOnes, c, d, up + 1, down - 1, NL, NR)
        BY <1>5, <1>6, <1>10, <1>11, <3>3, <3>4, <3>6, <3>8, <3>9, SegmentSwaps
      <3>11. \A i \in 0 .. N - 1 : i \notin c .. d - 1 => array'[i] = array[i] BY <3>5, <3>6
      <3> HIDE DEF NL, NR
      <3> QED BY <3>1, <3>2, <3>6, <3>10, <3>11
    <2> QED BY <2>1, <2>2
  <1>13. PICK u, v, NL, NR :
           /\ lPtr' = [lPtr EXCEPT ![t] = u] /\ rPtr' = [rPtr EXCEPT ![t] = v]
           /\ reduced' = [reduced EXCEPT ![t].left = NL, ![t].right = NR]
           /\ SegmentOK(array', leftOnes, c, d, u, v, NL, NR)
           /\ \A i \in 0 .. N - 1 : i \notin c .. d - 1 => array'[i] = array[i]
           /\ Perm(array', N)
    BY <1>12
  <1>14. /\ lPtr = [s \in 0 .. Parts - 1 |-> lPtr[s]] /\ rPtr = [s \in 0 .. Parts - 1 |-> rPtr[s]]
         /\ reduced \in [0 .. Parts - 1 -> [left : SUBSET (0 .. N - 1), right : SUBSET (0 .. N - 1)]]
    BY DEF PartInv
  <1>15. /\ lPtr' = [s \in 0 .. Parts - 1 |-> lPtr'[s]] /\ rPtr' = [s \in 0 .. Parts - 1 |-> rPtr'[s]]
         /\ lPtr'[t] = u /\ rPtr'[t] = v
         /\ \A s \in 0 .. Parts - 1 : s # t => lPtr'[s] = lPtr[s] /\ rPtr'[s] = rPtr[s]
    BY <1>1, <1>13, <1>14
  <1>16. /\ reduced' \in [0 .. Parts - 1 -> [left : SUBSET (0 .. N - 1), right : SUBSET (0 .. N - 1)]]
         /\ reduced'[t].left = NL /\ reduced'[t].right = NR
         /\ \A s \in 0 .. Parts - 1 : s # t => reduced'[s] = reduced[s]
    <2>1. NL \subseteq 0 .. N - 1 /\ NR \subseteq 0 .. N - 1
      <3>1. array' \in [0 .. N - 1 -> 0 .. N - 1]
        BY <1>13 DEF Perm, Bijection, Injection, Surjection
      <3>2. u \in Int /\ v \in Int /\ c <= u /\ u <= v + 1 /\ v + 1 <= d
            /\ NL = {array'[i] : i \in c .. u - 1} /\ NR = {array'[i] : i \in v + 1 .. d - 1}
        BY <1>13 DEF SegmentOK
      <3>3. c .. u - 1 \subseteq 0 .. N - 1 /\ v + 1 .. d - 1 \subseteq 0 .. N - 1
        BY <1>1, <1>6, <3>2
      <3> QED BY <3>1, <3>2, <3>3
    <2> QED BY <1>1, <1>13, <1>14, <2>1
  <1>17. ASSUME NEW s \in 0 .. Parts - 1
         PROVE  SegmentOK(array', leftOnes, Cut(s, N, Parts), Cut(s + 1, N, Parts),
                          lPtr'[s], rPtr'[s], reduced'[s].left, reduced'[s].right)
    <2>1. CASE s = t BY <1>13, <1>15, <1>16, <2>1 DEF c, d
    <2>2. CASE s # t
      <3> DEFINE c2 == Cut(s, N, Parts) d2 == Cut(s + 1, N, Parts)
      <3>1. SegmentOK(array, leftOnes, c2, d2, lPtr[s], rPtr[s], reduced[s].left, reduced[s].right)
        BY <1>4 DEF SegmentsOK
      <3>2. c2 \in 0 .. N /\ d2 \in 0 .. N BY <1>1, ShareFacts
      <3>3. ASSUME NEW i \in c2 .. d2 - 1 PROVE i \notin c .. d - 1
        <4>1. SUFFICES ASSUME i \in c .. d - 1 PROVE FALSE OBVIOUS
        <4> QED BY <1>1, <2>2, <4>1, CutApart DEF c, d
      <3> HIDE DEF c2, d2
      <3>4. \A i \in c2 .. d2 - 1 : array'[i] = array[i]
        <4>1. c2 .. d2 - 1 \subseteq 0 .. N - 1 BY <1>1, <3>2
        <4> QED BY <1>13, <3>3, <4>1
      <3>5. c2 \in Int /\ d2 \in Int BY <3>2
      <3>6. SegmentOK(array', leftOnes, c2, d2, lPtr[s], rPtr[s], reduced[s].left, reduced[s].right)
        BY <3>1, <3>4, <3>5, SegmentApart
      <3>7. lPtr'[s] = lPtr[s] /\ rPtr'[s] = rPtr[s] /\ reduced'[s] = reduced[s]
        BY <1>15, <1>16, <2>2
      <3> QED BY <3>6, <3>7 DEF c2, d2
    <2> QED BY <2>1, <2>2
  <1>18. SegmentsOK(array, leftOnes, N, Parts, lPtr, rPtr, reduced)'
    BY <1>2, <1>3, <1>17 DEF SegmentsOK
  <1>19. Perm(array, N)' BY <1>2, <1>13 DEF Perm
  <1>20. /\ (touched \in [0 .. N - 1 -> SUBSET (0 .. Parts - 1)])'
         /\ (touched = [p \in 0 .. N - 1 |-> {}])'
         /\ (swap = [s \in 0 .. Parts - 1 |-> swap[s]])'
    BY <1>2, <1>3 DEF PartInv
  <1>21. /\ (lPtr = [s \in 0 .. Parts - 1 |-> lPtr[s]])' /\ (rPtr = [s \in 0 .. Parts - 1 |-> rPtr[s]])'
         /\ (reduced \in [0 .. Parts - 1 -> [left : SUBSET (0 .. N - 1), right : SUBSET (0 .. N - 1)]])'
    BY <1>2, <1>3, <1>15, <1>16
  <1> QED BY <1>2, <1>3, <1>18, <1>19, <1>20, <1>21 DEF PartInv

------------------------------------------------------------------------------
(* Between the loops.                                                       *)

LEMMA CutBelow ==
  ASSUME NEW n \in Nat \ {0}, NEW k \in Nat \ {0}, NEW t \in 0 .. k - 1
  PROVE  Cut(t, n, k) \in 0 .. n - 1
  <1> DEFINE x == t * n q == x \div k
  <1>1. x \in Nat /\ q \in Nat
    <2>1. x \in Nat OBVIOUS
    <2> HIDE DEF x
    <2> QED BY <2>1
  <1>3. x < k * n
    <2>1. t + 1 <= k OBVIOUS
    <2>2. (t + 1) * n <= k * n BY <2>1
    <2>3. (t + 1) * n = x + n OBVIOUS
    <2> HIDE DEF x
    <2> QED BY <1>1, <2>2, <2>3
  <1> HIDE DEF x, q
  <1>2. \A a \in Nat : a < k * n => a \div k < n OBVIOUS
  <1>4. q < n BY <1>1, <1>2, <1>3 DEF q
  <1> QED BY <1>1, <1>4 DEF Cut, x, q

(* Every item is in the reductions of its side.                             *)
LEMMA AllReduced ==
  ASSUME NEW n \in Nat, NEW k \in Nat \ {0}, NEW a, Perm(a, n), NEW left \in SUBSET (0 .. n - 1),
         NEW lo, NEW hi, NEW red, SegmentsOK(a, left, n, k, lo, hi, red),
         \A t \in 0 .. k - 1 : lo[t] > hi[t]
  PROVE  /\ ReductionsOK(red, left, n, k)
         /\ \A t \in 0 .. k - 1 :
              /\ lo[t] \in Int /\ Cut(t, n, k) <= lo[t] /\ lo[t] <= Cut(t + 1, n, k)
              /\ \A i \in Cut(t, n, k) .. lo[t] - 1 : a[i] \in left
              /\ \A i \in lo[t] .. Cut(t + 1, n, k) - 1 : a[i] \notin left
  <1>1. ASSUME NEW t \in 0 .. k - 1
        PROVE  /\ lo[t] \in Int /\ Cut(t, n, k) <= lo[t] /\ lo[t] <= Cut(t + 1, n, k)
               /\ \A i \in Cut(t, n, k) .. lo[t] - 1 : a[i] \in left
               /\ \A i \in lo[t] .. Cut(t + 1, n, k) - 1 : a[i] \notin left
               /\ red[t].left = {a[i] : i \in Cut(t, n, k) .. lo[t] - 1}
               /\ red[t].right = {a[i] : i \in lo[t] .. Cut(t + 1, n, k) - 1}
    <2> DEFINE c == Cut(t, n, k) d == Cut(t + 1, n, k) x == lo[t] y == hi[t]
               L == red[t].left R == red[t].right
    <2>1. SegmentOK(a, left, c, d, x, y, L, R) BY DEF SegmentsOK
    <2>2. x > y OBVIOUS
    <2>3. c \in Nat /\ d \in Nat BY ShareFacts
    <2> HIDE DEF c, d, x, y, L, R
    <2>4. x \in Int /\ y \in Int /\ c <= x /\ x <= y + 1 /\ y + 1 <= d BY <2>1 DEF SegmentOK
    <2>5. x = y + 1 BY <2>2, <2>4
    <2>6. /\ \A i \in c .. x - 1 : a[i] \in left
          /\ \A i \in x .. d - 1 : a[i] \notin left
          /\ L = {a[i] : i \in c .. x - 1} /\ R = {a[i] : i \in x .. d - 1}
      BY <2>1, <2>5 DEF SegmentOK
    <2>7. x <= d BY <2>4, <2>5
    <2> QED BY <2>4, <2>6, <2>7 DEF c, d, x, y, L, R
  <1>2. a \in [0 .. n - 1 -> 0 .. n - 1] /\ \A z \in 0 .. n - 1 : \E p \in 0 .. n - 1 : a[p] = z
    BY DEF Perm, Bijection, Injection, Surjection
  <1>3. ASSUME NEW t \in 0 .. k - 1
        PROVE  red[t].left \subseteq left /\ red[t].right \subseteq (0 .. n - 1) \ left
    <2> DEFINE c == Cut(t, n, k) d == Cut(t + 1, n, k) x == lo[t]
    <2>1. c \in 0 .. n /\ d \in 0 .. n BY ShareFacts
    <2>2. x \in Int /\ c <= x /\ x <= d BY <1>1
    <2>3. x .. d - 1 \subseteq 0 .. n - 1
      <3> HIDE DEF c, d, x
      <3> QED BY <2>1, <2>2
    <2>4. red[t].left \subseteq left BY <1>1
    <2>5. red[t].right = {a[i] : i \in x .. d - 1} BY <1>1
    <2>6. \A i \in x .. d - 1 : a[i] \notin left BY <1>1
    <2> HIDE DEF c, d, x
    <2> QED BY <1>2, <2>3, <2>4, <2>5, <2>6
  <1>4. ASSUME NEW z \in 0 .. n - 1
        PROVE  \E t \in 0 .. k - 1 : IF z \in left THEN z \in red[t].left ELSE z \in red[t].right
    <2>1. PICK p \in 0 .. n - 1 : a[p] = z BY <1>2
    <2>2. PICK t \in 0 .. k - 1 : p \in Cut(t, n, k) .. Cut(t + 1, n, k) - 1 BY CutTiles
    <2> DEFINE c == Cut(t, n, k) d == Cut(t + 1, n, k) x == lo[t]
    <2>3. c \in Nat /\ d \in Nat BY ShareFacts
    <2>4. p \in c .. d - 1 /\ x \in Int BY <1>1, <2>2
    <2>5. /\ \A i \in c .. x - 1 : a[i] \in left /\ a[i] \in red[t].left
          /\ \A i \in x .. d - 1 : a[i] \notin left /\ a[i] \in red[t].right
      BY <1>1
    <2>6. p \in c .. x - 1 \/ p \in x .. d - 1
      <3> HIDE DEF c, d, x
      <3> QED BY <2>3, <2>4
    <2> HIDE DEF c, d, x
    <2> QED BY <2>1, <2>5, <2>6
  <1>5. UNION {red[t].left : t \in 0 .. k - 1} = left
    <2>1. \A z \in left : \E t \in 0 .. k - 1 : z \in red[t].left BY <1>4
    <2> QED BY <1>3, <2>1
  <1>6. UNION {red[t].right : t \in 0 .. k - 1} = (0 .. n - 1) \ left
    <2>1. \A z \in (0 .. n - 1) \ left : \E t \in 0 .. k - 1 : z \in red[t].right BY <1>4
    <2> QED BY <1>3, <2>1
  <1> QED BY <1>1, <1>5, <1>6 DEF ReductionsOK

LEMMA KeptIs == ASSUME NEW rs PROVE Partition!NotEmpty(rs) = Kept(rs, Parts)[Parts]
  BY DEF Partition!NotEmpty, Kept, IsKept, LengthOf, Partition!Size, Parts

LEMMA MisplacedAre ==
  ASSUME NEW m
  PROVE  /\ Partition!LeftMisplaced(m) = Kept(LeftRuns(lPtr, m, N, Parts), Parts)[Parts]
         /\ Partition!RightMisplaced(m) = Kept(RightRuns(lPtr, m, N, Parts), Parts)[Parts]
  <1> DEFINE rl == LeftRuns(lPtr, m, N, Parts)
             rr == RightRuns(lPtr, m, N, Parts)
  <1>1. Partition!LeftMisplaced(m) = Partition!NotEmpty(rl)
    BY ShareIs DEF Partition!LeftMisplaced, LeftRuns, Partition!make_range, Partition!Least,
       LesserOf, Partition!Tasks, Parts
  <1>2. Partition!RightMisplaced(m) = Partition!NotEmpty(rr)
    BY ShareIs DEF Partition!RightMisplaced, RightRuns, Partition!make_range, Partition!Greater,
       GreaterOf, Partition!Tasks, Parts
  <1> HIDE DEF rl, rr
  <1>3. Partition!NotEmpty(rl) = Kept(rl, Parts)[Parts] BY KeptIs
  <1>4. Partition!NotEmpty(rr) = Kept(rr, Parts)[Parts] BY KeptIs
  <1> QED BY <1>1, <1>2, <1>3, <1>4 DEF rl, rr

LEMMA NoneWrong ==
  ASSUME NEW n \in Nat, NEW m \in 0 .. n, NEW a, NEW left, NEW lm, NEW rm, NEW D,
         RangesOK(lm, 0, m), RangesOK(rm, m, n), SidesOK(a, left, m, n, lm, rm, D),
         RangeSum(rm, Len(rm) + 1) = RangeSum(lm, Len(lm) + 1),
         0 .. RangeSum(lm, Len(lm) + 1) - 1 \subseteq D
  PROVE  /\ \A p \in 0 .. m - 1 : a[p] \in left
         /\ \A p \in m .. n - 1 : a[p] \notin left
  <1>1. 0 \in Int /\ m \in Int /\ n \in Int OBVIOUS
  <1>2. \A p : \A x \in Nat \ D : ~Numbered(lm, p, x)
    <2>1. ASSUME NEW p, NEW x \in Nat \ D, Numbered(lm, p, x) PROVE FALSE
      <3>1. x \in 0 .. RangeSum(lm, Len(lm) + 1) - 1 BY <1>1, <2>1, NumberedBounds
      <3> QED BY <3>1
    <2> QED BY <2>1
  <1>3. \A p : \A x \in Nat \ D : ~Numbered(rm, p, x)
    <2>1. ASSUME NEW p, NEW x \in Nat \ D, Numbered(rm, p, x) PROVE FALSE
      <3>1. x \in 0 .. RangeSum(rm, Len(rm) + 1) - 1 BY <1>1, <2>1, NumberedBounds
      <3> QED BY <3>1
    <2> QED BY <2>1
  <1>4. \A p \in 0 .. m - 1 : a[p] \in left BY <1>2 DEF SidesOK
  <1>5. \A p \in m .. n - 1 : a[p] \notin left BY <1>3 DEF SidesOK
  <1> QED BY <1>4, <1>5

LEMMA SharesStart ==
  ASSUME NEW items \in Nat \ {0}, NEW k \in Nat \ {0}, NEW lo, NEW m, NEW n, NEW lm, NEW rm,
         RangesOK(lm, lo, m), RangesOK(rm, m, n), RangeSum(lm, Len(lm) + 1) = items,
         RangeSum(rm, Len(rm) + 1) = items, NEW sw,
         \A t \in 0 .. k - 1 :
           LET begin == Cut(t, items, k)
           IN sw[t] = [size |-> Cut(t + 1, items, k) - begin,
                       lRange |-> Partition!Start(lm, begin).range,
                       lDone |-> Partition!Start(lm, begin).done,
                       rRange |-> Partition!Start(rm, begin).range,
                       rDone |-> Partition!Start(rm, begin).done]
  PROVE  SharesOK(sw, lm, rm, items, k) /\ SwappedNumbers(sw, items, k) = {}
  <1>1. ASSUME NEW t \in 0 .. k - 1
        PROVE  /\ sw[t].size \in Nat /\ sw[t].size <= Cut(t + 1, items, k) - Cut(t, items, k)
               /\ Stands(lm, sw[t].lRange, sw[t].lDone, Reached(sw, t, items, k))
               /\ Stands(rm, sw[t].rRange, sw[t].rDone, Reached(sw, t, items, k))
               /\ SwappedBy(sw, t, items, k) = {}
    <2> DEFINE c == Cut(t, items, k) d == Cut(t + 1, items, k)
               ls == Partition!Start(lm, c) rs == Partition!Start(rm, c)
    <2>1. c \in Nat /\ d \in Nat /\ c <= d BY ShareFacts
    <2>2. c \in 0 .. items - 1 BY CutBelow
    <2>3. sw[t] = [size |-> d - c, lRange |-> ls.range, lDone |-> ls.done,
                   rRange |-> rs.range, rDone |-> rs.done]
      OBVIOUS
    <2>4. Reached(sw, t, items, k) = d - sw[t].size BY DEF Reached
    <2>5. SwappedBy(sw, t, items, k) = c .. Reached(sw, t, items, k) - 1 BY DEF SwappedBy
    <2>6. ls = Partition!Start(lm, c) /\ rs = Partition!Start(rm, c) OBVIOUS
    <2> HIDE DEF c, d, ls, rs
    <2>7. /\ sw[t].size = d - c /\ sw[t].lRange = ls.range /\ sw[t].lDone = ls.done
          /\ sw[t].rRange = rs.range /\ sw[t].rDone = rs.done
      BY <2>3
    <2>8. Stands(lm, ls.range, ls.done, c) BY <2>2, <2>6, StartStands
    <2>9. Stands(rm, rs.range, rs.done, c) BY <2>2, <2>6, StartStands
    <2>10. Reached(sw, t, items, k) = c BY <2>1, <2>4, <2>7
    <2>11. SwappedBy(sw, t, items, k) = {} BY <2>1, <2>5, <2>10
    <2>12. sw[t].size \in Nat /\ sw[t].size <= d - c BY <2>1, <2>7
    <2> QED BY <2>7, <2>8, <2>9, <2>10, <2>11, <2>12 DEF c, d
  <1>2. SharesOK(sw, lm, rm, items, k) BY <1>1 DEF SharesOK
  <1>3. SwappedNumbers(sw, items, k) = {} BY <1>1 DEF SwappedNumbers
  <1> QED BY <1>2, <1>3

LEMMA PartFind ==
  ASSUME Partition!BoundsAssumption, PartInv, Partition!FindMisplaced
  PROVE  PartInv'
  <1> DEFINE m == Partition!MidPoint
             rl == LeftRuns(lPtr, m, N, Parts) rr == RightRuns(lPtr, m, N, Parts)
             lm == Partition!LeftMisplaced(m) rm == Partition!RightMisplaced(m)
             d == Passed(lPtr, N, Parts)
             hl == LeftGaps(lPtr, m, N, Parts) hr == RightGaps(lPtr, m, N, Parts)
             items == RangeSum(lm, Len(lm) + 1)
  <1>1. PartInputs /\ N \in Nat /\ Parts \in Nat \ {0} /\ leftOnes \in SUBSET (0 .. N - 1)
    BY PartsOK DEF PartInv, PartInputs
  <1>2. /\ progress = "segments" /\ \A t \in 0 .. Parts - 1 : lPtr[t] > rPtr[t]
        /\ mid' = m /\ ranges' = [left |-> lm, right |-> rm]
        /\ UNCHANGED <<N, leftOnes, threadCount, array, lPtr, rPtr, reduced, touched>>
    BY DEF Partition!FindMisplaced, Partition!Barrier, Partition!Tasks, Parts, Partition!inputs
  <1>3. Parts' = Parts /\ PartInputs' BY <1>1, <1>2 DEF Parts, Partition!numTasks, PartInputs
  <1>4. /\ SegmentsOK(array, leftOnes, N, Parts, lPtr, rPtr, reduced) /\ Perm(array, N)
        /\ touched = [p \in 0 .. N - 1 |-> {}]
    BY <1>2 DEF PartInv
  <1>5. /\ ReductionsOK(reduced, leftOnes, N, Parts)
        /\ \A t \in 0 .. Parts - 1 : lPtr[t] \in Int /\ Cut(t, N, Parts) <= lPtr[t]
                                      /\ lPtr[t] <= Cut(t + 1, N, Parts)
        /\ \A t \in 0 .. Parts - 1 : \A i \in Cut(t, N, Parts) .. lPtr[t] - 1 : array[i] \in leftOnes
        /\ \A t \in 0 .. Parts - 1 :
             \A i \in lPtr[t] .. Cut(t + 1, N, Parts) - 1 : array[i] \notin leftOnes
    <2>1. /\ ReductionsOK(reduced, leftOnes, N, Parts)
          /\ \A t \in 0 .. Parts - 1 :
               /\ lPtr[t] \in Int /\ Cut(t, N, Parts) <= lPtr[t] /\ lPtr[t] <= Cut(t + 1, N, Parts)
               /\ \A i \in Cut(t, N, Parts) .. lPtr[t] - 1 : array[i] \in leftOnes
               /\ \A i \in lPtr[t] .. Cut(t + 1, N, Parts) - 1 : array[i] \notin leftOnes
      BY <1>1, <1>2, <1>4, AllReduced
    <2> QED BY <2>1
  <1>6. m = SumFunctionOnSet(d, 0 .. Parts - 1)
    <2>1. Partition!MidPoint = Partition!SumFunctionOnSet(d, 0 .. Parts - 1)
      BY ShareIs DEF Partition!MidPoint, Partition!Tasks, Parts, Passed
    <2> QED BY <2>1, PartitionSum
  <1>7. /\ \A t \in 0 .. Parts - 1 : hl[t] = LeftGap(lPtr, m, N, Parts, t)
        /\ \A t \in 0 .. Parts - 1 : hr[t] = RightGap(lPtr, m, N, Parts, t)
    BY DEF LeftGaps, RightGaps
  <1>8. lm = Kept(rl, Parts)[Parts] /\ rm = Kept(rr, Parts)[Parts] BY MisplacedAre
  <1> HIDE DEF m, d, hl, hr, lm, rm
  <1>9. m \in 0 .. N /\ SumFunctionOnSet(hl, 0 .. Parts - 1) = SumFunctionOnSet(hr, 0 .. Parts - 1)
    <2>1. PointersOK(lPtr, N, Parts) BY <1>5 DEF PointersOK
    <2> QED BY <1>1, <1>6, <2>1, SidesMatch DEF d, hl, hr
  <1>10. RunsOK(rl, Parts, 0, m) /\ RunsOK(rr, Parts, m, N) BY <1>1, <1>5, <1>9, RunsAre
  <1>11. \A t \in 0 .. Parts - 1 : hl[t] = IF LengthOf(rl[t]) > 0 THEN LengthOf(rl[t]) ELSE 0
    BY <1>7 DEF LeftRuns, LeftGap, AtLeastNone, LengthOf
  <1>12. \A t \in 0 .. Parts - 1 : hr[t] = IF LengthOf(rr[t]) > 0 THEN LengthOf(rr[t]) ELSE 0
    BY <1>7 DEF RightRuns, RightGap, AtLeastNone, LengthOf
  <1> HIDE DEF rl, rr
  <1>13. 0 \in Int /\ m \in Int /\ N \in Int /\ Parts \in Nat BY <1>1, <1>9
  <1>14. KeptOK(lm, rl, hl, Parts, 0, m) BY <1>8, <1>10, <1>11, <1>13, KeptFacts
  <1>15. KeptOK(rm, rr, hr, Parts, m, N) BY <1>8, <1>10, <1>12, <1>13, KeptFacts
  <1>16. SidesOK(array, leftOnes, m, N, lm, rm, {})
    BY <1>1, <1>5, <1>9, <1>14, <1>15, MisplacedPlaces DEF rl, rr
  <1>17. RangesOK(lm, 0, m) /\ RangesOK(rm, m, N) BY <1>14, <1>15 DEF KeptOK
  <1>18. RangeSum(rm, Len(rm) + 1) = items BY <1>9, <1>14, <1>15 DEF KeptOK
  <1>19. items \in Nat /\ Partition!Total(lm) = items
    <2>1. Len(lm) + 1 \in 1 .. Len(lm) + 1
      <3>1. Len(lm) \in Nat BY <1>17, RangeSumFacts
      <3> QED BY <3>1
    <2> QED BY <1>17, <2>1, RangeSumFacts, BeforeIs
  <1>20. /\ (touched \in [0 .. N - 1 -> SUBSET (0 .. Parts - 1)])'
         /\ Perm(array, N)'
         /\ (lPtr = [s \in 0 .. Parts - 1 |-> lPtr[s]])' /\ (rPtr = [s \in 0 .. Parts - 1 |-> rPtr[s]])'
         /\ (reduced \in [0 .. Parts - 1 -> [left : SUBSET (0 .. N - 1), right : SUBSET (0 .. N - 1)]])'
    BY <1>2, <1>3 DEF PartInv
  <1>21. (mid \in 0 .. N)' /\ ReductionsOK(reduced, leftOnes, N, Parts)'
    BY <1>2, <1>3, <1>5, <1>9 DEF ReductionsOK
  <1>22. CASE items = 0
    <2>1. progress' = "done" /\ swap' = swap
      BY <1>19, <1>22 DEF Partition!FindMisplaced, m, lm
    <2>2. 0 .. items - 1 \subseteq {} BY <1>22
    <2>3. /\ \A p \in 0 .. m - 1 : array[p] \in leftOnes
          /\ \A p \in m .. N - 1 : array[p] \notin leftOnes
      BY <1>1, <1>9, <1>16, <1>17, <1>18, <2>2, NoneWrong
    <2>4. /\ (\A p \in 0 .. mid - 1 : array[p] \in leftOnes)'
          /\ (\A p \in mid .. N - 1 : array[p] \notin leftOnes)'
          /\ (\A p \in 0 .. N - 1 : \A t, u \in touched[p] : t = u)'
      BY <1>2, <1>4, <2>3
    <2>5. (swap = [t \in 0 .. Parts - 1 |-> swap[t]])' BY <1>3, <2>1 DEF PartInv
    <2> QED BY <1>3, <1>20, <1>21, <2>1, <2>4, <2>5 DEF PartInv
  <1>23. CASE items # 0
    <2>1. /\ progress' = "swaps"
          /\ swap' = [t \in 0 .. Parts - 1 |->
                        LET begin == Cut(t, items, Parts)
                        IN [size |-> Cut(t + 1, items, Parts) - begin,
                            lRange |-> Partition!Start(lm, begin).range,
                            lDone |-> Partition!Start(lm, begin).done,
                            rRange |-> Partition!Start(rm, begin).range,
                            rDone |-> Partition!Start(rm, begin).done]]
      BY <1>19, <1>23, ShareIs DEF Partition!FindMisplaced, Partition!Tasks, Parts, m, lm, rm
    <2> HIDE DEF items
    <2>2. SharesOK(swap', lm, rm, items, Parts) /\ SwappedNumbers(swap', items, Parts) = {}
      <3>1. items \in Nat \ {0} BY <1>19, <1>23
      <3>2. \A t \in 0 .. Parts - 1 :
              LET begin == Cut(t, items, Parts)
              IN swap'[t] = [size |-> Cut(t + 1, items, Parts) - begin,
                             lRange |-> Partition!Start(lm, begin).range,
                             lDone |-> Partition!Start(lm, begin).done,
                             rRange |-> Partition!Start(rm, begin).range,
                             rDone |-> Partition!Start(rm, begin).done]
        BY <2>1
      <3>3. RangeSum(lm, Len(lm) + 1) = items /\ RangeSum(rm, Len(rm) + 1) = items
        BY <1>18 DEF items
      <3> QED BY <1>1, <1>17, <3>1, <3>2, <3>3, SharesStart
    <2>3. touched' = touched BY <1>2
    <2>4. TouchedOK(touched', swap', N, lm, rm, items, Parts)
      BY <1>4, <2>3 DEF TouchedOK
    <2>5. ranges'.left = lm /\ ranges'.right = rm BY <1>2
    <2>6. SwapsOK(array', leftOnes, m, N, Parts, lm, rm, swap', touched')
      <3>1. SidesOK(array', leftOnes, m, N, lm, rm, SwappedNumbers(swap', items, Parts))
        BY <1>2, <1>16, <2>2
      <3> QED BY <1>17, <1>18, <1>19, <1>23, <2>2, <2>4, <3>1 DEF SwapsOK, items
    <2>7. SwapsOK(array, leftOnes, mid, N, Parts, ranges.left, ranges.right, swap, touched)'
      BY <1>2, <1>3, <2>5, <2>6
    <2>8. (swap = [t \in 0 .. Parts - 1 |-> swap[t]])' BY <1>3, <2>1
    <2> QED BY <1>3, <1>20, <1>21, <2>1, <2>7, <2>8 DEF PartInv
  <1> QED BY <1>22, <1>23

------------------------------------------------------------------------------
(* The second parallel loop.                                                *)

LEMMA SwapNumbers ==
  ASSUME NEW items \in Nat \ {0}, NEW k \in Nat \ {0}, NEW lm, NEW rm, NEW sw,
         SharesOK(sw, lm, rm, items, k), NEW t \in 0 .. k - 1,
         NEW cnt \in Nat, cnt <= sw[t].size, NEW sw2, sw2[t].size = sw[t].size - cnt,
         \A s \in 0 .. k - 1 : s # t => sw2[s] = sw[s],
         NEW r, r = Reached(sw, t, items, k)
  PROVE  /\ r \in Nat /\ r + cnt <= items
         /\ Reached(sw2, t, items, k) = r + cnt
         /\ SwappedBy(sw2, t, items, k) = SwappedBy(sw, t, items, k) \union (r .. r + cnt - 1)
         /\ \A s \in 0 .. k - 1 : s # t =>
              /\ Reached(sw2, s, items, k) = Reached(sw, s, items, k)
              /\ SwappedBy(sw2, s, items, k) = SwappedBy(sw, s, items, k)
         /\ SwappedNumbers(sw2, items, k) = SwappedNumbers(sw, items, k) \union (r .. r + cnt - 1)
         /\ \A i \in 0 .. cnt - 1 : r + i \notin SwappedNumbers(sw, items, k)
  <1> DEFINE c == Cut(t, items, k) d == Cut(t + 1, items, k) z == sw[t].size
  <1>1. c \in Nat /\ d \in Nat /\ c <= d /\ d <= items
    <2>1. c \in Nat /\ d \in Nat /\ c <= d /\ d \in 0 .. items BY ShareFacts
    <2> HIDE DEF c, d
    <2> QED BY <2>1
  <1>2. z \in Nat /\ z <= d - c BY DEF SharesOK
  <1>3. r = d - z /\ Reached(sw2, t, items, k) = d - (z - cnt) BY DEF Reached
  <1>4. SwappedBy(sw, t, items, k) = c .. r - 1
    BY DEF SwappedBy
  <1>5. SwappedBy(sw2, t, items, k) = c .. Reached(sw2, t, items, k) - 1
    BY DEF SwappedBy
  <1>6. cnt <= z OBVIOUS
  <1> HIDE DEF c, d, z
  <1>7. r \in Nat /\ c <= r /\ r + cnt <= d /\ r + cnt <= items BY <1>1, <1>2, <1>3, <1>6
  <1>8. Reached(sw2, t, items, k) = r + cnt BY <1>1, <1>2, <1>3
  <1>9. SwappedBy(sw2, t, items, k) = SwappedBy(sw, t, items, k) \union (r .. r + cnt - 1)
    <2>1. c .. (r + cnt) - 1 = (c .. r - 1) \union (r .. r + cnt - 1) BY <1>1, <1>7
    <2> QED BY <1>4, <1>5, <1>8, <2>1
  <1>10. ASSUME NEW s \in 0 .. k - 1, s # t
         PROVE  /\ Reached(sw2, s, items, k) = Reached(sw, s, items, k)
                /\ SwappedBy(sw2, s, items, k) = SwappedBy(sw, s, items, k)
    <2>1. Reached(sw2, s, items, k) = Reached(sw, s, items, k) BY <1>10 DEF Reached
    <2> QED BY <2>1 DEF SwappedBy
  <1>11. SwappedNumbers(sw2, items, k) = SwappedNumbers(sw, items, k) \union (r .. r + cnt - 1)
    <2>1. \A x : x \in SwappedNumbers(sw2, items, k) <=>
                   \E s \in 0 .. k - 1 : x \in SwappedBy(sw2, s, items, k)
      BY DEF SwappedNumbers
    <2>2. \A x : x \in SwappedNumbers(sw, items, k) <=>
                   \E s \in 0 .. k - 1 : x \in SwappedBy(sw, s, items, k)
      BY DEF SwappedNumbers
    <2>3. ASSUME NEW x, NEW s \in 0 .. k - 1, x \in SwappedBy(sw2, s, items, k)
          PROVE  x \in SwappedNumbers(sw, items, k) \union (r .. r + cnt - 1)
      <3>1. CASE s = t BY <1>9, <2>2, <2>3, <3>1
      <3>2. CASE s # t BY <1>10, <2>2, <2>3, <3>2
      <3> QED BY <3>1, <3>2
    <2>4. ASSUME NEW x, NEW s \in 0 .. k - 1, x \in SwappedBy(sw, s, items, k)
          PROVE  x \in SwappedNumbers(sw2, items, k)
      <3>1. CASE s = t BY <1>9, <2>1, <2>4, <3>1
      <3>2. CASE s # t BY <1>10, <2>1, <2>4, <3>2
      <3> QED BY <3>1, <3>2
    <2>5. ASSUME NEW x \in r .. r + cnt - 1 PROVE x \in SwappedNumbers(sw2, items, k)
      BY <1>9, <2>1
    <2> QED BY <2>1, <2>2, <2>3, <2>4, <2>5
  <1>12. ASSUME NEW i \in 0 .. cnt - 1, r + i \in SwappedNumbers(sw, items, k) PROVE FALSE
    <2>1. PICK s \in 0 .. k - 1 : r + i \in SwappedBy(sw, s, items, k)
      BY <1>12 DEF SwappedNumbers
    <2>2. r + i \in c .. d - 1 BY <1>1, <1>7
    <2>3. CASE s = t BY <1>1, <1>4, <1>7, <2>1, <2>3
    <2>4. CASE s # t
      <3> DEFINE c2 == Cut(s, items, k) d2 == Cut(s + 1, items, k) z2 == sw[s].size
      <3>1. c2 \in Nat /\ d2 \in Nat BY ShareFacts
      <3>2. z2 \in Nat BY DEF SharesOK
      <3>3. r + i \in c2 .. (d2 - z2) - 1 BY <2>1 DEF SwappedBy, Reached
      <3>4. r + i \in c2 .. d2 - 1
        <4> HIDE DEF c2, d2, z2
        <4> QED BY <3>1, <3>2, <3>3
      <3> QED BY <2>2, <2>4, <3>4, CutApart DEF c, d
    <2> QED BY <2>3, <2>4
  <1> QED BY <1>7, <1>8, <1>9, <1>10, <1>11, <1>12

(* No place is swapped by two tasks.                                        *)
LEMMA TouchedApart ==
  ASSUME NEW n \in Nat, NEW m \in 0 .. n, NEW k \in Nat \ {0}, NEW a, NEW left, NEW lm, NEW rm,
         NEW sw, NEW tc, SwapsOK(a, left, m, n, k, lm, rm, sw, tc),
         \A p \in 0 .. n - 1 : tc[p] \in SUBSET (0 .. k - 1),
         NEW p \in 0 .. n - 1, NEW t \in tc[p], NEW u \in tc[p]
  PROVE  t = u
  <1> DEFINE items == RangeSum(lm, Len(lm) + 1)
  <1>1. /\ RangesOK(lm, 0, m) /\ RangesOK(rm, m, n) /\ items \in Nat \ {0}
        /\ SharesOK(sw, lm, rm, items, k) /\ TouchedOK(tc, sw, n, lm, rm, items, k)
    BY DEF SwapsOK
  <1> HIDE DEF items
  <1>2. t \in 0 .. k - 1 /\ u \in 0 .. k - 1 OBVIOUS
  <1>3. PICK i \in SwappedBy(sw, t, items, k) : Numbered(lm, p, i) \/ Numbered(rm, p, i)
    BY <1>1 DEF TouchedOK
  <1>4. PICK j \in SwappedBy(sw, u, items, k) : Numbered(lm, p, j) \/ Numbered(rm, p, j)
    BY <1>1 DEF TouchedOK
  <1>5. i = j
    <2>1. 0 \in Int /\ m \in Int /\ n \in Int OBVIOUS
    <2>2. \A x : Numbered(lm, p, x) => p \in 0 .. m - 1 BY <1>1, <2>1, NumberedBounds
    <2>3. \A x : Numbered(rm, p, x) => p \in m .. n - 1 BY <1>1, <2>1, NumberedBounds
    <2>4. (Numbered(lm, p, i) /\ Numbered(lm, p, j)) \/ (Numbered(rm, p, i) /\ Numbered(rm, p, j))
      <3>1. ~(p \in 0 .. m - 1 /\ p \in m .. n - 1) OBVIOUS
      <3> QED BY <1>3, <1>4, <2>2, <2>3, <3>1
    <2>5. CASE Numbered(lm, p, i) /\ Numbered(lm, p, j) BY <1>1, <2>5, NumberedOnce
    <2>6. CASE Numbered(rm, p, i) /\ Numbered(rm, p, j) BY <1>1, <2>6, NumberedOnce
    <2> QED BY <2>4, <2>5, <2>6
  <1>6. ASSUME NEW s \in 0 .. k - 1, NEW x \in SwappedBy(sw, s, items, k)
        PROVE  x \in Cut(s, items, k) .. Cut(s + 1, items, k) - 1
    <2> DEFINE c == Cut(s, items, k) d == Cut(s + 1, items, k) z == sw[s].size
    <2>1. c \in Nat /\ d \in Nat BY <1>1, ShareFacts
    <2>2. z \in Nat BY <1>1 DEF SharesOK
    <2>3. x \in c .. (d - z) - 1 BY DEF SwappedBy, Reached
    <2> HIDE DEF c, d, z
    <2>4. x \in c .. d - 1 BY <2>1, <2>2, <2>3
    <2> QED BY <2>4 DEF c, d
  <1>7. /\ i \in Cut(t, items, k) .. Cut(t + 1, items, k) - 1
        /\ i \in Cut(u, items, k) .. Cut(u + 1, items, k) - 1
    BY <1>2, <1>3, <1>4, <1>5, <1>6
  <1> QED BY <1>1, <1>2, <1>7, CutApart

LEMMA PartReturn ==
  ASSUME Partition!BoundsAssumption, PartInv, Partition!Return
  PROVE  PartInv'
  <1> DEFINE lm == ranges.left rm == ranges.right items == RangeSum(lm, Len(lm) + 1)
  <1>1. PartInputs /\ N \in Nat /\ Parts \in Nat \ {0} BY PartsOK DEF PartInv
  <1>2. /\ progress = "swaps" /\ progress' = "done"
        /\ UNCHANGED <<N, leftOnes, threadCount, array, lPtr, rPtr, reduced, mid, ranges, swap, touched>>
    BY DEF Partition!Return, Partition!inputs
  <1>3. Parts' = Parts /\ PartInputs' BY <1>1, <1>2 DEF Parts, Partition!numTasks, PartInputs
  <1>4. mid \in 0 .. N /\ SwapsOK(array, leftOnes, mid, N, Parts, lm, rm, swap, touched)
    BY <1>2 DEF PartInv
  <1>5. \A p \in 0 .. N - 1 : touched[p] \in SUBSET (0 .. Parts - 1) BY DEF PartInv
  <1>6. \A t \in 0 .. Parts - 1 : swap[t].size = 0
    BY DEF Partition!Return, Partition!Tasks, Parts
  <1> HIDE DEF lm, rm, items
  <1>7. /\ RangesOK(lm, 0, mid) /\ RangesOK(rm, mid, N) /\ items \in Nat \ {0}
        /\ RangeSum(rm, Len(rm) + 1) = items
        /\ SidesOK(array, leftOnes, mid, N, lm, rm, SwappedNumbers(swap, items, Parts))
    BY <1>4 DEF SwapsOK, items
  <1>8. 0 .. items - 1 \subseteq SwappedNumbers(swap, items, Parts)
    <2>1. ASSUME NEW x \in 0 .. items - 1 PROVE x \in SwappedNumbers(swap, items, Parts)
      <3>1. PICK t \in 0 .. Parts - 1 :
              x \in Cut(t, items, Parts) .. Cut(t + 1, items, Parts) - 1
        BY <1>1, <1>7, CutTiles
      <3>2. Cut(t + 1, items, Parts) \in Nat BY <1>1, <1>7, ShareFacts
      <3>3. Reached(swap, t, items, Parts) = Cut(t + 1, items, Parts)
        BY <1>6, <3>2 DEF Reached
      <3>4. x \in SwappedBy(swap, t, items, Parts) BY <3>1, <3>3 DEF SwappedBy
      <3> QED BY <3>4 DEF SwappedNumbers
    <2> QED BY <2>1
  <1>9. /\ \A p \in 0 .. mid - 1 : array[p] \in leftOnes
        /\ \A p \in mid .. N - 1 : array[p] \notin leftOnes
    BY <1>1, <1>4, <1>7, <1>8, NoneWrong DEF items
  <1>10. \A p \in 0 .. N - 1 : \A t, u \in touched[p] : t = u
    BY <1>1, <1>4, <1>5, TouchedApart
  <1>11. /\ (touched \in [0 .. N - 1 -> SUBSET (0 .. Parts - 1)])'
         /\ Perm(array, N)'
         /\ (lPtr = [s \in 0 .. Parts - 1 |-> lPtr[s]])' /\ (rPtr = [s \in 0 .. Parts - 1 |-> rPtr[s]])'
         /\ (reduced \in [0 .. Parts - 1 -> [left : SUBSET (0 .. N - 1), right : SUBSET (0 .. N - 1)]])'
         /\ (swap = [t \in 0 .. Parts - 1 |-> swap[t]])'
    BY <1>2, <1>3 DEF PartInv
  <1>12. (mid \in 0 .. N)' /\ ReductionsOK(reduced, leftOnes, N, Parts)'
    BY <1>2, <1>3, <1>4 DEF PartInv, ReductionsOK
  <1>13. /\ (\A p \in 0 .. mid - 1 : array[p] \in leftOnes)'
         /\ (\A p \in mid .. N - 1 : array[p] \notin leftOnes)'
         /\ (\A p \in 0 .. N - 1 : \A t, u \in touched[p] : t = u)'
    BY <1>2, <1>9, <1>10
  <1> QED BY <1>2, <1>3, <1>11, <1>12, <1>13 DEF PartInv


LEMMA PartSwap ==
  ASSUME Partition!BoundsAssumption, PartInv,
         NEW t \in Partition!Tasks, Partition!SwapStep(t)
  PROVE  PartInv'
  <1> DEFINE lm == ranges.left rm == ranges.right items == RangeSum(lm, Len(lm) + 1)
             s == swap[t] r == Reached(swap, t, items, Parts)
             lc == Partition!Cursor(lm, s.lRange, s.lDone)
             rc == Partition!Cursor(rm, s.rRange, s.rDone)
             ls == lm[lc.range].end - lm[lc.range].begin
             rs == rm[rc.range].end - rm[rc.range].begin
             cnt == Partition!Min({s.size, ls - lc.done, rs - rc.done})
             lp == lm[lc.range].begin + lc.done
             rp == rm[rc.range].begin + rc.done
             D == SwappedNumbers(swap, items, Parts)
  <1>1. PartInputs /\ N \in Nat /\ Parts \in Nat \ {0} /\ t \in 0 .. Parts - 1
    BY PartsOK DEF PartInv, Partition!Tasks, Parts
  <1>2. /\ progress = "swaps" /\ s.size > 0 /\ progress' = progress
        /\ UNCHANGED <<N, leftOnes, threadCount, lPtr, rPtr, reduced, mid, ranges>>
    BY DEF Partition!SwapStep, Partition!inputs
  <1>3. Parts' = Parts /\ PartInputs' BY <1>1, <1>2 DEF Parts, Partition!numTasks, PartInputs
  <1>4. /\ mid \in 0 .. N /\ SwapsOK(array, leftOnes, mid, N, Parts, lm, rm, swap, touched)
        /\ Perm(array, N) /\ touched \in [0 .. N - 1 -> SUBSET (0 .. Parts - 1)]
        /\ swap = [i \in 0 .. Parts - 1 |-> swap[i]]
    BY <1>2 DEF PartInv
  <1>5. /\ array' = SwapRuns(array, N, lp, rp, cnt)
        /\ touched' = [i \in 0 .. N - 1 |->
              IF i \in (lp .. lp + cnt - 1) \union (rp .. rp + cnt - 1)
              THEN touched[i] \union {t} ELSE touched[i]]
        /\ swap' = [swap EXCEPT ![t] = [size |-> s.size - cnt,
             lRange |-> lc.range, lDone |-> lc.done + cnt,
             rRange |-> rc.range, rDone |-> rc.done + cnt]]
    BY DEF Partition!SwapStep, Partition!Size, Partition!Places, SwapRuns
  <1> HIDE DEF lm, rm
  <1>6. /\ RangesOK(lm, 0, mid) /\ RangesOK(rm, mid, N) /\ items \in Nat \ {0}
        /\ RangeSum(rm, Len(rm) + 1) = items
        /\ SharesOK(swap, lm, rm, items, Parts)
        /\ SidesOK(array, leftOnes, mid, N, lm, rm, D)
        /\ TouchedOK(touched, swap, N, lm, rm, items, Parts)
    BY <1>4 DEF SwapsOK
  <1> HIDE DEF items, s
  <1>7. /\ s.size \in Nat /\ Stands(lm, s.lRange, s.lDone, r) /\ Stands(rm, s.rRange, s.rDone, r)
    BY <1>1, <1>6 DEF SharesOK, s
  <1>8. lc = Partition!Cursor(lm, s.lRange, s.lDone) /\ rc = Partition!Cursor(rm, s.rRange, s.rDone)
    OBVIOUS
  <1>9. r \in Nat /\ r < items
    <2> DEFINE c == Cut(t, items, Parts) d == Cut(t + 1, items, Parts) z == swap[t].size
    <2>1. c \in Nat /\ d \in Nat /\ d \in 0 .. items BY <1>1, <1>6, ShareFacts
    <2>2. z <= d - c BY <1>1, <1>6 DEF SharesOK
    <2>3. z \in Nat /\ z > 0 BY <1>2, <1>7 DEF s
    <2>4. r = d - z BY DEF Reached
    <2> HIDE DEF c, d, z, r
    <2> QED BY <1>6, <2>1, <2>2, <2>3, <2>4
  <1> HIDE DEF r, lc, rc
  <1>10. r < RangeSum(lm, Len(lm) + 1) /\ r < RangeSum(rm, Len(rm) + 1)
    BY <1>6, <1>9 DEF items
  <1>11. Stands(lm, lc.range, lc.done, r) /\ lc.done < ls
    BY <1>6, <1>7, <1>8, <1>10, CursorStands
  <1>12. Stands(rm, rc.range, rc.done, r) /\ rc.done < rs
    BY <1>6, <1>7, <1>8, <1>10, CursorStands
  <1>13. /\ lm[lc.range].begin \in Int /\ lm[lc.range].end \in Int /\ lc.range \in 1 .. Len(lm)
         /\ rm[rc.range].begin \in Int /\ rm[rc.range].end \in Int /\ rc.range \in 1 .. Len(rm)
    BY <1>6, <1>11, <1>12, RangeSumFacts DEF Stands
  <1>14. ls \in Int /\ rs \in Int /\ lc.done \in Nat /\ rc.done \in Nat
    <2>1. ls \in Int /\ rs \in Int BY <1>13
    <2>2. lc.done \in 0 .. ls /\ rc.done \in 0 .. rs BY <1>11, <1>12 DEF Stands
    <2> HIDE DEF ls, rs
    <2> QED BY <2>1, <2>2
  <1> HIDE DEF ls, rs
  <1>15. cnt \in Nat \ {0} /\ cnt <= s.size /\ cnt <= ls - lc.done /\ cnt <= rs - rc.done
    <2> DEFINE x == s.size y == ls - lc.done z == rs - rc.done
    <2>1. x \in Nat \ {0} /\ y \in Nat \ {0} /\ z \in Nat \ {0}
      BY <1>2, <1>7, <1>11, <1>12, <1>14
    <2> DEFINE S == {x, y, z}
    <2>2. cnt = Partition!Min(S) OBVIOUS
    <2> HIDE DEF x, y, z, cnt
    <2>3. \E q \in S : q <= x /\ q <= y /\ q <= z BY <2>1
    <2>4. PICK q \in S : q <= x /\ q <= y /\ q <= z BY <2>3
    <2>5. /\ \A w \in S : q \in Int /\ w \in Int
          /\ \A w \in S : q <= w
      BY <2>1, <2>4
    <2>6. q \in Nat \ {0} BY <2>1, <2>4
    <2> HIDE DEF S
    <2>7. cnt = q BY <2>2, <2>4, <2>5, PartMinMax
    <2>8. cnt \in Nat \ {0} /\ cnt <= x /\ cnt <= y /\ cnt <= z BY <2>4, <2>6, <2>7
    <2> QED BY <2>8 DEF x, y, z
  <1> HIDE DEF cnt
  <1>16. \A i \in 0 .. cnt - 1 : Numbered(lm, lp + i, r + i) /\ Numbered(rm, rp + i, r + i)
    <2>1. ASSUME NEW i \in 0 .. cnt - 1
          PROVE  Numbered(lm, lp + i, r + i) /\ Numbered(rm, rp + i, r + i)
      <3>1. i \in Nat /\ lc.done + i < ls /\ rc.done + i < rs BY <1>14, <1>15
      <3>2. Numbered(lm, lp + i, r + i) BY <1>6, <1>11, <3>1, StandsAt DEF ls
      <3>3. Numbered(rm, rp + i, r + i) BY <1>6, <1>12, <3>1, StandsAt DEF rs
      <3> QED BY <3>2, <3>3
    <2> QED BY <2>1
  <1>17. lp \in Int /\ rp \in Int
    <2> DEFINE x == lm[lc.range].begin y == rm[rc.range].begin z == lc.done w == rc.done
    <2>1. x \in Int /\ y \in Int /\ z \in Int /\ w \in Int BY <1>13, <1>14
    <2>2. lp = x + z /\ rp = y + w OBVIOUS
    <2> HIDE DEF x, y, z, w, lp, rp
    <2> QED BY <2>1, <2>2
  <1> HIDE DEF lp, rp
  <1>18. lp \in Nat /\ rp \in Nat /\ lp + cnt <= mid /\ mid <= rp /\ rp + cnt <= N
    <2>1. 0 \in Int /\ mid \in Int /\ N \in Int BY <1>1, <1>4
    <2>2. \A p, x : Numbered(lm, p, x) => p \in 0 .. mid - 1 BY <1>6, <2>1, NumberedBounds
    <2>3. \A p, x : Numbered(rm, p, x) => p \in mid .. N - 1 BY <1>6, <2>1, NumberedBounds
    <2>4. 0 \in 0 .. cnt - 1 /\ cnt - 1 \in 0 .. cnt - 1 BY <1>15
    <2>5. lp + 0 \in 0 .. mid - 1 /\ lp + (cnt - 1) \in 0 .. mid - 1 BY <1>16, <2>2, <2>4
    <2>6. rp + 0 \in mid .. N - 1 /\ rp + (cnt - 1) \in mid .. N - 1 BY <1>16, <2>3, <2>4
    <2> QED BY <1>4, <1>15, <1>17, <2>1, <2>5, <2>6
  <1> DEFINE ns == [size |-> s.size - cnt, lRange |-> lc.range, lDone |-> lc.done + cnt,
                    rRange |-> rc.range, rDone |-> rc.done + cnt]
  <1>19. /\ swap' = [i \in 0 .. Parts - 1 |-> swap'[i]] /\ swap'[t] = ns
         /\ \A i \in 0 .. Parts - 1 : i # t => swap'[i] = swap[i]
    BY <1>1, <1>4, <1>5
  <1>20. /\ ns.size = s.size - cnt /\ ns.lRange = lc.range /\ ns.lDone = lc.done + cnt
         /\ ns.rRange = rc.range /\ ns.rDone = rc.done + cnt
    OBVIOUS
  <1> HIDE DEF ns
  <1>21. /\ r + cnt <= items
         /\ Reached(swap', t, items, Parts) = r + cnt
         /\ SwappedBy(swap', t, items, Parts) = SwappedBy(swap, t, items, Parts) \union (r .. r + cnt - 1)
         /\ \A i \in 0 .. Parts - 1 : i # t =>
              /\ Reached(swap', i, items, Parts) = Reached(swap, i, items, Parts)
              /\ SwappedBy(swap', i, items, Parts) = SwappedBy(swap, i, items, Parts)
         /\ SwappedNumbers(swap', items, Parts) = D \union (r .. r + cnt - 1)
         /\ \A i \in 0 .. cnt - 1 : r + i \notin D
    <2>1. cnt <= swap[t].size /\ swap'[t].size = swap[t].size - cnt
      BY <1>15, <1>19, <1>20 DEF s
    <2>2. cnt \in Nat /\ r = Reached(swap, t, items, Parts) BY <1>15 DEF r
    <2> QED BY <1>1, <1>6, <1>19, <2>1, <2>2, SwapNumbers
  <1> HIDE DEF D
  <1>22. SidesOK(array', leftOnes, mid, N, lm, rm, SwappedNumbers(swap', items, Parts))
    <2>1. cnt \in Nat BY <1>15
    <2>2. SidesOK(SwapRuns(array, N, lp, rp, cnt), leftOnes, mid, N, lm, rm,
                  D \union (r .. r + cnt - 1))
      BY <1>1, <1>4, <1>6, <1>9, <1>16, <1>18, <1>21, <2>1, SwapSides
    <2> QED BY <1>5, <1>21, <2>2
  <1>23. Perm(array', N)
    <2>1. cnt \in Nat /\ lp + cnt <= rp BY <1>4, <1>15, <1>18
    <2> QED BY <1>1, <1>4, <1>5, <1>18, <2>1, SwapPerm
  <1>24. ASSUME NEW i \in 0 .. Parts - 1
         PROVE  /\ swap'[i].size \in Nat
                /\ swap'[i].size <= Cut(i + 1, items, Parts) - Cut(i, items, Parts)
                /\ Stands(lm, swap'[i].lRange, swap'[i].lDone, Reached(swap', i, items, Parts))
                /\ Stands(rm, swap'[i].rRange, swap'[i].rDone, Reached(swap', i, items, Parts))
    <2>1. CASE i # t
      <3>1. swap'[i] = swap[i] /\ Reached(swap', i, items, Parts) = Reached(swap, i, items, Parts)
        BY <1>19, <1>21, <2>1
      <3> QED BY <1>6, <3>1 DEF SharesOK
    <2>2. CASE i = t
      <3>1. Stands(lm, lc.range, lc.done + cnt, r + cnt)
        <4>1. RangeSum(lm, lc.range) \in Nat
          <5>1. lc.range \in 1 .. Len(lm) + 1 BY <1>6, <1>13, RangeSumFacts
          <5> QED BY <1>6, <5>1, RangeSumFacts
        <4>2. RangeSum(lm, lc.range) + lc.done = r BY <1>11 DEF Stands
        <4>3. lc.done + cnt \in 0 .. ls /\ RangeSum(lm, lc.range) + (lc.done + cnt) = r + cnt
          BY <1>9, <1>14, <1>15, <4>1, <4>2
        <4> QED BY <1>13, <4>3 DEF Stands, ls
      <3>2. Stands(rm, rc.range, rc.done + cnt, r + cnt)
        <4>1. RangeSum(rm, rc.range) \in Nat
          <5>1. rc.range \in 1 .. Len(rm) + 1 BY <1>6, <1>13, RangeSumFacts
          <5> QED BY <1>6, <5>1, RangeSumFacts
        <4>2. RangeSum(rm, rc.range) + rc.done = r BY <1>12 DEF Stands
        <4>3. rc.done + cnt \in 0 .. rs /\ RangeSum(rm, rc.range) + (rc.done + cnt) = r + cnt
          BY <1>9, <1>14, <1>15, <4>1, <4>2
        <4> QED BY <1>13, <4>3 DEF Stands, rs
      <3>3. swap'[t].size \in Nat
            /\ swap'[t].size <= Cut(t + 1, items, Parts) - Cut(t, items, Parts)
        <4> DEFINE c == Cut(t, items, Parts) d == Cut(t + 1, items, Parts)
        <4>1. c \in Nat /\ d \in Nat BY <1>1, <1>6, ShareFacts
        <4>2. s.size <= d - c BY <1>1, <1>6 DEF SharesOK, s
        <4>3. swap'[t].size = s.size - cnt BY <1>19, <1>20
        <4> HIDE DEF c, d
        <4>4. swap'[t].size \in Nat /\ swap'[t].size <= d - c
          BY <1>7, <1>15, <4>1, <4>2, <4>3
        <4> QED BY <4>4 DEF c, d
      <3> QED BY <1>19, <1>20, <1>21, <2>2, <3>1, <3>2, <3>3
    <2> QED BY <2>1, <2>2
  <1>25. SharesOK(swap', lm, rm, items, Parts) BY <1>24 DEF SharesOK
  <1>26. touched' \in [0 .. N - 1 -> SUBSET (0 .. Parts - 1)] BY <1>1, <1>4, <1>5
  <1>27. ASSUME NEW p \in 0 .. N - 1, NEW u \in touched'[p]
         PROVE  \E j \in SwappedBy(swap', u, items, Parts) : Numbered(lm, p, j) \/ Numbered(rm, p, j)
    <2>1. u \in 0 .. Parts - 1 BY <1>26
    <2>2. CASE u \in touched[p]
      <3>1. PICK j \in SwappedBy(swap, u, items, Parts) : Numbered(lm, p, j) \/ Numbered(rm, p, j)
        BY <1>6, <2>2 DEF TouchedOK
      <3>2. j \in SwappedBy(swap', u, items, Parts)
        <4>1. CASE u = t BY <1>21, <4>1
        <4>2. CASE u # t BY <1>21, <2>1, <4>2
        <4> QED BY <4>1, <4>2
      <3> QED BY <3>1, <3>2
    <2>3. CASE u \notin touched[p]
      <3>1. u = t /\ (p \in lp .. lp + cnt - 1 \/ p \in rp .. rp + cnt - 1)
        BY <1>5, <2>3
      <3>2. CASE p \in lp .. lp + cnt - 1
        <4> DEFINE i == p - lp
        <4>1. i \in 0 .. cnt - 1 /\ lp + i = p BY <1>15, <1>17, <3>2
        <4>2. r + i \in r .. r + cnt - 1 BY <1>9, <1>15, <4>1
        <4> HIDE DEF i
        <4>3. Numbered(lm, p, r + i) BY <1>16, <4>1
        <4> QED BY <1>21, <3>1, <4>2, <4>3
      <3>3. CASE p \in rp .. rp + cnt - 1
        <4> DEFINE i == p - rp
        <4>1. i \in 0 .. cnt - 1 /\ rp + i = p BY <1>15, <1>17, <3>3
        <4>2. r + i \in r .. r + cnt - 1 BY <1>9, <1>15, <4>1
        <4> HIDE DEF i
        <4>3. Numbered(rm, p, r + i) BY <1>16, <4>1
        <4> QED BY <1>21, <3>1, <4>2, <4>3
      <3> QED BY <3>1, <3>2, <3>3
    <2> QED BY <2>2, <2>3
  <1>28. TouchedOK(touched', swap', N, lm, rm, items, Parts) BY <1>27 DEF TouchedOK
  <1>29. SwapsOK(array', leftOnes, mid, N, Parts, lm, rm, swap', touched')
    BY <1>6, <1>22, <1>25, <1>28 DEF SwapsOK, items
  <1>30. SwapsOK(array, leftOnes, mid, N, Parts, ranges.left, ranges.right, swap, touched)'
    BY <1>2, <1>3, <1>29 DEF lm, rm
  <1>31. /\ (touched \in [0 .. N - 1 -> SUBSET (0 .. Parts - 1)])'
         /\ Perm(array, N)'
         /\ (lPtr = [i \in 0 .. Parts - 1 |-> lPtr[i]])' /\ (rPtr = [i \in 0 .. Parts - 1 |-> rPtr[i]])'
         /\ (reduced \in [0 .. Parts - 1 -> [left : SUBSET (0 .. N - 1), right : SUBSET (0 .. N - 1)]])'
         /\ (swap = [i \in 0 .. Parts - 1 |-> swap[i]])'
    BY <1>2, <1>3, <1>19, <1>23, <1>26 DEF PartInv
  <1>32. (mid \in 0 .. N)' /\ ReductionsOK(reduced, leftOnes, N, Parts)'
    BY <1>2, <1>3, <1>4 DEF PartInv, ReductionsOK
  <1> QED BY <1>2, <1>3, <1>30, <1>31, <1>32 DEF PartInv

------------------------------------------------------------------------------
LEMMA PartCardinality == \A S : Partition!Cardinality(S) = Cardinality(S)
  BY DEF Partition!Cardinality, Cardinality

LEMMA PartAnswer ==
  ASSUME Partition!BoundsAssumption, PartInv
  PROVE  Partition!Partitioned
  <1>1. PartInputs /\ N \in Nat /\ Parts \in Nat \ {0} /\ leftOnes \in SUBSET (0 .. N - 1)
        /\ Perm(array, N) /\ progress \in {"segments", "swaps", "done"}
    BY PartsOK DEF PartInv, PartInputs
  <1>2. \A p \in 0 .. N - 1 : touched[p] \in SUBSET (0 .. Parts - 1) BY DEF PartInv
  <1>3. ASSUME NEW p \in 0 .. N - 1, NEW t \in touched[p], NEW u \in touched[p] PROVE t = u
    <2>1. CASE progress = "segments" BY <1>3, <2>1 DEF PartInv
    <2>2. CASE progress = "swaps"
      <3>1. mid \in 0 .. N
            /\ SwapsOK(array, leftOnes, mid, N, Parts, ranges.left, ranges.right, swap, touched)
        BY <2>2 DEF PartInv
      <3> QED BY <1>1, <1>2, <1>3, <3>1, TouchedApart
    <2>3. CASE progress = "done" BY <1>3, <2>3 DEF PartInv
    <2> QED BY <1>1, <2>1, <2>2, <2>3
  <1>4. Partition!SwapsApart
    <2>1. ASSUME NEW p \in 0 .. N - 1 PROVE Cardinality(touched[p]) <= 1
      <3>1. CASE touched[p] = {} BY <3>1, FS_EmptySet
      <3>2. CASE touched[p] # {}
        <4>1. PICK t : t \in touched[p] BY <3>2
        <4>2. touched[p] = {t} BY <1>3, <4>1
        <4>3. Cardinality({t}) = 1 BY FS_Singleton
        <4> QED BY <4>2, <4>3
      <3> QED BY <3>1, <3>2
    <2> QED BY <2>1, PartCardinality DEF Partition!SwapsApart, Partition!Places
  <1>5. ASSUME progress = "done"
        PROVE  /\ Partition!Items(Partition!Places) = Partition!Places
               /\ mid = Partition!Cardinality(leftOnes)
               /\ Partition!Items(0 .. mid - 1) = leftOnes
               /\ UNION {reduced[t].left : t \in Partition!Tasks} = leftOnes
               /\ UNION {reduced[t].right : t \in Partition!Tasks} = Partition!Places \ leftOnes
    <2>1. /\ mid \in 0 .. N /\ ReductionsOK(reduced, leftOnes, N, Parts)
          /\ \A p \in 0 .. mid - 1 : array[p] \in leftOnes
          /\ \A p \in mid .. N - 1 : array[p] \notin leftOnes
      BY <1>5 DEF PartInv
    <2>2. /\ array \in [0 .. N - 1 -> 0 .. N - 1]
          /\ \A z \in 0 .. N - 1 : \E p \in 0 .. N - 1 : array[p] = z
          /\ \A p, q \in 0 .. N - 1 : array[p] = array[q] => p = q
      BY <1>1 DEF Perm, Bijection, Injection, Surjection, IsInjective
    <2>3. Partition!Items(Partition!Places) = Partition!Places
      <3> DEFINE S == 0 .. N - 1
      <3>1. array \in [S -> S] /\ \A z \in S : \E p \in S : array[p] = z BY <2>2
      <3>2. Partition!Places = S BY DEF Partition!Places
      <3> HIDE DEF S
      <3>3. {array[p] : p \in S} = S BY <3>1
      <3> QED BY <3>2, <3>3 DEF Partition!Items
    <2>4. 0 .. mid - 1 \subseteq 0 .. N - 1 /\ \A p \in 0 .. N - 1 : p \in 0 .. mid - 1 \/ p \in mid .. N - 1
      BY <1>1, <2>1
    <2>5. ASSUME NEW z \in leftOnes PROVE \E p \in 0 .. mid - 1 : array[p] = z
      <3>1. PICK p \in 0 .. N - 1 : array[p] = z BY <1>1, <2>2
      <3> QED BY <2>1, <2>4, <3>1
    <2>6. Partition!Items(0 .. mid - 1) = leftOnes BY <2>1, <2>5 DEF Partition!Items
    <2>7. mid = Partition!Cardinality(leftOnes)
      <3> DEFINE S == 0 .. mid - 1
                 f == [p \in S |-> array[p]]
      <3>1. IsFiniteSet(S) /\ Cardinality(S) = mid
        <4>1. 0 \in Int /\ mid - 1 \in Int BY <2>1
        <4>2. /\ IsFiniteSet(0 .. mid - 1)
              /\ Cardinality(0 .. mid - 1) = IF 0 > mid - 1 THEN 0 ELSE (mid - 1) - 0 + 1
          BY <4>1, FS_Interval
        <4>3. mid \in Nat BY <2>1
        <4>4. (IF 0 > mid - 1 THEN 0 ELSE (mid - 1) - 0 + 1) = mid BY <4>3
        <4> QED BY <4>2, <4>4
      <3>2. f \in [S -> leftOnes] BY <2>1
      <3>3. \A p, q \in S : f[p] = f[q] => p = q BY <2>2, <2>4
      <3>4. \A z \in leftOnes : \E p \in S : f[p] = z BY <2>5
      <3> HIDE DEF f, S
      <3>5. f \in Bijection(S, leftOnes)
        BY <3>2, <3>3, <3>4 DEF Bijection, Injection, Surjection, IsInjective
      <3>6. ExistsBijection(S, leftOnes) BY <3>5 DEF ExistsBijection
      <3>7. Cardinality(leftOnes) = Cardinality(S) BY <3>1, <3>6, FS_Bijection
      <3> QED BY <3>1, <3>7, PartCardinality
    <2>8. /\ UNION {reduced[t].left : t \in Partition!Tasks} = leftOnes
          /\ UNION {reduced[t].right : t \in Partition!Tasks} = Partition!Places \ leftOnes
      BY <2>1 DEF ReductionsOK, Partition!Tasks, Partition!Places, Parts
    <2> QED BY <2>3, <2>6, <2>7, <2>8
  <1> QED BY <1>4, <1>5 DEF Partition!Partitioned

PartStep ==
  \/ \E t \in Partition!Tasks : Partition!SegmentStep(t)
  \/ Partition!FindMisplaced
  \/ \E t \in Partition!Tasks : Partition!SwapStep(t)
  \/ Partition!Return

PartitioningInv == algorithm = "partition" => PartInv

LEMMA PartInvNext ==
  ASSUME PassesAssumption, PartitioningInv, NextOfPasses \/ UNCHANGED passesVars
  PROVE  PartitioningInv'
  <1>1. algorithm' = algorithm
    BY AlgorithmStays
  <1>2. CASE algorithm # "partition"
    BY <1>1, <1>2 DEF PartitioningInv
  <1>3. CASE algorithm = "partition"
    <2>0. Partition!BoundsAssumption /\ PartInv
      BY <1>3 DEF PassesAssumption, PartitioningInv
    <2>1. PartStep \/ UNCHANGED passesVars
      BY <1>3 DEF NextOfPasses, SplitTask, SplitGeometry, SplitDone, Quadify, StoreRefs, NextPass,
         FinishRefs, Serial, Begin, Reduce, RunTask, SequentialSort, StartSort, CountDigits,
         CopyItems, SegmentStep, FindMisplaced, SwapStep, Return, PassesEnded, PartStep
    <2>2. CASE PartStep
      <3>1. PartInv'
        BY <2>0, <2>2, PartSegment, PartFind, PartSwap, PartReturn DEF PartStep
      <3> QED BY <3>1 DEF PartitioningInv
    <2>3. CASE UNCHANGED passesVars
      <3>1. UNCHANGED <<N, leftOnes, threadCount, progress, array, lPtr, rPtr, reduced, mid, ranges,
                        swap, touched>>
        BY <2>3 DEF passesVars, ofPartition
      <3>2. Parts' = Parts BY <3>1 DEF Parts, Partition!numTasks
      <3>3. SegmentsOK(array, leftOnes, N, Parts, lPtr, rPtr, reduced)'
              = SegmentsOK(array, leftOnes, N, Parts, lPtr, rPtr, reduced)
        BY <3>1, <3>2
      <3>4. ReductionsOK(reduced, leftOnes, N, Parts)' = ReductionsOK(reduced, leftOnes, N, Parts)
        BY <3>1, <3>2
      <3>5. SwapsOK(array, leftOnes, mid, N, Parts, ranges.left, ranges.right, swap, touched)'
              = SwapsOK(array, leftOnes, mid, N, Parts, ranges.left, ranges.right, swap, touched)
        BY <3>1, <3>2
      <3>6. PartInputs' = PartInputs /\ Perm(array, N)' = Perm(array, N)
        BY <3>1 DEF PartInputs
      <3>7. PartInv'
        BY <2>0, <3>1, <3>2, <3>3, <3>4, <3>5, <3>6 DEF PartInv
      <3> QED BY <3>7 DEF PartitioningInv
    <2> QED BY <2>1, <2>2, <2>3
  <1> QED BY <1>2, <1>3

(* The parallel partition loses no item and leaves the left ones in front   *)
(* of the others, no two tasks ever swap the same place, and what the tasks *)
(* reduced for either side are the items that end there: for every input,   *)
(* predicate, number of threads, block size and order of the tasks.         *)
THEOREM PartitionIsExact == SpecOfPasses => []Partitioned
  <1>1. InitOfPasses => PartitioningInv
    <2> SUFFICES ASSUME InitOfPasses, algorithm = "partition" PROVE PartInv
      BY DEF PartitioningInv
    <2>1. Partition!Init
      BY DEF InitOfPasses, InitSort, InitPrimRefs, InitPrefixSum, InitPartition
    <2>2. Partition!BoundsAssumption
      BY PassesAssumption DEF PassesAssumption
    <2> QED BY <2>1, <2>2, PartInit
  <1>2. PartitioningInv /\ [NextOfPasses]_passesVars => PartitioningInv'
    BY PassesAssumption, PartInvNext
  <1>3. PartitioningInv => Partitioned
    BY PassesAssumption, PartAnswer DEF PassesAssumption, PartitioningInv, Partitioned
  <1> QED BY <1>1, <1>2, <1>3, PTL DEF SpecOfPasses
==============================================================================
