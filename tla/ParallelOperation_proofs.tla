---------------------- MODULE ParallelOperation_proofs ----------------------
(***************************************************************************)
(* Theorems about ParallelOperation for an application that rebuilds only   *)
(* after all joins have returned: for any threads, operations and bound on  *)
(* the builds, every join returns the code of the build it joined, and the  *)
(* operation is a deferred build. What happens without such care is shown   *)
(* by the runs racing_builds and rejoin_code.                               *)
(*                                                                          *)
(* The argument: a task is spawned only on an operation that was not in use *)
(* and that no other thread was in a call on (CallsApart), and an operation *)
(* with an unfinished build is in use (UnfinishedInUse). So only the latest *)
(* build can be unfinished (OnlyLatest), the one that runs is on the stack  *)
(* of one thread (StacksRun), and while the latest build is over the code   *)
(* in the operation is its code (CodeIsLatest). A join leaves the wait when *)
(* that is the case and no build can be spawned before it has returned.     *)
(***************************************************************************)
EXTENDS ParallelOperation, SequenceTheorems, TLAPS

(* The operation has no unfinished build.                                   *)
Over(o) == \A b \in BuildIds : task[o][b] \notin Unfinished

(* A call is on an operation that exists; one not yet created has no build. *)
CallsOnLive ==
  /\ \A t \in Threads :
       /\ call[t].at \in {"idle", "direct"} => call[t].op = NoOp
       /\ call[t].at \in {"bind", "spawn", "wait", "clear", "read"} =>
            call[t].op \in Ops /\ object[call[t].op] = "live"
  /\ \A o \in Ops : object[o] = "none" => builds[o] = 0

(* A thread inside Build is the only one in a call on the operation.        *)
CallsApart ==
  \A t, u \in Threads :
    call[t].at \in {"bind", "spawn"} /\ call[t].op = call[u].op => t = u

(* It found the operation without a build, and marks it before it spawns.   *)
BuilderFresh ==
  \A t \in Threads :
    /\ call[t].at \in {"bind", "spawn"} => Over(call[t].op)
    /\ call[t].at = "spawn" => inUse[call[t].op]

(* A join is about the latest build of its operation, and past the wait     *)
(* that build is over.                                                      *)
JoinsLatest ==
  \A t \in Threads :
    /\ call[t].at \in {"wait", "clear", "read"} =>
         call[t].build = builds[call[t].op] /\ call[t].build > 0
    /\ call[t].at \in {"clear", "read"} => Over(call[t].op)

UnfinishedInUse == \A o \in Ops : ~Over(o) => inUse[o]

OnlyLatest ==
  \A o \in Ops, b \in BuildIds :
    /\ task[o][b] \in Unfinished => b = builds[o]
    /\ b <= builds[o] <=> task[o][b] # NoCode

CodeIsLatest ==
  \A o \in Ops :
    Over(o) /\ builds[o] > 0 => errorCode[o] = task[o][builds[o]]

(* The tasks on the stacks are running, each in one place.                  *)
StacksRun ==
  /\ \A t \in Threads : \A i \in 1 .. Len(stack[t]) :
       task[stack[t][i][1]][stack[t][i][2]] = "running"
  /\ \A t, u \in Threads : \A i \in 1 .. Len(stack[t]), j \in 1 .. Len(stack[u]) :
       stack[t][i] = stack[u][j] => t = u /\ i = j

(* Nobody answered for a build that was not deferred.                       *)
NoEarlyAnswers ==
  \A o \in Ops, b \in BuildIds : b > builds[o] => answers[o][b] = {}

IInv ==
  /\ TypeOK
  /\ CallsOnLive
  /\ CallsApart
  /\ BuilderFresh
  /\ JoinsLatest
  /\ UnfinishedInUse
  /\ OnlyLatest
  /\ CodeIsLatest
  /\ StacksRun
  /\ NoEarlyAnswers
  /\ JoinAnswers
------------------------------------------------------------------------------
(* A group is empty when no build of the operation is unfinished.           *)
LEMMA OverDef ==
  ASSUME NEW o \in Ops
  PROVE  UnfinishedBuilds(o) = {} <=> Over(o)
BY DEF UnfinishedBuilds, Over

LEMMA InitInv == Init => IInv
<1> SUFFICES ASSUME Init PROVE IInv
  OBVIOUS
<1> USE DEF Init, Idle
<1>1. /\ object \in [Ops -> {"none", "live", "gone"}]
      /\ errorCode \in [Ops -> Codes \union {NoCode}]
      /\ task \in [Ops -> [BuildIds -> Codes \union Unfinished \union {NoCode}]]
      /\ stack \in [Threads -> Seq(Tasks)]
      /\ answers \in [Ops -> [BuildIds -> SUBSET (Codes \union {NoCode})]]
  OBVIOUS
<1>2. inUse \in [Ops -> BOOLEAN]
  OBVIOUS
<1>3. /\ builds \in [Ops -> 0 .. MaxBuilds]
      /\ call \in [Threads -> [at : {"idle", "bind", "spawn", "direct", "wait", "clear", "read"},
                              op : Ops \union {NoOp}, build : 0 .. MaxBuilds]]
  BY MaxBuildsAssumption
<1>4. \A o \in Ops : object[o] # "none" => errorCode[o] # NoCode
  OBVIOUS
<1>5. TypeOK
  BY <1>1, <1>2, <1>3, <1>4 DEF TypeOK
<1>6. CallsOnLive /\ CallsApart /\ BuilderFresh /\ JoinsLatest
  BY OpsAssumption DEF CallsOnLive, CallsApart, BuilderFresh, JoinsLatest
<1>7. UnfinishedInUse /\ OnlyLatest /\ CodeIsLatest /\ StacksRun
  BY DEF UnfinishedInUse, OnlyLatest, CodeIsLatest, StacksRun, BuildIds, Over,
         Unfinished, NoCode
<1>8. NoEarlyAnswers /\ JoinAnswers
  BY DEF NoEarlyAnswers, JoinAnswers
<1>. QED  BY <1>5, <1>6, <1>7, <1>8 DEF IInv

LEMMA CreateInv ==
  ASSUME IInv, Usage = "ordered", NEW t \in Threads, NEW o \in Ops,
         Create(t, o)
  PROVE  IInv'
<1> USE DEF IInv, TypeOK
<1>1. TypeOK'
  BY CodesAssumption DEF Create, Success, NoCode, Unfinished
<1>2. CallsOnLive'
  BY DEF Create, CallsOnLive, Idle
<1>3. BuilderFresh'
  BY DEF Create, BuilderFresh, Over, Idle, CallsOnLive
<1>4. UnfinishedInUse'
  BY DEF Create, UnfinishedInUse, Over, CallsOnLive, OnlyLatest, Unfinished, NoCode, BuildIds
<1>5. CodeIsLatest'
  BY DEF Create, CodeIsLatest, Over, CallsOnLive
<1>6. CallsApart' /\ JoinsLatest' /\ OnlyLatest' /\ StacksRun' /\
      NoEarlyAnswers' /\ JoinAnswers'
  BY DEF Create, CallsApart, JoinsLatest, OnlyLatest, StacksRun,
         NoEarlyAnswers, JoinAnswers, Over
<1>. QED  BY <1>1, <1>2, <1>3, <1>4, <1>5, <1>6

LEMMA DestroyInv ==
  ASSUME IInv, Usage = "ordered", NEW t \in Threads, NEW o \in Ops,
         Destroy(t, o)
  PROVE  IInv'
<1> USE DEF IInv, TypeOK
<1>1. TypeOK'
  BY DEF Destroy
<1>2. CallsOnLive'
  BY DEF Destroy, CallsOnLive, Idle, Quiet
<1>3. CallsApart' /\ BuilderFresh' /\ JoinsLatest' /\ UnfinishedInUse' /\
      OnlyLatest' /\ CodeIsLatest' /\ StacksRun' /\ NoEarlyAnswers' /\
      JoinAnswers'
  BY DEF Destroy, CallsApart, BuilderFresh, JoinsLatest, UnfinishedInUse,
         OnlyLatest, CodeIsLatest, StacksRun, NoEarlyAnswers, JoinAnswers,
         Over
<1>. QED  BY <1>1, <1>2, <1>3

LEMMA CallBuildInv ==
  ASSUME IInv, Usage = "ordered", NEW t \in Threads, NEW o \in Ops,
         CallBuild(t, o)
  PROVE  IInv'
<1> USE DEF IInv, TypeOK
<1>1. TypeOK'
  BY MaxBuildsAssumption DEF CallBuild
<1>2. CallsOnLive'
  BY OpsAssumption DEF CallBuild, CallsOnLive, Idle, MayBuild
<1>3. CallsApart'
  BY OpsAssumption DEF CallBuild, CallsApart, Idle, MayBuild, Quiet
<1>4. BuilderFresh'
  BY DEF CallBuild, BuilderFresh, Over, Idle, UnfinishedInUse
<1>5. JoinsLatest'
  BY DEF CallBuild, JoinsLatest, Over, Idle
<1>6. UnfinishedInUse' /\ OnlyLatest' /\ CodeIsLatest' /\ StacksRun' /\
      NoEarlyAnswers' /\ JoinAnswers'
  BY DEF CallBuild, UnfinishedInUse, OnlyLatest, CodeIsLatest, StacksRun,
         NoEarlyAnswers, JoinAnswers, Over
<1>. QED  BY <1>1, <1>2, <1>3, <1>4, <1>5, <1>6

LEMMA BindInv ==
  ASSUME IInv, Usage = "ordered", NEW t \in Threads,
         Bind(t)
  PROVE  IInv'
<1> USE DEF IInv, TypeOK
<1>1. TypeOK'
  BY DEF Bind
<1>2. CallsOnLive'
  BY DEF Bind, CallsOnLive
<1>3. CallsApart'
  BY DEF Bind, CallsApart
<1>4. BuilderFresh'
  BY DEF Bind, BuilderFresh, Over, CallsOnLive
<1>5. JoinsLatest'
  BY DEF Bind, JoinsLatest, Over
<1>6. UnfinishedInUse'
  BY DEF Bind, UnfinishedInUse, Over
<1>7. OnlyLatest' /\ CodeIsLatest' /\ StacksRun' /\ NoEarlyAnswers' /\
      JoinAnswers'
  BY DEF Bind, OnlyLatest, CodeIsLatest, StacksRun, NoEarlyAnswers,
         JoinAnswers, Over
<1>. QED  BY <1>1, <1>2, <1>3, <1>4, <1>5, <1>6, <1>7

LEMMA SpawnInv ==
  ASSUME IInv, Usage = "ordered", NEW t \in Threads,
         Spawn(t)
  PROVE  IInv'
<1> USE DEF IInv, TypeOK
<1>o. PICK o \in Ops : o = call[t].op
  BY DEF Spawn, CallsOnLive
<1>b. PICK b \in BuildIds : b = builds[o] + 1
  BY <1>o, MaxBuildsAssumption DEF Spawn, BuildIds
<1>1. /\ o = call[t].op /\ b = builds[o] + 1 /\ builds[o] \in Nat /\ b > builds[o]
      /\ object[o] = "live" /\ inUse[o] /\ call[t].at = "spawn"
      /\ builds' = [builds EXCEPT ![o] = b]
      /\ task' = [task EXCEPT ![o][b] = "pending"]
      /\ call' = [call EXCEPT ![t] = Idle]
      /\ UNCHANGED <<object, inUse, errorCode, stack, answers>>
  BY <1>o, <1>b DEF Spawn, CallsOnLive, BuilderFresh
<1>2. /\ task[o][b] = NoCode
      /\ \A d \in BuildIds : task[o][d] \notin Unfinished
  BY <1>1 DEF OnlyLatest, BuilderFresh, Over
<1>3. \A p \in Ops, d \in BuildIds :
        task'[p][d] = IF p = o /\ d = b THEN "pending" ELSE task[p][d]
  BY <1>1
<1>4. \A u \in Threads : u # t => call'[u] = call[u] /\ call[u].op # o
  BY <1>1 DEF CallsApart
<1>5. call'[t] = Idle /\ \A p \in Ops : p # o => builds'[p] = builds[p]
  BY <1>1
<1>6. builds'[o] = b
  BY <1>1
<1>7. TypeOK'
  <2>1. builds' \in [Ops -> 0 .. MaxBuilds]
    BY <1>1 DEF BuildIds
  <2>2. task' \in [Ops -> [BuildIds -> Codes \union Unfinished \union {NoCode}]]
    BY <1>1 DEF Unfinished
  <2>3. call' \in [Threads -> [at : {"idle", "bind", "spawn", "direct", "wait", "clear", "read"},
                              op : Ops \union {NoOp}, build : 0 .. MaxBuilds]]
    BY <1>1, MaxBuildsAssumption DEF Idle
  <2>. QED  BY <1>1, <2>1, <2>2, <2>3
<1>8. CallsOnLive'
  BY <1>1, <1>4, <1>5 DEF CallsOnLive, Idle
<1>9. CallsApart'
  <2>. SUFFICES ASSUME NEW u \in Threads, NEW v \in Threads,
                       call'[u].at \in {"bind", "spawn"}, call'[u].op = call'[v].op
                PROVE  u = v
    BY DEF CallsApart
  <2>1. u # t /\ call'[u] = call[u]
    BY <1>4, <1>5 DEF Idle
  <2>2. call[u].op \in Ops
    BY <2>1 DEF CallsOnLive
  <2>3. v # t /\ call'[v] = call[v]
    BY <2>1, <2>2, <1>4, <1>5, OpsAssumption DEF Idle
  <2>. QED  BY <2>1, <2>3 DEF CallsApart
<1>10. BuilderFresh'
  BY <1>1, <1>3, <1>4, <1>5 DEF BuilderFresh, CallsOnLive, Over, Idle
<1>11. JoinsLatest'
  BY <1>1, <1>3, <1>4, <1>5 DEF JoinsLatest, CallsOnLive, Over, Idle
<1>12. UnfinishedInUse'
  BY <1>1, <1>3 DEF UnfinishedInUse, Over
<1>13. OnlyLatest'
  <2>1. ASSUME NEW d \in BuildIds
        PROVE  /\ task'[o][d] \in Unfinished => d = builds'[o]
               /\ d <= builds'[o] <=> task'[o][d] # NoCode
    BY <1>1, <1>2, <1>3, <1>6 DEF OnlyLatest, BuildIds, NoCode
  <2>2. ASSUME NEW p \in Ops, p # o, NEW d \in BuildIds
        PROVE  /\ task'[p][d] \in Unfinished => d = builds'[p]
               /\ d <= builds'[p] <=> task'[p][d] # NoCode
    BY <2>2, <1>3, <1>5 DEF OnlyLatest
  <2>. QED  BY <2>1, <2>2 DEF OnlyLatest
<1>14. CodeIsLatest'
  <2>1. ~ Over(o)'
    BY <1>3 DEF Over, Unfinished
  <2>2. ASSUME NEW p \in Ops, p # o
        PROVE  (Over(p)' => Over(p)) /\ builds'[p] = builds[p]
    BY <2>2, <1>3, <1>5 DEF Over
  <2>3. ASSUME NEW p \in Ops, p # o, builds[p] > 0
        PROVE  task'[p][builds[p]] = task[p][builds[p]]
    <3>1. builds[p] \in BuildIds
      BY <2>3 DEF BuildIds
    <3>. QED  BY <2>3, <3>1, <1>3
  <2>. QED  BY <2>1, <2>2, <2>3, <1>1 DEF CodeIsLatest
<1>15. StacksRun'
  <2>1. ASSUME NEW u \in Threads, NEW i \in 1 .. Len(stack[u])
        PROVE  task'[stack[u][i][1]][stack[u][i][2]] = "running"
    <3>1. stack[u][i] \in Tasks
      BY ElementOfSeq
    <3>2. PICK p \in Ops, d \in BuildIds : stack[u][i] = <<p, d>>
      BY <3>1 DEF Tasks
    <3>3. task[p][d] = "running"
      BY <3>2 DEF StacksRun
    <3>. QED  BY <3>2, <3>3, <1>2, <1>3 DEF NoCode
  <2>2. stack' = stack
    BY <1>1
  <2>. QED  BY <2>1, <2>2 DEF StacksRun
<1>16. NoEarlyAnswers'
  BY <1>1, <1>5, <1>6 DEF NoEarlyAnswers, BuildIds
<1>17. JoinAnswers'
  <2>1. answers[o][b] = {}
    BY <1>1 DEF NoEarlyAnswers
  <2>. QED  BY <2>1, <1>1, <1>3 DEF JoinAnswers
<1>. QED  BY <1>7, <1>8, <1>9, <1>10, <1>11, <1>12, <1>13, <1>14, <1>15, <1>16, <1>17

LEMMA CallDirectInv ==
  ASSUME IInv, Usage = "ordered", NEW t \in Threads,
         CallDirect(t)
  PROVE  IInv'
<1> USE DEF IInv, TypeOK
<1>1. TypeOK'
  BY MaxBuildsAssumption DEF CallDirect
<1>2. CallsOnLive'
  BY DEF CallDirect, CallsOnLive, Idle
<1>3. CallsApart'
  BY DEF CallDirect, CallsApart, Idle
<1>4. BuilderFresh'
  BY DEF CallDirect, BuilderFresh, Over, Idle
<1>5. JoinsLatest'
  BY DEF CallDirect, JoinsLatest, Over, Idle
<1>6. UnfinishedInUse' /\ OnlyLatest' /\ CodeIsLatest' /\ StacksRun' /\
      NoEarlyAnswers' /\ JoinAnswers'
  BY DEF CallDirect, UnfinishedInUse, OnlyLatest, CodeIsLatest, StacksRun,
         NoEarlyAnswers, JoinAnswers, Over
<1>. QED  BY <1>1, <1>2, <1>3, <1>4, <1>5, <1>6

LEMMA ReturnDirectInv ==
  ASSUME IInv, Usage = "ordered", NEW t \in Threads,
         ReturnDirect(t)
  PROVE  IInv'
<1> USE DEF IInv, TypeOK
<1>1. TypeOK'
  BY MaxBuildsAssumption DEF ReturnDirect, Idle
<1>2. CallsOnLive'
  BY DEF ReturnDirect, CallsOnLive, Idle
<1>3. CallsApart'
  BY OpsAssumption DEF ReturnDirect, CallsApart, Idle, CallsOnLive
<1>4. BuilderFresh'
  BY DEF ReturnDirect, BuilderFresh, Over, Idle
<1>5. JoinsLatest'
  BY DEF ReturnDirect, JoinsLatest, Over, Idle
<1>6. UnfinishedInUse' /\ OnlyLatest' /\ CodeIsLatest' /\ StacksRun' /\
      NoEarlyAnswers' /\ JoinAnswers'
  BY DEF ReturnDirect, UnfinishedInUse, OnlyLatest, CodeIsLatest,
         StacksRun, NoEarlyAnswers, JoinAnswers, Over
<1>. QED  BY <1>1, <1>2, <1>3, <1>4, <1>5, <1>6

LEMMA PickTaskInv ==
  ASSUME IInv, Usage = "ordered", NEW t \in Threads, NEW o \in Ops, NEW b \in BuildIds,
         PickTask(t, o, b)
  PROVE  IInv'
<1> USE DEF IInv, TypeOK
<1>1. /\ task[o][b] = "pending"
      /\ task' = [task EXCEPT ![o][b] = "running"]
      /\ stack' = [stack EXCEPT ![t] = Append(stack[t], <<o, b>>)]
      /\ UNCHANGED <<object, inUse, errorCode, builds, call, answers>>
  BY DEF PickTask
<1>2. \A p \in Ops, d \in BuildIds :
        task'[p][d] = IF p = o /\ d = b THEN "running" ELSE task[p][d]
  BY <1>1
<1>3. \A p \in Ops : Over(p)' <=> Over(p)
  BY <1>1, <1>2 DEF Over, Unfinished
<1>4. \A u \in Threads : \A i \in 1 .. Len(stack[u]) : stack[u][i] \in Tasks
  BY ElementOfSeq
<1>5. TypeOK'
  <2>1. task' \in [Ops -> [BuildIds -> Codes \union Unfinished \union {NoCode}]]
    BY <1>1 DEF Unfinished
  <2>2. Append(stack[t], <<o, b>>) \in Seq(Tasks)
    BY AppendProperties DEF Tasks
  <2>. QED  BY <1>1, <2>1, <2>2
<1>6. BuilderFresh'
  BY <1>1, <1>3 DEF BuilderFresh, CallsOnLive
<1>7. JoinsLatest'
  BY <1>1, <1>3 DEF JoinsLatest, CallsOnLive
<1>8. UnfinishedInUse'
  BY <1>1, <1>3 DEF UnfinishedInUse
<1>9. OnlyLatest'
  BY <1>1, <1>2 DEF OnlyLatest, Unfinished, NoCode
<1>10. CodeIsLatest'
  <2>1. ~ Over(o)
    BY <1>1 DEF Over, Unfinished
  <2>. QED  BY <2>1, <1>1, <1>2, <1>3, MaxBuildsAssumption
            DEF CodeIsLatest, BuildIds
<1>11. StacksRun'
  <2>1. /\ Len(stack'[t]) = Len(stack[t]) + 1 /\ Len(stack[t]) \in Nat
        /\ stack'[t][Len(stack[t]) + 1] = <<o, b>>
        /\ \A i \in 1 .. Len(stack[t]) : stack'[t][i] = stack[t][i]
    BY <1>1, AppendProperties, LenProperties DEF Tasks
  <2>2. \A u \in Threads : \A i \in 1 .. Len(stack[u]) : stack[u][i] # <<o, b>>
    BY <1>1 DEF StacksRun
  <2>3. \A u \in Threads : u # t => stack'[u] = stack[u]
    BY <1>1
  <2>4. ASSUME NEW u \in Threads, NEW i \in 1 .. Len(stack'[u])
        PROVE  \/ i \in 1 .. Len(stack[u]) /\ stack'[u][i] = stack[u][i]
               \/ u = t /\ i = Len(stack[t]) + 1 /\ stack'[u][i] = <<o, b>>
    BY <2>1, <2>3
  <2>5. ASSUME NEW u \in Threads, NEW i \in 1 .. Len(stack'[u])
        PROVE  task'[stack'[u][i][1]][stack'[u][i][2]] = "running"
    <3>1. CASE i \in 1 .. Len(stack[u]) /\ stack'[u][i] = stack[u][i]
      BY <3>1, <1>2, <1>4 DEF StacksRun, Tasks
    <3>2. CASE stack'[u][i] = <<o, b>>
      BY <3>2, <1>2
    <3>. QED  BY <2>4, <3>1, <3>2
  <2>6. ASSUME NEW u \in Threads, NEW v \in Threads,
               NEW i \in 1 .. Len(stack'[u]), NEW j \in 1 .. Len(stack'[v]),
               stack'[u][i] = stack'[v][j]
        PROVE  u = v /\ i = j
    <3>1. CASE i \in 1 .. Len(stack[u]) /\ stack'[u][i] = stack[u][i]
      <4>1. j \in 1 .. Len(stack[v]) /\ stack'[v][j] = stack[v][j]
        BY <3>1, <2>2, <2>4, <2>6
      <4>2. stack[u][i] = stack[v][j]
        BY <3>1, <4>1, <2>6
      <4>. QED  BY <3>1, <4>1, <4>2 DEF StacksRun
    <3>2. CASE u = t /\ i = Len(stack[t]) + 1 /\ stack'[u][i] = <<o, b>>
      BY <3>2, <2>2, <2>4, <2>6
    <3>. QED  BY <2>4, <3>1, <3>2
  <2>. QED  BY <2>5, <2>6 DEF StacksRun
<1>12. JoinAnswers'
  BY <1>1, <1>2 DEF JoinAnswers, Unfinished
<1>13. CallsOnLive' /\ CallsApart' /\ NoEarlyAnswers'
  BY DEF PickTask, CallsOnLive, CallsApart, NoEarlyAnswers
<1>. QED  BY <1>5, <1>6, <1>7, <1>8, <1>9, <1>10, <1>11, <1>12, <1>13

LEMMA FinishTaskInv ==
  ASSUME IInv, Usage = "ordered", NEW t \in Threads, NEW c \in Codes,
         FinishTask(t, c)
  PROVE  IInv'
<1> USE DEF IInv, TypeOK
<1>1. PICK n \in Nat : n = Len(stack[t]) /\ n >= 1 /\ stack[t][n] \in Tasks
  BY ElementOfSeq, LenProperties, EmptySeq DEF FinishTask
<1>2. PICK o \in Ops, b \in BuildIds : stack[t][n] = <<o, b>>
  BY <1>1 DEF Tasks
<1>3. /\ task' = [task EXCEPT ![o][b] = c]
      /\ errorCode' = [errorCode EXCEPT ![o] = c]
      /\ stack' = [stack EXCEPT ![t] = SubSeq(stack[t], 1, n - 1)]
      /\ UNCHANGED <<object, inUse, builds, call, answers>>
  BY <1>1, <1>2 DEF FinishTask
<1>4. /\ task[o][b] = "running" /\ b = builds[o]
      /\ c \notin Unfinished /\ c # NoCode
  BY <1>1, <1>2, CodesAssumption DEF StacksRun, OnlyLatest, Unfinished
<1>5. \A p \in Ops, d \in BuildIds :
        task'[p][d] = IF p = o /\ d = b THEN c ELSE task[p][d]
  BY <1>3
<1>6. \A p \in Ops : Over(p) => Over(p)'
  BY <1>4, <1>5 DEF Over
<1>7. TypeOK'
  <2>1. /\ task' \in [Ops -> [BuildIds -> Codes \union Unfinished \union {NoCode}]]
        /\ errorCode' \in [Ops -> Codes \union {NoCode}]
        /\ \A p \in Ops : object'[p] # "none" => errorCode'[p] # NoCode
    BY <1>3, <1>4
  <2>2. SubSeq(stack[t], 1, n - 1) \in Seq(Tasks)
    <3>1. \A i \in 1 .. n - 1 : stack[t][i] \in Tasks
      BY <1>1, ElementOfSeq
    <3>. QED  BY <3>1, <1>1, SubSeqProperties
  <2>. QED  BY <1>3, <2>1, <2>2
<1>8. BuilderFresh'
  BY <1>3, <1>6 DEF BuilderFresh, CallsOnLive
<1>9. JoinsLatest'
  BY <1>3, <1>6 DEF JoinsLatest, CallsOnLive
<1>10. UnfinishedInUse'
  BY <1>3, <1>6 DEF UnfinishedInUse
<1>11. OnlyLatest'
  BY <1>3, <1>4, <1>5 DEF OnlyLatest, Unfinished, NoCode
<1>12. CodeIsLatest'
  <2>1. errorCode'[o] = task'[o][builds'[o]]
    BY <1>3, <1>4, <1>5
  <2>2. ASSUME NEW p \in Ops, p # o
        PROVE  /\ Over(p)' <=> Over(p)
               /\ builds[p] > 0 => task'[p][builds[p]] = task[p][builds[p]]
               /\ errorCode'[p] = errorCode[p]
    BY <1>3, <1>5, <2>2, MaxBuildsAssumption DEF Over, BuildIds
  <2>. QED  BY <2>1, <2>2, <1>3 DEF CodeIsLatest
<1>13. StacksRun'
  <2>1. /\ Len(stack'[t]) = n - 1
        /\ \A i \in 1 .. n - 1 : stack'[t][i] = stack[t][i]
    <3>1. \A i \in 1 .. n - 1 : stack[t][i] \in Tasks
      BY <1>1, ElementOfSeq
    <3>2. /\ Len(SubSeq(stack[t], 1, n - 1)) = n - 1
          /\ \A i \in 1 .. n - 1 : SubSeq(stack[t], 1, n - 1)[i] = stack[t][i]
      BY <3>1, <1>1, SubSeqProperties
    <3>. QED  BY <3>2, <1>3
  <2>2. \A u \in Threads : u # t => stack'[u] = stack[u]
    BY <1>3
  <2>3. ASSUME NEW u \in Threads, NEW i \in 1 .. Len(stack'[u])
        PROVE  /\ i \in 1 .. Len(stack[u]) /\ stack'[u][i] = stack[u][i]
               /\ stack[u][i] # <<o, b>> /\ stack[u][i] \in Tasks
    <3>1. CASE u = t
      <4>1. i \in 1 .. n - 1
        BY <3>1, <2>1
      <4>2. i \in 1 .. n /\ n \in 1 .. n /\ i # n
        BY <4>1, <1>1
      <4>3. i \in 1 .. Len(stack[t]) /\ n \in 1 .. Len(stack[t])
        BY <4>2, <1>1
      <4>4. stack[t][i] # stack[t][n] /\ stack[t][i] \in Tasks
        BY <4>2, <4>3, ElementOfSeq DEF StacksRun
      <4>. QED  BY <3>1, <4>1, <4>3, <4>4, <1>2, <2>1
    <3>2. CASE u # t
      <4>1. n \in 1 .. Len(stack[t])
        BY <1>1
      <4>2. stack'[u] = stack[u] /\ i \in 1 .. Len(stack[u])
        BY <3>2, <2>2
      <4>3. stack[u][i] # stack[t][n] /\ stack[u][i] \in Tasks
        BY <3>2, <4>1, <4>2, ElementOfSeq DEF StacksRun
      <4>. QED  BY <4>2, <4>3, <1>2
    <3>. QED  BY <3>1, <3>2
  <2>4. ASSUME NEW u \in Threads, NEW i \in 1 .. Len(stack'[u])
        PROVE  task'[stack'[u][i][1]][stack'[u][i][2]] = "running"
    <3>1. PICK p \in Ops, d \in BuildIds : stack[u][i] = <<p, d>>
      BY <2>3 DEF Tasks
    <3>2. task[p][d] = "running" /\ ~ (p = o /\ d = b)
      BY <2>3, <3>1 DEF StacksRun
    <3>. QED  BY <2>3, <3>1, <3>2, <1>5
  <2>5. ASSUME NEW u \in Threads, NEW v \in Threads,
               NEW i \in 1 .. Len(stack'[u]), NEW j \in 1 .. Len(stack'[v]),
               stack'[u][i] = stack'[v][j]
        PROVE  u = v /\ i = j
    BY <2>3, <2>5 DEF StacksRun
  <2>. QED  BY <2>4, <2>5 DEF StacksRun
<1>14. JoinAnswers'
  <2>1. answers[o][b] = {}
    BY <1>4 DEF JoinAnswers, Unfinished
  <2>. QED  BY <2>1, <1>3, <1>5 DEF JoinAnswers
<1>15. CallsOnLive' /\ CallsApart' /\ NoEarlyAnswers'
  BY DEF FinishTask, CallsOnLive, CallsApart, NoEarlyAnswers
<1>. QED  BY <1>7, <1>8, <1>9, <1>10, <1>11, <1>12, <1>13, <1>14, <1>15

LEMMA CallJoinInv ==
  ASSUME IInv, Usage = "ordered", NEW t \in Threads, NEW o \in Ops,
         CallJoin(t, o)
  PROVE  IInv'
<1> USE DEF IInv, TypeOK
<1>1. TypeOK'
  BY MaxBuildsAssumption DEF CallJoin
<1>2. CallsOnLive'
  BY OpsAssumption DEF CallJoin, CallsOnLive, Idle, MayJoin
<1>3. CallsApart'
  BY OpsAssumption DEF CallJoin, CallsApart, Idle, MayJoin, NoBuildCall
<1>4. BuilderFresh'
  BY DEF CallJoin, BuilderFresh, Over, Idle
<1>5. JoinsLatest'
  BY DEF CallJoin, JoinsLatest, Over, Idle, MayJoin
<1>6. UnfinishedInUse' /\ OnlyLatest' /\ CodeIsLatest' /\ StacksRun' /\
      NoEarlyAnswers' /\ JoinAnswers'
  BY DEF CallJoin, UnfinishedInUse, OnlyLatest, CodeIsLatest, StacksRun,
         NoEarlyAnswers, JoinAnswers, Over
<1>. QED  BY <1>1, <1>2, <1>3, <1>4, <1>5, <1>6

LEMMA LeaveWaitInv ==
  ASSUME IInv, Usage = "ordered", NEW t \in Threads,
         LeaveWait(t)
  PROVE  IInv'
<1> USE DEF IInv, TypeOK
<1>1. TypeOK'
  BY DEF LeaveWait
<1>2. CallsOnLive'
  BY DEF LeaveWait, CallsOnLive
<1>3. CallsApart'
  BY DEF LeaveWait, CallsApart
<1>4. BuilderFresh'
  BY DEF LeaveWait, BuilderFresh, Over
<1>5. JoinsLatest'
  <2>1. Over(call[t].op)
    BY OverDef DEF LeaveWait, CallsOnLive, GroupEmpty
  <2>2. \A o \in Ops : Over(o)' <=> Over(o)
    BY DEF LeaveWait, Over
  <2>. QED  BY <2>1, <2>2 DEF LeaveWait, JoinsLatest, CallsOnLive
<1>6. UnfinishedInUse' /\ OnlyLatest' /\ CodeIsLatest' /\ StacksRun' /\
      NoEarlyAnswers' /\ JoinAnswers'
  BY DEF LeaveWait, UnfinishedInUse, OnlyLatest, CodeIsLatest, StacksRun,
         NoEarlyAnswers, JoinAnswers, Over
<1>. QED  BY <1>1, <1>2, <1>3, <1>4, <1>5, <1>6

LEMMA ClearInv ==
  ASSUME IInv, Usage = "ordered", NEW t \in Threads,
         Clear(t)
  PROVE  IInv'
<1> USE DEF IInv, TypeOK
<1>1. TypeOK'
  BY DEF Clear
<1>2. CallsOnLive'
  BY DEF Clear, CallsOnLive
<1>3. CallsApart'
  BY DEF Clear, CallsApart
<1>4. BuilderFresh'
  BY DEF Clear, BuilderFresh, Over, CallsApart, CallsOnLive
<1>5. JoinsLatest'
  BY DEF Clear, JoinsLatest, Over
<1>6. UnfinishedInUse'
  BY DEF Clear, UnfinishedInUse, Over, CallsOnLive, JoinsLatest
<1>7. OnlyLatest' /\ CodeIsLatest' /\ StacksRun' /\ NoEarlyAnswers' /\
      JoinAnswers'
  BY DEF Clear, OnlyLatest, CodeIsLatest, StacksRun, NoEarlyAnswers,
         JoinAnswers, Over
<1>. QED  BY <1>1, <1>2, <1>3, <1>4, <1>5, <1>6, <1>7

LEMMA ReadCodeInv ==
  ASSUME IInv, Usage = "ordered", NEW t \in Threads,
         ReadCode(t)
  PROVE  IInv'
<1> USE DEF IInv, TypeOK
<1>o. PICK o \in Ops : o = call[t].op
  BY DEF ReadCode, CallsOnLive
<1>b. PICK b \in BuildIds : b = call[t].build /\ b = builds[o]
  BY <1>o DEF ReadCode, JoinsLatest, BuildIds
<1>l. Over(o) /\ builds[o] > 0
  BY <1>o, <1>b DEF ReadCode, JoinsLatest, BuildIds
<1>1. /\ o = call[t].op /\ b = call[t].build /\ b = builds[o] /\ Over(o)
      /\ errorCode[o] = task[o][b] /\ task[o][b] \notin Unfinished
  BY <1>o, <1>b, <1>l DEF CodeIsLatest, Over
<1>2. /\ answers' = [answers EXCEPT ![o][b] = @ \union {errorCode[o]}]
      /\ call' = [call EXCEPT ![t] = Idle]
      /\ UNCHANGED <<object, inUse, errorCode, builds, task, stack>>
  BY <1>1 DEF ReadCode
<1>3. \A p \in Ops, d \in BuildIds :
        answers'[p][d] = IF p = o /\ d = b THEN answers[p][d] \union {errorCode[o]}
                         ELSE answers[p][d]
  BY <1>2
<1>4. TypeOK'
  <2>1. answers' \in [Ops -> [BuildIds -> SUBSET (Codes \union {NoCode})]]
    BY <1>1, <1>2
  <2>2. call' \in [Threads -> [at : {"idle", "bind", "spawn", "direct", "wait", "clear", "read"},
                              op : Ops \union {NoOp}, build : 0 .. MaxBuilds]]
    BY <1>2, MaxBuildsAssumption DEF Idle
  <2>. QED  BY <1>2, <2>1, <2>2
<1>5. CallsOnLive'
  BY DEF ReadCode, CallsOnLive, Idle
<1>6. CallsApart'
  BY OpsAssumption DEF ReadCode, CallsApart, Idle, CallsOnLive
<1>7. BuilderFresh'
  BY DEF ReadCode, BuilderFresh, Over, Idle
<1>8. JoinsLatest'
  BY DEF ReadCode, JoinsLatest, Over, Idle
<1>9. NoEarlyAnswers'
  BY <1>1, <1>2, <1>3 DEF NoEarlyAnswers, BuildIds
<1>10. JoinAnswers'
  BY <1>1, <1>2, <1>3 DEF ReadCode, JoinAnswers
<1>11. UnfinishedInUse' /\ OnlyLatest' /\ CodeIsLatest' /\ StacksRun'
  BY DEF ReadCode, UnfinishedInUse, OnlyLatest, CodeIsLatest, StacksRun,
         Over
<1>. QED  BY <1>4, <1>5, <1>6, <1>7, <1>8, <1>9, <1>10, <1>11

LEMMA NextInv ==
  ASSUME IInv, Usage = "ordered", [Next]_vars
  PROVE  IInv'
<1>1. CASE UNCHANGED vars
  BY <1>1 DEF vars, IInv, TypeOK, CallsOnLive, CallsApart, BuilderFresh,
       JoinsLatest, UnfinishedInUse, OnlyLatest, CodeIsLatest, StacksRun,
       NoEarlyAnswers, JoinAnswers, Over
<1>2. ASSUME NEW t \in Threads, ThreadStep(t)
      PROVE  IInv'
  BY <1>2, BindInv, SpawnInv, ReturnDirectInv, PickTaskInv, FinishTaskInv,
     LeaveWaitInv, ClearInv, ReadCodeInv DEF ThreadStep
<1>3. ASSUME NEW t \in Threads, AppCall(t)
      PROVE  IInv'
  BY <1>3, CallDirectInv, CreateInv, DestroyInv, CallBuildInv, CallJoinInv
     DEF AppCall
<1>. QED  BY <1>1, <1>2, <1>3 DEF Next

(* The inductive invariant holds of an application that rebuilds only after *)
(* its joins have returned.                                                 *)
THEOREM OrderedInv == ASSUME Usage = "ordered" PROVE Spec => []IInv
<1>1. IInv /\ [Next]_vars => IInv'
  BY NextInv
<1>. QED  BY InitInv, <1>1, PTL DEF Spec

(* Such an application gets from every join the code of the build that it   *)
(* joined: Join reads errorCode only after it has cleared object_in_use,    *)
(* but no build is accepted before it has returned.                         *)
THEOREM JoinsAnswerRight == ASSUME Usage = "ordered" PROVE Spec => []JoinAnswers
BY OrderedInv, PTL DEF IInv

------------------------------------------------------------------------------
(* The refinement: the state of DeferredBuild that a state stands for.      *)
Building == {p \in Ops : UnfinishedBuilds(p) # {}}

Code == [p \in Ops |-> IF builds[p] > 0 /\ task[p][builds[p]] \notin Unfinished
                       THEN task[p][builds[p]] ELSE NoCode]

Answers == [p \in Ops |-> IF builds[p] > 0 THEN answers[p][builds[p]] ELSE {}]

LEMMA PromiseInit == Init => Promise!Init
BY DEF Init, Promise!Init, Promise!NoCode, NoCode, UnfinishedBuilds, Unfinished

(* Steps that touch neither tasks nor answers are not seen.                 *)
LEMMA Stutters ==
  ASSUME UNCHANGED <<builds, task, answers>>
  PROVE  UNCHANGED Promise!vars
BY DEF Promise!vars, UnfinishedBuilds

(* Spawning the task of a build starts it.                                  *)
LEMMA SpawnStarts ==
  ASSUME IInv, IInv', Usage = "ordered", NEW t \in Threads, Spawn(t)
  PROVE  \E o \in Ops : Promise!Start(o)
<1>1. PICK o \in Ops : o = call[t].op
  BY DEF Spawn, IInv, CallsOnLive
<1>2. PICK b \in BuildIds : b = builds[o] + 1
  BY <1>1, MaxBuildsAssumption DEF Spawn, BuildIds, IInv, TypeOK
<1>3. /\ builds' = [builds EXCEPT ![o] = b]
      /\ task' = [task EXCEPT ![o][b] = "pending"]
      /\ UNCHANGED answers
  BY <1>1, <1>2 DEF Spawn
<1>4. /\ builds'[o] = b /\ task'[o][b] = "pending" /\ answers'[o][b] = {}
      /\ \A p \in Ops : p # o => builds'[p] = builds[p] /\ task'[p] = task[p]
  <2>1. b > builds[o] /\ builds \in [Ops -> 0 .. MaxBuilds]
    BY <1>2 DEF IInv, TypeOK
  <2>2. answers[o][b] = {}
    BY <2>1 DEF IInv, NoEarlyAnswers
  <2>3. task'[o][b] = "pending" /\ \A p \in Ops : p # o => task'[p] = task[p]
    BY <1>3 DEF IInv, TypeOK
  <2>. QED  BY <1>3, <2>1, <2>2, <2>3
<1>5. o \notin Building
  BY <1>1, OverDef DEF Building, IInv, BuilderFresh, Spawn
<1>6. Building' = Building \union {o}
  <2>1. o \in Building'
    BY <1>4 DEF Building, UnfinishedBuilds, Unfinished
  <2>2. \A p \in Ops : p # o => (p \in Building' <=> p \in Building)
    BY <1>4 DEF Building, UnfinishedBuilds
  <2>. QED  BY <2>1, <2>2 DEF Building
<1>7. Code' = [Code EXCEPT ![o] = NoCode]
  <2>1. ASSUME NEW p \in Ops
        PROVE  Code'[p] = IF p = o THEN NoCode ELSE Code[p]
    BY <1>4 DEF Code, Unfinished
  <2>. QED  BY <2>1 DEF Code
<1>8. Answers' = [Answers EXCEPT ![o] = {}]
  <2>1. ASSUME NEW p \in Ops
        PROVE  Answers'[p] = IF p = o THEN {} ELSE Answers[p]
    BY <1>3, <1>4 DEF Answers
  <2>. QED  BY <2>1 DEF Answers
<1>. QED  BY <1>5, <1>6, <1>7, <1>8
          DEF Promise!Start, Building, Code, Answers, Promise!NoCode, NoCode

(* A thread that takes the task changes nothing that the joins see.         *)
LEMMA PickStutters ==
  ASSUME IInv, NEW t \in Threads, NEW o \in Ops, NEW b \in BuildIds, PickTask(t, o, b)
  PROVE  UNCHANGED Promise!vars
<1>1. /\ task[o][b] = "pending"
      /\ task' = [task EXCEPT ![o][b] = "running"]
      /\ UNCHANGED <<builds, answers>>
  BY DEF PickTask
<1>2. \A p \in Ops, d \in BuildIds :
        /\ task'[p][d] \in Unfinished <=> task[p][d] \in Unfinished
        /\ task[p][d] \notin Unfinished => task'[p][d] = task[p][d]
  BY <1>1 DEF IInv, TypeOK, Unfinished
<1>3. Building' = Building
  BY <1>2 DEF Building, UnfinishedBuilds
<1>4. \A p \in Ops : builds[p] > 0 => builds[p] \in BuildIds
  BY DEF IInv, TypeOK, BuildIds
<1>5. Code' = Code
  BY <1>1, <1>2, <1>4 DEF Code
<1>6. Answers' = Answers
  BY <1>1 DEF Answers
<1>. QED  BY <1>3, <1>5, <1>6 DEF Promise!vars, Building, Code, Answers

(* The end of a task completes the build with the code it stores.           *)
LEMMA FinishCompletes ==
  ASSUME IInv, IInv', NEW t \in Threads, NEW c \in Codes, FinishTask(t, c)
  PROVE  \E o \in Ops : Promise!Complete(o)
<1>1. PICK n \in Nat : n = Len(stack[t]) /\ n >= 1 /\ stack[t][n] \in Tasks
  BY ElementOfSeq, LenProperties, EmptySeq DEF FinishTask, IInv, TypeOK
<1>2. PICK o \in Ops, b \in BuildIds : stack[t][n] = <<o, b>>
  BY <1>1 DEF Tasks
<1>3. task' = [task EXCEPT ![o][b] = c] /\ UNCHANGED <<builds, answers>>
  BY <1>1, <1>2 DEF FinishTask
<1>4. /\ task[o][b] = "running" /\ b = builds[o] /\ b > 0
      /\ c \notin Unfinished
  BY <1>1, <1>2, CodesAssumption DEF IInv, StacksRun, OnlyLatest, Unfinished, BuildIds
<1>5. /\ task'[o][b] = c
      /\ \A p \in Ops : p # o => task'[p] = task[p]
  BY <1>3 DEF IInv, TypeOK
<1>6. Building' = Building \ {o} /\ o \in Building
  <2>1. o \in Building
    BY <1>4 DEF Building, UnfinishedBuilds, Unfinished
  <2>2. o \notin Building'
    <3>1. \A d \in BuildIds : task'[o][d] \in Unfinished => d = b
      BY <1>3, <1>4 DEF IInv, TypeOK, OnlyLatest
    <3>. QED  BY <3>1, <1>4, <1>5 DEF Building, UnfinishedBuilds
  <2>3. \A p \in Ops : p # o => (p \in Building' <=> p \in Building)
    BY <1>5 DEF Building, UnfinishedBuilds
  <2>. QED  BY <2>1, <2>2, <2>3 DEF Building
<1>7. Code' = [Code EXCEPT ![o] = c]
  <2>1. ASSUME NEW p \in Ops
        PROVE  Code'[p] = IF p = o THEN c ELSE Code[p]
    BY <1>3, <1>4, <1>5 DEF Code
  <2>. QED  BY <2>1 DEF Code
<1>8. Answers' = Answers
  BY <1>3 DEF Answers
<1>. QED  BY <1>6, <1>7, <1>8 DEF Promise!Complete, Building, Code, Answers

(* What a join returns is the code of the complete build.                   *)
LEMMA ReadAnswers ==
  ASSUME IInv, NEW t \in Threads, ReadCode(t)
  PROVE  \E o \in Ops : Promise!Answer(o)
<1>1. PICK o \in Ops : o = call[t].op
  BY DEF ReadCode, IInv, CallsOnLive
<1>2. PICK b \in BuildIds : b = call[t].build /\ b = builds[o] /\ b > 0
  BY <1>1 DEF ReadCode, IInv, TypeOK, JoinsLatest, BuildIds
<1>3. Over(o) /\ errorCode[o] = task[o][b] /\ task[o][b] \notin Unfinished
  BY <1>1, <1>2 DEF ReadCode, IInv, JoinsLatest, CodeIsLatest, Over
<1>4. answers' = [answers EXCEPT ![o][b] = @ \union {errorCode[o]}]
      /\ UNCHANGED <<builds, task>>
  BY <1>1, <1>2 DEF ReadCode
<1>5. o \notin Building /\ Building' = Building
  BY <1>3, <1>4, OverDef DEF Building, UnfinishedBuilds
<1>6. Code[o] = errorCode[o] /\ Code' = Code /\ errorCode[o] # NoCode
  <2>1. task[o][b] # NoCode
    BY <1>2 DEF IInv, TypeOK, OnlyLatest
  <2>. QED  BY <2>1, <1>2, <1>3, <1>4 DEF Code
<1>7. Answers' = [Answers EXCEPT ![o] = @ \union {Code[o]}]
  <2>1. answers'[o][b] = answers[o][b] \union {errorCode[o]}
    BY <1>4 DEF IInv, TypeOK
  <2>2. ASSUME NEW p \in Ops
        PROVE  Answers'[p] = IF p = o THEN Answers[p] \union {Code[o]} ELSE Answers[p]
    BY <2>1, <1>2, <1>4, <1>6 DEF Answers, IInv, TypeOK
  <2>. QED  BY <2>2 DEF Answers
<1>. QED  BY <1>5, <1>6, <1>7
          DEF Promise!Answer, Building, Code, Answers, Promise!NoCode, NoCode

(* A parallel operation whose application rebuilds only after the joins     *)
(* does what DeferredBuild promises: one build at a time, and the code of   *)
(* that build to every join.                                                *)
THEOREM KeepsPromise == ASSUME Usage = "ordered" PROVE Spec => PromiseKept
<1>1. ASSUME IInv, IInv', [Next]_vars
      PROVE  [Promise!Next]_Promise!vars
  <2>1. CASE UNCHANGED vars
    BY <2>1, Stutters DEF vars
  <2>2. ASSUME NEW t \in Threads, ThreadStep(t)
        PROVE  [Promise!Next]_Promise!vars
    <3>1. CASE Spawn(t)
      BY <1>1, <3>1, SpawnStarts DEF Promise!Next
    <3>2. CASE \E o \in Ops, b \in BuildIds : PickTask(t, o, b)
      BY <1>1, <3>2, PickStutters
    <3>3. CASE \E c \in Codes : FinishTask(t, c)
      BY <1>1, <3>3, FinishCompletes DEF Promise!Next
    <3>4. CASE ReadCode(t)
      BY <1>1, <3>4, ReadAnswers DEF Promise!Next
    <3>5. CASE Bind(t) \/ ReturnDirect(t) \/ LeaveWait(t) \/ Clear(t)
      BY <3>5, Stutters DEF Bind, ReturnDirect, LeaveWait, Clear
    <3>. QED  BY <2>2, <3>1, <3>2, <3>3, <3>4, <3>5 DEF ThreadStep
  <2>3. ASSUME NEW t \in Threads, AppCall(t)
        PROVE  [Promise!Next]_Promise!vars
    BY <2>3, Stutters DEF AppCall, CallDirect, Create, Destroy, CallBuild, CallJoin
  <2>. QED  BY <1>1, <2>1, <2>2, <2>3 DEF Next
<1>. QED  BY PromiseInit, OrderedInv, <1>1, PTL DEF PromiseKept, Promise!Spec, Spec

==============================================================================
