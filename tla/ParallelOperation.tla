-------------------------- MODULE ParallelOperation --------------------------
(***************************************************************************)
(* ze_rtas_parallel_operation_t and the calls on it (rtbuild/rtbuild.cpp):  *)
(* zeRTASBuilderBuildImpl spawns the build as a task of the operation's     *)
(* tbb::task_group and returns DEFERRED; the application's own threads run  *)
(* the task inside zeRTASParallelOperationJoinImpl.                         *)
(*                                                                          *)
(*   Build: if (op->object_in_use.load()) return IN_USE;      CallBuild     *)
(*          op->object_in_use.store(true);                    Bind          *)
(*          op->group.run(... op->errorCode = Body() ...);    Spawn         *)
(*   Join:  op->group.wait();                      CallJoin, LeaveWait      *)
(*          op->object_in_use.store(false);                   Clear         *)
(*          return op->errorCode;                             ReadCode      *)
(*                                                                          *)
(* All slots of g_arena are reserved for application threads, so that no    *)
(* worker of TBB enters it: a task runs in a thread that waits in the arena *)
(* (PickTask), in a join of any operation or in a build without one         *)
(* (CallDirect), and a thread that waits for a part of one build may start  *)
(* another build on top of it: stack[t].                                    *)
(*                                                                          *)
(* The calls an application makes are the environment, with Usage:          *)
(*   "ordered"  it calls Build on an operation when all joins have returned;*)
(*   "rebuild"  it calls Build again as soon as object_in_use allows, maybe *)
(*              after the first of several joins, but one Build at a time;  *)
(*   "racing"   several threads may also call Build at the same time.       *)
(* Definitions named Mut... are faulty versions of the definition after     *)
(* them, which the properties refute.                                       *)
(***************************************************************************)
EXTENDS Integers, Sequences

CONSTANTS
  Threads,    \* The application's threads.
  Ops,        \* The parallel operations.
  NoOp,       \* The operation of a thread that is not in a call on one.
  Codes,      \* The codes zeRTASBuilderBuildBody can return.
  Usage,      \* How the application orders its calls on an operation.
  MaxBuilds   \* Bound: the deferred builds per operation.

ASSUME OpsAssumption == NoOp \notin Ops

ASSUME UsageAssumption == Usage \in {"ordered", "rebuild", "racing"}

ASSUME MaxBuildsAssumption == MaxBuilds \in Nat \ {0}

Success == "SUCCESS"
NoCode == "none"
Unfinished == {"pending", "running"}

ASSUME CodesAssumption ==
  /\ Success \in Codes
  /\ Codes \intersect (Unfinished \union {NoCode}) = {}

VARIABLES
  object,     \* object[o]: "none", "live" once created, "gone" once destroyed.
  inUse,      \* inUse[o]: object_in_use.
  errorCode,  \* errorCode[o]: errorCode.
  builds,     \* builds[o]: the number of builds that were deferred.
  task,       \* task[o][b]: the task of o's b-th build: NoCode before it is
              \* spawned, "pending", "running", and then the build's code.
  call,       \* call[t]: the call that t is in, how far it is, and the build
              \* that a join is about.
  stack,      \* stack[t]: the tasks <<o, b>> that t runs, innermost last.
  answers     \* History, answers[o][b]: the codes that joins of o's b-th
              \* build have returned.

vars == <<object, inUse, errorCode, builds, task, call, stack, answers>>

BuildIds == 1 .. MaxBuilds
Tasks == Ops \X BuildIds

Idle == [at |-> "idle", op |-> NoOp, build |-> 0]

Quiet(o) == \A t \in Threads : call[t].op # o

NoBuildCall(o) ==
  \A t \in Threads : call[t].op = o => call[t].at \notin {"bind", "spawn"}

(* The application may call Build on o.                                     *)
MayBuild(o) ==
  /\ object[o] = "live"
  /\ Usage = "ordered" => Quiet(o)
  /\ Usage = "rebuild" => NoBuildCall(o)

(* It joins an operation once a build on it was deferred.                   *)
MayJoin(o) ==
  /\ object[o] = "live"
  /\ builds[o] > 0
  /\ NoBuildCall(o)

UnfinishedBuilds(o) == {b \in BuildIds : task[o][b] \in Unfinished}

Init ==
  /\ object = [o \in Ops |-> "none"]
  /\ inUse = [o \in Ops |-> FALSE]
  /\ errorCode = [o \in Ops |-> NoCode]
  /\ builds = [o \in Ops |-> 0]
  /\ task = [o \in Ops |-> [b \in BuildIds |-> NoCode]]
  /\ call = [t \in Threads |-> Idle]
  /\ stack = [t \in Threads |-> <<>>]
  /\ answers = [o \in Ops |-> [b \in BuildIds |-> {}]]

(***************************************************************************)
(* zeRTASParallelOperationCreateImpl and DestroyImpl, called by an idle     *)
(* thread; an operation with an unfinished build is not destroyed.          *)
(***************************************************************************)
Create(t, o) ==
  /\ call[t] = Idle
  /\ object[o] = "none"
  /\ object' = [object EXCEPT ![o] = "live"]
  /\ inUse' = [inUse EXCEPT ![o] = FALSE]
  /\ errorCode' = [errorCode EXCEPT ![o] = Success]
  /\ UNCHANGED <<builds, task, call, stack, answers>>

Destroy(t, o) ==
  /\ call[t] = Idle
  /\ object[o] = "live"
  /\ Quiet(o)
  /\ UnfinishedBuilds(o) = {}
  /\ object' = [object EXCEPT ![o] = "gone"]
  /\ UNCHANGED <<inUse, errorCode, builds, task, call, stack, answers>>

(***************************************************************************)
(* zeRTASBuilderBuildImpl with a parallel operation. A call that finds the  *)
(* operation in use returns ERROR_HANDLE_OBJECT_IN_USE and changes nothing. *)
(* The test and the store are separate accesses of the atomic.              *)
(***************************************************************************)
CallBuild(t, o) ==
  /\ call[t] = Idle
  /\ MayBuild(o)
  /\ builds[o] < MaxBuilds
  /\ ~inUse[o]
  /\ call' = [call EXCEPT ![t] = [at |-> "bind", op |-> o, build |-> 0]]
  /\ UNCHANGED <<object, inUse, errorCode, builds, task, stack, answers>>

Bind(t) ==
  /\ call[t].at = "bind"
  /\ inUse' = [inUse EXCEPT ![call[t].op] = TRUE]
  /\ call' = [call EXCEPT ![t].at = "spawn"]
  /\ UNCHANGED <<object, errorCode, builds, task, stack, answers>>

(* Concurrent builds that passed the test are cut off at MaxBuilds.         *)
Spawn(t) ==
  /\ call[t].at = "spawn"
  /\ LET o == call[t].op
         b == builds[o] + 1
     IN /\ b <= MaxBuilds
        /\ builds' = [builds EXCEPT ![o] = b]
        /\ task' = [task EXCEPT ![o][b] = "pending"]
  /\ call' = [call EXCEPT ![t] = Idle]
  /\ UNCHANGED <<object, inUse, errorCode, stack, answers>>

(***************************************************************************)
(* A build without a parallel operation runs in the calling thread, inside  *)
(* g_arena; while it waits for its own subtasks it may pick up others.      *)
(***************************************************************************)
CallDirect(t) ==
  /\ call[t] = Idle
  /\ call' = [call EXCEPT ![t] = [at |-> "direct", op |-> NoOp, build |-> 0]]
  /\ UNCHANGED <<object, inUse, errorCode, builds, task, stack, answers>>

ReturnDirect(t) ==
  /\ call[t].at = "direct"
  /\ stack[t] = <<>>
  /\ call' = [call EXCEPT ![t] = Idle]
  /\ UNCHANGED <<object, inUse, errorCode, builds, task, stack, answers>>

(***************************************************************************)
(* The tasks. A thread that waits in the arena takes a task that nobody     *)
(* runs; when the build is complete its code is stored into the operation.  *)
(***************************************************************************)
MutPickTaskWorkers(t, o, b) ==
  /\ call[t].at = "direct"
  /\ task[o][b] = "pending"
  /\ task' = [task EXCEPT ![o][b] = "running"]
  /\ stack' = [stack EXCEPT ![t] = Append(@, <<o, b>>)]
  /\ UNCHANGED <<object, inUse, errorCode, builds, call, answers>>

PickTask(t, o, b) ==
  /\ call[t].at \in {"wait", "direct"}
  /\ task[o][b] = "pending"
  /\ task' = [task EXCEPT ![o][b] = "running"]
  /\ stack' = [stack EXCEPT ![t] = Append(@, <<o, b>>)]
  /\ UNCHANGED <<object, inUse, errorCode, builds, call, answers>>

MutFinishTask(t, c) ==
  /\ stack[t] # <<>>
  /\ LET o == stack[t][Len(stack[t])][1]
         b == stack[t][Len(stack[t])][2]
     IN task' = [task EXCEPT ![o][b] = c]
  /\ stack' = [stack EXCEPT ![t] = SubSeq(@, 1, Len(@) - 1)]
  /\ UNCHANGED <<object, inUse, errorCode, builds, call, answers>>

FinishTask(t, c) ==
  /\ stack[t] # <<>>
  /\ LET o == stack[t][Len(stack[t])][1]
         b == stack[t][Len(stack[t])][2]
     IN /\ task' = [task EXCEPT ![o][b] = c]
        /\ errorCode' = [errorCode EXCEPT ![o] = c]
  /\ stack' = [stack EXCEPT ![t] = SubSeq(@, 1, Len(@) - 1)]
  /\ UNCHANGED <<object, inUse, builds, call, answers>>

(***************************************************************************)
(* zeRTASParallelOperationJoinImpl.                                         *)
(***************************************************************************)
CallJoin(t, o) ==
  /\ call[t] = Idle
  /\ MayJoin(o)
  /\ call' = [call EXCEPT ![t] = [at |-> "wait", op |-> o, build |-> builds[o]]]
  /\ UNCHANGED <<object, inUse, errorCode, builds, task, stack, answers>>

MutGroupEmpty(o) == \A b \in BuildIds : task[o][b] # "pending"

GroupEmpty(o) == UnfinishedBuilds(o) = {}

LeaveWait(t) ==
  /\ call[t].at = "wait"
  /\ stack[t] = <<>>
  /\ GroupEmpty(call[t].op)
  /\ call' = [call EXCEPT ![t].at = "clear"]
  /\ UNCHANGED <<object, inUse, errorCode, builds, task, stack, answers>>

Clear(t) ==
  /\ call[t].at = "clear"
  /\ inUse' = [inUse EXCEPT ![call[t].op] = FALSE]
  /\ call' = [call EXCEPT ![t].at = "read"]
  /\ UNCHANGED <<object, errorCode, builds, task, stack, answers>>

ReadCode(t) ==
  /\ call[t].at = "read"
  /\ LET o == call[t].op
     IN answers' = [answers EXCEPT ![o][call[t].build] = @ \union {errorCode[o]}]
  /\ call' = [call EXCEPT ![t] = Idle]
  /\ UNCHANGED <<object, inUse, errorCode, builds, task, stack>>

(* What a thread does by itself once the application has called.            *)
ThreadStep(t) ==
  \/ Bind(t) \/ Spawn(t) \/ ReturnDirect(t)
  \/ \E o \in Ops, b \in BuildIds : PickTask(t, o, b)
  \/ \E c \in Codes : FinishTask(t, c)
  \/ LeaveWait(t) \/ Clear(t) \/ ReadCode(t)

AppCall(t) ==
  \/ CallDirect(t)
  \/ \E o \in Ops : Create(t, o) \/ Destroy(t, o) \/ CallBuild(t, o) \/ CallJoin(t, o)

Next == \E t \in Threads : ThreadStep(t) \/ AppCall(t)

Spec == Init /\ [][Next]_vars

(* The operating system schedules every thread, and every build ends        *)
(* (TreeBuild). Nothing is assumed of when the application calls.           *)
FairSpec == Spec /\ \A t \in Threads : WF_vars(ThreadStep(t))

------------------------------------------------------------------------------
(* Types. An operation that the application may use has a code to return    *)
(* even before the first build (the member initializers of the struct), and *)
(* a thread only runs tasks while it waits in the arena.                    *)
TypeOK ==
  /\ object \in [Ops -> {"none", "live", "gone"}]
  /\ inUse \in [Ops -> BOOLEAN]
  /\ errorCode \in [Ops -> Codes \union {NoCode}]
  /\ builds \in [Ops -> 0 .. MaxBuilds]
  /\ task \in [Ops -> [BuildIds -> Codes \union Unfinished \union {NoCode}]]
  /\ call \in [Threads -> [at : {"idle", "bind", "spawn", "direct", "wait", "clear", "read"},
                           op : Ops \union {NoOp}, build : 0 .. MaxBuilds]]
  /\ stack \in [Threads -> Seq(Tasks)]
  /\ answers \in [Ops -> [BuildIds -> SUBSET (Codes \union {NoCode})]]
  /\ \A o \in Ops : object[o] # "none" => errorCode[o] # NoCode

(* Every thread that joins a build returns the code of that build: the      *)
(* joins of one build agree, none answers before the build is complete, and *)
(* none returns the code of an earlier or later build on the operation,     *)
(* although the code is read from the operation after the wait.             *)
JoinAnswers == \A o \in Ops, b \in BuildIds : answers[o][b] \subseteq ({task[o][b]} \ Unfinished)

(* "A parallel operation object may only be associated with a single        *)
(* acceleration structure build at a time", and a build on one in use is    *)
(* refused (ze_api.h): no second task enters the group of an operation      *)
(* before the first one is complete. The code breaks it under "racing",     *)
(* since testing and setting object_in_use are two accesses.                *)
OneBuildAtATime ==
  \A o \in Ops, b \in BuildIds : task[o][b] \in Unfinished => UnfinishedBuilds(o) = {b}

(* A join returns: whoever runs the task, and whatever other build the      *)
(* thread that waits has picked up meanwhile, the wait ends.                *)
JoinReturns == \A t \in Threads : call[t].at = "wait" ~> call[t].at = "idle"

(* An ordered application sees what the API promises of an operation: see   *)
(* DeferredBuild. The builds of an operation that are over are forgotten.   *)
Promise == INSTANCE DeferredBuild WITH
  building <- {o \in Ops : UnfinishedBuilds(o) # {}},
  code     <- [o \in Ops |-> IF builds[o] > 0 /\ task[o][builds[o]] \notin Unfinished
                             THEN task[o][builds[o]] ELSE NoCode],
  answers  <- [o \in Ops |-> IF builds[o] > 0 THEN answers[o][builds[o]] ELSE {}]

PromiseKept == Promise!Spec
==============================================================================
