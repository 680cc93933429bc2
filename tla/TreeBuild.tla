------------------------------ MODULE TreeBuild ------------------------------
(***************************************************************************)
(* The parallel construction of the BVH: BuilderT::build and the recursion *)
(* createInternalNode / createLargeLeaf / createFatLeaf (rtbuild/          *)
(* qbvh6_builder_sah.h), on top of Allocator.                              *)
(*                                                                         *)
(* The tree that the split heuristics choose is a constant, the sizes of    *)
(* its leaves and the nodes that lie too deep are inputs. What is           *)
(* modelled is how it is built: every node allocates the block for its      *)
(* children (or for its leaf data), builds its children one after the other *)
(* or, when it is large, in the ranges of a parallel_for, and hands back a  *)
(* valid reduction, or an invalid one when memory ran out; an exception     *)
(* ("BVH too deep") cancels the task groups that it unwinds through. Every  *)
(* node calls malloc at most once, so that nodes are the threads of the     *)
(* allocator.                                                               *)
(*                                                                          *)
(* status[n] is "idle" before n is built, "enter" when its function was     *)
(* called, "malloc" inside malloc, "build" while its children are built,    *)
(* and "valid", "invalid" or "thrown" once it has returned. The children a  *)
(* range leaves out after a failure or an exception are "skipped".          *)
(* Definitions named Mut... are faulty versions of the definition that      *)
(* follows them, with which the properties are known to fail.               *)
(***************************************************************************)
EXTENDS Integers, Sequences, FiniteSets, FiniteSetsExt

CONSTANTS
  Nodes,     \* The nodes of the BVH.
  Root,      \* The root node.
  Children,  \* Children[n]: the sequence of n's children, <<>> for a fat leaf.
  LeafDatas, \* What leafData may be.
  Parallel,  \* The inner nodes with more than 1024 primitives.
  TooDeeps,  \* What tooDeep may be.
  End        \* The size of the acceleration structure buffer.

ChildSet(n) == {Children[n][i] : i \in DOMAIN Children[n]}

Parent(c) == CHOOSE n \in Nodes : c \in ChildSet(n)

Position(c) == CHOOSE i \in DOMAIN Children[Parent(c)] : Children[Parent(c)][i] = c

(* The nodes above n.                                                       *)
Above[n \in Nodes] == IF n = Root THEN {} ELSE {Parent(n)} \union Above[Parent(n)]

NodeBytes == 64
HeaderBytes == 128
NullPtr == -1

(* build() requires the header and the root to fit: assert(roots).          *)
RootOffset == HeaderBytes
FirstFree == HeaderBytes + NodeBytes

Leaves == {n \in Nodes : Children[n] = <<>>}

(* Nine blocks, the largest size of a fat leaf. Quads and procedurals have  *)
(* one block of 64 bytes, instances two.                                    *)
MaxLeafData == 9 * 64

LeafSizes == {bytes \in 1 .. MaxLeafData : bytes % 64 = 0}

(* A tree of which the root is the only root: whoever has it and the       *)
(* children of all it has, has every node.                                  *)
ASSUME TreeAssumption ==
  /\ IsFiniteSet(Nodes) /\ Root \in Nodes
  /\ Children \in [Nodes -> Seq(Nodes)]
  /\ \A n \in Nodes : Len(Children[n]) <= 6 /\ Root \notin ChildSet(n)
  /\ \A m, n \in Nodes : \A i \in DOMAIN Children[m], j \in DOMAIN Children[n] :
       Children[m][i] = Children[n][j] => m = n /\ i = j
  /\ \A c \in Nodes \ {Root} : \E n \in Nodes : c \in ChildSet(n)
  /\ \A S \in SUBSET Nodes :
       Root \in S /\ (\A n \in S : ChildSet(n) \subseteq S) => S = Nodes
  /\ Parallel \subseteq {n \in Nodes : Children[n] # <<>>}
  /\ \A D \in TooDeeps : D \subseteq Nodes \ (Parallel \union {Root})
  /\ \A data \in LeafDatas : data \in [Leaves -> LeafSizes]

ASSUME EndAssumption == End \in Nat /\ End > FirstFree

VARIABLES
  leafData,  \* Input: the bytes of each leaf's quads, procedurals or instances.
  tooDeep,   \* Input: the nodes that are deeper than maxDepth.
  cur, pc, req, extra, result, blocks, refused, \* the allocator's
  status,    \* status[n]: how far the construction of n is.
  starts,    \* starts[n]: the children that begin a range of n's parallel_for.
  success,   \* success[n]: the atomic flag of n's parallel_for.
  cancelled, \* cancelled[n]: an exception left a range of n's parallel_for.
  answer,    \* What zeRTASBuilderBuildBody returns, "none" before.
  bytesOut   \* *accelBufferBytesOut, 0 before the build succeeded.

inputs == <<leafData, tooDeep>>
allocVars == <<cur, pc, req, extra, result, blocks, refused>>
vars == <<inputs, allocVars, status, starts, success, cancelled, answer, bytesOut>>

(* The argument of n's call of malloc.                                      *)
BytesOf(n) ==
  IF Children[n] = <<>> THEN leafData[n] ELSE Len(Children[n]) * NodeBytes

MutRequestOfNodesOnly(n) ==
  [bytes |-> Len(Children[n]) * NodeBytes, align |-> 64]

RequestOf(n) == [bytes |-> BytesOf(n), align |-> 64]

Alloc == INSTANCE Allocator
  WITH Threads <- Nodes,
       Requests <- [bytes : LeafSizes, align : {64}],
       MaxBytes <- MaxLeafData

Active == {"enter", "malloc", "build"}
Returned == {"valid", "invalid", "thrown"}

------------------------------------------------------------------------------
(* allocator.init(accel,bytes), the mallocs of the header and of the root,  *)
(* and the call of createInternalNode for the root.                         *)
Init ==
  /\ leafData \in LeafDatas
  /\ tooDeep \in TooDeeps
  /\ cur = FirstFree
  /\ pc = [n \in Nodes |-> "idle"]
  /\ req = [n \in Nodes |-> Alloc!NoRequest]
  /\ extra = [n \in Nodes |-> 0]
  /\ result = [n \in Nodes |-> NullPtr]
  /\ blocks = {[start |-> 0, bytes |-> HeaderBytes],
               [start |-> RootOffset, bytes |-> NodeBytes]}
  /\ refused = FALSE
  /\ status = [n \in Nodes |-> IF n = Root THEN "enter" ELSE "idle"]
  /\ starts = [n \in Nodes |-> {}]
  /\ success = [n \in Nodes |-> TRUE]
  /\ cancelled = [n \in Nodes |-> FALSE]
  /\ answer = "none"
  /\ bytesOut = 0

SetStatus(n, s) == status' = [status EXCEPT ![n] = s]

(* createLargeLeaf and createFatLeaf refuse to go deeper than maxDepth.     *)
Throw(n) ==
  /\ status[n] = "enter"
  /\ n \in tooDeep
  /\ SetStatus(n, "thrown")
  /\ UNCHANGED <<inputs, allocVars, starts, success, cancelled, answer, bytesOut>>

(* allocator.malloc finds the buffer full at its first look.                *)
Allocate(n) ==
  /\ status[n] = "enter"
  /\ n \notin tooDeep
  /\ Alloc!BeginMalloc(n, RequestOf(n))
  /\ SetStatus(n, IF cur >= End THEN "invalid" ELSE "malloc")
  /\ UNCHANGED <<inputs, starts, success, cancelled, answer, bytesOut>>

ReadCur(n) ==
  /\ status[n] = "malloc"
  /\ Alloc!ReadCur(n)
  /\ UNCHANGED <<inputs, status, starts, success, cancelled, answer, bytesOut>>

(* The ranges into which parallel_for may cut the children of n: any set of *)
(* first elements. A small node handles all children in one range.          *)
RangesOf(n) ==
  IF n \in Parallel
    THEN {S \in SUBSET DOMAIN Children[n] : 1 \in S}
    ELSE {{1}}

(* With memory for it a leaf is written at once, and an inner node starts   *)
(* to build its children.                                                   *)
Reserve(n) ==
  /\ status[n] = "malloc"
  /\ Alloc!FetchAdd(n)
  /\ \/ /\ result'[n] = NullPtr
        /\ SetStatus(n, "invalid")
        /\ UNCHANGED starts
     \/ /\ result'[n] # NullPtr
        /\ Children[n] = <<>>
        /\ SetStatus(n, "valid")
        /\ UNCHANGED starts
     \/ /\ result'[n] # NullPtr
        /\ Children[n] # <<>>
        /\ SetStatus(n, "build")
        /\ \E S \in RangesOf(n) : starts' = [starts EXCEPT ![n] = S]
  /\ UNCHANGED <<inputs, success, cancelled, answer, bytesOut>>

------------------------------------------------------------------------------
(* The i-th child of n and the children after it in the same range.         *)
Child(n, i) == Children[n][i]

Rest(n, i) ==
  {j \in i .. Len(Children[n]) : \A k \in (i + 1) .. j : k \notin starts[n]}

(* The status when the children J of n are never built.                     *)
Skip(n, J) ==
  status' = [c \in Nodes |->
               IF \E j \in J : c = Child(n, j) THEN "skipped" ELSE status[c]]

(* n's task group, or one that it is nested in, was cancelled.              *)
IsCancelled(n) == \E p \in Nodes : cancelled[p] /\ p \in {n} \union Above[n]

MutStartRangeWaiting(n, i) ==
  /\ status[n] = "build"
  /\ i \in starts[n]
  /\ status[Child(n, i)] = "idle"
  /\ success[n]
  /\ SetStatus(Child(n, i), "enter")
  /\ UNCHANGED <<inputs, allocVars, starts, success, cancelled, answer, bytesOut>>

(* The body of a range: if (!success) return, else build the first child.   *)
StartRange(n, i) ==
  /\ status[n] = "build"
  /\ i \in starts[n]
  /\ status[Child(n, i)] = "idle"
  /\ IF success[n]
       THEN SetStatus(Child(n, i), "enter")
       ELSE Skip(n, Rest(n, i))
  /\ UNCHANGED <<inputs, allocVars, starts, success, cancelled, answer, bytesOut>>

(* The scheduler drops ranges of a cancelled group that have not started.   *)
DropRange(n, i) ==
  /\ status[n] = "build"
  /\ n \in Parallel
  /\ i \in starts[n]
  /\ status[Child(n, i)] = "idle"
  /\ IsCancelled(n)
  /\ Skip(n, Rest(n, i))
  /\ UNCHANGED <<inputs, allocVars, starts, success, cancelled, answer, bytesOut>>

(* The loop goes on to the next child of the range.                         *)
NextChild(n, i) ==
  /\ status[n] = "build"
  /\ i \notin starts[n]
  /\ status[Child(n, i)] = "idle"
  /\ status[Child(n, i - 1)] = "valid"
  /\ SetStatus(Child(n, i), "enter")
  /\ UNCHANGED <<inputs, allocVars, starts, success, cancelled, answer, bytesOut>>

(* if (!values[i].valid()) { success = false; return; }                     *)
FailRange(n, i) ==
  /\ status[n] = "build"
  /\ status[Child(n, i)] = "invalid"
  /\ success[n] \/ \E j \in Rest(n, i) : status[Child(n, j)] = "idle"
  /\ success' = [success EXCEPT ![n] = FALSE]
  /\ Skip(n, Rest(n, i) \ {i})
  /\ UNCHANGED <<inputs, allocVars, starts, cancelled, answer, bytesOut>>

MutThrowRangeAsFailure(n, i) ==
  /\ status[n] = "build"
  /\ status[Child(n, i)] = "thrown"
  /\ success[n]
  /\ success' = [success EXCEPT ![n] = FALSE]
  /\ status' = [c \in Nodes |-> IF c \in ChildSet(n) /\ status[c] = "thrown"
                                THEN "invalid" ELSE status[c]]
  /\ UNCHANGED <<inputs, allocVars, starts, cancelled, answer, bytesOut>>

(* An exception leaves the body of a range and cancels the task group.      *)
ThrowRange(n, i) ==
  /\ status[n] = "build"
  /\ n \in Parallel
  /\ status[Child(n, i)] = "thrown"
  /\ ~cancelled[n] \/ \E j \in Rest(n, i) : status[Child(n, j)] = "idle"
  /\ cancelled' = [cancelled EXCEPT ![n] = TRUE]
  /\ Skip(n, Rest(n, i) \ {i})
  /\ UNCHANGED <<inputs, allocVars, starts, success, answer, bytesOut>>

(* An exception passes through a node that builds its children itself.      *)
Unwind(n, i) ==
  /\ status[n] = "build"
  /\ n \notin Parallel
  /\ status[Child(n, i)] = "thrown"
  /\ SetStatus(n, "thrown")
  /\ UNCHANGED <<inputs, allocVars, starts, success, cancelled, answer, bytesOut>>

(* Every range of n has ended, and what it found has been recorded.         *)
RangesDone(n) ==
  \A i \in DOMAIN Children[n] :
    /\ status[Child(n, i)] \in Returned \union {"skipped"}
    /\ status[Child(n, i)] = "invalid" => ~success[n]
    /\ status[Child(n, i)] = "thrown" => cancelled[n]

MutJoinIgnoringCancel(n) ==
  /\ status[n] = "build"
  /\ RangesDone(n)
  /\ SetStatus(n, IF cancelled[n] THEN "thrown"
                  ELSE IF success[n] THEN "valid" ELSE "invalid")
  /\ UNCHANGED <<inputs, allocVars, starts, success, cancelled, answer, bytesOut>>

MutJoinEarly(n) ==
  /\ status[n] = "build"
  /\ \/ RangesDone(n)
     \/ ~success[n]
  /\ SetStatus(n, IF IsCancelled(n) THEN "thrown"
                  ELSE IF success[n] THEN "valid" ELSE "invalid")
  /\ UNCHANGED <<inputs, allocVars, starts, success, cancelled, answer, bytesOut>>

(* parallel_for has returned: it throws if its group was cancelled, else    *)
(* if (!success) return ReductionTy(), else setNode.                        *)
JoinChildren(n) ==
  /\ status[n] = "build"
  /\ RangesDone(n)
  /\ SetStatus(n, IF n \in Parallel /\ IsCancelled(n) THEN "thrown"
                  ELSE IF success[n] THEN "valid" ELSE "invalid")
  /\ UNCHANGED <<inputs, allocVars, starts, success, cancelled, answer, bytesOut>>

------------------------------------------------------------------------------
(* The end of build and of zeRTASBuilderBuildBody: on success the size of   *)
(* the acceleration structure is what the allocator handed out.             *)
Finish ==
  /\ answer = "none"
  /\ \/ /\ status[Root] = "valid"
        /\ answer' = "SUCCESS"
        /\ bytesOut' = cur
     \/ /\ status[Root] = "invalid"
        /\ answer' = "RETRY"
        /\ UNCHANGED bytesOut
     \/ /\ status[Root] = "thrown"
        /\ answer' = "UNKNOWN"
        /\ UNCHANGED bytesOut
  /\ UNCHANGED <<inputs, allocVars, status, starts, success, cancelled>>

NodeStep(n) ==
  \/ Throw(n)
  \/ Allocate(n)
  \/ ReadCur(n)
  \/ Reserve(n)
  \/ JoinChildren(n)
  \/ \E i \in DOMAIN Children[n] :
       \/ StartRange(n, i)
       \/ DropRange(n, i)
       \/ NextChild(n, i)
       \/ FailRange(n, i)
       \/ ThrowRange(n, i)
       \/ Unwind(n, i)

Next == Finish \/ \E n \in Nodes : NodeStep(n)

Spec == Init /\ [][Next]_vars

(* The threads that joined the operation execute tasks while there are any. *)
FairSpec == Spec /\ WF_vars(Next)

------------------------------------------------------------------------------
(* A node that is handed back as valid has nothing but valid children: no   *)
(* order of failures, skipped ranges and cancelled groups lets a parent     *)
(* refer to a child that was never written.                                 *)
ValidComplete ==
  \A n \in Nodes : status[n] = "valid" =>
                     \A c \in ChildSet(n) : status[c] = "valid"

(* While a node is under construction its parent waits for it: the tasks of *)
(* a parallel_for use the children and values arrays in the stack frame of  *)
(* the call that spawned them.                                              *)
NoOrphans ==
  \A n \in Nodes \ {Root} : status[n] \in Active => status[Parent(n)] = "build"

(* What a node occupies: its 64 bytes in the block of its parent and, for a *)
(* leaf, its data.                                                          *)
Offset(n) ==
  IF n = Root THEN RootOffset
              ELSE result[Parent(n)] + (Position(n) - 1) * NodeBytes

Footprints ==
  {[of |-> n, start |-> Offset(n), bytes |-> NodeBytes] : n \in Nodes}
    \union {[of |-> n, start |-> result[n], bytes |-> leafData[n]] :
              n \in {m \in Nodes : Children[m] = <<>>}}

(* A successful build has written every node and all leaf data, each at a   *)
(* place of its own behind the header, inside the buffer and inside the     *)
(* size that it reports; nothing moves any more once it has answered.       *)
SuccessLayout ==
  answer = "SUCCESS" =>
    /\ \A n \in Nodes : status[n] = "valid"
    /\ bytesOut = cur
    /\ bytesOut < End
    /\ \A f \in Footprints : /\ f.start >= HeaderBytes
                             /\ f.start + f.bytes <= bytesOut
    /\ \A f, g \in Footprints : f # g => Alloc!Disjoint(f, g)

(* The caller is told to retry with a larger buffer only when this one is   *)
(* too small for the tree: concurrency loses no byte of it, and neither a   *)
(* skipped range nor an exception is taken for a lack of memory. It is told *)
(* of an unknown error only when the tree is too deep.                      *)
BytesNeeded == FirstFree + SumFunctionOnSet([n \in Nodes |-> BytesOf(n)], Nodes)

AnswerJustified ==
  /\ answer = "RETRY" => refused /\ BytesNeeded >= End
  /\ answer = "UNKNOWN" => tooDeep # {}

(* The build always comes to an end: no failure leaves a task waiting for a *)
(* child that nobody will start.                                            *)
Terminates == <>(answer # "none")
==============================================================================
