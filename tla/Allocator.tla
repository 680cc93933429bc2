------------------------------ MODULE Allocator ------------------------------
(***************************************************************************)
(* QBVH6BuilderSAH::Allocator (rtbuild/qbvh6_builder_sah.h): the lock-free *)
(* bump allocator through which all threads of a build carve nodes and     *)
(* leaves out of the acceleration structure buffer.                        *)
(*                                                                         *)
(*   malloc(bytes, align):                                                 *)
(*     if (cur.load() >= end) return nullptr;             Begin            *)
(*     extra = (align - cur) & (align-1);                 ReadCur          *)
(*     cur_old = cur.fetch_add(bytes + extra);            FetchAdd         *)
(*     if (cur_old + bytes + extra >= end) return nullptr;                 *)
(*     return &ptr[cur_old + extra];                                       *)
(*                                                                         *)
(* Each access to the atomic counter is one step, so that the calls of the *)
(* threads interleave between the check, the computation of the padding    *)
(* and the reservation. Addresses are offsets into the buffer, whose start *)
(* the API requires to be 128-byte aligned.                                *)
(***************************************************************************)
EXTENDS Integers, FiniteSets

CONSTANTS
  Threads,   \* The threads that allocate concurrently.
  End,       \* bytes_in of init(): the size of the buffer.
  Requests   \* The set of requests [bytes, align].

(* The largest request is named by a bound, not computed. *)
CONSTANT MaxBytes

ASSUME ThreadsAssumption == IsFiniteSet(Threads)

ASSUME EndAssumption == End \in Nat

(* Every size the builder asks for is a multiple of the 64 bytes of a node *)
(* (NodeBytes, QuadBytes, ProceduralBytes, InstanceBytes, HeaderBytes),    *)
(* and it asks for 64-byte alignment, or for the default 16 for the header.*)
ASSUME RequestsAssumption ==
  /\ MaxBytes \in Nat
  /\ \A r \in Requests :
       /\ r \in [bytes : 1 .. MaxBytes, align : {16, 64}]
       /\ r.bytes % 64 = 0

(* The result of a malloc that did not succeed. Offsets are never negative. *)
NullPtr == -1

(* The arguments of a thread that is not inside malloc.                     *)
NoRequest == [bytes |-> 0, align |-> 16]

VARIABLES
  cur,     \* The atomic counter: next byte to allocate from.
  pc,      \* pc[t]: where thread t is inside malloc.
  req,     \* req[t]: the arguments of its call.
  extra,   \* extra[t]: the padding it computed.
  result,  \* result[t]: what its last call returned.
  blocks,  \* History: the blocks [start, bytes] that were handed out.
  refused  \* History: TRUE once some call returned nullptr.

vars == <<cur, pc, req, extra, result, blocks, refused>>

Idle == "idle"

------------------------------------------------------------------------------
(* The sizes in bytes of what the builder stores (static_asserts of qbvh6.h *)
(* and leaf.h).                                                             *)
HeaderBytes     == 128
NodeBytes       == 64
QuadBytes       == 64
ProceduralBytes == 64
InstanceBytes   == 128

Request(bytes, align) == [bytes |-> bytes, align |-> align]

(* Everything the builder allocates. There are 1 to 6 children per node,    *)
(* at most 9 quads in a fat leaf and at most 6 procedurals or instances.    *)
BuilderRequests ==
  {Request(HeaderBytes, 16)}
    \union {Request(n * NodeBytes, 64) : n \in 1 .. 6}
    \union {Request(n * QuadBytes, 64) : n \in 1 .. 9}
    \union {Request(n * ProceduralBytes, 64) : n \in 1 .. 6}
    \union {Request(n * InstanceBytes, 64) : n \in 1 .. 6}

------------------------------------------------------------------------------
(***************************************************************************)
(* The definitions named Mut... are not part of the specification. Each is  *)
(* a faulty version of the definition that follows it, and the properties   *)
(* below are known to fail when it takes that definition's place.           *)
(***************************************************************************)
(* The bytes that lead from c to the next multiple of align.               *)
Padding(align, c) == (0 - c) % align

Init ==
  /\ cur = 0
  /\ pc = [t \in Threads |-> Idle]
  /\ req = [t \in Threads |-> NoRequest]
  /\ extra = [t \in Threads |-> 0]
  /\ result = [t \in Threads |-> NullPtr]
  /\ blocks = {}
  /\ refused = FALSE

MutBeginMallocUnchecked(t, r) ==
  /\ pc[t] = Idle
  /\ pc' = [pc EXCEPT ![t] = "checked"]
  /\ req' = [req EXCEPT ![t] = r]
  /\ UNCHANGED <<cur, extra, result, blocks, refused>>

(* A call that finds the counter at or behind the end fails at once.       *)
BeginMalloc(t, r) ==
  /\ pc[t] = Idle
  /\ IF cur >= End
       THEN /\ result' = [result EXCEPT ![t] = NullPtr]
            /\ refused' = TRUE
            /\ UNCHANGED <<pc, req>>
       ELSE /\ pc' = [pc EXCEPT ![t] = "checked"]
            /\ req' = [req EXCEPT ![t] = r]
            /\ UNCHANGED <<result, refused>>
  /\ UNCHANGED <<cur, extra, blocks>>

(* The padding comes from a second load of the counter: another thread may  *)
(* have moved it since the check, and may move it again before FetchAdd.    *)
ReadCur(t) ==
  /\ pc[t] = "checked"
  /\ extra' = [extra EXCEPT ![t] = Padding(req[t].align, cur)]
  /\ pc' = [pc EXCEPT ![t] = "padded"]
  /\ UNCHANGED <<cur, req, result, blocks, refused>>

(* malloc returns p: the locals of the call are gone.                       *)
Return(t, p) ==
  /\ pc' = [pc EXCEPT ![t] = Idle]
  /\ req' = [req EXCEPT ![t] = NoRequest]
  /\ extra' = [extra EXCEPT ![t] = 0]
  /\ result' = [result EXCEPT ![t] = p]
  /\ refused' = (refused \/ p = NullPtr)

MutFetchAddAlignOnly(t) ==
  LET start == cur + extra[t]
  IN /\ pc[t] = "padded"
     /\ cur' = start + req[t].align
     /\ IF cur' >= End
          THEN /\ Return(t, NullPtr)
               /\ UNCHANGED blocks
          ELSE /\ Return(t, start)
               /\ blocks' = blocks \union
                              {[start |-> start, bytes |-> req[t].bytes]}

MutFetchAddRollback(t) ==
  LET start == cur + extra[t]
      cur_new == start + req[t].bytes
  IN /\ pc[t] = "padded"
     /\ IF cur_new >= End
          THEN /\ Return(t, NullPtr)
               /\ UNCHANGED <<cur, blocks>>
          ELSE /\ cur' = cur_new
               /\ Return(t, start)
               /\ blocks' = blocks \union
                              {[start |-> start, bytes |-> req[t].bytes]}

(* A reservation that reaches the end fails, but cur keeps the increment.   *)
FetchAdd(t) ==
  LET start == cur + extra[t]
      cur_new == start + req[t].bytes
  IN /\ pc[t] = "padded"
     /\ cur' = cur_new
     /\ IF cur_new >= End
          THEN /\ Return(t, NullPtr)
               /\ UNCHANGED blocks
          ELSE /\ Return(t, start)
               /\ blocks' = blocks \union
                              {[start |-> start, bytes |-> req[t].bytes]}

Malloc(t) ==
  \/ \E r \in Requests : BeginMalloc(t, r)
  \/ ReadCur(t)
  \/ FetchAdd(t)

Next == \E t \in Threads : Malloc(t)

Spec == Init /\ [][Next]_vars

------------------------------------------------------------------------------
Block == [start : Nat, bytes : 1 .. MaxBytes]

(* Type invariant.                                                          *)
TypeOK ==
  /\ cur \in Nat
  /\ pc \in [Threads -> {Idle, "checked", "padded"}]
  /\ req \in [Threads -> Requests \union {NoRequest}]
  /\ extra \in [Threads -> 0 .. 63]
  /\ result \in [Threads -> Nat \union {NullPtr}]
  /\ blocks \subseteq Block
  /\ refused \in BOOLEAN

Disjoint(b, c) ==
  \/ b.start + b.bytes <= c.start
  \/ c.start + c.bytes <= b.start

(* No two mallocs of any two threads ever return overlapping memory,        *)
(* although the counter moves between the loads and the fetch_add.          *)
BlocksDisjoint == \A b, c \in blocks : b # c => Disjoint(b, c)

(* Every block ends before the end of the buffer and before the counter:    *)
(* what bytesAllocated() reports to the caller as the size of the           *)
(* acceleration structure covers every node and leaf, also while requests   *)
(* that will fail are pushing the counter past the end.                     *)
BlocksCovered ==
  \A b \in blocks : /\ b.start + b.bytes < End
                    /\ b.start + b.bytes <= cur

(* Every block is aligned as its request demands, whatever stale counter    *)
(* value the padding was computed from: nodes are addressed in units of 64  *)
(* bytes (setChildOffset, ReductionTy's 64-byte block counts).              *)
BlocksAligned == \A b \in blocks : b.start % 64 = 0

(* What the builder relies on of every block it is given.                   *)
BlocksSound == BlocksDisjoint /\ BlocksCovered /\ BlocksAligned

(* Failing calls inflate the counter by at most one request per thread: it  *)
(* cannot wrap around a size_t, and with it hand out used memory again,     *)
(* as long as End + |Threads| * MaxBytes does not.                          *)
InFlight == {t \in Threads : pc[t] # Idle}

Overshoot ==
  cur + Cardinality(InFlight) * MaxBytes <= End + Cardinality(Threads) * MaxBytes

(* A refusal is final: when any call of any thread has failed no later call *)
(* succeeds, so a build cannot lose one node and still find room for the    *)
(* rest. With the disjointness of the blocks this is what BlockPool says.   *)
Pool == INSTANCE BlockPool

PoolSpec == Pool!Spec
==============================================================================
