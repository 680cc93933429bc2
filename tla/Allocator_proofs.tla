-------------------------- MODULE Allocator_proofs --------------------------
(***************************************************************************)
(* Theorems about Allocator: for every set of threads, every buffer size    *)
(* and every set of requests that meets RequestsAssumption, the invariants  *)
(* that MCAllocator checks on a small instance hold, and Allocator          *)
(* implements BlockPool.                                                    *)
(*                                                                          *)
(* The argument: the counter is always a multiple of 64, because every      *)
(* request is. Hence the padding a thread computes is 0 whichever value of  *)
(* the counter it happens to load, and a reservation takes exactly the      *)
(* bytes between the old counter and the new one. All blocks lie below the  *)
(* counter (BlocksCovered), so a new block cannot overlap an old one.       *)
(***************************************************************************)
EXTENDS Allocator, FiniteSetTheorems, TLAPS

(* The inductive invariant.                                                 *)
CurAligned == cur % 64 = 0

LocalsOK ==
  \A t \in Threads : /\ extra[t] = 0
                     /\ pc[t] # Idle => req[t] \in Requests

(* Whoever was refused found the counter at or behind the end, or moved it  *)
(* there; the counter never moves back.                                     *)
RefusedAtEnd == refused => cur >= End

Inv ==
  /\ TypeOK
  /\ CurAligned
  /\ LocalsOK
  /\ BlocksCovered
  /\ BlocksAligned
  /\ BlocksDisjoint
  /\ RefusedAtEnd

------------------------------------------------------------------------------
(* The padding of an aligned counter is 0 for both alignments in use.       *)
LEMMA PaddingZero ==
  ASSUME NEW c \in Nat, c % 64 = 0, NEW align \in {16, 64}
  PROVE  Padding(align, c) = 0
BY DEF Padding

(* What a request is, in a form the provers use.                            *)
LEMMA RequestType ==
  ASSUME NEW r \in Requests
  PROVE  /\ r.bytes \in Nat
         /\ r.bytes >= 1
         /\ r.bytes <= MaxBytes
         /\ r.bytes % 64 = 0
         /\ r.align \in {16, 64}
BY RequestsAssumption

(* Everything the builder asks for meets the assumption on Requests.        *)
THEOREM BuilderRequestsMultiple ==
  \A r \in BuilderRequests :
    /\ r \in [bytes : 1 .. 768, align : {16, 64}]
    /\ r.bytes % 64 = 0
BY DEF BuilderRequests, Request, HeaderBytes, NodeBytes, QuadBytes,
       ProceduralBytes, InstanceBytes

LEMMA InitInv == Init => Inv
<1> SUFFICES ASSUME Init PROVE Inv
  OBVIOUS
<1> USE DEF Init
<1>1. TypeOK
  <2>1. refused \in BOOLEAN
    OBVIOUS
  <2>2. /\ cur \in Nat
        /\ pc \in [Threads -> {Idle, "checked", "padded"}]
        /\ req \in [Threads -> Requests \union {NoRequest}]
        /\ extra \in [Threads -> 0 .. 63]
        /\ result \in [Threads -> Nat \union {NullPtr}]
        /\ blocks \subseteq Block
    OBVIOUS
  <2>. QED  BY <2>1, <2>2 DEF TypeOK
<1>2. CurAligned
  BY DEF CurAligned
<1>3. LocalsOK /\ RefusedAtEnd
  BY DEF LocalsOK, RefusedAtEnd
<1>4. BlocksCovered /\ BlocksAligned /\ BlocksDisjoint
  BY DEF BlocksCovered, BlocksAligned, BlocksDisjoint
<1>. QED  BY <1>1, <1>2, <1>3, <1>4 DEF Inv

LEMMA BeginMallocInv ==
  ASSUME Inv, NEW t \in Threads, NEW r \in Requests, BeginMalloc(t, r)
  PROVE  Inv'
<1> USE DEF Inv, TypeOK
<1>1. TypeOK' /\ LocalsOK'
  BY DEF BeginMalloc, LocalsOK, Idle, NullPtr
<1>2. CurAligned' /\ BlocksCovered' /\ BlocksAligned' /\ BlocksDisjoint'
  BY DEF BeginMalloc, CurAligned, BlocksCovered, BlocksAligned,
         BlocksDisjoint, Disjoint
<1>3. RefusedAtEnd'
  BY DEF BeginMalloc, RefusedAtEnd
<1>. QED  BY <1>1, <1>2, <1>3

LEMMA ReadCurInv ==
  ASSUME Inv, NEW t \in Threads, ReadCur(t)
  PROVE  Inv'
<1> USE DEF Inv, TypeOK
<1>1. Padding(req[t].align, cur) = 0
  BY PaddingZero, RequestType DEF ReadCur, LocalsOK, CurAligned, Idle
<1>2. TypeOK' /\ LocalsOK'
  BY <1>1 DEF ReadCur, LocalsOK, Idle
<1>3. CurAligned' /\ BlocksCovered' /\ BlocksAligned' /\ BlocksDisjoint'
      /\ RefusedAtEnd'
  BY DEF ReadCur, CurAligned, BlocksCovered, BlocksAligned,
         BlocksDisjoint, Disjoint, RefusedAtEnd
<1>. QED  BY <1>2, <1>3

LEMMA FetchAddInv ==
  ASSUME Inv, NEW t \in Threads, FetchAdd(t)
  PROVE  Inv'
<1> USE DEF Inv, TypeOK
<1> DEFINE b == [start |-> cur, bytes |-> req[t].bytes]
<1>1. /\ req[t] \in Requests
      /\ extra[t] = 0
  BY DEF FetchAdd, LocalsOK, Idle
<1>2. /\ req[t].bytes \in 1 .. MaxBytes
      /\ MaxBytes \in Nat
      /\ req[t].bytes % 64 = 0
  BY <1>1, RequestType, RequestsAssumption
<1>3. /\ cur' = cur + req[t].bytes
      /\ cur' \in Nat
      /\ cur' > cur
      /\ cur' % 64 = 0
  BY <1>1, <1>2 DEF FetchAdd, CurAligned
<1>4. \/ /\ cur' >= End
         /\ blocks' = blocks
      \/ /\ ~(cur' >= End)
         /\ blocks' = blocks \union {b}
         /\ Return(t, cur)
  <2>1. cur' = cur + extra[t] + req[t].bytes /\ cur + extra[t] = cur
    BY <1>1, <1>2 DEF FetchAdd
  <2>. QED  BY <2>1 DEF FetchAdd
<1>5. b \in Block
  BY <1>2 DEF Block
<1>6. TypeOK' /\ LocalsOK'
  <2> refused' \in BOOLEAN
    BY DEF FetchAdd, Return
  <2>1. /\ pc' = [pc EXCEPT ![t] = Idle]
        /\ req' = [req EXCEPT ![t] = NoRequest]
        /\ extra' = [extra EXCEPT ![t] = 0]
        /\ \E p \in Nat \union {NullPtr} : result' = [result EXCEPT ![t] = p]
    BY <1>1, <1>2 DEF FetchAdd, Return, NullPtr
  <2>2. blocks' \subseteq Block
    BY <1>4, <1>5
  <2>. QED  BY <2>1, <2>2, <1>3 DEF LocalsOK, Idle
<1>7. CurAligned'
  BY <1>3 DEF CurAligned
<1>8. BlocksCovered'
  BY <1>2, <1>3, <1>4, EndAssumption DEF BlocksCovered, Block
<1>9. BlocksAligned'
  BY <1>4 DEF BlocksAligned, CurAligned
<1>10. BlocksDisjoint'
  <2>1. \A c \in blocks : Disjoint(b, c) /\ Disjoint(c, b)
    BY <1>2, <1>5 DEF BlocksCovered, Disjoint, Block
  <2>. QED  BY <2>1, <1>4 DEF BlocksDisjoint, Disjoint
<1>11. RefusedAtEnd'
  <2>1. CASE cur' >= End
    BY <2>1 DEF RefusedAtEnd
  <2>2. CASE ~(cur' >= End)
    <3>1. cur # NullPtr
      BY DEF NullPtr
    <3>2. refused' <=> refused
      BY <1>4, <2>2, <3>1 DEF Return
    <3>. QED  BY <1>3, <2>2, <3>2, EndAssumption DEF RefusedAtEnd
  <2>. QED  BY <2>1, <2>2
<1>. QED  BY <1>6, <1>7, <1>8, <1>9, <1>10, <1>11

LEMMA StutterInv == Inv /\ UNCHANGED vars => Inv'
BY DEF vars, Inv, TypeOK, CurAligned, LocalsOK, BlocksCovered, BlocksAligned,
       BlocksDisjoint, Disjoint, RefusedAtEnd

LEMMA NextInv == Inv /\ [Next]_vars => Inv'
BY BeginMallocInv, ReadCurInv, FetchAddInv, StutterInv DEF Next, Malloc

(* Inv is an invariant of the allocator.                                    *)
THEOREM InvHolds == Spec => []Inv
BY InitInv, NextInv, PTL DEF Spec

------------------------------------------------------------------------------
(* Type correctness.                                                        *)
THEOREM TypeCorrect == Spec => []TypeOK
<1>1. Inv => TypeOK
  BY DEF Inv
<1>. QED  BY <1>1, InvHolds, PTL

(* No two calls of malloc are ever given overlapping memory, every block    *)
(* lies in the buffer and below what bytesAllocated() reports, and every    *)
(* block is aligned to 64 bytes, whatever value of the counter the padding  *)
(* was computed from.                                                       *)
THEOREM Soundness == Spec => []BlocksSound
<1>1. Inv => BlocksSound
  BY DEF Inv, BlocksSound
<1>. QED  BY <1>1, InvHolds, PTL

------------------------------------------------------------------------------
(* The allocator implements the block pool: blocks never overlap, never     *)
(* reach the end of the buffer, have a size that was asked for, and none is *)
(* handed out after a refusal.                                              *)
LEMMA InitPool == Init => Pool!Init
BY DEF Init, Pool!Init

LEMMA NextPool ==
  ASSUME Inv, [Next]_vars
  PROVE  [Pool!Next]_(Pool!poolVars)
<1> USE DEF Pool!poolVars
<1>1. ASSUME NEW t \in Threads, NEW r \in Requests, BeginMalloc(t, r)
      PROVE  [Pool!Next]_(Pool!poolVars)
  <2>1. CASE cur >= End
    BY <1>1, <2>1 DEF BeginMalloc, Pool!Next, Pool!Refuse
  <2>2. CASE ~(cur >= End)
    BY <1>1, <2>2 DEF BeginMalloc
  <2>. QED  BY <2>1, <2>2
<1>2. ASSUME NEW t \in Threads, ReadCur(t)
      PROVE  [Pool!Next]_(Pool!poolVars)
  BY <1>2 DEF ReadCur
<1>3. ASSUME NEW t \in Threads, FetchAdd(t)
      PROVE  [Pool!Next]_(Pool!poolVars)
  <2> DEFINE b == [start |-> cur, bytes |-> req[t].bytes]
  <2>1. /\ cur \in Nat
        /\ req[t] \in Requests
        /\ extra[t] = 0
        /\ pc[t] = "padded"
    BY <1>3 DEF FetchAdd, Inv, TypeOK, LocalsOK, Idle
  <2>2. req[t].bytes \in Nat /\ MaxBytes \in Nat
    BY <2>1, RequestType, RequestsAssumption
  <2>3. cur + extra[t] = cur /\ cur' = cur + req[t].bytes
    BY <1>3, <2>1, <2>2 DEF FetchAdd
  <2>4. CASE cur' >= End
    <3>1. blocks' = blocks /\ Return(t, NullPtr)
      BY <1>3, <2>3, <2>4 DEF FetchAdd
    <3>2. refused' = TRUE
      BY <3>1 DEF Return
    <3>. QED  BY <3>1, <3>2 DEF Pool!Next, Pool!Refuse
  <2>5. CASE ~(cur' >= End)
    <3>1. blocks' = blocks \union {b} /\ Return(t, cur)
      BY <1>3, <2>3, <2>5 DEF FetchAdd
    <3>2. ~refused
      BY <2>1, <2>2, <2>3, <2>5, EndAssumption DEF Inv, RefusedAtEnd
    <3>3. cur # NullPtr
      BY <2>1 DEF NullPtr
    <3>4. refused' = refused
      BY <3>1, <3>2, <3>3 DEF Return, Inv, TypeOK
    <3>5. b.start + b.bytes < End /\ b.start \in Nat
      BY <2>1, <2>2, <2>3, <2>5, EndAssumption
    <3>6. \A c \in blocks : Pool!Disjoint(b, c)
      BY <2>1, <2>2 DEF Inv, TypeOK, BlocksCovered, Block, Pool!Disjoint
    <3>7. \E r \in Requests : b = [start |-> b.start, bytes |-> r.bytes]
      BY <2>1
    <3>8. b \in blocks'
      BY <3>1
    <3>. QED  BY <3>1, <3>2, <3>4, <3>5, <3>6, <3>7, <3>8
              DEF Pool!Next, Pool!Give
  <2>. QED  BY <2>4, <2>5
<1>4. CASE UNCHANGED vars
  BY <1>4 DEF vars
<1>. QED  BY <1>1, <1>2, <1>3, <1>4 DEF Next, Malloc

(* Refinement of BlockPool.                                                 *)
THEOREM ImplementsPool == Spec => PoolSpec
BY InitPool, NextPool, InvHolds, PTL DEF Spec, PoolSpec, Pool!Spec

------------------------------------------------------------------------------
(* The overshoot of the counter. Every call between its check and its       *)
(* fetch_add stands for one request that may still be added; the bound      *)
(* charges each thread for at most one.                                     *)
LEMMA InFlightSize ==
  /\ IsFiniteSet(InFlight)
  /\ Cardinality(InFlight) \in Nat
  /\ Cardinality(Threads) \in Nat
  /\ Cardinality(InFlight) <= Cardinality(Threads)
<1>1. InFlight \subseteq Threads
  BY DEF InFlight
<1>. QED  BY <1>1, ThreadsAssumption, FS_Subset, FS_CardinalityType

LEMMA OvershootInit == Init => Overshoot
<1> SUFFICES ASSUME Init PROVE Overshoot
  OBVIOUS
<1>1. InFlight = {}
  BY DEF Init, InFlight
<1>2. Cardinality(InFlight) = 0 /\ Cardinality(Threads) \in Nat
  BY <1>1, FS_EmptySet, InFlightSize
<1>3. 0 * MaxBytes = 0 /\ Cardinality(Threads) * MaxBytes \in Nat
  BY <1>2, RequestsAssumption
<1>. QED  BY <1>2, <1>3, EndAssumption DEF Init, Overshoot

LEMMA TimesMonotone ==
  ASSUME NEW a \in Nat, NEW b \in Nat, NEW c \in Nat, a <= b
  PROVE  a * c <= b * c
<1> DEFINE d == b - a
<1>1. d \in Nat /\ b = a + d
  OBVIOUS
<1>2. b * c = a * c + d * c /\ d * c \in Nat /\ a * c \in Nat
  BY <1>1
<1>. QED  BY <1>2

LEMMA OvershootNext ==
  ASSUME Inv, Overshoot, [Next]_vars
  PROVE  Overshoot'
<1> DEFINE k == Cardinality(InFlight)
           n == Cardinality(Threads)
<1>1. /\ IsFiniteSet(InFlight) /\ k \in Nat /\ n \in Nat
      /\ IsFiniteSet(InFlight') /\ k' \in Nat /\ k' <= n
  <2>1. InFlight' \subseteq Threads
    BY DEF InFlight
  <2>. QED  BY <2>1, InFlightSize, ThreadsAssumption, FS_Subset,
               FS_CardinalityType
<1>2. MaxBytes \in Nat /\ cur \in Nat /\ End \in Nat
  BY RequestsAssumption, EndAssumption DEF Inv, TypeOK
<1>3. cur + k * MaxBytes <= End + n * MaxBytes
  BY DEF Overshoot
<1>4. ASSUME NEW t \in Threads, NEW r \in Requests, BeginMalloc(t, r)
      PROVE  Overshoot'
  <2>1. CASE cur >= End
    <3>1. InFlight' = InFlight /\ cur' = cur
      BY <1>4, <2>1 DEF BeginMalloc, InFlight
    <3>. QED  BY <3>1 DEF Overshoot
  <2>2. CASE ~(cur >= End)
    <3>1. cur' = cur /\ cur' <= End
      BY <1>2, <1>4, <2>2 DEF BeginMalloc
    <3>2. k' * MaxBytes <= n * MaxBytes
      BY <1>1, <1>2, TimesMonotone
    <3>3. k' * MaxBytes \in Nat /\ n * MaxBytes \in Nat
      BY <1>1, <1>2
    <3>. QED  BY <1>2, <3>1, <3>2, <3>3 DEF Overshoot
  <2>. QED  BY <2>1, <2>2
<1>5. ASSUME NEW t \in Threads, ReadCur(t)
      PROVE  Overshoot'
  <2>1. InFlight' = InFlight /\ cur' = cur
    BY <1>5 DEF ReadCur, InFlight, Inv, TypeOK, Idle
  <2>. QED  BY <2>1 DEF Overshoot
<1>6. ASSUME NEW t \in Threads, FetchAdd(t)
      PROVE  Overshoot'
  <2>1. t \in InFlight /\ InFlight' = InFlight \ {t}
    BY <1>6 DEF FetchAdd, Return, InFlight, Inv, TypeOK, Idle
  <2>2. k' = k - 1
    BY <1>1, <2>1, FS_RemoveElement
  <2>3. req[t] \in Requests /\ extra[t] = 0
    BY <1>6 DEF FetchAdd, Inv, LocalsOK, Idle
  <2>4. req[t].bytes \in Nat /\ req[t].bytes <= MaxBytes
    BY <2>3, RequestType
  <2>5. cur' = cur + req[t].bytes
    BY <1>2, <1>6, <2>3, <2>4 DEF FetchAdd
  <2>6. k * MaxBytes = k' * MaxBytes + MaxBytes /\ k' * MaxBytes \in Nat
        /\ n * MaxBytes \in Nat
    BY <1>1, <1>2, <2>2
  <2>. QED  BY <1>2, <1>3, <2>4, <2>5, <2>6 DEF Overshoot
<1>7. CASE UNCHANGED vars
  BY <1>7 DEF vars, Overshoot, InFlight
<1>. QED  BY <1>4, <1>5, <1>6, <1>7 DEF Next, Malloc

(* Failing calls push the counter past the end by at most one request per   *)
(* thread.                                                                  *)
THEOREM OvershootBounded == Spec => []Overshoot
BY OvershootInit, OvershootNext, InvHolds, PTL DEF Spec
==============================================================================
