----------------------------- MODULE Calls_proofs -----------------------------
(***************************************************************************)
(* The calls of the library: of the wrapper for every number of threads and *)
(* calls, every loader and every list of functions; of a device for every   *)
(* chain of structures; of a builder for every array of geometries, of any  *)
(* length, with primitives and vertex counts of any size, and every order   *)
(* of the tasks.                                                            *)
(*                                                                          *)
(* That no null pointer is called holds without further assumptions. That   *)
(* the table is that of the mode, between selections and until one of them  *)
(* stops half way, is a property of programs that use one API, which the    *)
(* internal builder has completely. What a build answers holds whatever     *)
(* stops the builder: memory, a tree too deep, or the size of the buffer.   *)
(***************************************************************************)
EXTENDS MCZeWrapper, SequenceTheorems, TLAPS

States == {"idle", "init", "lookup", "select", "probe", "install", "invoke", "invoked", "refused"}

Homes == {"null", "loader", "internal"}

Jobs == [symbol : AllSymbols \union {<<"BASE", "">>}, api : AllApis \union {"BASE"},
         mode : Modes \union {"INVALID"}, next : Nat, promised : BOOLEAN,
         reached : Homes \union {"none"}]

TypeOK ==
  /\ failed \in BOOLEAN /\ handle \in BOOLEAN
  /\ fp \in [AllSymbols -> Homes]
  /\ rtasBuilder \in Modes \union {"INVALID"}
  /\ mutex \in Threads \union {Nobody}
  /\ pc \in [Threads -> States]
  /\ job \in [Threads -> Jobs]
  /\ calls \in [Threads -> Nat]
  /\ granted \subseteq {"BASE"} \union Apis

(* What a call is about.                                                    *)
JobOK ==
  \A t \in Threads :
    /\ pc[t] \in {"select", "probe", "install"} => job[t].api \in Apis /\ job[t].mode \in Modes
    /\ pc[t] \in {"invoke", "invoked", "refused"} => job[t].symbol \in AllSymbols
    /\ pc[t] \in {"init", "select", "probe"} => job[t].next = 1
    /\ pc[t] \in {"lookup", "install"} => job[t].next \in Nat \ {0}

NoNullPointer ==
  \A t \in Threads :
    /\ pc[t] = "invoke" => fp[job[t].symbol] # "null"
    /\ pc[t] = "invoked" => job[t].reached # "null"

CallInv == TypeOK /\ JobOK /\ NoNullPointer

------------------------------------------------------------------------------
(* What a selection stores are symbols, and all those of its API when the   *)
(* internal builder has all of them.                                        *)
Complete(a) == ToSet(ApiNames[a]) = ToSet(InternalNames[a])

LEMMA ApiSeq ==
  ASSUME NEW a \in AllApis
  PROVE  /\ ApiSymbols(a) \in Seq(AllSymbols)
         /\ InternalSymbols(a) \in Seq(AllSymbols)
         /\ \A s \in Symbols(a) : \E i \in 1 .. Len(ApiSymbols(a)) : ApiSymbols(a)[i] = s
         /\ Complete(a) => \A s \in Symbols(a) :
              \E i \in 1 .. Len(InternalSymbols(a)) : InternalSymbols(a)[i] = s
  <1>1. /\ ApiNames[a] \in Seq(STRING) /\ InternalNames[a] \in Seq(STRING)
        /\ ToSet(InternalNames[a]) \subseteq ToSet(ApiNames[a])
    BY ZeWrapperAssumption
  <1>2. /\ DOMAIN ApiNames[a] = 1 .. Len(ApiNames[a]) /\ Len(ApiNames[a]) \in Nat
        /\ DOMAIN InternalNames[a] = 1 .. Len(InternalNames[a]) /\ Len(InternalNames[a]) \in Nat
    BY <1>1, LenProperties
  <1>3. \A n \in ToSet(ApiNames[a]) : <<a, n>> \in AllSymbols
    BY DEF AllSymbols, Symbols
  <1>4. /\ \A i \in 1 .. Len(ApiNames[a]) : ApiNames[a][i] \in ToSet(ApiNames[a])
        /\ \A i \in 1 .. Len(InternalNames[a]) : InternalNames[a][i] \in ToSet(ApiNames[a])
    BY <1>1, <1>2 DEF ToSet
  <1>5. ApiSymbols(a) \in [1 .. Len(ApiNames[a]) -> AllSymbols]
    BY <1>2, <1>3, <1>4 DEF ApiSymbols
  <1>6. InternalSymbols(a) \in [1 .. Len(InternalNames[a]) -> AllSymbols]
    BY <1>2, <1>3, <1>4 DEF InternalSymbols
  <1>7. ApiSymbols(a) \in Seq(AllSymbols) /\ InternalSymbols(a) \in Seq(AllSymbols)
    BY <1>2, <1>5, <1>6, SeqDef
  <1>8. Len(ApiSymbols(a)) = Len(ApiNames[a]) /\ Len(InternalSymbols(a)) = Len(InternalNames[a])
    <2>1. /\ DOMAIN ApiSymbols(a) = 1 .. Len(ApiNames[a])
          /\ DOMAIN InternalSymbols(a) = 1 .. Len(InternalNames[a])
      BY <1>5, <1>6
    <2> QED BY <2>1, <1>2, <1>7, LenProperties
  <1>9. \A s \in Symbols(a) : \E i \in 1 .. Len(ApiSymbols(a)) : ApiSymbols(a)[i] = s
    BY <1>2, <1>8 DEF Symbols, ToSet, ApiSymbols
  <1>10. Complete(a) => \A s \in Symbols(a) :
              \E i \in 1 .. Len(InternalSymbols(a)) : InternalSymbols(a)[i] = s
    BY <1>2, <1>8 DEF Symbols, ToSet, InternalSymbols, Complete
  <1> QED BY <1>7, <1>9, <1>10

LEMMA StoredSymbols ==
  ASSUME NEW t \in Threads, job[t].api \in AllApis, Modes \subseteq {"INTERNAL", "LEVEL_ZERO"},
         job[t].mode \in Modes
  PROVE  /\ Stored(t) \in Seq(AllSymbols)
         /\ Complete(job[t].api) =>
              \A s \in Symbols(job[t].api) : \E i \in 1 .. Len(Stored(t)) : Stored(t)[i] = s
  <1> DEFINE a == job[t].api
  <1>1. CASE job[t].mode # "INTERNAL"
    BY <1>1, ApiSeq DEF Stored
  <1>2. CASE job[t].mode = "INTERNAL"
    <2> DEFINE p == InternalSymbols("EXP")
               q == InternalSymbols("EXT")
    <2>1. p \in Seq(AllSymbols) /\ q \in Seq(AllSymbols)
      BY ApiSeq DEF AllApis
    <2>2. Stored(t) = p \o q
      BY <1>2 DEF Stored
    <2> HIDE DEF p, q
    <2>3. /\ p \o q \in Seq(AllSymbols)
          /\ Len(p \o q) = Len(p) + Len(q)
          /\ \A i \in 1 .. Len(p) + Len(q) :
               (p \o q)[i] = IF i <= Len(p) THEN p[i] ELSE q[i - Len(p)]
      BY <2>1, ConcatProperties
    <2>4. Len(p) \in Nat /\ Len(q) \in Nat
      BY <2>1, LenProperties
    <2>5. ASSUME Complete(a), NEW s \in Symbols(a)
          PROVE  \E i \in 1 .. Len(Stored(t)) : Stored(t)[i] = s
      <3>1. CASE a = "EXP"
        <4>1. PICK i \in 1 .. Len(p) : p[i] = s
          BY <2>5, <3>1, ApiSeq DEF AllApis, p
        <4>2. i \in 1 .. Len(p \o q) /\ (p \o q)[i] = s
          BY <4>1, <2>3, <2>4
        <4> QED BY <4>2, <2>2
      <3>2. CASE a = "EXT"
        <4>1. PICK i \in 1 .. Len(q) : q[i] = s
          BY <2>5, <3>2, ApiSeq DEF AllApis, q
        <4>2. Len(p) + i \in 1 .. Len(p \o q) /\ (p \o q)[Len(p) + i] = s
          BY <4>1, <2>3, <2>4
        <4> QED BY <4>2, <2>2
      <3> QED BY <3>1, <3>2 DEF AllApis
    <2> QED BY <2>2, <2>3, <2>5
  <1> QED BY <1>1, <1>2

------------------------------------------------------------------------------
(* The places where a step may disturb a job or a pointer, in one lemma per *)
(* shape of step.                                                           *)
LEMMA BeginCall ==
  ASSUME CallInv, NEW t \in Threads, NEW state \in States, NEW j \in Jobs, Begin(t, state, j)
  PROVE  /\ pc' \in [Threads -> States] /\ job' \in [Threads -> Jobs]
         /\ calls' \in [Threads -> Nat]
         /\ pc'[t] = state /\ job'[t] = j
         /\ \A u \in Threads \ {t} : pc'[u] = pc[u] /\ job'[u] = job[u]
  <1>1. MaxCalls \in Nat
    BY ZeWrapperAssumption
  <1> QED BY <1>1 DEF CallInv, TypeOK, Begin

LEMMA ReturnCall ==
  ASSUME CallInv, NEW t \in Threads, Return(t)
  PROVE  /\ pc' \in [Threads -> States] /\ job' \in [Threads -> Jobs]
         /\ pc'[t] = "idle" /\ job'[t] = NoJob
         /\ \A u \in Threads \ {t} : pc'[u] = pc[u] /\ job'[u] = job[u]
  BY DEF CallInv, TypeOK, Return, NoJob, Jobs, States

(* A pointer is only ever set to a function.                                *)
PointersKept == \A s \in AllSymbols : fp[s] # "null" => fp'[s] # "null"

LEMMA CallInvInit == Init => CallInv
  <1>1. NoJob \in Jobs
    BY DEF NoJob, Jobs
  <1> SUFFICES ASSUME Init PROVE CallInv
    OBVIOUS
  <1>2. fp \in [AllSymbols -> Homes] /\ calls \in [Threads -> Nat]
    BY DEF Init, Homes
  <1>3. pc \in [Threads -> States] /\ job \in [Threads -> Jobs]
    BY <1>1 DEF Init, States
  <1>4. \A t \in Threads : pc[t] = "idle"
    BY DEF Init
  <1>5. TypeOK
    BY <1>2, <1>3 DEF Init, TypeOK
  <1> QED BY <1>4, <1>5 DEF CallInv, JobOK, NoNullPointer

(* A job goes on to the next symbol, or notes what it reached.              *)
LEMMA NextJob ==
  ASSUME NEW j \in Jobs
  PROVE  LET k == [j EXCEPT !.next = @ + 1]
         IN /\ k \in Jobs /\ k.next = j.next + 1 /\ j.next \in Nat
            /\ k.symbol = j.symbol /\ k.api = j.api /\ k.mode = j.mode
  <1>1. j.next \in Nat
    BY Zenon DEF Jobs
  <1> DEFINE n == j.next + 1
  <1>2. n \in Nat
    BY <1>1
  <1> HIDE DEF n
  <1>3. [j EXCEPT !.next = n] \in Jobs
    BY <1>2 DEF Jobs
  <1>4. LET k == [j EXCEPT !.next = n]
        IN k.next = n /\ k.symbol = j.symbol /\ k.api = j.api /\ k.mode = j.mode
    BY DEF Jobs
  <1> QED BY <1>1, <1>3, <1>4 DEF n

LEMMA ReachedJob ==
  ASSUME NEW j \in Jobs, NEW h \in Homes
  PROVE  LET k == [j EXCEPT !.reached = h]
         IN k \in Jobs /\ k.reached = h /\ k.symbol = j.symbol
  BY DEF Jobs

(* Each action preserves what the safety of calls rests on, and the         *)
(* pointers that were found.                                                *)
LEMMA StepKeeps ==
  ASSUME CallInv, NEW t \in Threads, Step(t)
  PROVE  CallInv' /\ PointersKept
  <1> USE DEF CallInv, TypeOK, JobOK, NoNullPointer, PointersKept
  <1>1. CASE InitAgain(t) \/ LoadFails(t) \/ SelectedAlready(t) \/ Returned(t)
    <2>1. Return(t) /\ fp' = fp /\ UNCHANGED <<failed, handle, rtasBuilder, mutex, calls>>
      BY <1>1 DEF InitAgain, LoadFails, SelectedAlready, Returned
    <2>2. granted' \subseteq {"BASE"} \union Apis
      BY <1>1 DEF InitAgain, LoadFails, SelectedAlready, Returned
    <2> QED BY <2>1, <2>2, ReturnCall
  <1>2. CASE LookupFails(t) \/ InitDone(t) \/ ProbeFails(t) \/ InstallFails(t) \/ Selected(t)
    <2>1. Return(t) /\ fp' = fp /\ mutex' = Nobody /\ UNCHANGED <<handle, calls>>
      BY <1>2 DEF LookupFails, InitDone, ProbeFails, InstallFails, Selected, Unlock
    <2>2. /\ granted' \subseteq {"BASE"} \union Apis
          /\ failed' \in BOOLEAN /\ rtasBuilder' \in Modes \union {"INVALID"}
      BY <1>2 DEF LookupFails, InitDone, ProbeFails, InstallFails, Selected
    <2> QED BY <2>1, <2>2, ReturnCall
  <1>3. CASE LoadModule(t)
    BY <1>3 DEF LoadModule, Lock, Goto, States
  <1>4. CASE Select(t)
    BY <1>4 DEF Select, Lock, Goto, States
  <1>5. CASE Probe(t)
    BY <1>5 DEF Probe, Goto, States
  <1>6. CASE Lookup(t) \/ Install(t)
    <2>1. \E s : \E h \in Homes \ {"null"} : fp' = [fp EXCEPT ![s] = h]
      <3>1. CASE Lookup(t)
        BY <3>1 DEF Lookup, Homes
      <3>2. CASE Install(t)
        <4>1. Home(job[t].mode) \in Homes \ {"null"}
          BY DEF Home, Homes
        <4> QED BY <3>2, <4>1 DEF Install
      <3> QED BY <1>6, <3>1, <3>2
    <2>2. /\ fp' \in [AllSymbols -> Homes]
          /\ \A x \in AllSymbols : fp[x] # "null" => fp'[x] # "null"
      BY <2>1
    <2>3. /\ job' = [job EXCEPT ![t] = [job[t] EXCEPT !.next = @ + 1]]
          /\ pc[t] \in {"lookup", "install"}
          /\ UNCHANGED <<failed, handle, rtasBuilder, mutex, pc, calls, granted>>
      BY <1>6 DEF Lookup, Install
    <2>4. /\ job'[t] \in Jobs /\ job'[t].next \in Nat \ {0}
          /\ job'[t].api = job[t].api /\ job'[t].mode = job[t].mode
          /\ \A u \in Threads \ {t} : job'[u] = job[u]
      <3>1. job[t] \in Jobs
        OBVIOUS
      <3> QED BY <2>3, <3>1, NextJob
    <2>5. job' \in [Threads -> Jobs]
      BY <2>3, <2>4
    <2> QED BY <2>2, <2>3, <2>4, <2>5
  <1>7. CASE Invoke(t)
    <2>1. fp[job[t].symbol] \in Homes \ {"null"} /\ pc[t] = "invoke" /\ job[t] \in Jobs
      BY <1>7 DEF Invoke
    <2>2. /\ job' = [job EXCEPT ![t] = [job[t] EXCEPT !.reached = fp[job[t].symbol]]]
          /\ UNCHANGED <<failed, handle, fp, rtasBuilder, mutex, calls, granted>>
      BY <1>7 DEF Invoke
    <2>3. job'[t] \in Jobs /\ job'[t].symbol = job[t].symbol /\ job'[t].reached # "null"
      BY <2>1, <2>2, ReachedJob
    <2>4. job' \in [Threads -> Jobs] /\ \A u \in Threads \ {t} : job'[u] = job[u]
      BY <2>2, <2>3
    <2>5. /\ pc' \in [Threads -> States] /\ pc'[t] = "invoked"
          /\ \A u \in Threads \ {t} : pc'[u] = pc[u]
      BY <1>7 DEF Invoke, Goto, States
    <2> QED BY <2>1, <2>2, <2>3, <2>4, <2>5
  <1> QED BY <1>1, <1>2, <1>3, <1>4, <1>5, <1>6, <1>7 DEF Step

LEMMA CallBegins ==
  ASSUME CallInv, NEW t \in Threads, NEW state \in {"init", "select", "invoke", "refused"},
         NEW j \in Jobs, Begin(t, state, j),
         UNCHANGED <<failed, handle, fp, rtasBuilder, mutex, granted>>,
         state = "select" => j.api \in Apis /\ j.mode \in Modes,
         state \in {"init", "select"} => j.next = 1,
         state \in {"invoke", "refused"} => j.symbol \in AllSymbols,
         state = "invoke" => fp[j.symbol] # "null"
  PROVE  CallInv' /\ PointersKept
  <1>1. state \in States
    BY DEF States
  <1>2. /\ pc' \in [Threads -> States] /\ job' \in [Threads -> Jobs] /\ calls' \in [Threads -> Nat]
        /\ pc'[t] = state /\ job'[t] = j
        /\ \A u \in Threads \ {t} : pc'[u] = pc[u] /\ job'[u] = job[u]
    BY <1>1, BeginCall
  <1>3. TypeOK'
    BY <1>2 DEF CallInv, TypeOK
  <1>4. JobOK'
    <2> SUFFICES ASSUME NEW u \in Threads
                 PROVE  (/\ pc[u] \in {"select", "probe", "install"} =>
                              job[u].api \in Apis /\ job[u].mode \in Modes
                         /\ pc[u] \in {"invoke", "invoked", "refused"} => job[u].symbol \in AllSymbols
                         /\ pc[u] \in {"init", "select", "probe"} => job[u].next = 1
                         /\ pc[u] \in {"lookup", "install"} => job[u].next \in Nat \ {0})'
      BY DEF JobOK
    <2>1. CASE u = t
      BY <1>2, <2>1
    <2>2. CASE u # t
      BY <1>2, <2>2 DEF CallInv, JobOK
    <2> QED BY <2>1, <2>2
  <1>5. NoNullPointer'
    BY <1>2 DEF CallInv, NoNullPointer
  <1>6. PointersKept
    BY DEF PointersKept
  <1> QED BY <1>3, <1>4, <1>5, <1>6 DEF CallInv

LEMMA CallKeeps ==
  ASSUME CallInv, NEW t \in Threads, Call(t)
  PROVE  CallInv' /\ PointersKept
  <1>1. CASE CallInit(t)
    <2>1. NoJob \in Jobs /\ NoJob.next = 1
      BY DEF NoJob, Jobs
    <2>2. Begin(t, "init", NoJob) /\ UNCHANGED <<failed, handle, fp, rtasBuilder, mutex, granted>>
      BY <1>1 DEF CallInit
    <2> QED BY <2>1, <2>2, CallBegins
  <1>2. ASSUME NEW a \in Apis, NEW m \in Modes, CallSelect(t, a, m)
        PROVE  CallInv' /\ PointersKept
    <2> DEFINE j == [NoJob EXCEPT !.api = a, !.mode = m]
    <2>1. j \in Jobs /\ j.next = 1 /\ j.api = a /\ j.mode = m
      BY ZeWrapperAssumption DEF NoJob, Jobs
    <2>2. Begin(t, "select", j) /\ UNCHANGED <<failed, handle, fp, rtasBuilder, mutex, granted>>
      BY <1>2 DEF CallSelect
    <2> HIDE DEF j
    <2> QED BY <2>1, <2>2, CallBegins
  <1>3. ASSUME NEW s \in AllSymbols, CallFunction(t, s)
        PROVE  CallInv' /\ PointersKept
    <2> DEFINE j == [NoJob EXCEPT !.symbol = s, !.promised = {"BASE", s[1]} \subseteq granted]
               state == IF handle /\ fp[s] # "null" THEN "invoke" ELSE "refused"
    <2>1. j \in Jobs /\ j.symbol = s
      BY DEF NoJob, Jobs
    <2>2. state \in {"invoke", "refused"} /\ (state = "invoke" => fp[s] # "null")
      OBVIOUS
    <2>3. Begin(t, state, j) /\ UNCHANGED <<failed, handle, fp, rtasBuilder, mutex, granted>>
      BY <1>3 DEF CallFunction
    <2> HIDE DEF j, state
    <2> QED BY <2>1, <2>2, <2>3, CallBegins
  <1>4. BaseSymbols \union UNION {Symbols(a) : a \in Apis} \subseteq AllSymbols
    BY ZeWrapperAssumption DEF AllSymbols
  <1> QED BY <1>1, <1>2, <1>3, <1>4 DEF Call

LEMMA CallInvStep == CallInv /\ [Next]_vars => CallInv'
  <1>1. CASE UNCHANGED vars
    BY <1>1 DEF CallInv, TypeOK, JobOK, NoNullPointer, vars
  <1> QED BY <1>1, StepKeeps, CallKeeps DEF Next

(* No call goes through a null pointer, whatever other threads do to the    *)
(* table between the test and the call: the pointer is read twice, but a    *)
(* pointer that was found is never taken away.                              *)
THEOREM CallsGoSomewhere == Spec => []NoNullCall
  <1>1. Spec => []CallInv
    BY CallInvInit, CallInvStep, PTL DEF Spec
  <1>2. CallInv => NoNullCall
    BY DEF CallInv, NoNullPointer, NoNullCall
  <1> QED BY <1>1, <1>2, PTL

------------------------------------------------------------------------------
(* A program that uses one API, which the internal builder has completely.  *)
(* With both, or with AppendCopy, the table may lack a function of an API   *)
(* that was granted, as the run wrapper_ext_copy shows.                     *)
Careful ==
  /\ \A a, b \in Apis : a = b
  /\ \A a \in Apis : Complete(a)

Fills(t) == pc[t] \in {"lookup", "probe", "install"}

(* The thread that fills the table holds the mutex.                         *)
MutexOK == \A t \in Threads : Fills(t) <=> mutex = t

(* The functions of the builder are those of the selected mode, unless      *)
(* another is being installed, and then those before the next are of that.  *)
ApiTable ==
  /\ granted \intersect Apis # {} => rtasBuilder # "INVALID"
  /\ rtasBuilder # "INVALID" /\ (\A t \in Threads : pc[t] # "install") =>
       \A a \in Apis : \A s \in Symbols(a) : fp[s] = Home(rtasBuilder)
  /\ \A t \in Threads : pc[t] = "install" =>
       \A i \in 1 .. Len(Stored(t)) :
         i < job[t].next => fp[Stored(t)[i]] = Home(job[t].mode)

TableInv == CallInv /\ MutexOK /\ (~failed => ApiTable)

LEMMA TableInvInit == Init => TableInv
  <1> SUFFICES ASSUME Init PROVE TableInv
    OBVIOUS
  <1>1. CallInv
    BY CallInvInit
  <1>2. \A t \in Threads : pc[t] = "idle" /\ mutex # t
    BY ZeWrapperAssumption DEF Init
  <1>3. granted = {} /\ rtasBuilder = "INVALID"
    BY DEF Init
  <1> QED BY <1>1, <1>2, <1>3 DEF TableInv, MutexOK, Fills, ApiTable

(* The symbols of an API and the base symbols are different.                *)
LEMMA SymbolsApart ==
  /\ \A a \in AllApis : Symbols(a) \subseteq AllSymbols /\ Symbols(a) \intersect BaseSymbols = {}
  /\ \A i \in 1 .. Len(BaseNames) : <<"BASE", BaseNames[i]>> \in BaseSymbols
  <1>1. DOMAIN BaseNames = 1 .. Len(BaseNames)
    BY ZeWrapperAssumption, LenProperties
  <1>2. \A a \in AllApis : Symbols(a) \subseteq AllSymbols
    BY DEF AllSymbols
  <1>3. \A s \in BaseSymbols : s[1] = "BASE"
    BY DEF BaseSymbols
  <1>4. \A a \in AllApis : \A s \in Symbols(a) : s[1] = a
    BY DEF Symbols
  <1>5. "BASE" \notin AllApis
    BY DEF AllApis
  <1>6. \A i \in 1 .. Len(BaseNames) : <<"BASE", BaseNames[i]>> \in BaseSymbols
    BY <1>1 DEF BaseSymbols, ToSet
  <1> QED BY <1>2, <1>3, <1>4, <1>5, <1>6

(* Steps that leave the table and the mutex alone, and answer success for   *)
(* an API only when a builder is selected.                                  *)
LEMMA TableLeft ==
  ASSUME TableInv, NEW t \in Threads, ~Fills(t), ~Fills(t)',
         pc'[t] # "install", \A u \in Threads \ {t} : pc'[u] = pc[u] /\ job'[u] = job[u],
         UNCHANGED <<failed, fp, rtasBuilder, mutex>>,
         ~failed => (granted' \intersect Apis # {} => rtasBuilder # "INVALID")
  PROVE  MutexOK' /\ (~failed' => ApiTable')
  <1> USE DEF TableInv
  <1>1. MutexOK'
    BY DEF MutexOK, Fills
  <1>2. \A u \in Threads : pc'[u] = "install" => Stored(u)' = Stored(u)
    BY DEF Stored, ApiSymbols, InternalSymbols
  <1>3. \A u \in Threads : pc'[u] = "install" <=> pc[u] = "install"
    BY DEF Fills
  <1>4. ~failed => ApiTable'
    BY <1>2, <1>3 DEF ApiTable
  <1> QED BY <1>1, <1>4

(* The steps of a thread that does not fill the table.                      *)
LEMMA OutsideKeeps ==
  ASSUME TableInv, NEW t \in Threads,
         InitAgain(t) \/ LoadFails(t) \/ SelectedAlready(t) \/ Returned(t)
  PROVE  MutexOK' /\ (~failed' => ApiTable')
  <1>1. /\ Return(t) /\ ~Fills(t) /\ UNCHANGED <<failed, fp, rtasBuilder, mutex>>
    BY DEF InitAgain, LoadFails, SelectedAlready, Returned, Fills
  <1>2. pc'[t] = "idle" /\ \A u \in Threads \ {t} : pc'[u] = pc[u] /\ job'[u] = job[u]
    BY <1>1, ReturnCall DEF TableInv
  <1>3. ~Fills(t)' /\ pc'[t] # "install"
    BY <1>2 DEF Fills
  <1>4. ~failed => (granted' \intersect Apis # {} => rtasBuilder # "INVALID")
    <2>1. CASE InitAgain(t)
      <3>1. "BASE" \notin Apis /\ granted' = granted \union {"BASE"}
        BY <2>1, ZeWrapperAssumption DEF AllApis, InitAgain
      <3> QED BY <3>1 DEF TableInv, ApiTable
    <2>2. CASE LoadFails(t) \/ Returned(t)
      BY <2>2 DEF LoadFails, Returned, TableInv, ApiTable
    <2>3. CASE SelectedAlready(t)
      <3>1. job[t].mode \in Modes /\ rtasBuilder = job[t].mode
        BY <2>3 DEF SelectedAlready, TableInv, CallInv, JobOK
      <3> QED BY <3>1, ZeWrapperAssumption
    <2> QED BY <2>1, <2>2, <2>3
  <1> QED BY <1>1, <1>2, <1>3, <1>4, TableLeft

LEMMA CallKeepsTable ==
  ASSUME TableInv, NEW t \in Threads, Call(t)
  PROVE  MutexOK' /\ (~failed' => ApiTable')
  <1>1. ASSUME NEW state \in States, NEW j \in Jobs, Begin(t, state, j),
               state \in {"init", "select", "invoke", "refused"},
               UNCHANGED <<failed, handle, fp, rtasBuilder, mutex, granted>>
        PROVE  MutexOK' /\ (~failed' => ApiTable')
    <2>1. /\ pc[t] = "idle" /\ pc'[t] = state
          /\ \A u \in Threads \ {t} : pc'[u] = pc[u] /\ job'[u] = job[u]
      BY <1>1, BeginCall DEF Begin, TableInv
    <2>2. ~Fills(t) /\ ~Fills(t)' /\ pc'[t] # "install"
      BY <1>1, <2>1 DEF Fills
    <2>3. ~failed => (granted' \intersect Apis # {} => rtasBuilder # "INVALID")
      BY <1>1 DEF TableInv, ApiTable
    <2> QED BY <1>1, <2>1, <2>2, <2>3, TableLeft
  <1>2. CASE CallInit(t)
    <2>1. NoJob \in Jobs /\ "init" \in States
      BY DEF NoJob, Jobs, States
    <2> QED BY <1>1, <1>2, <2>1 DEF CallInit
  <1>3. ASSUME NEW a \in Apis, NEW m \in Modes, CallSelect(t, a, m)
        PROVE  MutexOK' /\ (~failed' => ApiTable')
    <2> DEFINE j == [NoJob EXCEPT !.api = a, !.mode = m]
    <2>1. j \in Jobs /\ "select" \in States
      BY ZeWrapperAssumption DEF NoJob, Jobs, States
    <2>2. Begin(t, "select", j) /\ UNCHANGED <<failed, handle, fp, rtasBuilder, mutex, granted>>
      BY <1>3 DEF CallSelect
    <2> HIDE DEF j
    <2> QED BY <1>1, <2>1, <2>2
  <1>4. ASSUME NEW s \in BaseSymbols \union UNION {Symbols(a) : a \in Apis}, CallFunction(t, s)
        PROVE  MutexOK' /\ (~failed' => ApiTable')
    <2> DEFINE j == [NoJob EXCEPT !.symbol = s, !.promised = {"BASE", s[1]} \subseteq granted]
               state == IF handle /\ fp[s] # "null" THEN "invoke" ELSE "refused"
    <2>1. s \in AllSymbols
      BY ZeWrapperAssumption DEF AllSymbols
    <2>2. j \in Jobs
      BY <2>1 DEF NoJob, Jobs
    <2>3. state \in States /\ state \in {"invoke", "refused"}
      BY DEF States
    <2>4. Begin(t, state, j) /\ UNCHANGED <<failed, handle, fp, rtasBuilder, mutex, granted>>
      BY <1>4 DEF CallFunction
    <2> HIDE DEF j, state
    <2> QED BY <1>1, <2>2, <2>3, <2>4
  <1> QED BY <1>2, <1>3, <1>4 DEF Call

(* The steps of init that fill the base table.                              *)
LEMMA InitKeepsTable ==
  ASSUME TableInv, NEW t \in Threads,
         LoadModule(t) \/ Lookup(t) \/ LookupFails(t) \/ InitDone(t)
  PROVE  MutexOK' /\ (~failed' => ApiTable')
  <1> USE DEF TableInv
  <1>t. Nobody \notin Threads
    BY ZeWrapperAssumption
  <1>1. CASE LoadModule(t)
    <2>1. /\ pc[t] = "init" /\ pc' = [pc EXCEPT ![t] = "lookup"] /\ mutex = Nobody /\ mutex' = t
          /\ UNCHANGED <<failed, fp, rtasBuilder, job, granted>>
      BY <1>1 DEF LoadModule, Lock, Goto
    <2>2. pc'[t] = "lookup" /\ \A u \in Threads \ {t} : pc'[u] = pc[u]
      BY <2>1 DEF CallInv, TypeOK
    <2>3. MutexOK'
      BY <1>t, <2>1, <2>2 DEF MutexOK, Fills
    <2>4. \A u \in Threads : pc[u] # "install"
      BY <1>t, <2>1 DEF MutexOK, Fills
    <2>5. ~failed => ApiTable'
      BY <2>1, <2>2, <2>4 DEF ApiTable
    <2> QED BY <2>1, <2>3, <2>5
  <1>2. CASE Lookup(t)
    <2> DEFINE n == job[t].next
               x == <<"BASE", BaseNames[n]>>
    <2>1. /\ pc[t] = "lookup" /\ n <= Len(BaseNames) /\ fp' = [fp EXCEPT ![x] = "loader"]
          /\ UNCHANGED <<failed, rtasBuilder, mutex, pc, granted>>
      BY <1>2 DEF Lookup, BaseSymbol
    <2>2. n \in Nat \ {0} /\ Len(BaseNames) \in Nat
      BY <2>1, ZeWrapperAssumption, LenProperties DEF CallInv, JobOK
    <2>3. x \in BaseSymbols
      BY <2>1, <2>2, SymbolsApart
    <2> HIDE DEF n, x
    <2>4. MutexOK'
      BY <2>1 DEF MutexOK, Fills
    <2>5. \A s \in AllSymbols \ BaseSymbols : fp'[s] = fp[s]
      BY <2>1, <2>3 DEF CallInv, TypeOK
    <2>6. \A u \in Threads : pc[u] # "install"
      BY <2>1 DEF MutexOK, Fills
    <2>7. \A a \in Apis : \A s \in Symbols(a) : fp'[s] = fp[s]
      BY <2>5, SymbolsApart, ZeWrapperAssumption
    <2>8. ~failed => ApiTable'
      BY <2>1, <2>6, <2>7 DEF ApiTable
    <2> QED BY <2>1, <2>4, <2>8
  <1>3. CASE LookupFails(t) \/ InitDone(t)
    <2>1. /\ pc[t] = "lookup" /\ Return(t) /\ mutex' = Nobody
          /\ UNCHANGED <<failed, fp, rtasBuilder>> /\ granted' \subseteq granted \union {"BASE"}
      BY <1>3 DEF LookupFails, InitDone, Unlock
    <2>2. /\ pc'[t] = "idle"
          /\ \A u \in Threads \ {t} : pc'[u] = pc[u] /\ job'[u] = job[u]
      BY <2>1, ReturnCall
    <2>3. MutexOK'
      BY <1>t, <2>1, <2>2 DEF MutexOK, Fills
    <2>4. \A u \in Threads : pc'[u] # "install" /\ pc[u] # "install"
      BY <2>1, <2>2 DEF MutexOK, Fills
    <2>5. "BASE" \notin Apis
      BY ZeWrapperAssumption DEF AllApis
    <2>6. ~failed => ApiTable'
      BY <2>1, <2>4, <2>5 DEF ApiTable
    <2> QED BY <2>1, <2>3, <2>6
  <1> QED BY <1>1, <1>2, <1>3

(* The steps of initRTASBuilder that fill the table of the builder.         *)
LEMMA SelectKeepsTable ==
  ASSUME Careful, TableInv, NEW t \in Threads,
         Select(t) \/ ProbeFails(t) \/ Probe(t) \/ Install(t) \/ InstallFails(t) \/ Selected(t)
  PROVE  MutexOK' /\ (~failed' => ApiTable')
  <1> USE DEF TableInv
  <1>t. Nobody \notin Threads /\ Apis \subseteq AllApis /\ Modes \subseteq {"INTERNAL", "LEVEL_ZERO"}
    BY ZeWrapperAssumption
  <1>1. CASE Select(t) \/ Probe(t)
    <2>1. /\ pc[t] \in {"select", "probe"} /\ mutex \in {Nobody, t} /\ mutex' = t
          /\ \E state \in {"probe", "install"} : pc' = [pc EXCEPT ![t] = state]
          /\ UNCHANGED <<failed, fp, rtasBuilder, job, granted>>
      BY <1>1 DEF Select, Probe, Lock, Goto, MutexOK, Fills
    <2>2. /\ pc'[t] \in {"probe", "install"} /\ (\A u \in Threads \ {t} : pc'[u] = pc[u])
          /\ job[t].next = 1
      BY <2>1 DEF CallInv, TypeOK, JobOK
    <2>3. \A u \in Threads \ {t} : ~Fills(u)
      BY <1>t, <2>1 DEF MutexOK
    <2>4. MutexOK'
      BY <1>t, <2>1, <2>2, <2>3 DEF MutexOK, Fills
    <2>5. \A u \in Threads : pc[u] # "install" /\ (pc'[u] = "install" => u = t)
      BY <2>1, <2>2, <2>3 DEF Fills
    <2>6. ~failed => ApiTable'
      <3>1. \A i \in 1 .. Len(Stored(t))' : ~(i < job[t].next)
        BY <2>2
      <3> QED BY <2>1, <2>2, <2>5, <3>1 DEF ApiTable
    <2> QED BY <2>1, <2>4, <2>6
  <1>2. CASE Install(t)
    <2> DEFINE n == job[t].next
               x == Stored(t)[n]
               h == Home(job[t].mode)
    <2>1. /\ pc[t] = "install" /\ n <= Len(Stored(t)) /\ fp' = [fp EXCEPT ![x] = h]
          /\ job' = [job EXCEPT ![t] = [job[t] EXCEPT !.next = @ + 1]]
          /\ UNCHANGED <<failed, rtasBuilder, mutex, pc, granted>>
      BY <1>2 DEF Install
    <2>2. /\ n \in Nat \ {0} /\ job[t].api \in AllApis /\ job[t].mode \in Modes
      BY <1>t, <2>1 DEF CallInv, JobOK
    <2>3. Stored(t) \in Seq(AllSymbols) /\ Len(Stored(t)) \in Nat
      BY <1>t, <2>2, StoredSymbols, LenProperties
    <2>4. job'[t].next = n + 1 /\ job'[t].api = job[t].api /\ job'[t].mode = job[t].mode
      BY <2>1, NextJob DEF CallInv, TypeOK
    <2>5. Stored(t)' = Stored(t)
      BY <2>4 DEF Stored, ApiSymbols, InternalSymbols
    <2> HIDE DEF n, x, h
    <2>6. MutexOK'
      BY <2>1 DEF MutexOK, Fills
    <2>7. \A s \in AllSymbols : fp'[s] = IF s = x THEN h ELSE fp[s]
      BY <2>1 DEF CallInv, TypeOK
    <2>8. \A u \in Threads : pc[u] = "install" => u = t
      BY <2>1 DEF MutexOK, Fills
    <2>9. ASSUME ~failed
          PROVE  \A i \in 1 .. Len(Stored(t)) : i < n + 1 => fp'[Stored(t)[i]] = h
      <3>1. \A i \in 1 .. Len(Stored(t)) : i < n => fp[Stored(t)[i]] = h
        BY <2>1, <2>9 DEF ApiTable, n, h
      <3>2. \A i \in 1 .. Len(Stored(t)) :
              Stored(t)[i] \in AllSymbols /\ (i < n + 1 => i < n \/ Stored(t)[i] = x)
        BY <2>2, <2>3, ElementOfSeq DEF x
      <3> QED BY <2>7, <3>1, <3>2
    <2>10. ~failed => ApiTable'
      BY <2>1, <2>4, <2>5, <2>8, <2>9 DEF ApiTable, h
    <2> QED BY <2>1, <2>6, <2>10
  <1>3. CASE ProbeFails(t) \/ InstallFails(t) \/ Selected(t)
    <2>1. /\ pc[t] \in {"probe", "install"} /\ Return(t) /\ mutex' = Nobody /\ fp' = fp
      BY <1>3 DEF ProbeFails, InstallFails, Selected, Unlock
    <2>2. /\ pc'[t] = "idle"
          /\ \A u \in Threads \ {t} : pc'[u] = pc[u] /\ job'[u] = job[u]
      BY <2>1, ReturnCall
    <2>3. MutexOK'
      BY <1>t, <2>1, <2>2 DEF MutexOK, Fills
    <2>4. \A u \in Threads : pc'[u] # "install" /\ (u # t => pc[u] # "install")
      BY <2>1, <2>2 DEF MutexOK, Fills
    <2>5. CASE InstallFails(t)
      BY <2>3, <2>5 DEF InstallFails
    <2>6. CASE ProbeFails(t)
      <3>1. pc[t] = "probe" /\ UNCHANGED <<failed, rtasBuilder, granted>>
        BY <2>6 DEF ProbeFails
      <3>2. ~failed => ApiTable'
        BY <2>1, <2>4, <3>1 DEF ApiTable
      <3> QED BY <2>3, <3>1, <3>2
    <2>7. CASE Selected(t)
      <3> DEFINE m == job[t].mode
                 a == job[t].api
      <3>1. /\ pc[t] = "install" /\ job[t].next > Len(Stored(t)) /\ rtasBuilder' = m
            /\ granted' = granted \union {a} /\ failed' = failed
        BY <2>7 DEF Selected
      <3>2. a \in Apis /\ m \in Modes /\ m # "INVALID" /\ job[t].next \in Nat
        BY <1>t, <3>1 DEF CallInv, JobOK
      <3>3. /\ Stored(t) \in Seq(AllSymbols) /\ Len(Stored(t)) \in Nat
            /\ \A s \in Symbols(a) : \E i \in 1 .. Len(Stored(t)) : Stored(t)[i] = s
        BY <1>t, <3>2, StoredSymbols, LenProperties DEF Careful
      <3>4. \A i \in 1 .. Len(Stored(t)) : i < job[t].next
        BY <3>1, <3>2, <3>3
      <3>5. ~failed => \A s \in Symbols(a) : fp[s] = Home(m)
        BY <3>1, <3>3, <3>4 DEF ApiTable
      <3>6. \A b \in Apis : b = a
        BY <3>2 DEF Careful
      <3> HIDE DEF m, a
      <3>7. ~failed => ApiTable'
        BY <2>1, <2>4, <3>1, <3>2, <3>5, <3>6 DEF ApiTable
      <3> QED BY <2>3, <3>1, <3>7
    <2> QED BY <1>3, <2>5, <2>6, <2>7
  <1> QED BY <1>1, <1>2, <1>3

LEMMA InvokeKeepsTable ==
  ASSUME TableInv, NEW t \in Threads, Invoke(t)
  PROVE  MutexOK' /\ (~failed' => ApiTable')
  <1>1. /\ pc[t] = "invoke" /\ pc' = [pc EXCEPT ![t] = "invoked"]
        /\ job' = [job EXCEPT ![t] = [job[t] EXCEPT !.reached = fp[job[t].symbol]]]
        /\ UNCHANGED <<failed, fp, rtasBuilder, mutex, granted>>
    BY DEF Invoke, Goto
  <1>2. pc'[t] = "invoked" /\ \A u \in Threads \ {t} : pc'[u] = pc[u] /\ job'[u] = job[u]
    BY <1>1 DEF TableInv, CallInv, TypeOK
  <1>3. ~Fills(t) /\ ~Fills(t)' /\ pc'[t] # "install"
    BY <1>1, <1>2 DEF Fills
  <1>4. ~failed => (granted' \intersect Apis # {} => rtasBuilder # "INVALID")
    BY <1>1 DEF TableInv, ApiTable
  <1> QED BY <1>1, <1>2, <1>3, <1>4, TableLeft

LEMMA TableInvStep == Careful /\ TableInv /\ [Next]_vars => TableInv'
  <1> SUFFICES ASSUME Careful, TableInv, [Next]_vars PROVE TableInv'
    OBVIOUS
  <1>1. CallInv'
    BY CallInvStep DEF TableInv
  <1>2. CASE UNCHANGED vars
    <2>1. MutexOK'
      BY <1>2 DEF vars, TableInv, MutexOK, Fills
    <2>2. failed' = failed /\ (ApiTable <=> ApiTable')
      BY <1>2 DEF vars, ApiTable, Stored, ApiSymbols, InternalSymbols
    <2> QED BY <1>1, <2>1, <2>2 DEF TableInv
  <1>3. ASSUME NEW t \in Threads, Step(t) \/ Call(t)
        PROVE  TableInv'
    BY <1>1, <1>3, OutsideKeeps, CallKeepsTable, InitKeepsTable, SelectKeepsTable,
       InvokeKeepsTable
       DEF Step, TableInv
  <1> QED BY <1>2, <1>3 DEF Next

(* Between selections the functions of a careful program's API are all      *)
(* those of the selected mode.                                              *)
THEOREM TableIsOfTheMode == ASSUME Careful PROVE Spec => []TableMatchesMode
  <1>1. TableInv /\ [Next]_vars => TableInv'
    BY TableInvStep
  <1>2. ASSUME TableInv, mutex = Nobody, ~failed, NEW a \in granted \intersect AllApis,
               NEW s \in Symbols(a)
        PROVE  fp[s] = Home(rtasBuilder)
    <2>1. a \in Apis
      BY <1>2 DEF TableInv, CallInv, TypeOK, AllApis
    <2>2. \A t \in Threads : pc[t] # "install"
      BY <1>2, ZeWrapperAssumption DEF TableInv, MutexOK, Fills
    <2> QED BY <1>2, <2>1, <2>2 DEF TableInv, ApiTable
  <1>3. TableInv => TableMatchesMode
    BY <1>2 DEF TableMatchesMode
  <1> QED BY <1>1, <1>3, TableInvInit, PTL DEF Spec

------------------------------------------------------------------------------
(* A builder. The argument is that of the stages of a build. What one of    *)
(* them finds out about every geometry is what the next one relies on       *)
(* without testing it: the descriptions are verified before primitives are  *)
(* read, and the leaves read, without a test, those found valid. And what   *)
(* a stage throws has a cause in that stage.                                *)
Fns == {"Create", "Destroy", "FormatCheck", "GetBuildProperties", "Build"}

ErrorCodes == {Builder!NullHandle, Builder!NullPointer, Builder!Enumeration, "INVALID_ARGUMENT"}

BuildStages == {"none", "verify", "create", "leaves", "answered"}

BuildTypeOK ==
  /\ fn \in Fns \union {"none"}
  /\ scene \in Scenes \union {<<>>}
  /\ stage \in BuildStages
  /\ finished \subseteq DOMAIN scene
  /\ thrown \in BOOLEAN

(* What is left from one call to the next, and which calls have tasks.      *)
BuildCallOK ==
  /\ fn = "none" => stage = "none"
  /\ stage = "none" => finished = {} /\ ~thrown /\ tree = {} /\ reads = {}
  /\ stage \in {"verify", "create", "leaves"} => fn = "Build" /\ wrong = {}

Valid(g) == {j \in 1 .. Builder!GetNumPrimitives(g) : Builder!IsValid(g, g.prims[j])}
Held(i) == {p[2] : p \in {q \in tree : q[1] = i}}

(* The tree has the primitives of a geometry that it should have.           *)
Holds(i) == Held(i) \subseteq Valid(scene[i]) /\ (scene[i].kind # "TRIANGLES" => Held(i) = Valid(scene[i]))

VerifyStage ==
  stage = "verify" =>
    /\ tree = {} /\ reads = {}
    /\ \A i \in finished : thrown \/ Builder!VerifyGeometryDesc(scene[i])
    /\ thrown => \/ \E i \in DOMAIN scene : ~ Builder!VerifyGeometryDesc(scene[i])
                 \/ "memory" \in exceeded

Prepared ==
  stage \in {"create", "leaves"} =>
    "memory" \notin exceeded /\ \A i \in DOMAIN scene : Builder!VerifyGeometryDesc(scene[i])

CreateStage ==
  stage = "create" =>
    /\ \A i \in finished : Holds(i) /\ (thrown \/ ~ Builder!TransformUnknown(scene[i]))
    /\ thrown => \E i \in DOMAIN scene : Builder!TransformUnknown(scene[i])
    /\ \A p \in tree : p[1] \in finished

LeavesStage ==
  stage = "leaves" =>
    /\ \A i \in DOMAIN scene : Holds(i) /\ ~ Builder!TransformUnknown(scene[i])
    /\ thrown => Builder!Deep

BuildInv ==
  /\ BuildTypeOK /\ BuildCallOK /\ VerifyStage /\ Prepared /\ CreateStage /\ LeavesStage
  /\ Builder!ReadsDescribed /\ Builder!AnswerTruthful

------------------------------------------------------------------------------
(* The lists of tests are short sequences, and joined ones.                 *)
LEMMA ShortSeqs ==
  ASSUME NEW S
  PROVE  /\ \A a \in S : <<a>> \in Seq(S)
         /\ \A a, b \in S : <<a, b>> \in Seq(S)
         /\ \A a, b, c \in S : <<a, b, c>> \in Seq(S)
         /\ \A a, b, c, d \in S : <<a, b, c, d>> \in Seq(S)
  OBVIOUS

(* The answer to a failed test is one of four errors.                       *)
LEMMA TestFacts ==
  /\ DOMAIN Builder!Tests = Fns
  /\ \A f \in Fns : \A i \in DOMAIN Builder!Tests[f] : Builder!Tests[f][i][2] \in ErrorCodes
  <1> DEFINE Plain == {"hBuilder", "magick", "hDriver", "ppGeometries", "numGeometries", "buildQuality",
                       "buildFlags", "builderVersion", "phBuilder", "pScratchBuffer", "pRtasBuffer",
                       "args", "desc", "pProp"}
             Formats == {"rtasFormat", "accelFormat", "otherAccelFormat"}
             Descriptors == {"args", "desc", "pProp"}
             Endings == {" invalid", " unknown", " stype", " pNext"}
             Composed == UNION {{n \o s : s \in Endings} : n \in Formats \union Descriptors}
             Names == Plain \union Composed
             Tested == Names \X ErrorCodes
             Ops == << <<"ppGeometries", Builder!NullPointer>>, <<"numGeometries", Builder!Enumeration>>,
                       <<"buildQuality", Builder!Enumeration>>, <<"buildFlags", Builder!Enumeration>> >>
             Buffers == << <<"pScratchBuffer", Builder!NullPointer>>, <<"pRtasBuffer", Builder!NullPointer>> >>
             Made == << <<"builderVersion", Builder!Enumeration>>, <<"phBuilder", Builder!NullPointer>> >>
  <1>a. \A n \in Plain, c \in ErrorCodes : <<n, c>> \in Tested
    <2> HIDE DEF Plain, Composed
    <2> QED OBVIOUS
  <1>b. \A n \in Formats \union Descriptors, e \in Endings, c \in ErrorCodes : <<n \o e, c>> \in Tested
    <2> HIDE DEF Formats, Descriptors, Endings
    <2>1. \A n \in Formats \union Descriptors, e \in Endings : n \o e \in Composed
      <3> SUFFICES ASSUME NEW n \in Formats \union Descriptors, NEW e \in Endings
                   PROVE  n \o e \in Composed
        OBVIOUS
      <3>1. n \o e \in {n \o s : s \in Endings}
        OBVIOUS
      <3> QED BY <3>1, Zenon
    <2> HIDE DEF Plain, Composed
    <2>2. \A x \in Composed, c \in ErrorCodes : <<x, c>> \in Tested
      OBVIOUS
    <2> HIDE DEF Tested
    <2> QED BY <2>1, <2>2, Zenon
  <1>c. " invalid" \in Endings /\ " unknown" \in Endings /\ " stype" \in Endings /\ " pNext" \in Endings
    OBVIOUS
  <1>d. /\ Builder!NullHandle \in ErrorCodes /\ Builder!NullPointer \in ErrorCodes /\ Builder!Enumeration \in ErrorCodes
        /\ "INVALID_ARGUMENT" \in ErrorCodes
    BY DEF ErrorCodes
  <1>e. \A t \in Tested : t[2] \in ErrorCodes
    <2> HIDE DEF Names
    <2> QED OBVIOUS
  <1> HIDE DEF Tested
  <1>1. Builder!Builder \in Seq(Tested) /\ Builder!Driver \in Seq(Tested)
    BY <1>a, <1>d, ShortSeqs DEF Builder!Builder, Builder!Driver
  <1>2. \A n \in Formats : Builder!Format(n) \in Seq(Tested)
    <2> HIDE DEF Formats, Descriptors, Endings
    <2>1. \A n \in Formats : /\ <<n \o " invalid", Builder!Enumeration>> \in Tested
                             /\ <<n \o " unknown", Builder!Enumeration>> \in Tested
      BY <1>b, <1>c, <1>d, Zenon
    <2> QED BY <2>1, ShortSeqs, Zenon DEF Builder!Format
  <1>3. \A n \in Descriptors : Builder!Descriptor(n) \in Seq(Tested)
    <2>1. \A n \in Descriptors : n \in Plain
      OBVIOUS
    <2> HIDE DEF Formats, Descriptors, Endings, Plain
    <2>2. \A n \in Descriptors : /\ <<n, Builder!NullPointer>> \in Tested
                                 /\ <<n \o " stype", Builder!Enumeration>> \in Tested
                                 /\ <<n \o " pNext", Builder!Enumeration>> \in Tested
      BY <1>a, <1>b, <1>c, <1>d, <2>1, Zenon
    <2> QED BY <2>2, ShortSeqs, Zenon DEF Builder!Descriptor
  <1>4. Ops \in Seq(Tested) /\ Buffers \in Seq(Tested) /\ Made \in Seq(Tested)
    BY <1>a, <1>d, ShortSeqs
  <1> HIDE DEF Ops, Buffers, Made
  <1>5. \A s, t \in Seq(Tested) : s \o t \in Seq(Tested)
    OBVIOUS
  <1>6. Builder!BuildOp = Builder!Descriptor("args") \o Builder!Format("rtasFormat") \o Ops
    BY DEF Builder!BuildOp, Ops
  <1>7. Builder!BuildOp \in Seq(Tested)
    BY <1>2, <1>3, <1>4, <1>5, <1>6
  <1>8. /\ Builder!Driver \o Builder!Descriptor("desc") \o Made \in Seq(Tested)
        /\ Builder!Driver \o Builder!Format("accelFormat") \o Builder!Format("otherAccelFormat") \in Seq(Tested)
        /\ Builder!Builder \o Builder!BuildOp \o Builder!Descriptor("pProp") \in Seq(Tested)
        /\ Builder!Builder \o Builder!BuildOp \o Buffers \in Seq(Tested)
    BY <1>1, <1>2, <1>3, <1>4, <1>5, <1>7
  <1>9. Builder!Tests = [Create |-> Builder!Driver \o Builder!Descriptor("desc") \o Made,
                 Destroy |-> Builder!Builder,
                 FormatCheck |-> Builder!Driver \o Builder!Format("accelFormat") \o Builder!Format("otherAccelFormat"),
                 GetBuildProperties |-> Builder!Builder \o Builder!BuildOp \o Builder!Descriptor("pProp"),
                 Build |-> Builder!Builder \o Builder!BuildOp \o Buffers]
    BY DEF Builder!Tests, Made, Buffers
  <1>10. DOMAIN Builder!Tests = Fns /\ \A f \in Fns : Builder!Tests[f] \in Seq(Tested)
    BY <1>1, <1>8, <1>9 DEF Fns
  <1>11. \A s \in Seq(Tested) : \A i \in DOMAIN s : s[i][2] \in ErrorCodes
    <2> SUFFICES ASSUME NEW s \in Seq(Tested), NEW i \in DOMAIN s
                 PROVE  s[i][2] \in ErrorCodes
      OBVIOUS
    <2>1. s[i] \in Tested
      OBVIOUS
    <2> QED BY <1>e, <2>1
  <1> QED BY <1>10, <1>11

LEMMA SceneFacts ==
  ASSUME scene \in Scenes \union {<<>>}
  PROVE  \A i \in DOMAIN scene : scene[i] \in Builder!Geometry
  <1>1. \A s \in Scenes : \A i \in DOMAIN s : s[i] \in Builder!Geometry
    BY CallsAssumption DEF Builder!BuildCallAssumption
  <1>2. \A i \in DOMAIN <<>> : FALSE
    OBVIOUS
  <1> QED BY <1>1, <1>2

LEMMA BuildInvInit == ASSUME Builder!Init PROVE BuildInv
  <1>1. BuildTypeOK /\ BuildCallOK
    BY DEF Builder!Init, BuildTypeOK, BuildCallOK, BuildStages
  <1> QED BY <1>1 DEF Builder!Init, BuildInv, VerifyStage, Prepared, CreateStage, LeavesStage, Builder!ReadsDescribed,
                      Builder!AnswerTruthful

------------------------------------------------------------------------------
LEMMA BeginKeeps ==
  ASSUME BuildInv, NEW f \in DOMAIN Builder!Tests, Builder!Call(f)
  PROVE  BuildInv'
  <1> USE DEF BuildInv
  <1>1. f \in Fns
    BY TestFacts
  <1>2. /\ fn = "none" /\ fn' = f
        /\ stage' = IF answer' = <<"none">> THEN "verify" ELSE "answered"
        /\ UNCHANGED <<finished, thrown, tree, reads>>
    BY DEF Builder!Call
  <1>3. finished' = {} /\ ~thrown' /\ tree' = {} /\ reads' = {} /\ thrown' = thrown
    BY <1>2 DEF BuildCallOK
  <1>4. scene' \in Scenes \union {<<>>}
    BY DEF Builder!Call
  <1>5. BuildTypeOK'
    BY <1>1, <1>2, <1>3, <1>4 DEF BuildTypeOK, BuildStages
  <1>6. Builder!ReadsDescribed'
    BY <1>3 DEF Builder!ReadsDescribed
  <1>7. CASE wrong' # {}
    <2>1. PICK i \in Builder!FirstFailing(f, wrong') : answer' = <<Builder!Tests[f][i][2]>>
      BY <1>7 DEF Builder!Call
    <2>2. i \in DOMAIN Builder!Tests[f] /\ Builder!Tests[f][i][1] \in wrong'
      BY <2>1 DEF Builder!FirstFailing
    <2>3. Builder!Tests[f][i][2] \in ErrorCodes
      BY <1>1, <2>2, TestFacts
    <2>4. answer' # <<"none">> /\ answer' # <<"exception">>
      BY <2>1, <2>3 DEF ErrorCodes, Builder!NullHandle, Builder!NullPointer, Builder!Enumeration
    <2>5. stage' = "answered"
      BY <1>2, <2>4
    <2>6. Builder!Tests[f][i] \in Builder!ToSet(Builder!Tests[f])
      BY <2>2 DEF Builder!ToSet
    <2>7. Builder!AnswerTruthful'
      BY <1>2, <1>3, <1>7, <2>1, <2>2, <2>4, <2>6 DEF Builder!AnswerTruthful, Builder!ToSet
    <2> QED BY <1>1, <1>2, <1>5, <1>6, <2>5, <2>7
            DEF BuildCallOK, VerifyStage, Prepared, CreateStage, LeavesStage, Fns
  <1>8. CASE wrong' = {}
    <2>1. answer' \in Builder!Begins(f)
      BY <1>8 DEF Builder!Call
    <2>2. answer' # <<"exception">>
      BY <1>1, <2>1 DEF Builder!Begins, Fns, Builder!GetNumPrimitives
    <2>3. answer' = <<"none">> <=> f = "Build"
      BY <1>1, <2>1 DEF Builder!Begins, Fns
    <2>4. CASE f = "Build"
      <3>1. stage' = "verify"
        BY <1>2, <2>3, <2>4
      <3> QED BY <1>2, <1>3, <1>5, <1>6, <1>8, <2>4, <3>1
              DEF BuildCallOK, VerifyStage, Prepared, CreateStage, LeavesStage, Builder!AnswerTruthful
    <2>5. CASE f # "Build"
      <3>1. stage' = "answered"
        BY <1>2, <2>3, <2>5
      <3>2. Builder!AnswerTruthful'
        BY <1>2, <1>8, <2>2, <2>5 DEF Builder!AnswerTruthful
      <3> QED BY <1>1, <1>2, <1>5, <1>6, <3>1, <3>2
              DEF BuildCallOK, VerifyStage, Prepared, CreateStage, LeavesStage, Fns
    <2> QED BY <2>4, <2>5
  <1> QED BY <1>7, <1>8

LEMMA ReturnKeeps == ASSUME BuildInv, Builder!Return PROVE BuildInv'
  <1> USE DEF BuildInv
  <1>1. /\ fn' = "none" /\ stage' = "none" /\ scene' = <<>> /\ finished' = {} /\ thrown' = FALSE
        /\ tree' = {} /\ reads' = {}
    BY DEF Builder!Return
  <1>2. BuildTypeOK' /\ BuildCallOK' /\ Builder!ReadsDescribed'
    BY <1>1 DEF BuildTypeOK, BuildCallOK, BuildStages, Builder!ReadsDescribed
  <1> QED BY <1>1, <1>2 DEF VerifyStage, Prepared, CreateStage, LeavesStage, Builder!AnswerTruthful

LEMMA VerifyKeeps ==
  ASSUME BuildInv, NEW i \in DOMAIN scene, Builder!Verify(i)
  PROVE  BuildInv'
  <1> USE DEF BuildInv
  <1>1. /\ stage = "verify" /\ finished' = finished \union {i}
        /\ thrown' = (thrown \/ ~Builder!VerifyGeometryDesc(scene[i]))
        /\ UNCHANGED <<fn, wrong, scene, exceeded, stage, tree, reads, answer>>
    BY DEF Builder!Verify, Builder!Task
  <1>2. BuildTypeOK'
    BY <1>1 DEF BuildTypeOK
  <1>3. VerifyStage'
    BY <1>1 DEF VerifyStage
  <1> QED BY <1>1, <1>2, <1>3
          DEF BuildCallOK, Prepared, CreateStage, LeavesStage, Builder!ReadsDescribed, Builder!AnswerTruthful

LEMMA ProceedKeeps == ASSUME BuildInv, Builder!Advance PROVE BuildInv'
  <1> USE DEF BuildInv
  <1>1. CASE Builder!Proceed("verify", "create")
    <2>1. /\ stage = "verify" /\ ~thrown /\ finished = DOMAIN scene /\ "memory" \notin exceeded
          /\ stage' = "create" /\ finished' = {}
          /\ UNCHANGED <<fn, wrong, scene, exceeded, thrown, tree, reads, answer>>
      BY <1>1 DEF Builder!Proceed
    <2>2. tree = {} /\ \A i \in DOMAIN scene : Builder!VerifyGeometryDesc(scene[i])
      BY <2>1 DEF VerifyStage
    <2>3. BuildTypeOK' /\ BuildCallOK'
      BY <2>1 DEF BuildTypeOK, BuildCallOK, BuildStages
    <2> QED BY <2>1, <2>2, <2>3
            DEF VerifyStage, Prepared, CreateStage, LeavesStage, Builder!ReadsDescribed, Builder!AnswerTruthful
  <1>2. CASE Builder!Proceed("create", "leaves")
    <2>1. /\ stage = "create" /\ ~thrown /\ finished = DOMAIN scene /\ stage' = "leaves" /\ finished' = {}
          /\ UNCHANGED <<fn, wrong, scene, exceeded, thrown, tree, reads, answer>>
      BY <1>2 DEF Builder!Proceed
    <2>2. \A i \in DOMAIN scene : Holds(i) /\ ~Builder!TransformUnknown(scene[i])
      BY <2>1 DEF CreateStage
    <2>3. \A i \in DOMAIN scene : Holds(i)' /\ ~Builder!TransformUnknown(scene'[i])
      BY <2>1, <2>2 DEF Holds, Held
    <2>4. BuildTypeOK' /\ BuildCallOK'
      BY <2>1 DEF BuildTypeOK, BuildCallOK, BuildStages
    <2> QED BY <2>1, <2>3, <2>4
            DEF VerifyStage, Prepared, CreateStage, LeavesStage, Builder!ReadsDescribed, Builder!AnswerTruthful
  <1> QED BY <1>1, <1>2 DEF Builder!Advance

(* What a verified geometry with primitives has.                            *)
LEMMA VerifiedFacts ==
  ASSUME NEW g \in Builder!Geometry, Builder!VerifyGeometryDesc(g)
  PROVE  /\ DOMAIN g.prims = 1 .. Len(g.prims) /\ Len(g.prims) \in Nat
         /\ \A j \in 1 .. Builder!GetNumPrimitives(g) :
              /\ j \in DOMAIN g.prims /\ g.prims[j] \in Nat /\ g.data
              /\ Builder!HasVertices(g) /\ Builder!VertexInRange(g, g.prims[j]) => g.vertices
  <1>1. g.prims \in Seq(Nat) /\ g.vertexCount \in Nat /\ g.kind \in Builder!Kinds
    BY DEF Builder!Geometry
  <1>2. DOMAIN g.prims = 1 .. Len(g.prims) /\ Len(g.prims) \in Nat
    BY <1>1
  <1>3. ASSUME NEW j \in 1 .. Builder!GetNumPrimitives(g)
        PROVE  /\ j \in DOMAIN g.prims /\ g.prims[j] \in Nat /\ g.data
               /\ Builder!HasVertices(g) /\ Builder!VertexInRange(g, g.prims[j]) => g.vertices
    <2>1. g.kind \notin {"null", "other"} /\ j \in 1 .. Len(g.prims)
      BY <1>2 DEF Builder!GetNumPrimitives
    <2>2. j \in DOMAIN g.prims /\ g.prims[j] \in Nat /\ g.prims # <<>>
      BY <1>1, <1>2, <2>1
    <2>3. g.data
      BY <1>1, <2>1, <2>2 DEF Builder!VerifyGeometryDesc, Builder!Kinds
    <2>4. Builder!HasVertices(g) /\ g.vertexCount > 0 => g.vertices
      BY <2>1 DEF Builder!VerifyGeometryDesc, Builder!HasVertices
    <2> QED BY <1>1, <2>2, <2>3, <2>4 DEF Builder!VertexInRange
  <1> QED BY <1>2, <1>3

LEMMA CreateKeeps ==
  ASSUME BuildInv, NEW i \in DOMAIN scene, Builder!CreatePrimRefs(i)
  PROVE  BuildInv'
  <1> USE DEF BuildInv
  <1> DEFINE g == scene[i]
  <1>1. /\ stage = "create" /\ i \notin finished /\ finished' = finished \union {i}
        /\ reads' = reads \union UNION {Builder!ReadsOf(i, j) : j \in 1 .. Builder!GetNumPrimitives(g)}
        /\ thrown' = (thrown \/ Builder!TransformUnknown(g))
        /\ UNCHANGED <<fn, wrong, scene, exceeded, stage, answer>>
    BY DEF Builder!CreatePrimRefs, Builder!Task
  <1>2. PICK prims \in Builder!Created(g) : tree' = tree \union {<<i, j>> : j \in prims}
    BY DEF Builder!CreatePrimRefs
  <1>3. g \in Builder!Geometry /\ Builder!VerifyGeometryDesc(g)
    BY <1>1, SceneFacts DEF BuildTypeOK, Prepared
  <1>4. prims \subseteq Valid(g) /\ (g.kind # "TRIANGLES" => prims = Valid(g))
    <2>1. CASE Builder!GetNumPrimitives(g) = 0
      BY <1>2, <2>1 DEF Builder!Created, Valid
    <2>2. CASE Builder!GetNumPrimitives(g) # 0
      <3>1. Builder!GetNumPrimitives(g) = Len(g.prims) /\ DOMAIN g.prims = 1 .. Len(g.prims)
        BY <1>3, <2>2, VerifiedFacts DEF Builder!GetNumPrimitives
      <3>2. Valid(g) = {j \in DOMAIN g.prims : Builder!IsValid(g, g.prims[j])}
        BY <3>1 DEF Valid
      <3> QED BY <1>2, <2>2, <3>2 DEF Builder!Created
    <2> QED BY <2>1, <2>2
  <1>5. BuildTypeOK' /\ BuildCallOK'
    BY <1>1 DEF BuildTypeOK, BuildCallOK
  <1>6. Held(i)' = prims
    <2>1. \A q \in tree : q[1] # i
      BY <1>1 DEF CreateStage
    <2>2. {q \in tree' : q[1] = i} = {<<i, j>> : j \in prims}
      BY <1>2, <2>1
    <2>3. \A x : x \in Held(i)' <=> \E j \in prims : x = <<i, j>>[2]
      BY <2>2, Zenon DEF Held
    <2> QED BY <2>3
  <1>7. \A k \in finished : Held(k)' = Held(k)
    <2>1. \A k \in finished : {q \in tree' : q[1] = k} = {q \in tree : q[1] = k}
      BY <1>1, <1>2
    <2> QED BY <2>1 DEF Held
  <1>8. \A k \in finished' : Holds(k)'
    <2>1. Holds(i)'
      BY <1>1, <1>4, <1>6 DEF Holds
    <2>2. \A k \in finished : Holds(k)'
      BY <1>1, <1>7 DEF Holds, CreateStage
    <2> QED BY <1>1, <2>1, <2>2
  <1>9. CreateStage'
    <2>1. \A p \in tree' : p[1] \in finished'
      BY <1>1, <1>2 DEF CreateStage
    <2>2. \A k \in finished' : thrown' \/ ~Builder!TransformUnknown(scene'[k])
      BY <1>1 DEF CreateStage
    <2>3. thrown' => \E k \in DOMAIN scene' : Builder!TransformUnknown(scene'[k])
      BY <1>1 DEF CreateStage
    <2> QED BY <1>8, <2>1, <2>2, <2>3 DEF CreateStage
  <1>10. Builder!ReadsDescribed'
    <2> SUFFICES ASSUME NEW r \in reads'
                 PROVE  IF r[3] = "data" THEN scene[r[1]].data
                        ELSE scene[r[1]].vertices /\ scene[r[1]].prims[r[2]] < scene[r[1]].vertexCount
      BY <1>1 DEF Builder!ReadsDescribed
    <2>1. CASE r \in reads
      BY <2>1 DEF Builder!ReadsDescribed
    <2>2. CASE r \notin reads
      <3>1. PICK j \in 1 .. Builder!GetNumPrimitives(g) : r \in Builder!ReadsOf(i, j)
        BY <1>1, <2>2
      <3>2. \/ r = <<i, j, "data">>
            \/ r = <<i, j, "vertex">> /\ Builder!HasVertices(g) /\ Builder!VertexInRange(g, g.prims[j])
        BY <3>1 DEF Builder!ReadsOf
      <3>3. g.data /\ (Builder!HasVertices(g) /\ Builder!VertexInRange(g, g.prims[j]) => g.vertices)
        BY <1>3, VerifiedFacts
      <3>4. CASE r = <<i, j, "data">>
        BY <3>3, <3>4
      <3>5. CASE r = <<i, j, "vertex">> /\ Builder!HasVertices(g) /\ Builder!VertexInRange(g, g.prims[j])
        BY <3>3, <3>5 DEF Builder!VertexInRange
      <3> QED BY <3>2, <3>4, <3>5
    <2> QED BY <2>1, <2>2
  <1> QED BY <1>1, <1>5, <1>9, <1>10 DEF VerifyStage, Prepared, LeavesStage, Builder!AnswerTruthful

LEMMA LeavesKeep ==
  ASSUME BuildInv, NEW i \in DOMAIN scene, Builder!CreateLeaves(i)
  PROVE  BuildInv'
  <1> USE DEF BuildInv
  <1> DEFINE g == scene[i]
  <1>1. /\ stage = "leaves" /\ finished' = finished \union {i}
        /\ reads' = reads \union
             {<<p[1], p[2], x>> : p \in {q \in tree : q[1] = i},
                                  x \in IF Builder!HasVertices(g) THEN {"data", "vertex"} ELSE {"data"}}
        /\ UNCHANGED <<fn, wrong, scene, exceeded, stage, thrown, tree, answer>>
    BY DEF Builder!CreateLeaves, Builder!Task
  <1>2. g \in Builder!Geometry /\ Builder!VerifyGeometryDesc(g) /\ Held(i) \subseteq Valid(g)
    BY <1>1, SceneFacts DEF BuildTypeOK, Prepared, LeavesStage, Holds
  <1>3. BuildTypeOK' /\ BuildCallOK'
    BY <1>1 DEF BuildTypeOK, BuildCallOK
  <1>4. LeavesStage'
    BY <1>1 DEF LeavesStage, Holds, Held, Builder!Deep
  <1>5. Builder!ReadsDescribed'
    <2> SUFFICES ASSUME NEW r \in reads'
                 PROVE  IF r[3] = "data" THEN scene[r[1]].data
                        ELSE scene[r[1]].vertices /\ scene[r[1]].prims[r[2]] < scene[r[1]].vertexCount
      BY <1>1 DEF Builder!ReadsDescribed
    <2>1. CASE r \in reads
      BY <2>1 DEF Builder!ReadsDescribed
    <2>2. CASE r \notin reads
      <3>1. PICK p \in {q \in tree : q[1] = i},
                 x \in IF Builder!HasVertices(g) THEN {"data", "vertex"} ELSE {"data"} : r = <<p[1], p[2], x>>
        BY <1>1, <2>2
      <3>2. p[2] \in Valid(g) /\ p[1] = i
        BY <1>2, <3>1 DEF Held
      <3>3. /\ p[2] \in 1 .. Builder!GetNumPrimitives(g)
            /\ Builder!HasVertices(g) => Builder!VertexInRange(g, g.prims[p[2]])
        BY <3>2 DEF Valid, Builder!IsValid
      <3>4. g.data /\ (Builder!HasVertices(g) => g.vertices)
        BY <1>2, <3>3, VerifiedFacts
      <3>5. r[1] = i /\ r[2] = p[2] /\ r[3] = x
        BY <3>1, <3>2
      <3>6. x = "data" \/ (x = "vertex" /\ Builder!HasVertices(g))
        BY <3>1
      <3> QED BY <3>3, <3>4, <3>5, <3>6 DEF Builder!VertexInRange
    <2> QED BY <2>1, <2>2
  <1> QED BY <1>1, <1>3, <1>4, <1>5 DEF VerifyStage, Prepared, CreateStage, Builder!AnswerTruthful

(* An exception that no geometry is to blame for.                           *)
LEMMA LimitKeeps == ASSUME BuildInv, Builder!OutOfMemory \/ Builder!TooDeep PROVE BuildInv'
  <1> USE DEF BuildInv
  <1>1. /\ stage \in {"verify", "leaves"} /\ thrown' = TRUE
        /\ UNCHANGED <<fn, wrong, scene, exceeded, stage, finished, tree, reads, answer>>
    BY DEF Builder!OutOfMemory, Builder!TooDeep
  <1>2. BuildTypeOK' /\ BuildCallOK'
    BY <1>1 DEF BuildTypeOK, BuildCallOK
  <1>3. VerifyStage' /\ LeavesStage'
    <2>1. CASE Builder!OutOfMemory
      <3>1. stage = "verify" /\ "memory" \in exceeded
        BY <2>1 DEF Builder!OutOfMemory
      <3> QED BY <1>1, <3>1 DEF VerifyStage, LeavesStage
    <2>2. CASE Builder!TooDeep
      <3>1. stage = "leaves" /\ Builder!Deep
        BY <2>2 DEF Builder!TooDeep
      <3>2. Builder!Deep'
        BY <1>1, <3>1 DEF Builder!Deep
      <3>3. \A i \in DOMAIN scene : Holds(i)' <=> Holds(i)
        BY <1>1 DEF Holds, Held
      <3> QED BY <1>1, <3>1, <3>2, <3>3 DEF VerifyStage, LeavesStage
    <2> QED BY <2>1, <2>2
  <1> QED BY <1>1, <1>2, <1>3
          DEF Prepared, CreateStage, Builder!ReadsDescribed, Builder!AnswerTruthful

LEMMA AnsweredKeeps == ASSUME BuildInv, Builder!Built \/ Builder!Caught PROVE BuildInv'
  <1> USE DEF BuildInv
  <1>1. /\ stage \in {"verify", "create", "leaves"} /\ stage' = "answered"
        /\ UNCHANGED <<api, fn, wrong, scene, exceeded, finished, thrown, tree, reads>>
    BY DEF Builder!Built, Builder!Caught
  <1>2. fn = "Build" /\ wrong = {}
    BY <1>1 DEF BuildCallOK
  <1>3. Builder!AnswerTruthful'
    <2>1. CASE Builder!Built
      <3>1. /\ stage = "leaves" /\ ~thrown
            /\ \/ answer' = <<"SUCCESS">> /\ ~Builder!Deep
               \/ answer' = <<"RETRY", api>>
        BY <2>1 DEF Builder!Built
      <3>2. "memory" \notin exceeded /\ \A i \in DOMAIN scene : Builder!Described(scene[i]) /\ Holds(i)
        BY <3>1 DEF LeavesStage, Prepared, Builder!Described
      <3>3. /\ answer' # <<"exception">> /\ answer' # <<"ERROR_UNKNOWN">>
            /\ answer' \in {<<"SUCCESS">>, <<"RETRY", api>>}
            /\ answer' = <<"SUCCESS">> => ~Builder!Deep
        BY <3>1
      <3>4. Builder!Deep' <=> Builder!Deep
        BY <1>1 DEF Builder!Deep
      <3> QED BY <1>1, <1>2, <3>1, <3>2, <3>3, <3>4 DEF Builder!AnswerTruthful, Holds, Held, Valid
    <2>2. CASE Builder!Caught
      <3>1. answer' = <<"ERROR_UNKNOWN">> /\ thrown
        BY <2>2 DEF Builder!Caught
      <3>2. \/ \E i \in DOMAIN scene : ~Builder!Described(scene[i])
            \/ "memory" \in exceeded \/ Builder!Deep
        BY <1>1, <3>1 DEF VerifyStage, CreateStage, LeavesStage, Builder!Described
      <3>3. answer' # <<"exception">> /\ answer' # <<"SUCCESS">>
        BY <3>1
      <3>4. Builder!Deep' <=> Builder!Deep
        BY <1>1 DEF Builder!Deep
      <3> QED BY <1>1, <1>2, <3>1, <3>2, <3>3, <3>4 DEF Builder!AnswerTruthful
    <2> QED BY <2>1, <2>2
  <1>4. BuildTypeOK' /\ BuildCallOK'
    BY <1>1, <1>2 DEF BuildTypeOK, BuildCallOK, BuildStages
  <1> QED BY <1>1, <1>3, <1>4 DEF VerifyStage, Prepared, CreateStage, LeavesStage, Builder!ReadsDescribed

LEMMA BuildInvStep ==
  ASSUME BuildInv, [Builder!Next]_Builder!vars
  PROVE  BuildInv'
  <1>1. CASE UNCHANGED Builder!vars
    BY <1>1 DEF Builder!vars, BuildInv, BuildTypeOK, BuildCallOK, VerifyStage, Prepared, CreateStage, LeavesStage, Holds,
                Held, Builder!Deep, Builder!ReadsDescribed, Builder!AnswerTruthful
  <1>2. CASE \E f \in DOMAIN Builder!Tests : Builder!Call(f)
    BY <1>2, BeginKeeps
  <1>3. CASE Builder!BuildTask
    BY <1>3, VerifyKeeps, CreateKeeps, LeavesKeep DEF Builder!BuildTask
  <1>4. CASE \/ Builder!Advance \/ Builder!OutOfMemory \/ Builder!TooDeep
           \/ Builder!Built \/ Builder!Caught \/ Builder!Return
    BY <1>4, ProceedKeeps, LimitKeeps, AnsweredKeeps, ReturnKeeps
  <1> QED BY <1>1, <1>2, <1>3, <1>4 DEF Builder!Next

------------------------------------------------------------------------------
(* The properties of a device. The chain is out of order only while the     *)
(* driver is called, and then a format is already known.                    *)
Asked == mode = "INTERNAL" /\ given # <<>> /\ Head(given) = "RTAS"

Supported ==
  /\ device.vendor = "Intel"
  /\ format = IF device.family \in Device!Version2 /\ ~disable THEN "VERSION_2" ELSE "VERSION_1"

DeviceInv ==
  /\ given \in Seq({"RTAS", "other"})
  /\ at \in {"idle", "ask", "unlinked", "back"}
  /\ at \in {"idle", "ask", "back"} => chain = given
  /\ at \in {"ask", "unlinked"} => Asked
  /\ at = "unlinked" => chain = Tail(given) /\ Supported
  /\ at = "back" /\ result = "SUCCESS" /\ Asked => Supported

LEMMA DeviceInvInit == ASSUME Device!Init PROVE DeviceInv
  BY CallsAssumption DEF Device!Init, DeviceInv, Device!DevicePropertiesAssumption

(* What the identifiers of a supported device say.                          *)
LEMMA FormatFacts ==
  ASSUME format' = Device!DeviceFormat, format' # "INVALID", UNCHANGED <<device, disable>>
  PROVE  Supported'
  BY DEF Device!DeviceFormat, Supported, Device!Version1, Device!Version2

LEMMA DeviceInvStep ==
  ASSUME DeviceInv, [Device!Next]_Device!vars
  PROVE  DeviceInv'
  <1>1. CASE UNCHANGED Device!vars
    BY <1>1 DEF Device!vars, DeviceInv, Asked, Supported
  <1>2. CASE Device!Begin
    BY <1>2 DEF Device!Begin, DeviceInv, Asked, Supported
  <1>3. CASE Device!AskDevice
    <2>1. /\ at = "ask" /\ UNCHANGED <<mode, device, disable, given>>
          /\ \/ /\ result' = "SUCCESS" /\ at' = "unlinked" /\ chain' = Tail(chain)
                /\ format' = Device!DeviceFormat /\ Device!DeviceFormat # "INVALID"
             \/ result' # "SUCCESS" /\ at' = "back" /\ chain' = chain
      BY <1>3 DEF Device!AskDevice
    <2>2. chain = given /\ Asked /\ Asked' /\ given \in Seq({"RTAS", "other"})
      BY <2>1 DEF DeviceInv, Asked
    <2>3. result' = "SUCCESS" => Supported'
      BY <2>1, FormatFacts
    <2> QED BY <2>1, <2>2, <2>3 DEF DeviceInv
  <1>4. CASE Device!CallDriver
    <2>1. /\ at = "unlinked" /\ at' = "back" /\ chain' = <<"RTAS">> \o chain
          /\ UNCHANGED <<mode, device, disable, given, format>>
      BY <1>4 DEF Device!CallDriver
    <2>2. /\ given \in Seq({"RTAS", "other"}) /\ given # <<>> /\ Head(given) = "RTAS"
          /\ chain = Tail(given) /\ Supported
      BY <2>1 DEF DeviceInv, Asked
    <2>3. <<"RTAS">> \o Tail(given) = given
      BY <2>2
    <2>4. Supported'
      BY <2>1, <2>2 DEF Supported
    <2> QED BY <2>1, <2>2, <2>3, <2>4 DEF DeviceInv
  <1>5. CASE Device!Again
    BY <1>5 DEF Device!Again, DeviceInv, Asked
  <1> QED BY <1>1, <1>2, <1>3, <1>4, <1>5 DEF Device!Next

------------------------------------------------------------------------------
(* Together: a step is one of the wrapper, of a device or of a builder, and *)
(* leaves the others alone.                                                 *)
LibraryInv ==
  /\ subject = "wrapper" => CallInv
  /\ subject = "device" => DeviceInv
  /\ subject = "builder" => BuildInv

Library == <<subject, vars, ofDevice, ofBuild>>

LEMMA LibraryInit == InitOfAny => LibraryInv
  BY CallInvInit, DeviceInvInit, BuildInvInit DEF InitOfAny, LibraryInv

LEMMA LibraryStep == LibraryInv /\ [NextOfAny]_Library => LibraryInv'
  <1> SUFFICES ASSUME LibraryInv, [NextOfAny]_Library PROVE LibraryInv'
    OBVIOUS
  <1> USE DEF LibraryInv
  <1>1. subject' = subject
    BY DEF NextOfAny, Library, WrapperStep, WrapperCall, InWrapper, DeviceBegin, DeviceAsk,
           DeviceDriver, DeviceAgain, InDevice, BuilderCall, BuilderTask, BuilderAdvance,
           BuilderOutOfMemory, BuilderTooDeep, BuilderBuilt, BuilderCaught, BuilderReturn, InBuilder
  <1>2. CASE subject = "wrapper"
    <2>1. [Next]_vars
      BY <1>2 DEF NextOfAny, Library, WrapperStep, WrapperCall, DeviceBegin, DeviceAsk, DeviceDriver,
                  DeviceAgain, InDevice, BuilderCall, BuilderTask, BuilderAdvance, BuilderOutOfMemory, BuilderTooDeep, BuilderBuilt,
                  BuilderCaught, BuilderReturn, InBuilder, Next
    <2> QED BY <1>1, <1>2, <2>1, CallInvStep
  <1>3. CASE subject = "device"
    <2>1. [Device!Next]_Device!vars
      BY <1>3 DEF NextOfAny, Library, ofDevice, WrapperStep, WrapperCall, InWrapper, DeviceBegin,
                  DeviceAsk, DeviceDriver, DeviceAgain, BuilderCall, BuilderTask, BuilderAdvance,
                  BuilderOutOfMemory, BuilderTooDeep, BuilderBuilt, BuilderCaught, BuilderReturn, InBuilder, Device!Next, Device!vars
    <2> QED BY <1>1, <1>3, <2>1, DeviceInvStep
  <1>4. CASE subject = "builder"
    <2>1. [Builder!Next]_Builder!vars
      BY <1>4 DEF NextOfAny, Library, ofBuild, WrapperStep, WrapperCall, InWrapper, DeviceBegin,
                  DeviceAsk, DeviceDriver, DeviceAgain, InDevice, BuilderCall, BuilderTask,
                  BuilderAdvance, BuilderOutOfMemory, BuilderTooDeep, BuilderBuilt, BuilderCaught, BuilderReturn, Builder!Next,
                  Builder!vars
    <2> QED BY <1>1, <1>4, <2>1, BuildInvStep
  <1>5. CASE subject \notin {"wrapper", "device", "builder"}
    BY <1>1, <1>5
  <1> QED BY <1>2, <1>3, <1>4, <1>5

(* Whatever a driver answers, the program gets its chain of structures      *)
(* back, and a call that succeeds has filled in a format of the device.     *)
THEOREM ChainIsKept == SpecOfAny => []ChainKept
  <1>1. LibraryInv => ChainKept
    BY DEF LibraryInv, DeviceInv, ChainKept, Device!ChainKept, Asked, Supported
  <1> QED BY <1>1, LibraryInit, LibraryStep, PTL DEF SpecOfAny, Library

(* No build reads through a null pointer or beyond the vertices of a        *)
(* geometry, whatever the program describes.                                *)
THEOREM ReadsOnlyDescribed == SpecOfAny => []ReadsDescribed
  <1>1. LibraryInv => ReadsDescribed
    BY DEF LibraryInv, BuildInv, ReadsDescribed
  <1> QED BY <1>1, LibraryInit, LibraryStep, PTL DEF SpecOfAny, Library

(* Every answer is true, whatever stops the builder: an error names         *)
(* something that is wrong, an unknown one has a cause in the geometries or *)
(* in a limit, and without one every geometry is described, no exception    *)
(* was thrown, and the tree has what it should.                             *)
THEOREM AnswersTruthfully == SpecOfAny => []AnswerTruthful
  <1>1. LibraryInv => AnswerTruthful
    BY DEF LibraryInv, BuildInv, AnswerTruthful
  <1> QED BY <1>1, LibraryInit, LibraryStep, PTL DEF SpecOfAny, Library
==============================================================================
