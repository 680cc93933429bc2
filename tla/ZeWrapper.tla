------------------------------ MODULE ZeWrapper ------------------------------
(***************************************************************************)
(* The wrapper of the Level Zero library (level_zero/ze_wrapper.cpp): a     *)
(* table of function pointers, filled by init from the loader and by        *)
(* initRTASBuilder either from the loader or from the internal builder.     *)
(*                                                                          *)
(* Filling the table is guarded by a mutex; the calls through the table     *)
(* read it, and the module handle, without the mutex. A symbol that the     *)
(* loader does not have ends a filling half way.                            *)
(* Definitions named Mut... are faulty versions of the definition that      *)
(* follows them, with which the properties are known to fail.               *)
(***************************************************************************)
EXTENDS Integers, Sequences, SequencesExt, FiniteSets

CONSTANTS
  Threads,    \* The threads of the program.
  BaseNames,  \* The functions init looks up, in order.
  Apis,       \* The APIs the program uses, of "EXP" and "EXT".
  ApiNames,   \* ApiNames[a]: the builder functions of API a, in order of lookup.
  InternalNames, \* InternalNames[a]: those the internal builder has.
  Modes,      \* The modes the program asks for, of "INTERNAL", "LEVEL_ZERO".
  Loaders,    \* The possible loaders, each the set of symbols it has.
  Nobody,     \* The mutex is free.
  MaxCalls    \* Bound: the calls of a thread.

AllApis == {"EXP", "EXT"}

Symbols(api) == {<<api, n>> : n \in ToSet(ApiNames[api])}

BaseSymbols == {<<"BASE", n>> : n \in ToSet(BaseNames)}

AllSymbols == BaseSymbols \union UNION {Symbols(a) : a \in AllApis}

ASSUME ZeWrapperAssumption ==
  /\ Apis \subseteq AllApis
  /\ Modes \subseteq {"INTERNAL", "LEVEL_ZERO"}
  /\ \A l \in Loaders : l \subseteq AllSymbols
  /\ Nobody \notin Threads
  /\ BaseNames \in Seq(STRING)
  /\ \A a \in AllApis :
       /\ ApiNames[a] \in Seq(STRING) /\ SubSeq(ApiNames[a], 1, 2) = <<"Create", "Destroy">>
       /\ InternalNames[a] \in Seq(STRING) /\ ToSet(InternalNames[a]) \subseteq ToSet(ApiNames[a])
  /\ MaxCalls \in Nat

VARIABLES
  exported,    \* The symbols of the loader that is installed.
  failed,      \* History: a selection ended at a missing symbol.
  handle,      \* The module is loaded.
  fp,          \* fp[s]: "null", or where the function of symbol s lives.
  rtasBuilder, \* ZeWrapper::rtas_builder.
  mutex,       \* The thread that holds zeWrapperMutex, or Nobody.
  pc,          \* pc[t]: what thread t does.
  job,         \* job[t]: the call of thread t.
  calls,       \* calls[t]: the calls thread t has begun.
  granted      \* What was answered with success: "BASE" and APIs.

vars == <<exported, failed, handle, fp, rtasBuilder, mutex, pc, job, calls, granted>>

NoJob == [symbol |-> <<"BASE", "">>, api |-> "BASE", mode |-> "INVALID", next |-> 1,
          promised |-> FALSE, reached |-> "none"]

Init ==
  /\ exported \in Loaders
  /\ failed = FALSE
  /\ handle = FALSE
  /\ fp = [s \in AllSymbols |-> "null"]
  /\ rtasBuilder = "INVALID"
  /\ mutex = Nobody
  /\ pc = [t \in Threads |-> "idle"]
  /\ job = [t \in Threads |-> NoJob]
  /\ calls = [t \in Threads |-> 0]
  /\ granted = {}

Begin(t, state, j) ==
  /\ pc[t] = "idle"
  /\ calls[t] < MaxCalls
  /\ calls' = [calls EXCEPT ![t] = @ + 1]
  /\ pc' = [pc EXCEPT ![t] = state]
  /\ job' = [job EXCEPT ![t] = j]

Goto(t, state) == pc' = [pc EXCEPT ![t] = state]

(* Returning from a call; the lock_guard gives the mutex back.              *)
Return(t) ==
  /\ pc' = [pc EXCEPT ![t] = "idle"]
  /\ job' = [job EXCEPT ![t] = NoJob]

MutUnlock(t) == Return(t) /\ mutex' \in {Nobody, t}

Unlock(t) == Return(t) /\ mutex' = Nobody

Lock(t) == mutex = Nobody /\ mutex' = t

------------------------------------------------------------------------------
(* ZeWrapper::init.                                                         *)
CallInit(t) ==
  /\ Begin(t, "init", NoJob)
  /\ UNCHANGED <<exported, failed, handle, fp, rtasBuilder, mutex, granted>>

InitAgain(t) ==
  /\ pc[t] = "init" /\ mutex = Nobody /\ handle
  /\ Return(t)
  /\ granted' = granted \union {"BASE"}
  /\ UNCHANGED <<exported, failed, handle, fp, rtasBuilder, mutex, calls>>

(* load_module throws when there is no loader; nothing is kept then.        *)
LoadModule(t) ==
  /\ pc[t] = "init" /\ ~handle /\ Lock(t)
  /\ handle' = TRUE
  /\ Goto(t, "lookup")
  /\ UNCHANGED <<exported, failed, fp, rtasBuilder, job, calls, granted>>

LoadFails(t) ==
  /\ pc[t] = "init" /\ mutex = Nobody /\ ~handle
  /\ Return(t)
  /\ UNCHANGED <<exported, failed, handle, fp, rtasBuilder, mutex, calls, granted>>

(* find_symbol, one function after the other; the first that the loader     *)
(* does not have ends init with ZE_RESULT_ERROR_UNKNOWN.                    *)
BaseSymbol(t) == <<"BASE", BaseNames[job[t].next]>>

Lookup(t) ==
  /\ pc[t] = "lookup" /\ job[t].next <= Len(BaseNames)
  /\ BaseSymbol(t) \in exported
  /\ fp' = [fp EXCEPT ![BaseSymbol(t)] = "loader"]
  /\ job' = [job EXCEPT ![t].next = @ + 1]
  /\ UNCHANGED <<exported, failed, handle, rtasBuilder, mutex, pc, calls, granted>>

LookupFails(t) ==
  /\ pc[t] = "lookup" /\ job[t].next <= Len(BaseNames)
  /\ BaseSymbol(t) \notin exported
  /\ Unlock(t)
  /\ UNCHANGED <<exported, failed, handle, fp, rtasBuilder, calls, granted>>

InitDone(t) ==
  /\ pc[t] = "lookup" /\ job[t].next > Len(BaseNames)
  /\ Unlock(t)
  /\ granted' = granted \union {"BASE"}
  /\ UNCHANGED <<exported, failed, handle, fp, rtasBuilder, calls>>

------------------------------------------------------------------------------
(* ZeWrapper::initRTASBuilder.                                              *)
CallSelect(t, api, mode) ==
  /\ Begin(t, "select", [NoJob EXCEPT !.api = api, !.mode = mode])
  /\ UNCHANGED <<exported, failed, handle, fp, rtasBuilder, mutex, granted>>

SelectedAlready(t) ==
  /\ pc[t] = "select" /\ mutex = Nobody /\ rtasBuilder = job[t].mode
  /\ Return(t)
  /\ granted' = granted \union {job[t].api}
  /\ UNCHANGED <<exported, failed, handle, fp, rtasBuilder, mutex, calls>>

MutSelect(t) ==
  /\ pc[t] = "select" /\ rtasBuilder # job[t].mode /\ Lock(t)
  /\ Goto(t, IF job[t].mode = "INTERNAL" THEN "install" ELSE "probe")
  /\ fp' = [s \in AllSymbols |-> IF s \in Symbols(job[t].api) THEN "null" ELSE fp[s]]
  /\ UNCHANGED <<exported, failed, handle, rtasBuilder, job, calls, granted>>

Select(t) ==
  /\ pc[t] = "select" /\ rtasBuilder # job[t].mode /\ Lock(t)
  /\ Goto(t, IF job[t].mode = "INTERNAL" THEN "install" ELSE "probe")
  /\ UNCHANGED <<exported, failed, handle, fp, rtasBuilder, job, calls, granted>>

(* The loader's Create and Destroy are found, and Create is tried, before   *)
(* anything is stored. Without a module dlsym finds nothing.                *)
ProbeNames == {"Create", "Destroy"}

CanProbe(t) == handle /\ \A n \in ProbeNames : <<job[t].api, n>> \in exported

(* A symbol is missing, or Create answers that the extension cannot be      *)
(* loaded.                                                                  *)
ProbeFails(t) ==
  /\ pc[t] = "probe"
  /\ Unlock(t)
  /\ UNCHANGED <<exported, failed, handle, fp, rtasBuilder, calls, granted>>

Probe(t) ==
  /\ pc[t] = "probe" /\ CanProbe(t)
  /\ Goto(t, "install")
  /\ UNCHANGED <<exported, failed, handle, fp, rtasBuilder, mutex, job, calls, granted>>

(* The symbols a selection stores, in order. The internal builder fills     *)
(* both APIs.                                                               *)
InternalSymbols(api) ==
  [i \in DOMAIN InternalNames[api] |-> <<api, InternalNames[api][i]>>]

ApiSymbols(api) == [i \in DOMAIN ApiNames[api] |-> <<api, ApiNames[api][i]>>]

MutStored(t) ==
  IF job[t].mode = "INTERNAL" THEN Tail(InternalSymbols("EXP")) \o InternalSymbols("EXT")
  ELSE ApiSymbols(job[t].api)

Stored(t) ==
  IF job[t].mode = "INTERNAL" THEN InternalSymbols("EXP") \o InternalSymbols("EXT")
  ELSE ApiSymbols(job[t].api)

Available(t, symbol) == job[t].mode = "INTERNAL" \/ symbol \in exported

Home(mode) == IF mode = "INTERNAL" THEN "internal" ELSE "loader"

Install(t) ==
  /\ pc[t] = "install" /\ job[t].next <= Len(Stored(t))
  /\ LET s == Stored(t)[job[t].next]
     IN Available(t, s) /\ fp' = [fp EXCEPT ![s] = Home(job[t].mode)]
  /\ job' = [job EXCEPT ![t].next = @ + 1]
  /\ UNCHANGED <<exported, failed, handle, rtasBuilder, mutex, pc, calls, granted>>

InstallFails(t) ==
  /\ pc[t] = "install" /\ job[t].next <= Len(Stored(t))
  /\ ~Available(t, Stored(t)[job[t].next])
  /\ Unlock(t)
  /\ failed' = TRUE
  /\ UNCHANGED <<exported, handle, fp, rtasBuilder, calls, granted>>

Selected(t) ==
  /\ pc[t] = "install" /\ job[t].next > Len(Stored(t))
  /\ rtasBuilder' = job[t].mode
  /\ Unlock(t)
  /\ granted' = granted \union {job[t].api}
  /\ UNCHANGED <<exported, failed, handle, fp, calls>>

------------------------------------------------------------------------------
(* A call through the table: first the test of handle and pointer, then the *)
(* call through the pointer, which is read again. The program calls         *)
(* functions of the APIs it uses.                                           *)
CallFunction(t, s) ==
  /\ Begin(t, IF handle /\ fp[s] # "null" THEN "invoke" ELSE "refused",
           [NoJob EXCEPT !.symbol = s, !.promised = {"BASE", s[1]} \subseteq granted])
  /\ UNCHANGED <<exported, failed, handle, fp, rtasBuilder, mutex, granted>>

Invoke(t) ==
  /\ pc[t] = "invoke"
  /\ Goto(t, "invoked")
  /\ job' = [job EXCEPT ![t].reached = fp[job[t].symbol]]
  /\ UNCHANGED <<exported, failed, handle, fp, rtasBuilder, mutex, calls, granted>>

(* The function returns, or the exception is thrown.                        *)
Returned(t) ==
  /\ pc[t] \in {"invoked", "refused"}
  /\ Return(t)
  /\ UNCHANGED <<exported, failed, handle, fp, rtasBuilder, mutex, calls, granted>>

Step(t) ==
  \/ InitAgain(t) \/ LoadModule(t) \/ LoadFails(t)
  \/ Lookup(t) \/ LookupFails(t) \/ InitDone(t)
  \/ SelectedAlready(t) \/ Select(t)
  \/ ProbeFails(t) \/ Probe(t)
  \/ Install(t) \/ InstallFails(t) \/ Selected(t)
  \/ Invoke(t) \/ Returned(t)

Call(t) ==
  \/ CallInit(t)
  \/ \E a \in Apis, m \in Modes : CallSelect(t, a, m)
  \/ \E s \in BaseSymbols \union UNION {Symbols(a) : a \in Apis} : CallFunction(t, s)

Next == \E t \in Threads : Step(t) \/ Call(t)

(* A thread that is in a call goes on; it need not make another.            *)
Spec == Init /\ [][Next]_vars /\ \A t \in Threads : WF_vars(Step(t))

------------------------------------------------------------------------------
(* What the exceptions of refused calls say, "ZeWrapper not initialized,    *)
(* call ZeWrapper::init() first.": init, or initRTASBuilder for the API     *)
(* that is called, has not succeeded before the call. The code breaks it    *)
(* when init goes on after a missing symbol, and for AppendCopy, which the  *)
(* internal builder does not have.                                          *)
RefusalTruthful == \A t \in Threads : pc[t] = "refused" => ~job[t].promised

(* A pointer that passed the test is not null when it is called, although   *)
(* other threads fill the table in between.                                 *)
NoNullCall == \A t \in Threads : pc[t] = "invoked" => job[t].reached # "null"

(* While no one fills the table, and no selection has stopped half way, the *)
(* functions of an API that was granted are those of the selected mode.     *)
TableMatchesMode ==
  mutex = Nobody /\ ~failed =>
    \A a \in granted \intersect AllApis : \A s \in Symbols(a) : fp[s] = Home(rtasBuilder)

(* Every call returns; the mutex is always given back.                      *)
CallsReturn == \A t \in Threads : pc[t] # "idle" ~> pc[t] = "idle"
==============================================================================
