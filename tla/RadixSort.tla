------------------------------ MODULE RadixSort ------------------------------
(***************************************************************************)
(* ParallelRadixSort (rtbuild/algorithms/parallel_sort.h), by which the      *)
(* pre-splitting orders its items. Each iteration sorts by one digit of the  *)
(* key, from an array to the other: all tasks count the digits of their      *)
(* share (tbbRadixIteration0), then all copy (tbbRadixIteration1) to places  *)
(* that each works out for itself from everybody's counts. Tasks of a half   *)
(* run in any order. An item is the place where it stood at first.           *)
(* Definitions named Mut... are faulty versions of the definition after      *)
(* them, with which the properties are known to fail.                        *)
(***************************************************************************)
EXTENDS Integers, FiniteSets, FiniteSetsExt, Functions

CONSTANTS
  Sizes,        \* Numbers of items.
  Digits,       \* Iterations, four for keys of 32 bits; the last one writes to src.
  BUCKETS,      \* Values of a digit.
  blockSize,    \* Items for each task, and for a sequential sort.
  ThreadCounts, \* TaskScheduler::threadCount().
  MAX_TASKS

RadixSortAssumption ==
  /\ Sizes \subseteq Nat /\ BUCKETS \in Nat \ {0}
  /\ Digits \in Nat \ {0} /\ Digits % 2 = 0
  /\ blockSize \in Nat \ {0} /\ ThreadCounts \subseteq Nat \ {0} /\ MAX_TASKS \in Nat \ {0}

VARIABLES
  N, keys,     \* The number of items, and the key of each.
  threadCount,
  src, tmp,    \* The array to be sorted, and the other.
  radixCount,  \* radixCount[t][b]: how many items of task t's share have digit b.
  pass,        \* The iteration.
  phase,       \* "start", "count", "copy" or "done".
  ran          \* The tasks of this half that have run.

vars == <<N, keys, threadCount, src, tmp, radixCount, pass, phase, ran>>

Places == 0 .. N - 1
Buckets == 0 .. BUCKETS - 1

(* The weight of digit n.                                                   *)
Power[n \in Nat] == IF n = 0 THEN 1 ELSE BUCKETS * Power[n - 1]

numTasks == Min({(N + blockSize - 1) \div blockSize, threadCount, MAX_TASKS})

Tasks == 0 .. numTasks - 1

Init ==
  /\ N \in Sizes
  /\ keys \in [Places -> 0 .. Power[Digits] - 1]
  /\ threadCount \in ThreadCounts
  /\ src = [i \in Places |-> i] /\ tmp = [i \in Places |-> -1]
  /\ radixCount = <<>> /\ pass = 0 /\ phase = "start" /\ ran = {}

IsSorted(a) == \A i, j \in Places : i < j => keys[a[i]] <= keys[a[j]]

(* std::sort leaves the order of equal keys open.                           *)
SequentialSort ==
  /\ phase = "start" /\ N <= blockSize
  /\ src' \in {a \in Bijection(Places, Places) : IsSorted(a)}
  /\ phase' = "done"
  /\ UNCHANGED <<N, keys, threadCount, tmp, radixCount, pass, ran>>

(* The counts are allocated.                                                *)
Start ==
  /\ phase = "start" /\ N > blockSize
  /\ radixCount' = [t \in Tasks |-> [b \in Buckets |-> 0]]
  /\ phase' = "count"
  /\ UNCHANGED <<N, keys, threadCount, src, tmp, pass, ran>>

From == IF pass % 2 = 0 THEN src ELSE tmp

Share(t) == (t * N) \div numTasks .. ((t + 1) * N) \div numTasks - 1

Digit(item) == (keys[item] \div Power[pass]) % BUCKETS

(* Which items of a task's share have digit b, by their places in From.     *)
InBucket(t, b) == {i \in Share(t) : Digit(From[i]) = b}

(* After the last task of a half all tasks of the next are started.         *)
Ran(t, next, nextPass) ==
  IF ran \union {t} = Tasks
  THEN ran' = {} /\ phase' = next /\ pass' = nextPass
  ELSE ran' = ran \union {t} /\ UNCHANGED <<phase, pass>>

CountDigits(t) ==
  /\ phase = "count" /\ t \in Tasks \ ran
  /\ radixCount' = [radixCount EXCEPT ![t] = [b \in Buckets |-> Cardinality(InBucket(t, b))]]
  /\ Ran(t, "copy", pass)
  /\ UNCHANGED <<N, keys, threadCount, src, tmp>>

CountOf(S, b) == MapThenSumSet(LAMBDA t : radixCount[t][b], S)

MutOffset(t, b) ==
  MapThenSumSet(LAMBDA c : CountOf(Tasks, c), 0 .. b - 1) + CountOf(t + 1 .. numTasks - 1, b)

(* Behind all items of smaller digits, and those of earlier tasks.          *)
Offset(t, b) ==
  MapThenSumSet(LAMBDA c : CountOf(Tasks, c), 0 .. b - 1) + CountOf(0 .. t - 1, b)

(* Where the item at place i goes.                                          *)
Target(t, i) ==
  LET b == Digit(From[i]) IN Offset(t, b) + Cardinality({k \in InBucket(t, b) : k < i})

Copied(t, to) ==
  [p \in Places |->
     LET sources == {i \in Share(t) : Target(t, i) = p}
     IN IF sources = {} THEN to[p] ELSE From[Max(sources)]]

CopyItems(t) ==
  /\ phase = "copy" /\ t \in Tasks \ ran
  /\ IF pass % 2 = 0
     THEN tmp' = Copied(t, tmp) /\ src' = src
     ELSE src' = Copied(t, src) /\ tmp' = tmp
  /\ Ran(t, IF pass = Digits - 1 THEN "done" ELSE "count", pass + 1)
  /\ UNCHANGED <<N, keys, threadCount, radixCount>>

Next ==
  \/ SequentialSort \/ Start
  \/ \E t \in Tasks : CountDigits(t) \/ CopyItems(t)

Spec == Init /\ [][Next]_vars

------------------------------------------------------------------------------
(* The result is in src, not in tmp, sorted by whole keys although every    *)
(* iteration looks at one digit only, and without loss; and while tasks     *)
(* copy no two of them write the same place, and none beyond the array.     *)
RadixSorted ==
  /\ phase = "done" => src \in Bijection(Places, Places) /\ IsSorted(src)
  /\ phase = "copy" =>
       /\ \A t \in Tasks : \A i \in Share(t) : Target(t, i) \in Places
       /\ \A t, u \in Tasks : \A i \in Share(t), k \in Share(u) :
            i # k => Target(t, i) # Target(u, k)
==============================================================================
