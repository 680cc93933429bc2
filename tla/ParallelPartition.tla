--------------------------- MODULE ParallelPartition ---------------------------
(***************************************************************************)
(* Partitioning an array in parallel (rtbuild/algorithms/                   *)
(* parallel_partition.h): every task partitions a segment of its own with   *)
(* serial_partitioning; then the items that are on the wrong side of the    *)
(* common mid point, which form one range per segment and side, are         *)
(* swapped pairwise, again by all tasks: task t takes its share of the      *)
(* pairs, counted along the ranges of either side.                          *)
(*                                                                          *)
(* Items are 0 .. N-1, each at its own place at first; the predicate is the *)
(* set left. A step of a task is one iteration of its while loop.           *)
(* Definitions named Mut... are faulty versions of the definition after     *)
(* them, which the properties refute.                                       *)
(***************************************************************************)
EXTENDS Integers, Sequences, FiniteSets, SequencesExt, FiniteSetsExt

CONSTANTS
  Sizes,      \* Bound: the numbers of items to partition.
  LeftSets,   \* Bound: of that many items, those the predicate may choose.
  MaxThreads, \* Bound: the threads of the task scheduler.
  BlockSize   \* BLOCK_SIZE: items that deserve a task.

BoundsAssumption ==
  /\ Sizes \subseteq Nat /\ \A n \in Sizes : LeftSets[n] \subseteq SUBSET (0 .. n - 1)
  /\ MaxThreads \in Nat \ {0} /\ BlockSize \in Nat \ {0}

VARIABLES
  N, left, threadCount, \* Input: the items, those of the left side, the threads.
  phase,   \* "segments", "swaps" or "done".
  array,   \* array[i]: the item at place i.
  l, r,    \* The pointers of each task's serial_partitioning.
  reduced, \* reduced[t]: the items in t's left and right reduction.
  mid,     \* The places of the left side, once known.
  ranges,  \* The misplaced places of either side, in sequences of ranges.
  swap,    \* swap[t]: what is left of t's share, and where it stands.
  touched  \* History: the tasks that swapped a place.

inputs == <<N, left, threadCount>>
vars == <<inputs, phase, array, l, r, reduced, mid, ranges, swap, touched>>

Least(a, b) == IF a < b THEN a ELSE b

(* Few items are partitioned by one thread; of the bound 64 on the tasks    *)
(* only that it is one is kept (MaxThreads).                                *)
numTasks ==
  IF N < BlockSize THEN 1 ELSE Least((N + BlockSize - 1) \div BlockSize, threadCount)

Tasks == 0 .. numTasks - 1
Places == 0 .. N - 1

Share(t, items) == (t * items) \div numTasks

Idle == [size |-> 0, lRange |-> 0, lDone |-> 0, rRange |-> 0, rDone |-> 0]

Init ==
  /\ N \in Sizes
  /\ left \in LeftSets[N]
  /\ threadCount \in 1 .. MaxThreads
  /\ phase = "segments"
  /\ array = [i \in Places |-> i]
  /\ l = [t \in Tasks |-> Share(t, N)]
  /\ r = [t \in Tasks |-> Share(t + 1, N) - 1]
  /\ reduced = [t \in Tasks |-> [left |-> {}, right |-> {}]]
  /\ mid = 0
  /\ ranges = [left |-> <<>>, right |-> <<>>]
  /\ swap = [t \in Tasks |-> Idle]
  /\ touched = [i \in Places |-> {}]

------------------------------------------------------------------------------
(* serial_partitioning.                                                     *)

(* Where the two inner loops stop.                                          *)
Up(t) == Min({i \in l[t] .. r[t] : array[i] \notin left} \union {r[t] + 1})
Down(t) == Max({i \in Up(t) .. r[t] : array[i] \in left} \union {Up(t) - 1})

Exchange(i, j) == [array EXCEPT ![i] = array[j], ![j] = array[i]]

Items(places) == {array[i] : i \in places}

(* One iteration of while(1): past the items that are in their place, and   *)
(* then a swap, if there is a pair.                                         *)
SegmentStep(t) ==
  /\ phase = "segments" /\ l[t] <= r[t]
  /\ LET up == Up(t) down == Down(t)
     IN IF down < up
        THEN /\ l' = [l EXCEPT ![t] = up] /\ r' = [r EXCEPT ![t] = down]
             /\ array' = array
             /\ reduced' = [reduced EXCEPT ![t].left = @ \union Items(l[t] .. up - 1),
                                           ![t].right = @ \union Items(down + 1 .. r[t])]
        ELSE /\ l' = [l EXCEPT ![t] = up + 1] /\ r' = [r EXCEPT ![t] = down - 1]
             /\ array' = Exchange(up, down)
             /\ reduced' = [reduced EXCEPT
                  ![t].left = @ \union Items(l[t] .. up - 1) \union {array[down]},
                  ![t].right = @ \union Items(down + 1 .. r[t]) \union {array[up]}]
  /\ UNCHANGED <<inputs, phase, mid, ranges, swap, touched>>

------------------------------------------------------------------------------
(* Between the two parallel loops, on one thread.                           *)

Barrier == phase = "segments" /\ \A t \in Tasks : l[t] > r[t]

MidPoint == SumFunctionOnSet([t \in Tasks |-> l[t] - Share(t, N)], Tasks)

make_range(b, e) == [begin |-> b, end |-> e]
Size(range) == range.end - range.begin
Greater(a, b) == IF a > b THEN a ELSE b

(* The loop over the tasks leaves empty ranges out.                         *)
NotEmpty(rs) ==
  LET kept[t \in 0 .. numTasks] ==
        IF t = 0 THEN <<>>
        ELSE IF Size(rs[t - 1]) > 0 THEN Append(kept[t - 1], rs[t - 1]) ELSE kept[t - 1]
  IN kept[numTasks]

(* The intersection of each segment's right part with the left side, and of *)
(* its left part with the right side.                                       *)
LeftMisplaced(m) ==
  NotEmpty([t \in Tasks |-> make_range(l[t], Least(m, Share(t + 1, N)))])

RightMisplaced(m) ==
  NotEmpty([t \in Tasks |-> make_range(Greater(m, Share(t, N)), l[t])])

(* The items in the ranges in front of a range, and in all.                 *)
Before(seq, n) == SumFunctionOnSet([i \in DOMAIN seq |-> Size(seq[i])], 1 .. n - 1)

Total(seq) == Before(seq, Len(seq) + 1)

(* findStartRange: the range that holds the item with this number, and the  *)
(* number of it there.                                                      *)
Start(seq, index) ==
  LET n == Min({m \in DOMAIN seq : index < Before(seq, m + 1)})
  IN [range |-> n, done |-> index - Before(seq, n)]

FindMisplaced ==
  /\ Barrier
  /\ mid' = MidPoint
  /\ LET lm == LeftMisplaced(MidPoint)
         rm == RightMisplaced(MidPoint)
         items == Total(lm)
     IN /\ ranges' = [left |-> lm, right |-> rm]
        /\ IF items = 0
           THEN phase' = "done" /\ UNCHANGED swap
           ELSE /\ phase' = "swaps"
                /\ swap' = [t \in Tasks |->
                     LET begin == Share(t, items)
                     IN [size |-> Share(t + 1, items) - begin,
                         lRange |-> Start(lm, begin).range, lDone |-> Start(lm, begin).done,
                         rRange |-> Start(rm, begin).range, rDone |-> Start(rm, begin).done]]
  /\ UNCHANGED <<inputs, array, l, r, reduced, touched>>

------------------------------------------------------------------------------
(* swapItemsInMisplacedRanges.                                              *)

(* On to the next range where this one is used up.                          *)
Cursor(seq, range, done) ==
  IF done = Size(seq[range]) THEN [range |-> range + 1, done |-> 0]
  ELSE [range |-> range, done |-> done]

(* One iteration of while(size): swap as far as both ranges reach.          *)
MutSwapStep(t) ==
  /\ phase = "swaps" /\ swap[t].size > 0
  /\ LET s  == swap[t]
         lc == Cursor(ranges.left, s.lRange, s.lDone)
         rc == Cursor(ranges.right, s.rRange, s.rDone)
         lRange == ranges.left[lc.range]
         rRange == ranges.right[rc.range]
         items == Least(Size(lRange) - lc.done, Size(rRange) - rc.done)
         lp == lRange.begin + lc.done
         rp == rRange.begin + rc.done
     IN /\ array' = [i \in Places |->
              IF i \in lp .. lp + items - 1 THEN array[rp + i - lp]
              ELSE IF i \in rp .. rp + items - 1 THEN array[lp + i - rp]
              ELSE array[i]]
        /\ touched' = [i \in Places |->
              IF i \in (lp .. lp + items - 1) \union (rp .. rp + items - 1)
              THEN touched[i] \union {t} ELSE touched[i]]
        /\ swap' = [swap EXCEPT ![t] = [size |-> Greater(0, s.size - items),
             lRange |-> lc.range, lDone |-> lc.done + items,
             rRange |-> rc.range, rDone |-> rc.done + items]]
  /\ UNCHANGED <<inputs, phase, l, r, reduced, mid, ranges>>

SwapStep(t) ==
  /\ phase = "swaps" /\ swap[t].size > 0
  /\ LET s  == swap[t]
         lc == Cursor(ranges.left, s.lRange, s.lDone)
         rc == Cursor(ranges.right, s.rRange, s.rDone)
         lRange == ranges.left[lc.range]
         rRange == ranges.right[rc.range]
         items == Min({s.size, Size(lRange) - lc.done, Size(rRange) - rc.done})
         lp == lRange.begin + lc.done
         rp == rRange.begin + rc.done
     IN /\ array' = [i \in Places |->
              IF i \in lp .. lp + items - 1 THEN array[rp + i - lp]
              ELSE IF i \in rp .. rp + items - 1 THEN array[lp + i - rp]
              ELSE array[i]]
        /\ touched' = [i \in Places |->
              IF i \in (lp .. lp + items - 1) \union (rp .. rp + items - 1)
              THEN touched[i] \union {t} ELSE touched[i]]
        /\ swap' = [swap EXCEPT ![t] = [size |-> s.size - items,
             lRange |-> lc.range, lDone |-> lc.done + items,
             rRange |-> rc.range, rDone |-> rc.done + items]]
  /\ UNCHANGED <<inputs, phase, l, r, reduced, mid, ranges>>

Return ==
  /\ phase = "swaps" /\ \A t \in Tasks : swap[t].size = 0
  /\ phase' = "done"
  /\ UNCHANGED <<inputs, array, l, r, reduced, mid, ranges, swap, touched>>

Next ==
  \/ \E t \in Tasks : SegmentStep(t) \/ SwapStep(t)
  \/ FindMisplaced \/ Return

Spec == Init /\ [][Next]_vars

------------------------------------------------------------------------------
(* No two tasks swap the same place, so that they need no lock: each place  *)
(* is in the shares of one task.                                            *)
SwapsApart == \A i \in Places : Cardinality(touched[i]) <= 1

(* When the call returns no item is lost or doubled and the left ones are   *)
(* the first mid: the ranges of the two new build records hold the          *)
(* primitives the split meant. The bounds of either side were reduced over  *)
(* the items that ended on it, although items moved after they were added.  *)
Partitioned ==
  /\ SwapsApart
  /\ phase = "done" =>
    /\ Items(Places) = Places
    /\ mid = Cardinality(left) /\ Items(0 .. mid - 1) = left
    /\ UNION {reduced[t].left : t \in Tasks} = left
    /\ UNION {reduced[t].right : t \in Tasks} = Places \ left
==============================================================================
