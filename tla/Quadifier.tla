------------------------------ MODULE Quadifier ------------------------------
(***************************************************************************)
(* Pairing the triangles of one range into quads (rtbuild/quadifier.h):     *)
(* pair_triangles pushes the triangles into a static_deque, a ring buffer   *)
(* of WindowSize slots; whenever it is full, and at the end until it is     *)
(* empty, merge_triangle_window takes the first triangle out and looks for  *)
(* the next one in the window that shares an edge with it and is at most    *)
(* MaxDistance behind.                                                      *)
(*                                                                          *)
(* Which triangles share an edge is the input (see TrianglePair for how it  *)
(* is decided). begin and end count slots; slot i lives at array[i % N].    *)
(* Definitions named Mut... are faulty versions of the definition after     *)
(* them, which the properties refute.                                       *)
(***************************************************************************)
EXTENDS Integers, FiniteSets, FiniteSetsExt

CONSTANTS
  WindowSize,   \* The slots of the triangle window, 32.
  MaxDistance,  \* QUADIFIER_MAX_DISTANCE, 31: what the offset field encodes.
  NumTriangles, \* The size of the range.
  MaxEdges      \* Bound: the pairs of triangles that share an edge.

QUADIFIER_PAIRED == 65535
QUADIFIER_TRIANGLE == 0
Undecided == -1

(* One more slot than the distance: the window that is full holds every     *)
(* candidate for its first triangle. The marks are no distances.            *)
WindowAssumption ==
  MaxDistance \in 1 .. QUADIFIER_PAIRED - 1 /\ WindowSize = MaxDistance + 1

NumTrianglesAssumption == NumTriangles \in Nat

Triangles == 0 .. NumTriangles - 1

VARIABLES
  sharesEdge,      \* Input: the pairs <<i, j>>, i < j, that share an edge.
  primID,          \* The next triangle to push.
  array,           \* The slots of the deque; those outside hold old values.
  begin, end,      \* Its first slot, and the one behind its last.
  quads,           \* quads[i]: what was stored for triangle i, if anything.
  numTrianglePairs \* The quads and single triangles so far.

vars == <<sharesEdge, primID, array, begin, end, quads, numTrianglePairs>>

At(i) == array[i % WindowSize]

Full == end - begin = WindowSize

(* Pairs beyond the distance are inputs too; farther ones are never looked  *)
(* at (Candidates), so one step beyond is enough.                           *)
NearPairs == {p \in Triangles \X Triangles : p[1] < p[2] /\ p[2] - p[1] <= MaxDistance + 1}

Inputs == UNION {kSubset(k, NearPairs) : k \in 0 .. MaxEdges}

Init ==
  /\ sharesEdge \in Inputs
  /\ primID = 0
  /\ array = [s \in 0 .. WindowSize - 1 |-> 0]
  /\ begin = 0 /\ end = 0
  /\ quads = [i \in Triangles |-> Undecided]
  /\ numTrianglePairs = 0

(* The loop of pair_triangles: push_back.                                   *)
Push ==
  /\ primID < NumTriangles
  /\ ~Full
  /\ array' = [array EXCEPT ![end % WindowSize] = primID]
  /\ end' = end + 1
  /\ primID' = primID + 1
  /\ UNCHANGED <<sharesEdge, begin, quads, numTrianglePairs>>

(* The slots of the triangles that the first one can be paired with.        *)
Candidates ==
  {s \in begin + 1 .. end - 1 :
     /\ <<At(begin), At(s)>> \in sharesEdge
     /\ At(s) - At(begin) <= MaxDistance}

(* erase(j) in a deque that begins at b: the side of j with fewer elements  *)
(* moves over by one slot.                                                  *)
MutEraseLeft(b, j) ==
  /\ array' = [s \in DOMAIN array |->
                 IF \E i \in b + 2 .. j : i % WindowSize = s
                 THEN array[(s + WindowSize - 1) % WindowSize] ELSE array[s]]
  /\ begin' = b + 1 /\ end' = end

EraseLeft(b, j) ==
  /\ array' = [s \in DOMAIN array |->
                 IF \E i \in b + 1 .. j : i % WindowSize = s
                 THEN array[(s + WindowSize - 1) % WindowSize] ELSE array[s]]
  /\ begin' = b + 1 /\ end' = end

EraseRight(b, j) ==
  /\ array' = [s \in DOMAIN array |->
                 IF \E i \in j + 1 .. end - 1 : (i - 1) % WindowSize = s
                 THEN array[(s + 1) % WindowSize] ELSE array[s]]
  /\ begin' = b /\ end' = end - 1

Erase(b, j) ==
  IF j - b < end - j - 1 \/ j = b THEN EraseLeft(b, j) ELSE EraseRight(b, j)

(* pop_front leaves begin + 1, from which erase starts.                     *)
MergePair ==
  /\ Full \/ (primID = NumTriangles /\ begin < end)
  /\ Candidates # {}
  /\ LET slot == Min(Candidates)
     IN /\ quads' = [quads EXCEPT ![At(begin)] = At(slot) - At(begin),
                                  ![At(slot)] = QUADIFIER_PAIRED]
        /\ Erase(begin + 1, slot)
  /\ numTrianglePairs' = numTrianglePairs + 1
  /\ UNCHANGED <<sharesEdge, primID>>

MergeSingle ==
  /\ Full \/ (primID = NumTriangles /\ begin < end)
  /\ Candidates = {}
  /\ quads' = [quads EXCEPT ![At(begin)] = QUADIFIER_TRIANGLE]
  /\ begin' = begin + 1
  /\ numTrianglePairs' = numTrianglePairs + 1
  /\ UNCHANGED <<sharesEdge, primID, array, end>>

Next == Push \/ MergePair \/ MergeSingle

Spec == Init /\ [][Next]_vars

Done == primID = NumTriangles /\ begin = end

------------------------------------------------------------------------------
(* What a quadratic search would give: in order, each triangle that is not  *)
(* taken takes the first free one behind it that fits.                      *)
Greedy[n \in 0 .. NumTriangles] ==
  IF n = 0 THEN {}
  ELSE LET i     == n - 1
           taken == {p[2] : p \in Greedy[n - 1]}
           fits  == {j \in i + 1 .. i + MaxDistance : j \notin taken /\ <<i, j>> \in sharesEdge}
       IN IF i \in taken \/ fits = {} THEN Greedy[n - 1]
          ELSE Greedy[n - 1] \union {<<i, Min(fits)>>}

(* The window holds exactly the triangles that were pushed and are not      *)
(* decided, in their order: erasing from the middle of the ring buffer,     *)
(* from whichever side and across its wrap-around, loses and repeats none.  *)
(* The bounded window loses nothing against the quadratic search: the       *)
(* result of the streaming algorithm is the same.                           *)
PairsGreedy ==
  /\ {At(s) : s \in begin .. end - 1} = {i \in 0 .. primID - 1 : quads[i] = Undecided}
  /\ \A s, r \in begin .. end - 1 : s < r => At(s) < At(r)
  /\ Done => {<<i, i + quads[i]>> : i \in {l \in Triangles : quads[l] \in 1 .. MaxDistance}}
              = Greedy[NumTriangles]
==============================================================================
