----------------------------- MODULE MCTreeBuild -----------------------------
(* A tree with two levels of task groups: r spawns ranges for p, s and l;   *)
(* p spawns ranges for its leaves p1 and p2; s builds s1 and s2 itself.     *)
EXTENDS TreeBuild

CONSTANTS r, p, s, l, p1, p2, s1, s2

MCNodes == {r, p, s, l, p1, p2, s1, s2}

MCChildren ==
  [n \in MCNodes |-> CASE n = r -> <<p, s, l>>
                       [] n = p -> <<p1, p2>>
                       [] n = s -> <<s1, s2>>
                       [] OTHER -> <<>>]

MCLeaves == {l, p1, p2, s1, s2}

(* The leaves of the first tree fit the buffer to the last byte, those of   *)
(* the second do not.                                                       *)
MCLeafDatas ==
  {[n \in MCLeaves |-> 64],
   [n \in MCLeaves |-> IF n \in {l, p2, s2} THEN 192 ELSE 64]}
==============================================================================
