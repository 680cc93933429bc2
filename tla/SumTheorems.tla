----------------------------- MODULE SumTheorems -----------------------------
(***************************************************************************)
(* Facts about minimal elements, sums, folds, powers, the cuts that share   *)
(* items out to tasks, ranks by a digit and marked places, which the proofs *)
(* about the components rest on. Induction over numbers and finite sets is  *)
(* done by means of a minimal counterexample. Nothing here is about the     *)
(* code.                                                                    *)
(***************************************************************************)
EXTENDS Integers, FiniteSetsExt, FiniteSetTheorems, WellFoundedInduction, TLAPS

(* Of finite sets, one has none of the others inside.                       *)
LEMMA SmallestSet ==
  ASSUME NEW S, NEW C \in SUBSET FiniteSubsetsOf(S), C # {}
  PROVE \E T \in C : \A U \in C : U \subseteq T => U = T
  <1>1. \E T \in C : \A U \in C : ~ (<<U, T>> \in StrictSubsetOrdering(S))
    <2>1. IsWellFoundedOn(StrictSubsetOrdering(S), FiniteSubsetsOf(S))
      BY FS_StrictSubsetOrderingWellFounded
    <2>2. C \subseteq FiniteSubsetsOf(S) OBVIOUS
    <2> HIDE DEF StrictSubsetOrdering, FiniteSubsetsOf
    <2> QED BY <2>1, <2>2, WFMin
  <1>2. C \subseteq SUBSET S BY DEF FiniteSubsetsOf
  <1> QED BY <1>1, <1>2 DEF StrictSubsetOrdering

(* Of natural numbers one is the smallest.                                  *)
LEMMA SmallestNat ==
  ASSUME NEW T \in SUBSET Nat, T # {}
  PROVE \E n \in T : \A m \in T : n <= m
  <1> DEFINE C == {0 .. n - 1 : n \in T}
  <1>1. C \in SUBSET FiniteSubsetsOf(Nat)
    <2>1. \A n \in T : 0 .. n - 1 \in SUBSET Nat OBVIOUS
    <2>2. \A n \in T : IsFiniteSet(0 .. n - 1)
      <3> SUFFICES ASSUME NEW n \in T PROVE IsFiniteSet(0 .. n - 1) OBVIOUS
      <3> n - 1 \in Int OBVIOUS
      <3> QED BY FS_Interval
    <2> QED BY <2>1, <2>2 DEF FiniteSubsetsOf
  <1>2. C # {} OBVIOUS
  <1>3. PICK U \in C : \A V \in C : V \subseteq U => V = U
    <2> HIDE DEF C
    <2> QED BY <1>1, <1>2, SmallestSet
  <1>4. PICK n \in T : U = 0 .. n - 1 BY <1>3
  <1>5. ASSUME NEW m \in T, m < n PROVE FALSE
    <2>1. 0 .. m - 1 \in C OBVIOUS
    <2>2. 0 .. m - 1 \subseteq U BY <1>4, <1>5
    <2>3. m \in U /\ m \notin 0 .. m - 1 BY <1>4, <1>5
    <2> QED BY <2>1, <2>2, <2>3, <1>3
  <1> QED BY <1>5

(* Of finitely many natural numbers one is the largest.                     *)
LEMMA LargestNat ==
  ASSUME NEW S \in SUBSET Nat, IsFiniteSet(S), S # {}
  PROVE \E n \in S : \A m \in S : m <= n
  <1> DEFINE P(T) == T # {} => \E n \in T : \A m \in T : m <= n
             C == {T \in FiniteSubsetsOf(S) : ~P(T)}
  <1>1. SUFFICES ASSUME C # {} PROVE FALSE
    <2>1. S \in FiniteSubsetsOf(S) BY DEF FiniteSubsetsOf
    <2> QED BY <2>1
  <1>2. PICK T \in C : \A U \in C : U \subseteq T => U = T
    <2> C \in SUBSET FiniteSubsetsOf(S) OBVIOUS
    <2> HIDE DEF C
    <2> QED BY <1>1, SmallestSet
  <1>3. IsFiniteSet(T) /\ T \subseteq Nat /\ T \subseteq S BY DEF FiniteSubsetsOf
  <1>4. T # {} /\ ~ \E n \in T : \A m \in T : m <= n BY <1>2
  <1>5. PICK x \in T : TRUE BY <1>4
  <1> DEFINE U == T \ {x}
  <1>6. U \in FiniteSubsetsOf(S) /\ U # T /\ U \subseteq T
    BY <1>3, <1>5, FS_Subset DEF FiniteSubsetsOf
  <1>7. P(U)
    <2> HIDE DEF U, P
    <2> QED BY <1>2, <1>6
  <1>8. CASE U = {}
    <2>1. \A m \in T : m = x BY <1>8
    <2> QED BY <1>3, <1>4, <1>5, <2>1
  <1>9. CASE U # {}
    <2>1. PICK n \in U : \A m \in U : m <= n BY <1>7, <1>9
    <2>2. n \in T /\ n \in Nat /\ x \in Nat BY <1>3, <1>5, <2>1
    <2>3. \A m \in T : m \in Nat /\ (m = x \/ m <= n) BY <1>3, <2>1
    <2>4. CASE x <= n BY <1>4, <2>2, <2>3, <2>4
    <2>5. CASE n <= x
      <3>1. \A m \in T : m <= x BY <2>2, <2>3, <2>5
      <3> QED BY <1>4, <1>5, <3>1
    <2> QED BY <2>2, <2>4, <2>5
  <1> QED BY <1>8, <1>9

------------------------------------------------------------------------------
(* How SumFunctionOnSet computes a sum: h has the sums over all subsets.    *)
Pick(s) == CHOOSE x \in s : TRUE

IsSum(h, g, S) ==
  h = [s \in SUBSET S |-> IF s = {} THEN 0 ELSE g[Pick(s)] + h[s \ {Pick(s)}]]

(* There is exactly one such h over a finite set.                           *)
LEMMA SumUnique ==
  ASSUME NEW g, NEW S, IsFiniteSet(S)
  PROVE /\ \E h : IsSum(h, g, S)
        /\ \A h, k : IsSum(h, g, S) /\ IsSum(k, g, S) => h = k
  <1> DEFINE P(s) == /\ \E h : IsSum(h, g, s)
                     /\ \A h, k : IsSum(h, g, s) /\ IsSum(k, g, s) => h = k
  <1> DEFINE C == {s \in FiniteSubsetsOf(S) : ~P(s)}
  <1>0. \A s : s # {} => Pick(s) \in s BY DEF Pick
  <1>1. SUFFICES ASSUME C # {} PROVE FALSE
    <2>1. S \in FiniteSubsetsOf(S) BY DEF FiniteSubsetsOf
    <2> QED BY <2>1
  <1>2. PICK s \in C : \A U \in C : U \subseteq s => U = s
    <2> C \in SUBSET FiniteSubsetsOf(S) OBVIOUS
    <2> HIDE DEF C
    <2> QED BY <1>1, SmallestSet
  <1>3. IsFiniteSet(s) /\ s \subseteq S BY DEF FiniteSubsetsOf
  <1>4. ASSUME NEW u \in SUBSET s, u # s PROVE P(u)
    <2>1. IsFiniteSet(u) BY <1>3, FS_Subset
    <2>2. u \in FiniteSubsetsOf(S) BY <2>1, <1>3 DEF FiniteSubsetsOf
    <2> HIDE DEF P
    <2> QED BY <2>2, <1>2, <1>4
  <1> DEFINE R(h, u) == [v \in SUBSET u |-> h[v]]
  <1>5. ASSUME NEW u, NEW h, IsSum(h, g, u), NEW v \in SUBSET u PROVE IsSum(R(h, v), g, v)
    <2>1. h = [t \in SUBSET u |-> IF t = {} THEN 0 ELSE g[Pick(t)] + h[t \ {Pick(t)}]] BY <1>5 DEF IsSum
    <2>2. ASSUME NEW t \in SUBSET v
          PROVE R(h, v)[t] = IF t = {} THEN 0 ELSE g[Pick(t)] + R(h, v)[t \ {Pick(t)}]
      <3>1. t \in SUBSET u /\ t \ {Pick(t)} \in SUBSET v OBVIOUS
      <3>2. h[t] = IF t = {} THEN 0 ELSE g[Pick(t)] + h[t \ {Pick(t)}] BY <2>1, <3>1
      <3> QED BY <3>1, <3>2
    <2> DEFINE F == [t \in SUBSET v |-> IF t = {} THEN 0 ELSE g[Pick(t)] + R(h, v)[t \ {Pick(t)}]]
    <2>3. \A t \in SUBSET v : R(h, v)[t] = F[t] BY <2>2
    <2>4. R(h, v) = F
      <3> HIDE DEF F
      <3>1. F = [t \in SUBSET v |-> F[t]] BY DEF F
      <3> QED BY <2>3, <3>1
    <2> QED BY <2>4 DEF IsSum
  <1>6. ASSUME NEW h, NEW k, IsSum(h, g, s), IsSum(k, g, s) PROVE h = k
    <2>1. h = [t \in SUBSET s |-> IF t = {} THEN 0 ELSE g[Pick(t)] + h[t \ {Pick(t)}]] BY <1>6 DEF IsSum
    <2>2. k = [t \in SUBSET s |-> IF t = {} THEN 0 ELSE g[Pick(t)] + k[t \ {Pick(t)}]] BY <1>6 DEF IsSum
    <2>3. ASSUME NEW u \in SUBSET s, u # s PROVE h[u] = k[u]
      <3>1. R(h, u) = R(k, u)
        <4> IsSum(R(h, u), g, u) /\ IsSum(R(k, u), g, u) BY <1>5, <1>6
        <4> HIDE DEF R
        <4> QED BY <1>4, <2>3
      <3>2. u \in SUBSET u OBVIOUS
      <3> QED BY <3>1, <3>2
    <2>4. h[s] = k[s]
      <3>1. s \in SUBSET s /\ s \ {Pick(s)} \in SUBSET s OBVIOUS
      <3>2. CASE s = {} BY <3>1, <3>2, <2>1, <2>2
      <3>3. CASE s # {}
        <4>1. h[s \ {Pick(s)}] = k[s \ {Pick(s)}] BY <2>3, <3>1, <3>3, <1>0
        <4>2. h[s] = g[Pick(s)] + h[s \ {Pick(s)}] BY <3>1, <3>3, <2>1
        <4>3. k[s] = g[Pick(s)] + k[s \ {Pick(s)}] BY <3>1, <3>3, <2>2
        <4> QED BY <4>1, <4>2, <4>3
      <3> QED BY <3>2, <3>3
    <2>5. \A u \in SUBSET s : h[u] = k[u] BY <2>3, <2>4
    <2>6. h = [t \in SUBSET s |-> h[t]] /\ k = [t \in SUBSET s |-> k[t]] BY <2>1, <2>2
    <2> QED BY <2>5, <2>6
  <1>7. \E h : IsSum(h, g, s)
    <2> DEFINE G(u) == CHOOSE h : IsSum(h, g, u)
    <2>1. ASSUME NEW u \in SUBSET s, u # s PROVE IsSum(G(u), g, u) BY <1>4, <2>1
    <2> DEFINE h == [u \in SUBSET s |-> IF u # s THEN G(u)[u]
                                        ELSE IF s = {} THEN 0
                                        ELSE g[Pick(s)] + G(s \ {Pick(s)})[s \ {Pick(s)}]]
    <2>2. ASSUME NEW u \in SUBSET s
          PROVE h[u] = IF u = {} THEN 0 ELSE g[Pick(u)] + h[u \ {Pick(u)}]
      <3> DEFINE w == u \ {Pick(u)}
      <3>0. w \in SUBSET s /\ w \in SUBSET u /\ u \in SUBSET u OBVIOUS
      <3>1. CASE u = s
        <4> HIDE DEF G
        <4>1. CASE s = {} BY <3>1, <4>1
        <4>2. CASE s # {}
          <5>1. w # s BY <3>1, <4>2, <1>0
          <5>2. h[w] = G(w)[w] BY <5>1, <3>0
          <5> QED BY <5>2, <3>1, <4>2
        <4> QED BY <4>1, <4>2
      <3>2. CASE u # s
        <4>1. IsSum(G(u), g, u) BY <2>1, <3>2
        <4>2. G(u) = [t \in SUBSET u |-> IF t = {} THEN 0 ELSE g[Pick(t)] + G(u)[t \ {Pick(t)}]]
          <5> HIDE DEF G
          <5> QED BY <4>1 DEF IsSum
        <4>3. G(u)[u] = IF u = {} THEN 0 ELSE g[Pick(u)] + G(u)[w]
          <5> HIDE DEF G
          <5> QED BY <4>2, <3>0
        <4>4. ASSUME u # {} PROVE h[w] = G(u)[w]
          <5>1. w # s BY <4>4, <1>0, <3>2
          <5>2. IsSum(G(w), g, w) BY <2>1, <5>1, <3>0
          <5>3. IsSum(R(G(u), w), g, w)
            <6> HIDE DEF G, R, w
            <6> QED BY <1>5, <4>1, <3>0
          <5>4. P(w) BY <1>4, <5>1, <3>0
          <5>5. R(G(u), w) = G(w)
            <6> HIDE DEF G, R, w
            <6> QED BY <5>2, <5>3, <5>4
          <5>6. R(G(u), w)[w] = G(u)[w]
            <6> HIDE DEF G, w
            <6> QED OBVIOUS
          <5>7. h[w] = G(w)[w]
            <6> HIDE DEF G
            <6> QED BY <5>1, <3>0
          <5> HIDE DEF G, h, R, w
          <5> QED BY <5>5, <5>6, <5>7
        <4>5. h[u] = G(u)[u]
          <5> HIDE DEF G
          <5> QED BY <3>2
        <4> HIDE DEF G, h, w
        <4> QED BY <4>3, <4>4, <4>5 DEF w
      <3> HIDE DEF h
      <3> QED BY <3>1, <3>2
    <2> DEFINE F == [u \in SUBSET s |-> IF u = {} THEN 0 ELSE g[Pick(u)] + h[u \ {Pick(u)}]]
    <2>3. h = F
      <3>1. \A u \in SUBSET s : h[u] = F[u]
        <4> HIDE DEF h
        <4> QED BY <2>2
      <3>2. h = [u \in SUBSET s |-> h[u]] BY DEF h
      <3>3. F = [u \in SUBSET s |-> F[u]] BY DEF F
      <3> HIDE DEF h, F
      <3> QED BY <3>1, <3>2, <3>3
    <2>4. IsSum(h, g, s)
      <3> HIDE DEF h
      <3> QED BY <2>3 DEF IsSum
    <2> QED BY <2>4
  <1> QED
    <2> HIDE DEF P
    <2>1. ~P(s) BY <1>2
    <2> QED BY <2>1, <1>6, <1>7 DEF P

(* One step of the sum.                                                     *)
LEMMA SumPick ==
  ASSUME NEW g, NEW S, IsFiniteSet(S)
  PROVE  SumFunctionOnSet(g, S) =
           IF S = {} THEN 0 ELSE g[Pick(S)] + SumFunctionOnSet(g, S \ {Pick(S)})
  <1> DEFINE T == S \ {Pick(S)}
  <1> DEFINE H(u) == CHOOSE h : IsSum(h, g, u)
  <1>1. IsFiniteSet(T) BY FS_Subset
  <1>2. \A u : SumFunctionOnSet(g, u) = H(u)[u]
    BY DEF SumFunctionOnSet, FoldFunctionOnSet, MapThenFoldSet, IsSum, Pick
  <1>3. IsSum(H(S), g, S) /\ IsSum(H(T), g, T)
    <2>1. \E h : IsSum(h, g, S) BY SumUnique
    <2>2. \E h : IsSum(h, g, T)
      <3> HIDE DEF T
      <3> QED BY <1>1, SumUnique
    <2> HIDE DEF T
    <2> QED BY <2>1, <2>2
  <1> HIDE DEF H
  <1>4. H(S) = [s \in SUBSET S |-> IF s = {} THEN 0 ELSE g[Pick(s)] + H(S)[s \ {Pick(s)}]]
    BY <1>3 DEF IsSum
  <1>5. H(S)[S] = IF S = {} THEN 0 ELSE g[Pick(S)] + H(S)[T]
    <2>1. S \in SUBSET S OBVIOUS
    <2> QED BY <1>4, <2>1
  <1>6. [s \in SUBSET T |-> H(S)[s]] = H(T)
    <2> DEFINE R == [s \in SUBSET T |-> H(S)[s]]
    <2> DEFINE F == [s \in SUBSET T |-> IF s = {} THEN 0 ELSE g[Pick(s)] + R[s \ {Pick(s)}]]
    <2>1. ASSUME NEW s \in SUBSET T PROVE R[s] = F[s]
      <3>1. s \in SUBSET S /\ s \ {Pick(s)} \in SUBSET T OBVIOUS
      <3>2. H(S)[s] = IF s = {} THEN 0 ELSE g[Pick(s)] + H(S)[s \ {Pick(s)}] BY <1>4, <3>1
      <3> HIDE DEF T
      <3> QED BY <3>1, <3>2
    <2>2. R = F
      <3>1. R = [s \in SUBSET T |-> R[s]] OBVIOUS
      <3>2. F = [s \in SUBSET T |-> F[s]] OBVIOUS
      <3> HIDE DEF R, F, T
      <3> QED BY <2>1, <3>1, <3>2
    <2>3. IsSum(R, g, T)
      <3> HIDE DEF R
      <3> QED BY <2>2 DEF IsSum
    <2>4. R = H(T)
      <3> HIDE DEF R, T
      <3> QED BY <2>3, <1>3, <1>1, SumUnique
    <2> QED BY <2>4
  <1>7. H(S)[T] = H(T)[T]
    <2>1. T \in SUBSET T OBVIOUS
    <2> HIDE DEF T
    <2> QED BY <1>6, <2>1
  <1> HIDE DEF T
  <1> QED BY <1>2, <1>5, <1>7 DEF T

(* Nothing adds up to 0.                                                    *)
LEMMA SumEmpty == \A g : SumFunctionOnSet(g, {}) = 0
  BY SumPick, FS_EmptySet

(* The sum is an integer, and any element may be added last.                *)
LEMMA SumRemoves ==
  ASSUME NEW g, NEW S, IsFiniteSet(S), \A x \in S : g[x] \in Int
  PROVE  /\ SumFunctionOnSet(g, S) \in Int
         /\ \A x \in S : SumFunctionOnSet(g, S) = g[x] + SumFunctionOnSet(g, S \ {x})
  <1> DEFINE P(s) == /\ SumFunctionOnSet(g, s) \in Int
                     /\ \A x \in s : SumFunctionOnSet(g, s) = g[x] + SumFunctionOnSet(g, s \ {x})
  <1> DEFINE C == {s \in FiniteSubsetsOf(S) : ~P(s)}
  <1>1. SUFFICES ASSUME C # {} PROVE FALSE
    <2>1. S \in FiniteSubsetsOf(S) BY DEF FiniteSubsetsOf
    <2> HIDE DEF P
    <2>2. P(S) BY <2>1
    <2> QED BY <2>2 DEF P
  <1>2. PICK s \in C : \A U \in C : U \subseteq s => U = s
    <2> C \in SUBSET FiniteSubsetsOf(S) OBVIOUS
    <2> HIDE DEF C
    <2> QED BY <1>1, SmallestSet
  <1>3. IsFiniteSet(s) /\ s \subseteq S BY DEF FiniteSubsetsOf
  <1>4. ASSUME NEW u \in SUBSET s, u # s PROVE P(u)
    <2>1. IsFiniteSet(u) BY <1>3, FS_Subset
    <2>2. u \in FiniteSubsetsOf(S) BY <2>1, <1>3 DEF FiniteSubsetsOf
    <2> HIDE DEF P
    <2> QED BY <2>2, <1>2, <1>4
  <1>5. P(s)
    <2>1. CASE s = {} BY <2>1, SumEmpty
    <2>2. CASE s # {}
      <3> DEFINE p == Pick(s)
      <3>1. p \in s BY <2>2 DEF Pick
      <3> HIDE DEF p
      <3>2. SumFunctionOnSet(g, s) = g[p] + SumFunctionOnSet(g, s \ {p})
        BY <1>3, <2>2, SumPick DEF p
      <3>3. P(s \ {p}) BY <1>4, <3>1
      <3>4. SumFunctionOnSet(g, s) \in Int BY <1>3, <3>1, <3>2, <3>3
      <3>5. ASSUME NEW x \in s, x # p
            PROVE  SumFunctionOnSet(g, s) = g[x] + SumFunctionOnSet(g, s \ {x})
        <4>1. P(s \ {x}) /\ p \in s \ {x} /\ x \in s \ {p} BY <1>4, <3>1, <3>5
        <4>2. (s \ {x}) \ {p} = (s \ {p}) \ {x} OBVIOUS
        <4>3. P((s \ {p}) \ {x}) BY <1>4, <3>1
        <4> DEFINE r == SumFunctionOnSet(g, (s \ {p}) \ {x})
        <4>4. SumFunctionOnSet(g, s \ {p}) = g[x] + r BY <3>3, <4>1
        <4>5. SumFunctionOnSet(g, s \ {x}) = g[p] + r BY <4>1, <4>2
        <4>6. g[p] \in Int /\ g[x] \in Int /\ r \in Int BY <1>3, <3>1, <4>3
        <4> HIDE DEF r
        <4> QED BY <3>2, <4>4, <4>5, <4>6
      <3> QED BY <3>2, <3>4, <3>5
    <2> QED BY <2>1, <2>2
  <1> QED
    <2> HIDE DEF P
    <2>1. ~P(s) BY <1>2
    <2> QED BY <2>1, <1>5

(* The sum of integers is an integer.                                       *)
LEMMA SumType ==
  ASSUME NEW g, NEW S, IsFiniteSet(S), \A x \in S : g[x] \in Int
  PROVE  SumFunctionOnSet(g, S) \in Int
  BY SumRemoves

(* One more element adds its value.                                         *)
LEMMA SumAdd ==
  ASSUME NEW g, NEW S, IsFiniteSet(S), NEW x, x \notin S,
         g[x] \in Int, \A y \in S : g[y] \in Int
  PROVE  SumFunctionOnSet(g, S \union {x}) = g[x] + SumFunctionOnSet(g, S)
  <1> DEFINE T == S \union {x}
  <1>1. IsFiniteSet(T) BY FS_AddElement
  <1>2. T \ {x} = S /\ x \in T OBVIOUS
  <1>3. \A y \in T : g[y] \in Int OBVIOUS
  <1> HIDE DEF T
  <1>4. SumFunctionOnSet(g, T) = g[x] + SumFunctionOnSet(g, T \ {x}) BY <1>1, <1>2, <1>3, SumRemoves
  <1> QED BY <1>2, <1>4 DEF T

(* Greater values have a greater sum.                                       *)
LEMMA SumMonotone ==
  ASSUME NEW g, NEW h, NEW S, IsFiniteSet(S),
         \A x \in S : g[x] \in Int /\ h[x] \in Int /\ g[x] <= h[x]
  PROVE  SumFunctionOnSet(g, S) <= SumFunctionOnSet(h, S)
  <1> DEFINE P(s) == SumFunctionOnSet(g, s) <= SumFunctionOnSet(h, s)
  <1> DEFINE C == {s \in FiniteSubsetsOf(S) : ~P(s)}
  <1>1. SUFFICES ASSUME C # {} PROVE FALSE
    <2>1. S \in FiniteSubsetsOf(S) BY DEF FiniteSubsetsOf
    <2> QED BY <2>1
  <1>2. PICK s \in C : \A U \in C : U \subseteq s => U = s
    <2> C \in SUBSET FiniteSubsetsOf(S) OBVIOUS
    <2> HIDE DEF C
    <2> QED BY <1>1, SmallestSet
  <1>3. IsFiniteSet(s) /\ s \subseteq S BY DEF FiniteSubsetsOf
  <1>4. CASE s = {} BY <1>4, <1>2, SumEmpty
  <1>5. CASE s # {}
    <2>1. PICK x \in s : TRUE BY <1>5
    <2> DEFINE u == s \ {x}
    <2>2. IsFiniteSet(u) /\ u # s /\ u \subseteq s BY <1>3, <2>1, FS_Subset
    <2>3. u \in FiniteSubsetsOf(S) BY <2>2, <1>3 DEF FiniteSubsetsOf
    <2>4. P(u)
      <3> HIDE DEF P, u
      <3> QED BY <2>2, <2>3, <1>2
    <2>5. /\ SumFunctionOnSet(g, s) = g[x] + SumFunctionOnSet(g, u)
          /\ SumFunctionOnSet(h, s) = h[x] + SumFunctionOnSet(h, u)
      BY <1>3, <2>1, SumRemoves
    <2>6. SumFunctionOnSet(g, u) \in Int /\ SumFunctionOnSet(h, u) \in Int
      <3> HIDE DEF u
      <3> QED BY <1>3, <2>2, SumType
    <2>7. g[x] \in Int /\ h[x] \in Int /\ g[x] <= h[x] BY <1>3, <2>1
    <2>8. ~P(s) BY <1>2
    <2> HIDE DEF u
    <2> QED BY <2>4, <2>5, <2>6, <2>7, <2>8
  <1> QED BY <1>4, <1>5

(* The same values have the same sum.                                       *)
LEMMA SumSame ==
  ASSUME NEW g, NEW h, NEW S, IsFiniteSet(S), \A x \in S : g[x] \in Int /\ g[x] = h[x]
  PROVE  SumFunctionOnSet(g, S) = SumFunctionOnSet(h, S)
  <1>1. SumFunctionOnSet(g, S) \in Int /\ SumFunctionOnSet(h, S) \in Int BY SumType
  <1>2. SumFunctionOnSet(g, S) <= SumFunctionOnSet(h, S) BY SumMonotone
  <1>3. SumFunctionOnSet(h, S) <= SumFunctionOnSet(g, S) BY SumMonotone
  <1> QED BY <1>1, <1>2, <1>3

(* The sum over two sets that have nothing in common.                       *)
LEMMA SumUnion ==
  ASSUME NEW g, NEW S, NEW T, IsFiniteSet(S), IsFiniteSet(T), S \cap T = {},
         \A x \in S \union T : g[x] \in Int
  PROVE  SumFunctionOnSet(g, S \union T) = SumFunctionOnSet(g, S) + SumFunctionOnSet(g, T)
  <1> DEFINE P(s) == SumFunctionOnSet(g, S \union s) = SumFunctionOnSet(g, S) + SumFunctionOnSet(g, s)
  <1> DEFINE C == {s \in FiniteSubsetsOf(T) : ~P(s)}
  <1>1. SUFFICES ASSUME C # {} PROVE FALSE
    <2>1. T \in FiniteSubsetsOf(T) BY DEF FiniteSubsetsOf
    <2> QED BY <2>1
  <1>2. PICK s \in C : \A U \in C : U \subseteq s => U = s
    <2> C \in SUBSET FiniteSubsetsOf(T) OBVIOUS
    <2> HIDE DEF C
    <2> QED BY <1>1, SmallestSet
  <1>3. IsFiniteSet(s) /\ s \subseteq T BY DEF FiniteSubsetsOf
  <1>4. SumFunctionOnSet(g, S) \in Int BY SumType
  <1>5. CASE s = {}
    <2>1. S \union s = S BY <1>5
    <2>2. P(s) BY <1>4, <1>5, <2>1, SumEmpty
    <2> QED BY <1>2, <2>2
  <1>6. CASE s # {}
    <2>1. PICK x \in s : TRUE BY <1>6
    <2> DEFINE u == s \ {x}
    <2>2. IsFiniteSet(u) /\ u # s /\ u \subseteq s BY <1>3, <2>1, FS_Subset
    <2>3. u \in FiniteSubsetsOf(T) BY <2>2, <1>3 DEF FiniteSubsetsOf
    <2>4. P(u)
      <3> HIDE DEF P, u
      <3> QED BY <2>2, <2>3, <1>2
    <2>5. SumFunctionOnSet(g, s) = g[x] + SumFunctionOnSet(g, u)
      BY <1>3, <2>1, SumRemoves
    <2>6. SumFunctionOnSet(g, u) \in Int
      <3> HIDE DEF u
      <3> QED BY <1>3, <2>2, SumType
    <2>7. S \union s = (S \union u) \union {x} /\ x \notin S \union u BY <1>3, <2>1
    <2>8. IsFiniteSet(S \union u)
      <3> HIDE DEF u
      <3> QED BY <2>2, FS_Union
    <2>9. g[x] \in Int /\ \A y \in S \union u : g[y] \in Int BY <1>3, <2>1
    <2>10. SumFunctionOnSet(g, S \union s) = g[x] + SumFunctionOnSet(g, S \union u)
      <3> DEFINE V == S \union u
      <3> HIDE DEF V, u
      <3> QED BY <2>7, <2>8, <2>9, SumAdd DEF V
    <2>11. ~P(s) BY <1>2
    <2> HIDE DEF u
    <2> QED BY <1>4, <2>4, <2>5, <2>6, <2>9, <2>10, <2>11
  <1> QED BY <1>5, <1>6

(* Natural numbers have a natural sum.                                      *)
LEMMA SumNat ==
  ASSUME NEW g, NEW S, IsFiniteSet(S), \A x \in S : g[x] \in Nat
  PROVE  SumFunctionOnSet(g, S) \in Nat
  <1> DEFINE C == {s \in FiniteSubsetsOf(S) : SumFunctionOnSet(g, s) \notin Nat}
  <1>1. SUFFICES ASSUME C # {} PROVE FALSE
    <2>1. S \in FiniteSubsetsOf(S) BY DEF FiniteSubsetsOf
    <2> QED BY <2>1
  <1>2. PICK s \in C : \A U \in C : U \subseteq s => U = s
    <2> C \in SUBSET FiniteSubsetsOf(S) OBVIOUS
    <2> HIDE DEF C
    <2> QED BY <1>1, SmallestSet
  <1>3. IsFiniteSet(s) /\ s \subseteq S BY DEF FiniteSubsetsOf
  <1>4. CASE s = {} BY <1>4, <1>2, SumEmpty
  <1>5. CASE s # {}
    <2>1. PICK x \in s : TRUE BY <1>5
    <2> DEFINE u == s \ {x}
    <2>2. IsFiniteSet(u) /\ u # s /\ u \subseteq s BY <1>3, <2>1, FS_Subset
    <2>3. u \in FiniteSubsetsOf(S) BY <2>2, <1>3 DEF FiniteSubsetsOf
    <2>4. SumFunctionOnSet(g, u) \in Nat
      <3> HIDE DEF u
      <3> QED BY <2>2, <2>3, <1>2
    <2>5. SumFunctionOnSet(g, s) = g[x] + SumFunctionOnSet(g, u)
      BY <1>3, <2>1, SumRemoves
    <2> HIDE DEF u
    <2> QED BY <2>1, <2>4, <2>5, <1>2, <1>3
  <1> QED BY <1>4, <1>5

(* A part of natural numbers has no greater sum than all of them.           *)
LEMMA SumSubset ==
  ASSUME NEW g, NEW S, IsFiniteSet(S), NEW T \in SUBSET S, \A x \in S : g[x] \in Nat
  PROVE  SumFunctionOnSet(g, T) <= SumFunctionOnSet(g, S)
  <1>1. IsFiniteSet(T) /\ IsFiniteSet(S \ T) BY FS_Subset
  <1>2. T \union (S \ T) = S /\ T \cap (S \ T) = {} OBVIOUS
  <1>3. SumFunctionOnSet(g, S) = SumFunctionOnSet(g, T) + SumFunctionOnSet(g, S \ T)
    <2> DEFINE U == S \ T
    <2> HIDE DEF U
    <2> QED BY <1>1, <1>2, SumUnion DEF U
  <1>4. SumFunctionOnSet(g, T) \in Nat /\ SumFunctionOnSet(g, S \ T) \in Nat
    <2> DEFINE U == S \ T
    <2>1. \A x \in U : g[x] \in Nat OBVIOUS
    <2> HIDE DEF U
    <2> QED BY <1>1, <2>1, SumNat DEF U
  <1> QED BY <1>3, <1>4

(* The sum of sums.                                                         *)
LEMMA SumPlus ==
  ASSUME NEW S, IsFiniteSet(S), NEW g, NEW h, NEW k,
         \A x \in S : g[x] \in Int /\ h[x] \in Int /\ k[x] = g[x] + h[x]
  PROVE  SumFunctionOnSet(k, S) = SumFunctionOnSet(g, S) + SumFunctionOnSet(h, S)
  <1> DEFINE P(s) == SumFunctionOnSet(k, s) = SumFunctionOnSet(g, s) + SumFunctionOnSet(h, s)
  <1> DEFINE C == {s \in FiniteSubsetsOf(S) : ~P(s)}
  <1>1. SUFFICES ASSUME C # {} PROVE FALSE
    <2>1. S \in FiniteSubsetsOf(S) BY DEF FiniteSubsetsOf
    <2> QED BY <2>1
  <1>2. PICK s \in C : \A U \in C : U \subseteq s => U = s
    <2> C \in SUBSET FiniteSubsetsOf(S) OBVIOUS
    <2> HIDE DEF C
    <2> QED BY <1>1, SmallestSet
  <1>3. IsFiniteSet(s) /\ s \subseteq S BY DEF FiniteSubsetsOf
  <1>4. CASE s = {} BY <1>4, <1>2, SumEmpty
  <1>5. CASE s # {}
    <2>1. PICK x \in s : TRUE BY <1>5
    <2> DEFINE u == s \ {x}
    <2>2. IsFiniteSet(u) /\ u # s /\ u \subseteq s BY <1>3, <2>1, FS_Subset
    <2>3. u \in FiniteSubsetsOf(S) BY <2>2, <1>3 DEF FiniteSubsetsOf
    <2>4. P(u)
      <3> HIDE DEF P, u
      <3> QED BY <2>2, <2>3, <1>2
    <2>5. \A y \in s : g[y] \in Int /\ h[y] \in Int /\ k[y] \in Int BY <1>3
    <2>6. /\ SumFunctionOnSet(g, s) = g[x] + SumFunctionOnSet(g, u)
          /\ SumFunctionOnSet(h, s) = h[x] + SumFunctionOnSet(h, u)
          /\ SumFunctionOnSet(k, s) = k[x] + SumFunctionOnSet(k, u)
      BY <1>3, <2>1, <2>5, SumRemoves
    <2>7. SumFunctionOnSet(g, u) \in Int /\ SumFunctionOnSet(h, u) \in Int
      <3> HIDE DEF u
      <3> QED BY <2>2, <2>5, SumType
    <2>8. g[x] \in Int /\ h[x] \in Int /\ k[x] = g[x] + h[x] BY <1>3, <2>1
    <2>9. ~P(s) BY <1>2
    <2> HIDE DEF u
    <2> QED BY <2>4, <2>6, <2>7, <2>8, <2>9
  <1> QED BY <1>4, <1>5

(* The sum over 1 .. n + 1 begins with the first value.                     *)
LEMMA SumShift ==
  ASSUME NEW n \in Nat, NEW g, NEW h, \A i \in 1 .. n + 1 : g[i] \in Int,
         \A i \in 1 .. n : h[i] = g[i + 1]
  PROVE  SumFunctionOnSet(g, 1 .. n + 1) = g[1] + SumFunctionOnSet(h, 1 .. n)
  <1> DEFINE C == {k \in 0 .. n : SumFunctionOnSet(g, 1 .. k + 1) # g[1] + SumFunctionOnSet(h, 1 .. k)}
  <1>1. SUFFICES ASSUME C # {} PROVE FALSE OBVIOUS
  <1>2. PICK m \in C : \A k \in C : m <= k
    <2> C \in SUBSET Nat OBVIOUS
    <2> HIDE DEF C
    <2> QED BY <1>1, SmallestNat
  <1>3. m \in 0 .. n /\ m \in Nat OBVIOUS
  <1>4. ASSUME NEW k \in 0 .. n PROVE IsFiniteSet(1 .. k)
    <2> k \in Int OBVIOUS
    <2> QED BY FS_Interval
  <1>5. \A k \in 0 .. n : \A i \in 1 .. k : h[i] \in Int OBVIOUS
  <1>6. SumFunctionOnSet(g, 1 .. m + 1) = g[m + 1] + SumFunctionOnSet(g, 1 .. m)
    <2>1. 1 .. m + 1 = (1 .. m) \union {m + 1} /\ m + 1 \notin 1 .. m BY <1>3
    <2>2. g[m + 1] \in Int /\ \A i \in 1 .. m : g[i] \in Int BY <1>3
    <2>3. IsFiniteSet(1 .. m) BY <1>3, <1>4
    <2> QED BY <2>1, <2>2, <2>3, SumAdd
  <1>7. CASE m = 0
    <2>1. 1 .. m = {} BY <1>7
    <2>2. g[m + 1] = g[1] /\ g[1] \in Int BY <1>7
    <2> QED BY <1>2, <1>6, <2>1, <2>2, SumEmpty
  <1>8. CASE m # 0
    <2> DEFINE j == m - 1
    <2>1. j \in 0 .. n /\ m = j + 1 /\ ~ (m <= j) BY <1>3, <1>8
    <2> HIDE DEF j
    <2>2. SumFunctionOnSet(g, 1 .. m) = g[1] + SumFunctionOnSet(h, 1 .. j) BY <1>2, <2>1
    <2>3. SumFunctionOnSet(h, 1 .. m) = h[m] + SumFunctionOnSet(h, 1 .. j)
      <3>1. 1 .. m = (1 .. j) \union {m} /\ m \notin 1 .. j BY <1>3, <2>1
      <3>2. h[m] \in Int /\ \A i \in 1 .. j : h[i] \in Int
        <4>1. m \in 1 .. n BY <1>3, <1>8
        <4> QED BY <1>5, <2>1, <4>1
      <3>3. IsFiniteSet(1 .. j) BY <1>4, <2>1
      <3> QED BY <3>1, <3>2, <3>3, SumAdd
    <2>4. h[m] = g[m + 1] /\ g[1] \in Int /\ g[m + 1] \in Int
      <3>1. m \in 1 .. n /\ 1 \in 1 .. n + 1 /\ m + 1 \in 1 .. n + 1 BY <1>3, <1>8
      <3> QED BY <3>1
    <2>5. SumFunctionOnSet(h, 1 .. j) \in Int BY <1>4, <1>5, <2>1, SumType
    <2>6. SumFunctionOnSet(g, 1 .. m + 1) # g[1] + SumFunctionOnSet(h, 1 .. m) BY <1>2
    <2> QED BY <1>6, <2>2, <2>3, <2>4, <2>5, <2>6
  <1> QED BY <1>7, <1>8
------------------------------------------------------------------------------
(* How FoldSet computes: h has the results over all subsets. The operator   *)
(* is a function, g[x][v], from the elements and the results so far.        *)
IsFold(h, base, g, S) ==
  h = [s \in SUBSET S |-> IF s = {} THEN base ELSE g[Pick(s)][h[s \ {Pick(s)}]]]

(* There is exactly one such h over a finite set.                           *)
LEMMA FoldUnique ==
  ASSUME NEW g, NEW base, NEW S, IsFiniteSet(S)
  PROVE /\ \E h : IsFold(h, base, g, S)
        /\ \A h, k : IsFold(h, base, g, S) /\ IsFold(k, base, g, S) => h = k
  <1> DEFINE P(s) == /\ \E h : IsFold(h, base, g, s)
                     /\ \A h, k : IsFold(h, base, g, s) /\ IsFold(k, base, g, s) => h = k
  <1> DEFINE C == {s \in FiniteSubsetsOf(S) : ~P(s)}
  <1>0. \A s : s # {} => Pick(s) \in s BY DEF Pick
  <1>1. SUFFICES ASSUME C # {} PROVE FALSE
    <2>1. S \in FiniteSubsetsOf(S) BY DEF FiniteSubsetsOf
    <2> QED BY <2>1
  <1>2. PICK s \in C : \A U \in C : U \subseteq s => U = s
    <2> C \in SUBSET FiniteSubsetsOf(S) OBVIOUS
    <2> HIDE DEF C
    <2> QED BY <1>1, SmallestSet
  <1>3. IsFiniteSet(s) /\ s \subseteq S BY DEF FiniteSubsetsOf
  <1>4. ASSUME NEW u \in SUBSET s, u # s PROVE P(u)
    <2>1. IsFiniteSet(u) BY <1>3, FS_Subset
    <2>2. u \in FiniteSubsetsOf(S) BY <2>1, <1>3 DEF FiniteSubsetsOf
    <2> HIDE DEF P
    <2> QED BY <2>2, <1>2, <1>4
  <1> DEFINE R(h, u) == [v \in SUBSET u |-> h[v]]
  <1>5. ASSUME NEW u, NEW h, IsFold(h, base, g, u), NEW v \in SUBSET u PROVE IsFold(R(h, v), base, g, v)
    <2>1. h = [t \in SUBSET u |-> IF t = {} THEN base ELSE g[Pick(t)][h[t \ {Pick(t)}]]] BY <1>5 DEF IsFold
    <2>2. ASSUME NEW t \in SUBSET v
          PROVE R(h, v)[t] = IF t = {} THEN base ELSE g[Pick(t)][R(h, v)[t \ {Pick(t)}]]
      <3>1. t \in SUBSET u /\ t \ {Pick(t)} \in SUBSET v OBVIOUS
      <3>2. h[t] = IF t = {} THEN base ELSE g[Pick(t)][h[t \ {Pick(t)}]] BY <2>1, <3>1
      <3> QED BY <3>1, <3>2
    <2> DEFINE F == [t \in SUBSET v |-> IF t = {} THEN base ELSE g[Pick(t)][R(h, v)[t \ {Pick(t)}]]]
    <2>3. \A t \in SUBSET v : R(h, v)[t] = F[t] BY <2>2
    <2>4. R(h, v) = F
      <3> HIDE DEF F
      <3>1. F = [t \in SUBSET v |-> F[t]] BY DEF F
      <3> QED BY <2>3, <3>1
    <2> QED BY <2>4 DEF IsFold
  <1>6. ASSUME NEW h, NEW k, IsFold(h, base, g, s), IsFold(k, base, g, s) PROVE h = k
    <2>1. h = [t \in SUBSET s |-> IF t = {} THEN base ELSE g[Pick(t)][h[t \ {Pick(t)}]]] BY <1>6 DEF IsFold
    <2>2. k = [t \in SUBSET s |-> IF t = {} THEN base ELSE g[Pick(t)][k[t \ {Pick(t)}]]] BY <1>6 DEF IsFold
    <2>3. ASSUME NEW u \in SUBSET s, u # s PROVE h[u] = k[u]
      <3>1. R(h, u) = R(k, u)
        <4> IsFold(R(h, u), base, g, u) /\ IsFold(R(k, u), base, g, u) BY <1>5, <1>6
        <4> HIDE DEF R
        <4> QED BY <1>4, <2>3
      <3>2. u \in SUBSET u OBVIOUS
      <3> QED BY <3>1, <3>2
    <2>4. h[s] = k[s]
      <3>1. s \in SUBSET s /\ s \ {Pick(s)} \in SUBSET s OBVIOUS
      <3>2. CASE s = {} BY <3>1, <3>2, <2>1, <2>2
      <3>3. CASE s # {}
        <4>1. h[s \ {Pick(s)}] = k[s \ {Pick(s)}] BY <2>3, <3>1, <3>3, <1>0
        <4>2. h[s] = g[Pick(s)][h[s \ {Pick(s)}]] BY <3>1, <3>3, <2>1
        <4>3. k[s] = g[Pick(s)][k[s \ {Pick(s)}]] BY <3>1, <3>3, <2>2
        <4> QED BY <4>1, <4>2, <4>3
      <3> QED BY <3>2, <3>3
    <2>5. \A u \in SUBSET s : h[u] = k[u] BY <2>3, <2>4
    <2>6. h = [t \in SUBSET s |-> h[t]] /\ k = [t \in SUBSET s |-> k[t]] BY <2>1, <2>2
    <2> QED BY <2>5, <2>6
  <1>7. \E h : IsFold(h, base, g, s)
    <2> DEFINE G(u) == CHOOSE h : IsFold(h, base, g, u)
    <2>1. ASSUME NEW u \in SUBSET s, u # s PROVE IsFold(G(u), base, g, u) BY <1>4, <2>1
    <2> DEFINE h == [u \in SUBSET s |-> IF u # s THEN G(u)[u]
                                        ELSE IF s = {} THEN base
                                        ELSE g[Pick(s)][G(s \ {Pick(s)})[s \ {Pick(s)}]]]
    <2>2. ASSUME NEW u \in SUBSET s
          PROVE h[u] = IF u = {} THEN base ELSE g[Pick(u)][h[u \ {Pick(u)}]]
      <3> DEFINE w == u \ {Pick(u)}
      <3>0. w \in SUBSET s /\ w \in SUBSET u /\ u \in SUBSET u OBVIOUS
      <3>1. CASE u = s
        <4> HIDE DEF G
        <4>1. CASE s = {} BY <3>1, <4>1
        <4>2. CASE s # {}
          <5>1. w # s BY <3>1, <4>2, <1>0
          <5>2. h[w] = G(w)[w] BY <5>1, <3>0
          <5> QED BY <5>2, <3>1, <4>2
        <4> QED BY <4>1, <4>2
      <3>2. CASE u # s
        <4>1. IsFold(G(u), base, g, u) BY <2>1, <3>2
        <4>2. G(u) = [t \in SUBSET u |-> IF t = {} THEN base ELSE g[Pick(t)][G(u)[t \ {Pick(t)}]]]
          <5> HIDE DEF G
          <5> QED BY <4>1 DEF IsFold
        <4>3. G(u)[u] = IF u = {} THEN base ELSE g[Pick(u)][G(u)[w]]
          <5> HIDE DEF G
          <5> QED BY <4>2, <3>0
        <4>4. ASSUME u # {} PROVE h[w] = G(u)[w]
          <5>1. w # s BY <4>4, <1>0, <3>2
          <5>2. IsFold(G(w), base, g, w) BY <2>1, <5>1, <3>0
          <5>3. IsFold(R(G(u), w), base, g, w)
            <6> HIDE DEF G, R, w
            <6> QED BY <1>5, <4>1, <3>0
          <5>4. P(w) BY <1>4, <5>1, <3>0
          <5>5. R(G(u), w) = G(w)
            <6> HIDE DEF G, R, w
            <6> QED BY <5>2, <5>3, <5>4
          <5>6. R(G(u), w)[w] = G(u)[w]
            <6> HIDE DEF G, w
            <6> QED OBVIOUS
          <5>7. h[w] = G(w)[w]
            <6> HIDE DEF G
            <6> QED BY <5>1, <3>0
          <5> HIDE DEF G, h, R, w
          <5> QED BY <5>5, <5>6, <5>7
        <4>5. h[u] = G(u)[u]
          <5> HIDE DEF G
          <5> QED BY <3>2
        <4> HIDE DEF G, h, w
        <4> QED BY <4>3, <4>4, <4>5 DEF w
      <3> HIDE DEF h
      <3> QED BY <3>1, <3>2
    <2> DEFINE F == [u \in SUBSET s |-> IF u = {} THEN base ELSE g[Pick(u)][h[u \ {Pick(u)}]]]
    <2>3. h = F
      <3>1. \A u \in SUBSET s : h[u] = F[u]
        <4> HIDE DEF h
        <4> QED BY <2>2
      <3>2. h = [u \in SUBSET s |-> h[u]] BY DEF h
      <3>3. F = [u \in SUBSET s |-> F[u]] BY DEF F
      <3> HIDE DEF h, F
      <3> QED BY <3>1, <3>2, <3>3
    <2>4. IsFold(h, base, g, s)
      <3> HIDE DEF h
      <3> QED BY <2>3 DEF IsFold
    <2> QED BY <2>4
  <1> QED
    <2> HIDE DEF P
    <2>1. ~P(s) BY <1>2
    <2> QED BY <2>1, <1>6, <1>7 DEF P

(* Induction over what a fold computes: R relates sets to results.          *)
Keeps(g, S, R) ==
  \A T \in SUBSET S : \A x \in S \ T : \A v :
    <<T, v>> \in R => <<T \union {x}, g[x][v]>> \in R

Follows(k, g, S, R) ==
  \A T \in SUBSET S : T # {} /\ <<T \ {Pick(T)}, k[T \ {Pick(T)}]>> \in R =>
    k[T] = g[Pick(T)][k[T \ {Pick(T)}]]

LEMMA FoldInduction ==
  ASSUME NEW S, IsFiniteSet(S), NEW g, NEW R, NEW k,
         <<{}, k[{}]>> \in R, Keeps(g, S, R), Follows(k, g, S, R)
  PROVE  \A T \in SUBSET S : <<T, k[T]>> \in R
  <1> DEFINE C == {T \in FiniteSubsetsOf(S) : <<T, k[T]>> \notin R}
  <1>1. SUFFICES ASSUME C # {} PROVE FALSE
    <2>1. \A T \in SUBSET S : T \in FiniteSubsetsOf(S)
      BY FS_Subset DEF FiniteSubsetsOf
    <2> QED BY <2>1
  <1>2. PICK T \in C : \A U \in C : U \subseteq T => U = T
    <2> C \in SUBSET FiniteSubsetsOf(S) OBVIOUS
    <2> HIDE DEF C
    <2> QED BY <1>1, SmallestSet
  <1>3. IsFiniteSet(T) /\ T \in SUBSET S BY DEF FiniteSubsetsOf
  <1>4. T # {} BY <1>2
  <1> DEFINE x == Pick(T)
             U == T \ {x}
  <1>5. x \in T BY <1>4 DEF Pick
  <1> HIDE DEF x
  <1>6. U \in SUBSET S /\ U # T /\ U \subseteq T /\ x \in S \ U /\ U \union {x} = T
    BY <1>3, <1>5
  <1>7. U \in FiniteSubsetsOf(S)
    BY <1>3, <1>6, FS_Subset DEF FiniteSubsetsOf
  <1>8. U \notin C BY <1>2, <1>6
  <1>9. <<U, k[U]>> \in R BY <1>7, <1>8
  <1> HIDE DEF C, U
  <1>10. <<U \union {x}, g[x][k[U]]>> \in R
    BY <1>6, <1>9 DEF Keeps
  <1>11. k[T] = g[x][k[U]]
    BY <1>3, <1>4, <1>9 DEF x, U, Follows
  <1> QED BY <1>2, <1>6, <1>10, <1>11 DEF C

(* There is a fold, with values in V.                                       *)
LEMMA FoldExists ==
  ASSUME NEW S, IsFiniteSet(S), NEW V, NEW base \in V, NEW g \in [S -> [V -> V]]
  PROVE  \E h \in [SUBSET S -> V] : IsFold(h, base, g, S)
  <1>1. PICK h : IsFold(h, base, g, S) BY FoldUnique
  <1>2. h = [s \in SUBSET S |-> IF s = {} THEN base ELSE g[Pick(s)][h[s \ {Pick(s)}]]]
    BY <1>1 DEF IsFold
  <1> DEFINE R == (SUBSET S) \X V
  <1>3. \A T \in SUBSET S : h[T] \in V
    <2>1. <<{}, h[{}]>> \in R BY <1>2
    <2>2. Keeps(g, S, R) BY DEF Keeps
    <2>3. Follows(h, g, S, R) BY <1>2 DEF Follows
    <2>4. R \subseteq (SUBSET S) \X V OBVIOUS
    <2> HIDE DEF R
    <2>5. \A T \in SUBSET S : <<T, h[T]>> \in R
      BY <2>1, <2>2, <2>3, FoldInduction
    <2> QED BY <2>4, <2>5
  <1>4. h \in [SUBSET S -> V] BY <1>2, <1>3
  <1> QED BY <1>1, <1>4

------------------------------------------------------------------------------
(* Powers of b, by recursion. The functions on 0 .. k are parts of it.      *)
IsPow(f, b) == f = [n \in Nat |-> IF n = 0 THEN 1 ELSE b * f[n - 1]]

IsPowTo(f, b, k) == f = [n \in 0 .. k |-> IF n = 0 THEN 1 ELSE b * f[n - 1]]

LEMMA PowToUnique ==
  ASSUME NEW b, NEW k \in Nat, NEW l \in Nat, NEW f, NEW g, IsPowTo(f, b, k), IsPowTo(g, b, l),
         NEW n \in Nat, n <= k, n <= l
  PROVE  f[n] = g[n]
  <1> DEFINE C == {m \in Nat : m <= n /\ f[m] # g[m]}
  <1>1. SUFFICES ASSUME C # {} PROVE FALSE OBVIOUS
  <1>2. PICK m \in C : \A i \in C : m <= i
    <2> C \in SUBSET Nat OBVIOUS
    <2> HIDE DEF C
    <2> QED BY <1>1, SmallestNat
  <1>3. m \in 0 .. k /\ m \in 0 .. l /\ m \in Nat OBVIOUS
  <1>4. /\ f[m] = IF m = 0 THEN 1 ELSE b * f[m - 1]
        /\ g[m] = IF m = 0 THEN 1 ELSE b * g[m - 1]
    <2>1. f = [i \in 0 .. k |-> IF i = 0 THEN 1 ELSE b * f[i - 1]] BY DEF IsPowTo
    <2>2. g = [i \in 0 .. l |-> IF i = 0 THEN 1 ELSE b * g[i - 1]] BY DEF IsPowTo
    <2> HIDE DEF C
    <2> QED BY <1>3, <2>1, <2>2
  <1>5. m # 0 => m - 1 \in Nat /\ m - 1 \notin C BY <1>2, <1>3
  <1> QED BY <1>2, <1>3, <1>4, <1>5

LEMMA PowToExists ==
  ASSUME NEW b, NEW k \in Nat
  PROVE  \E f : IsPowTo(f, b, k)
  <1> DEFINE C == {l \in Nat : ~ \E f : IsPowTo(f, b, l)}
  <1>1. SUFFICES ASSUME C # {} PROVE FALSE OBVIOUS
  <1>2. PICK l \in C : \A m \in C : l <= m
    <2> C \in SUBSET Nat OBVIOUS
    <2> HIDE DEF C
    <2> QED BY <1>1, SmallestNat
  <1>3. CASE l = 0
    <2> DEFINE f == [n \in 0 .. 0 |-> 1]
    <2>1. IsPowTo(f, b, 0) BY DEF IsPowTo
    <2> QED BY <1>2, <1>3, <2>1
  <1>4. CASE l # 0
    <2>1. l - 1 \in Nat /\ l - 1 \notin C BY <1>2, <1>4
    <2>2. PICK f : IsPowTo(f, b, l - 1) BY <2>1
    <2> DEFINE g == [n \in 0 .. l |-> IF n = l THEN b * f[l - 1] ELSE f[n]]
    <2>3. ASSUME NEW n \in 0 .. l
          PROVE  g[n] = IF n = 0 THEN 1 ELSE b * g[n - 1]
      <3>1. f = [j \in 0 .. l - 1 |-> IF j = 0 THEN 1 ELSE b * f[j - 1]] BY <2>2 DEF IsPowTo
      <3>2. CASE n = l BY <1>4, <2>1, <3>2
      <3>3. CASE n # l
        <4>1. n \in 0 .. l - 1 BY <2>1, <3>3
        <4>2. f[n] = IF n = 0 THEN 1 ELSE b * f[n - 1] BY <3>1, <4>1
        <4>3. n # 0 => n - 1 \in 0 .. l /\ n - 1 # l BY <4>1
        <4> QED BY <3>3, <4>2, <4>3
      <3> QED BY <3>2, <3>3
    <2>4. IsPowTo(g, b, l)
      <3> DEFINE h == [n \in 0 .. l |-> IF n = 0 THEN 1 ELSE b * g[n - 1]]
      <3>1. \A n \in 0 .. l : g[n] = h[n]
        <4> HIDE DEF g
        <4> QED BY <2>3
      <3>2. g = [n \in 0 .. l |-> g[n]] /\ h = [n \in 0 .. l |-> h[n]] OBVIOUS
      <3>3. g = h
        <4> HIDE DEF g, h
        <4> QED BY <3>1, <3>2
      <3> HIDE DEF g
      <3> QED BY <3>3 DEF IsPowTo
    <2> HIDE DEF g
    <2> QED BY <1>2, <2>4
  <1> QED BY <1>3, <1>4

LEMMA PowExists == ASSUME NEW b PROVE \E f : IsPow(f, b)
  <1> DEFINE G(k) == CHOOSE f : IsPowTo(f, b, k)
             h == [n \in Nat |-> G(n)[n]]
  <1>1. ASSUME NEW k \in Nat PROVE IsPowTo(G(k), b, k) BY PowToExists
  <1>2. ASSUME NEW n \in Nat
        PROVE  h[n] = IF n = 0 THEN 1 ELSE b * h[n - 1]
    <2>1. IsPowTo(G(n), b, n) BY <1>1
    <2> HIDE DEF G
    <2>2. G(n) = [i \in 0 .. n |-> IF i = 0 THEN 1 ELSE b * G(n)[i - 1]] BY <2>1 DEF IsPowTo
    <2>3. n \in 0 .. n OBVIOUS
    <2>4. G(n)[n] = IF n = 0 THEN 1 ELSE b * G(n)[n - 1] BY <2>2, <2>3
    <2>5. ASSUME n # 0 PROVE G(n)[n - 1] = h[n - 1]
      <3>1. n - 1 \in Nat /\ n - 1 <= n BY <2>5
      <3>2. IsPowTo(G(n - 1), b, n - 1) BY <1>1, <3>1
      <3>3. G(n)[n - 1] = G(n - 1)[n - 1] BY <2>1, <3>1, <3>2, PowToUnique
      <3> QED BY <3>1, <3>3
    <2> QED BY <2>4, <2>5
  <1> DEFINE F == [n \in Nat |-> IF n = 0 THEN 1 ELSE b * h[n - 1]]
  <1>3. h = [n \in Nat |-> h[n]] /\ F = [n \in Nat |-> F[n]] OBVIOUS
  <1>4. \A n \in Nat : h[n] = F[n]
    <2> HIDE DEF h
    <2> QED BY <1>2
  <1>5. h = F
    <2> HIDE DEF h, F
    <2> QED BY <1>3, <1>4
  <1> HIDE DEF h
  <1> QED BY <1>5 DEF IsPow

LEMMA PowFacts ==
  ASSUME NEW b \in Nat \ {0}, NEW f, IsPow(f, b)
  PROVE  /\ f[0] = 1
         /\ \A n \in Nat : f[n] \in Nat \ {0} /\ f[n + 1] = b * f[n]
  <1>1. \A n \in Nat : f[n] = IF n = 0 THEN 1 ELSE b * f[n - 1]
    <2>1. f = [n \in Nat |-> IF n = 0 THEN 1 ELSE b * f[n - 1]] BY DEF IsPow
    <2> QED BY <2>1
  <1>2. \A n \in Nat : f[n + 1] = b * f[n] BY <1>1
  <1> DEFINE C == {n \in Nat : f[n] \notin Nat \ {0}}
  <1>3. ASSUME C # {} PROVE FALSE
    <2>1. PICK n \in C : \A m \in C : n <= m
      <3> C \in SUBSET Nat OBVIOUS
      <3> HIDE DEF C
      <3> QED BY <1>3, SmallestNat
    <2>2. n # 0 => n - 1 \in Nat /\ n - 1 \notin C BY <2>1
    <2> QED BY <1>1, <2>1, <2>2
  <1> QED BY <1>1, <1>2, <1>3

(* Powers of two.                                                           *)
IsPow2(f) == IsPow(f, 2)

LEMMA Pow2Exists == \E f : IsPow2(f)
  BY PowExists DEF IsPow2

LEMMA Pow2Facts ==
  ASSUME NEW f, IsPow2(f)
  PROVE  /\ f[0] = 1
         /\ \A n \in Nat : f[n] \in Nat \ {0} /\ f[n + 1] = 2 * f[n]
  BY PowFacts DEF IsPow2

------------------------------------------------------------------------------
(* Cutting n items into k shares, one for each task.                        *)
Cut(t, n, k) == (t * n) \div k

LEMMA CutFacts ==
  ASSUME NEW n \in Nat, NEW k \in Nat \ {0}
  PROVE  /\ Cut(0, n, k) = 0 /\ Cut(k, n, k) = n
         /\ \A t \in Nat : Cut(t, n, k) \in Nat
         /\ \A s, t \in Nat : s <= t => Cut(s, n, k) <= Cut(t, n, k)
         /\ \A t \in 0 .. k : Cut(t, n, k) \in 0 .. n
  <1>1. \A t \in Nat : t * n \in Nat
    OBVIOUS
  <1>2. \A a \in Nat : a \div k \in Nat
    OBVIOUS
  <1>3. \A t \in Nat : Cut(t, n, k) \in Nat
    BY <1>1, <1>2 DEF Cut
  <1>4. Cut(0, n, k) = 0
    BY DEF Cut
  <1>5. Cut(k, n, k) = n
    <2>1. (k * n) \div k = n
      OBVIOUS
    <2> QED BY <2>1 DEF Cut
  <1>6. ASSUME NEW s \in Nat, NEW t \in Nat, s <= t
        PROVE  Cut(s, n, k) <= Cut(t, n, k)
    <2>1. s * n <= t * n
      BY <1>6
    <2>2. \A a, b \in Nat : a <= b => a \div k <= b \div k
      OBVIOUS
    <2> QED BY <1>1, <2>1, <2>2 DEF Cut
  <1> QED BY <1>3, <1>4, <1>5, <1>6

LEMMA ShareFacts ==
  ASSUME NEW n \in Nat, NEW k \in Nat \ {0}, NEW t \in 0 .. k - 1
  PROVE  /\ Cut(t, n, k) \in 0 .. n /\ Cut(t + 1, n, k) \in 0 .. n
         /\ Cut(t, n, k) \in Nat /\ Cut(t + 1, n, k) \in Nat
         /\ Cut(t, n, k) <= Cut(t + 1, n, k)
  <1>1. t \in 0 .. k /\ t + 1 \in 0 .. k /\ t \in Nat /\ t + 1 \in Nat /\ t <= t + 1
    OBVIOUS
  <1> QED BY <1>1, CutFacts

(* Each item is in the share of one task.                                   *)
LEMMA CutTiles ==
  ASSUME NEW n \in Nat, NEW k \in Nat \ {0}, NEW i \in 0 .. n - 1
  PROVE  \E t \in 0 .. k - 1 : i \in Cut(t, n, k) .. Cut(t + 1, n, k) - 1
  <1> DEFINE C == {t \in 0 .. k : i < Cut(t, n, k)}
  <1>1. k \in C /\ C \subseteq Nat
    BY CutFacts
  <1>2. PICK u \in C : \A m \in C : u <= m
    <2> HIDE DEF C
    <2> QED BY <1>1, SmallestNat
  <1>3. u # 0
    BY <1>2, CutFacts
  <1>4. u - 1 \in 0 .. k - 1 /\ u - 1 \notin C
    BY <1>2, <1>3
  <1>5. Cut(u - 1, n, k) \in Nat /\ Cut(u, n, k) \in Nat
    BY <1>2, <1>4, CutFacts
  <1>6. i \in Cut(u - 1, n, k) .. Cut((u - 1) + 1, n, k) - 1
    BY <1>2, <1>4, <1>5
  <1> QED BY <1>4, <1>6

LEMMA CutApart ==
  ASSUME NEW n \in Nat, NEW k \in Nat \ {0}, NEW s \in 0 .. k - 1, NEW t \in 0 .. k - 1,
         NEW i \in Cut(s, n, k) .. Cut(s + 1, n, k) - 1,
         i \in Cut(t, n, k) .. Cut(t + 1, n, k) - 1
  PROVE  s = t
  <1>1. s + 1 <= t => Cut(s + 1, n, k) <= Cut(t, n, k)
    BY CutFacts
  <1>2. t + 1 <= s => Cut(t + 1, n, k) <= Cut(s, n, k)
    BY CutFacts
  <1>3. /\ Cut(s, n, k) \in Nat /\ Cut(s + 1, n, k) \in Nat
        /\ Cut(t, n, k) \in Nat /\ Cut(t + 1, n, k) \in Nat
    BY CutFacts
  <1> QED BY <1>1, <1>2, <1>3

(* The sums of the shares add up.                                           *)
ShareSums(h, g, n, k) ==
  \A t \in 0 .. k - 1 : h[t] = SumFunctionOnSet(g, Cut(t, n, k) .. Cut(t + 1, n, k) - 1)

LEMMA CutSums ==
  ASSUME NEW n \in Nat, NEW k \in Nat \ {0}, NEW g, \A i \in 0 .. n - 1 : g[i] \in Nat,
         NEW h, ShareSums(h, g, n, k)
  PROVE  \A t \in 0 .. k :
           SumFunctionOnSet(h, 0 .. t - 1) = SumFunctionOnSet(g, 0 .. Cut(t, n, k) - 1)
  <1> DEFINE Bad == {t \in 0 .. k :
                       SumFunctionOnSet(h, 0 .. t - 1) # SumFunctionOnSet(g, 0 .. Cut(t, n, k) - 1)}
  <1> SUFFICES ASSUME Bad # {} PROVE FALSE
    OBVIOUS
  <1>1. PICK u \in Bad : \A m \in Bad : u <= m
    <2>1. Bad \in SUBSET Nat
      OBVIOUS
    <2> HIDE DEF Bad
    <2> QED BY <2>1, SmallestNat
  <1>2. u # 0
    <2>1. 0 .. 0 - 1 = {}
      OBVIOUS
    <2>2. 0 .. Cut(0, n, k) - 1 = {}
      BY <2>1, CutFacts
    <2>3. SumFunctionOnSet(h, 0 .. 0 - 1) = SumFunctionOnSet(g, 0 .. Cut(0, n, k) - 1)
      BY <2>1, <2>2, SumEmpty
    <2> QED BY <1>1, <2>3
  <1> DEFINE t == u - 1
  <1>3. t \in 0 .. k - 1 /\ t \notin Bad /\ t + 1 = u
    BY <1>1, <1>2
  <1>4. SumFunctionOnSet(h, 0 .. t - 1) = SumFunctionOnSet(g, 0 .. Cut(t, n, k) - 1)
    BY <1>3
  <1> DEFINE a == Cut(t, n, k)
             b == Cut(t + 1, n, k)
  <1>5. a \in 0 .. n /\ b \in 0 .. n /\ a <= b
    BY <1>3, CutFacts
  <1>6. h[t] = SumFunctionOnSet(g, a .. b - 1)
    BY <1>3 DEF ShareSums
  <1>7. SumFunctionOnSet(h, 0 .. u - 1) # SumFunctionOnSet(g, 0 .. b - 1)
    BY <1>1, <1>3
  <1> HIDE DEF Bad, t, a, b
  <1>8. /\ IsFiniteSet(0 .. a - 1) /\ IsFiniteSet(a .. b - 1) /\ IsFiniteSet(0 .. t - 1)
    <2>1. 0 \in Int /\ a - 1 \in Int /\ a \in Int /\ b - 1 \in Int /\ t - 1 \in Int
      BY <1>3, <1>5
    <2> QED BY <2>1, FS_Interval
  <1>9. SumFunctionOnSet(g, 0 .. b - 1) = SumFunctionOnSet(g, 0 .. a - 1) + SumFunctionOnSet(g, a .. b - 1)
    <2>1. 0 .. b - 1 = (0 .. a - 1) \union (a .. b - 1) /\ (0 .. a - 1) \cap (a .. b - 1) = {}
      BY <1>5
    <2>2. \A x \in (0 .. a - 1) \union (a .. b - 1) : g[x] \in Int
      BY <1>5
    <2> DEFINE A == 0 .. a - 1
               B == a .. b - 1
    <2>3. IsFiniteSet(A) /\ IsFiniteSet(B) /\ A \cap B = {} /\ \A x \in A \union B : g[x] \in Int
      BY <1>8, <2>1, <2>2
    <2> HIDE DEF A, B
    <2>4. SumFunctionOnSet(g, A \union B) = SumFunctionOnSet(g, A) + SumFunctionOnSet(g, B)
      BY <2>3, SumUnion
    <2> QED BY <2>1, <2>4 DEF A, B
  <1>10. SumFunctionOnSet(h, 0 .. u - 1) = h[t] + SumFunctionOnSet(h, 0 .. t - 1)
    <2>1. 0 .. u - 1 = (0 .. t - 1) \union {t} /\ t \notin 0 .. t - 1
      BY <1>3
    <2>2. ASSUME NEW x \in (0 .. t - 1) \union {t} PROVE h[x] \in Int
      <3>1. x \in 0 .. k - 1
        BY <1>3, <2>2
      <3>2. h[x] = SumFunctionOnSet(g, Cut(x, n, k) .. Cut(x + 1, n, k) - 1)
        BY <3>1 DEF ShareSums
      <3>3. Cut(x, n, k) \in 0 .. n /\ Cut(x + 1, n, k) \in 0 .. n
        <4>1. x \in 0 .. k /\ x + 1 \in 0 .. k
          BY <3>1
        <4> QED BY <4>1, CutFacts
      <3>4. IsFiniteSet(Cut(x, n, k) .. Cut(x + 1, n, k) - 1)
        <4>1. Cut(x, n, k) \in Int /\ Cut(x + 1, n, k) - 1 \in Int
          BY <3>3
        <4> QED BY <4>1, FS_Interval
      <3>5. \A y \in Cut(x, n, k) .. Cut(x + 1, n, k) - 1 : g[y] \in Int
        BY <3>3
      <3> DEFINE A == Cut(x, n, k) .. Cut(x + 1, n, k) - 1
      <3>6. IsFiniteSet(A) /\ \A y \in A : g[y] \in Int
        BY <3>4, <3>5
      <3> HIDE DEF A
      <3>7. SumFunctionOnSet(g, A) \in Int
        BY <3>6, SumType
      <3> QED BY <3>2, <3>7 DEF A
    <2> DEFINE T == 0 .. t - 1
    <2>3. IsFiniteSet(T) /\ t \notin T /\ h[t] \in Int /\ \A y \in T : h[y] \in Int
      BY <1>8, <2>1, <2>2
    <2> HIDE DEF T
    <2>4. SumFunctionOnSet(h, T \union {t}) = h[t] + SumFunctionOnSet(h, T)
      BY <2>3, SumAdd
    <2> QED BY <2>1, <2>4 DEF T
  <1>11. SumFunctionOnSet(g, 0 .. a - 1) \in Int /\ SumFunctionOnSet(g, a .. b - 1) \in Int
    <2>1. \A x \in 0 .. a - 1 : g[x] \in Int
      BY <1>5
    <2>2. \A x \in a .. b - 1 : g[x] \in Int
      BY <1>5
    <2> QED BY <1>8, <2>1, <2>2, SumType
  <1>12. SumFunctionOnSet(h, 0 .. t - 1) = SumFunctionOnSet(g, 0 .. a - 1)
    BY <1>4 DEF a
  <1> QED BY <1>6, <1>7, <1>9, <1>10, <1>11, <1>12

(* The sum below i.                                                        *)
Below(s, i) == SumFunctionOnSet(s, 0 .. i - 1)

Segment(t, n, k) == Cut(t, n, k) .. Cut(t + 1, n, k) - 1

(* The sum before an item of a segment.                                     *)
LEMMA BelowSplit ==
  ASSUME NEW n \in Nat, NEW s \in [0 .. n - 1 -> Nat], NEW a \in 0 .. n, NEW i \in a .. n
  PROVE  Below(s, i) = Below(s, a) + SumFunctionOnSet(s, a .. i - 1)
  <1> DEFINE A == 0 .. a - 1
             B == a .. i - 1
  <1>1. 0 .. i - 1 = A \union B /\ A \cap B = {} /\ \A x \in A \union B : s[x] \in Int
    OBVIOUS
  <1>2. IsFiniteSet(A) /\ IsFiniteSet(B)
    <2>1. 0 \in Int /\ a - 1 \in Int /\ a \in Int /\ i - 1 \in Int
      OBVIOUS
    <2> QED BY <2>1, FS_Interval
  <1> HIDE DEF A, B
  <1>3. SumFunctionOnSet(s, A \union B) = SumFunctionOnSet(s, A) + SumFunctionOnSet(s, B)
    BY <1>1, <1>2, SumUnion
  <1> QED BY <1>1, <1>3 DEF Below, A, B

------------------------------------------------------------------------------
(* Sorting by one digit. Place k is before place i if its digit is smaller, *)
(* or it is the earlier of two of the same digit.                           *)
SortsBefore(f, k, i) == f[k] < f[i] \/ (f[k] = f[i] /\ k < i)

Earlier(f, n, i) == {k \in 0 .. n - 1 : SortsBefore(f, k, i)}

Rank(f, n, i) == Cardinality(Earlier(f, n, i))

LEMMA EarlierFinite ==
  ASSUME NEW n \in Nat, NEW f, NEW i
  PROVE  /\ IsFiniteSet(Earlier(f, n, i)) /\ Rank(f, n, i) \in Nat
         /\ IsFiniteSet(0 .. n - 1) /\ Cardinality(0 .. n - 1) = n
  <1>1. 0 \in Int /\ n - 1 \in Int
    OBVIOUS
  <1>2. IsFiniteSet(0 .. n - 1) /\ Cardinality(0 .. n - 1) = n
    BY <1>1, FS_Interval
  <1>3. Earlier(f, n, i) \in SUBSET (0 .. n - 1)
    BY DEF Earlier
  <1>4. IsFiniteSet(Earlier(f, n, i))
    BY <1>2, <1>3, FS_Subset
  <1> QED BY <1>2, <1>4, FS_CardinalityType DEF Rank

LEMMA RankLess ==
  ASSUME NEW n \in Nat, NEW f \in [0 .. n - 1 -> Int], NEW i \in 0 .. n - 1, NEW k \in 0 .. n - 1,
         SortsBefore(f, i, k)
  PROVE  Rank(f, n, i) < Rank(f, n, k)
  <1> DEFINE A == Earlier(f, n, i)
             B == Earlier(f, n, k)
  <1>1. A \subseteq B /\ i \in B /\ i \notin A
    <2>1. \A j \in 0 .. n - 1 : SortsBefore(f, j, i) => SortsBefore(f, j, k)
      BY DEF SortsBefore
    <2>2. ~ SortsBefore(f, i, i)
      BY DEF SortsBefore
    <2> QED BY <2>1, <2>2 DEF Earlier
  <1>2. IsFiniteSet(A) /\ IsFiniteSet(B) /\ Cardinality(A) \in Nat /\ Cardinality(B) \in Nat
    BY EarlierFinite DEF Rank
  <1> HIDE DEF A, B
  <1>3. Cardinality(A) <= Cardinality(B) /\ Cardinality(A) # Cardinality(B)
    BY <1>1, <1>2, FS_Subset
  <1> QED BY <1>2, <1>3 DEF Rank, A, B

(* All places have places of their own to go to.                            *)
LEMMA RankPermutes ==
  ASSUME NEW n \in Nat, NEW f \in [0 .. n - 1 -> Int]
  PROVE  /\ \A i \in 0 .. n - 1 : Rank(f, n, i) \in 0 .. n - 1
         /\ \A i, k \in 0 .. n - 1 : Rank(f, n, i) < Rank(f, n, k) => SortsBefore(f, i, k)
         /\ \A i, k \in 0 .. n - 1 : Rank(f, n, i) = Rank(f, n, k) => i = k
         /\ \A p \in 0 .. n - 1 : \E i \in 0 .. n - 1 : Rank(f, n, i) = p
  <1> DEFINE P == 0 .. n - 1
             R == [i \in P |-> Rank(f, n, i)]
  <1>1. \A i \in P : Rank(f, n, i) \in Nat
    BY EarlierFinite
  <1>2. ASSUME NEW i \in P PROVE Rank(f, n, i) \in P
    <2>1. Earlier(f, n, i) \in SUBSET P /\ i \notin Earlier(f, n, i)
      BY DEF Earlier, SortsBefore
    <2>2. IsFiniteSet(P) /\ Cardinality(P) = n
      BY EarlierFinite
    <2>3. Rank(f, n, i) <= n /\ Rank(f, n, i) # n
      BY <2>1, <2>2, FS_Subset DEF Rank
    <2> QED BY <1>1, <2>3
  <1>3. ASSUME NEW i \in P, NEW k \in P, ~ SortsBefore(f, i, k)
        PROVE  i = k \/ Rank(f, n, k) < Rank(f, n, i)
    <2>1. f[i] \in Int /\ f[k] \in Int
      OBVIOUS
    <2>2. i = k \/ SortsBefore(f, k, i)
      BY <1>3, <2>1 DEF SortsBefore
    <2> QED BY <2>2, RankLess
  <1>4. \A i, k \in P : Rank(f, n, i) < Rank(f, n, k) => SortsBefore(f, i, k)
    BY <1>1, <1>3
  <1>5. \A i, k \in P : Rank(f, n, i) = Rank(f, n, k) => i = k
    <2> SUFFICES ASSUME NEW i \in P, NEW k \in P, Rank(f, n, i) = Rank(f, n, k), i # k PROVE FALSE
      OBVIOUS
    <2>1. SortsBefore(f, i, k) \/ Rank(f, n, k) < Rank(f, n, i)
      BY <1>3
    <2>2. SortsBefore(f, i, k) => Rank(f, n, i) < Rank(f, n, k)
      BY RankLess
    <2> QED BY <1>1, <2>1, <2>2
  <1>6. R \in Injection(P, P)
    <2>1. R \in [P -> P]
      BY <1>2
    <2>2. \A i, k \in P : R[i] = R[k] => i = k
      BY <1>5
    <2> QED BY <2>1, <2>2 DEF Injection, IsInjective
  <1>7. R \in Surjection(P, P)
    <2>1. IsFiniteSet(P)
      BY EarlierFinite
    <2> HIDE DEF R, P
    <2> QED BY <1>6, <2>1, FS_Injection
  <1>8. \A p \in P : \E i \in P : R[i] = p
    BY <1>7 DEF Surjection
  <1> QED BY <1>2, <1>4, <1>5, <1>8

(* Two digits and what is below them.                                       *)
LEMMA DigitStep ==
  ASSUME NEW x \in Nat, NEW y \in Nat, NEW w \in Nat \ {0}, NEW b \in Nat \ {0},
         \/ (x \div w) % b < (y \div w) % b
         \/ (x \div w) % b = (y \div w) % b /\ x % w <= y % w
  PROVE  x % (w * b) <= y % (w * b)
  <1>1. ASSUME NEW z \in Nat PROVE z % (w * b) = (z % w) + w * ((z \div w) % b)
    <2> DEFINE q == z \div w
               r == z % w
               s == q \div b
               d == q % b
    <2>1. q \in Nat /\ r \in 0 .. w - 1 /\ z = w * q + r
      OBVIOUS
    <2> HIDE DEF q, r
    <2>2. s \in Nat /\ d \in 0 .. b - 1 /\ q = b * s + d
      BY <2>1
    <2> HIDE DEF s, d
    <2>3. z = (w * b) * s + (w * d + r)
      BY <2>1, <2>2
    <2>4. w * d + r \in 0 .. w * b - 1
      <3>1. w * d <= w * (b - 1)
        BY <2>2
      <3>2. w * (b - 1) = w * b - w /\ w * d \in Nat /\ w * b \in Nat
        BY <2>2
      <3> QED BY <2>1, <3>1, <3>2
    <2>5. \A v \in Nat \ {0}, e, c \in Nat : e < v => (v * c + e) % v = e
      OBVIOUS
    <2>6. w * b \in Nat \ {0}
      OBVIOUS
    <2> DEFINE v == w * b
               e == w * d + r
    <2>7. z = v * s + e /\ e \in Nat /\ e < v /\ v \in Nat \ {0} /\ s \in Nat
      BY <2>2, <2>3, <2>4, <2>6
    <2> HIDE DEF v, e
    <2>8. z % v = e
      BY <2>5, <2>7
    <2> QED BY <2>8 DEF v, e, q, r, s, d
  <1> DEFINE dx == (x \div w) % b
             dy == (y \div w) % b
             rx == x % w
             ry == y % w
  <1>2. dx \in Nat /\ dy \in Nat /\ rx \in 0 .. w - 1 /\ ry \in 0 .. w - 1
    <2>1. x \div w \in Nat /\ y \div w \in Nat
      OBVIOUS
    <2> QED BY <2>1
  <1>3. x % (w * b) = rx + w * dx /\ y % (w * b) = ry + w * dy
    BY <1>1
  <1>4. dx < dy \/ (dx = dy /\ rx <= ry)
    OBVIOUS
  <1> HIDE DEF dx, dy, rx, ry
  <1>5. CASE dx < dy
    <2>1. w * (dx + 1) <= w * dy
      BY <1>2, <1>5
    <2>2. w * (dx + 1) = w * dx + w /\ w * dx \in Nat /\ w * dy \in Nat
      BY <1>2
    <2> QED BY <1>2, <1>3, <2>1, <2>2
  <1>6. CASE dx = dy /\ rx <= ry
    <2>1. w * dx \in Nat
      BY <1>2
    <2> QED BY <1>2, <1>3, <1>6, <2>1
  <1> QED BY <1>4, <1>5, <1>6

(* The sizes of sets that have nothing in common add up.                    *)
UnionBelow(A, m) == UNION {A[c] : c \in 0 .. m - 1}

Apart(A, m) == \A c, d \in 0 .. m - 1 : c # d => A[c] \cap A[d] = {}

LEMMA CardSum ==
  ASSUME NEW m \in Nat, NEW A, \A c \in 0 .. m - 1 : IsFiniteSet(A[c]), Apart(A, m),
         NEW h, \A c \in 0 .. m - 1 : h[c] = Cardinality(A[c])
  PROVE  SumFunctionOnSet(h, 0 .. m - 1) = Cardinality(UnionBelow(A, m))
  <1> DEFINE Good(j) == /\ IsFiniteSet(UnionBelow(A, j))
                        /\ SumFunctionOnSet(h, 0 .. j - 1) = Cardinality(UnionBelow(A, j))
             Bad == {j \in 0 .. m : ~ Good(j)}
  <1>1. SUFFICES ASSUME Bad # {} PROVE FALSE
    <2>1. m \in 0 .. m
      OBVIOUS
    <2> QED BY <2>1
  <1>2. PICK u \in Bad : \A j \in Bad : u <= j
    <2>1. Bad \in SUBSET Nat
      OBVIOUS
    <2> HIDE DEF Bad
    <2> QED BY <1>1, <2>1, SmallestNat
  <1>3. u # 0
    <2>1. UnionBelow(A, 0) = {} /\ 0 .. 0 - 1 = {}
      BY DEF UnionBelow
    <2>2. Good(0)
      BY <2>1, FS_EmptySet, SumEmpty
    <2> QED BY <1>2, <2>2
  <1> DEFINE t == u - 1
  <1>4. t \in 0 .. m - 1 /\ t \notin Bad /\ t + 1 = u /\ u \in 0 .. m
    BY <1>2, <1>3
  <1>5. Good(t) /\ ~ Good(u)
    BY <1>2, <1>4
  <1> HIDE DEF Bad, t
  <1> DEFINE B == UnionBelow(A, t)
             T == 0 .. t - 1
  <1>6. 0 .. u - 1 = T \union {t} /\ t \notin T /\ \A c \in T : c \in 0 .. m - 1 /\ c # t
    BY <1>4
  <1>7. UnionBelow(A, u) = B \union A[t] /\ B \cap A[t] = {}
    <2>1. UnionBelow(A, u) = B \union A[t]
      BY <1>6 DEF UnionBelow
    <2>2. \A c \in T : A[c] \cap A[t] = {}
      BY <1>4, <1>6 DEF Apart
    <2> QED BY <2>1, <2>2 DEF UnionBelow
  <1>8. IsFiniteSet(B) /\ IsFiniteSet(A[t]) /\ SumFunctionOnSet(h, T) = Cardinality(B)
    BY <1>4, <1>5
  <1>9. IsFiniteSet(UnionBelow(A, u)) /\ Cardinality(UnionBelow(A, u)) = Cardinality(B) + Cardinality(A[t])
    <2> HIDE DEF B
    <2>1. /\ IsFiniteSet(B \union A[t])
          /\ Cardinality(B \union A[t]) = Cardinality(B) + Cardinality(A[t]) - Cardinality(B \cap A[t])
      BY <1>8, FS_Union
    <2>2. Cardinality(B \cap A[t]) = 0 /\ Cardinality(B) \in Nat /\ Cardinality(A[t]) \in Nat
      BY <1>7, <1>8, FS_EmptySet, FS_CardinalityType
    <2> QED BY <1>7, <2>1, <2>2
  <1>10. SumFunctionOnSet(h, 0 .. u - 1) = h[t] + SumFunctionOnSet(h, T)
    <2>1. IsFiniteSet(T)
      <3>1. 0 \in Int /\ t - 1 \in Int
        BY <1>4
      <3> QED BY <3>1, FS_Interval
    <2>2. \A c \in 0 .. m - 1 : h[c] \in Int
      BY FS_CardinalityType
    <2>3. h[t] \in Int /\ \A c \in T : h[c] \in Int
      BY <1>4, <1>6, <2>2
    <2> HIDE DEF T
    <2>4. SumFunctionOnSet(h, T \union {t}) = h[t] + SumFunctionOnSet(h, T)
      BY <1>6, <2>1, <2>3, SumAdd
    <2> QED BY <1>6, <2>4
  <1>11. h[t] = Cardinality(A[t]) /\ Cardinality(A[t]) \in Nat /\ Cardinality(B) \in Nat
    BY <1>4, <1>8, FS_CardinalityType
  <1> HIDE DEF B, T
  <1>12. SumFunctionOnSet(h, 0 .. u - 1) = Cardinality(UnionBelow(A, u))
    BY <1>8, <1>9, <1>10, <1>11
  <1> QED BY <1>5, <1>9, <1>12

(* The places below a with digit b, those with a smaller one, and those     *)
(* with digit b in the share of task t.                                     *)
Holders(f, a, b) == {i \in 0 .. a - 1 : f[i] = b}

Smaller(f, n, b) == {i \in 0 .. n - 1 : f[i] < b}

InShare(f, n, k, t, b) == {i \in Segment(t, n, k) : f[i] = b}

EarlierInShare(f, n, k, t, i) == {j \in InShare(f, n, k, t, f[i]) : j < i}

LEMMA SegmentFinite ==
  ASSUME NEW n \in Nat, NEW k \in Nat \ {0}, NEW t \in 0 .. k - 1, NEW f, NEW b
  PROVE  /\ IsFiniteSet(Segment(t, n, k)) /\ Segment(t, n, k) \subseteq 0 .. n - 1
         /\ IsFiniteSet(InShare(f, n, k, t, b))
  <1>1. t \in 0 .. k /\ t + 1 \in 0 .. k
    OBVIOUS
  <1>2. Cut(t, n, k) \in 0 .. n /\ Cut(t + 1, n, k) \in 0 .. n
    BY <1>1, CutFacts
  <1>3. IsFiniteSet(Segment(t, n, k))
    <2>1. Cut(t, n, k) \in Int /\ Cut(t + 1, n, k) - 1 \in Int
      BY <1>2
    <2> QED BY <2>1, FS_Interval DEF Segment
  <1>4. InShare(f, n, k, t, b) \in SUBSET Segment(t, n, k)
    BY DEF InShare
  <1>5. Segment(t, n, k) \subseteq 0 .. n - 1
    BY <1>2 DEF Segment
  <1> QED BY <1>3, <1>4, <1>5, FS_Subset

(* What the tasks before s have counted.                                    *)
RadixCounts(rc, f, n, k, b) == \A t \in 0 .. k - 1 : rc[t] = Cardinality(InShare(f, n, k, t, b))

LEMMA TaskSum ==
  ASSUME NEW n \in Nat, NEW k \in Nat \ {0}, NEW f, NEW b, NEW s \in 0 .. k,
         NEW rc, RadixCounts(rc, f, n, k, b)
  PROVE  SumFunctionOnSet(rc, 0 .. s - 1) = Cardinality(Holders(f, Cut(s, n, k), b))
  <1> DEFINE A == [t \in 0 .. s - 1 |-> InShare(f, n, k, t, b)]
  <1>1. \A t \in 0 .. s - 1 : t \in 0 .. k - 1
    OBVIOUS
  <1>2. \A t \in 0 .. s - 1 : IsFiniteSet(A[t]) /\ rc[t] = Cardinality(A[t])
    BY <1>1, SegmentFinite DEF RadixCounts
  <1>3. Apart(A, s)
    <2> SUFFICES ASSUME NEW c \in 0 .. s - 1, NEW d \in 0 .. s - 1, NEW i \in A[c] \cap A[d]
                 PROVE  c = d
      BY DEF Apart
    <2>1. i \in Segment(c, n, k) /\ i \in Segment(d, n, k)
      BY DEF InShare
    <2> QED BY <1>1, <2>1, CutApart DEF Segment
  <1>4. UnionBelow(A, s) = Holders(f, Cut(s, n, k), b)
    <2>0. Cut(s, n, k) \in 0 .. n
      BY CutFacts
    <2>1. ASSUME NEW i \in Holders(f, Cut(s, n, k), b) PROVE i \in UnionBelow(A, s)
      <3>1. i \in 0 .. n - 1 /\ i < Cut(s, n, k) /\ f[i] = b
        BY <2>0 DEF Holders
      <3>2. PICK t \in 0 .. k - 1 : i \in Segment(t, n, k)
        BY <3>1, CutTiles DEF Segment
      <3>3. Cut(t, n, k) <= i
        BY <3>1, <3>2, CutFacts DEF Segment
      <3>4. t < s
        <4>1. s <= t => Cut(s, n, k) <= Cut(t, n, k)
          BY CutFacts
        <4>0. s \in Nat /\ t \in Nat
          OBVIOUS
        <4>2. Cut(s, n, k) \in Nat /\ Cut(t, n, k) \in Nat
          BY <4>0, CutFacts
        <4> QED BY <3>1, <3>3, <4>1, <4>2
      <3>5. t \in 0 .. s - 1 /\ i \in A[t]
        BY <3>1, <3>2, <3>4 DEF InShare
      <3> QED BY <3>5 DEF UnionBelow
    <2>2. ASSUME NEW i \in UnionBelow(A, s) PROVE i \in Holders(f, Cut(s, n, k), b)
      <3>1. PICK t \in 0 .. s - 1 : i \in A[t]
        BY DEF UnionBelow
      <3>2. i \in Segment(t, n, k) /\ f[i] = b
        BY <3>1 DEF InShare
      <3>0. t \in Nat /\ t + 1 \in Nat /\ s \in Nat /\ t + 1 <= s
        BY <3>1
      <3>3. Cut(t + 1, n, k) <= Cut(s, n, k) /\ Cut(t, n, k) \in Nat /\ Cut(t + 1, n, k) \in Nat
        BY <3>0, CutFacts
      <3> QED BY <2>0, <3>2, <3>3 DEF Segment, Holders
    <2> QED BY <2>1, <2>2
  <1>5. s \in Nat
    OBVIOUS
  <1> HIDE DEF A
  <1> QED BY <1>2, <1>3, <1>4, <1>5, CardSum

(* How many items have a digit below b.                                     *)
LEMMA DigitSum ==
  ASSUME NEW n \in Nat, NEW f \in [0 .. n - 1 -> Nat], NEW b \in Nat,
         NEW h, \A c \in 0 .. b - 1 : h[c] = Cardinality(Holders(f, n, c))
  PROVE  SumFunctionOnSet(h, 0 .. b - 1) = Cardinality(Smaller(f, n, b))
  <1> DEFINE A == [c \in 0 .. b - 1 |-> Holders(f, n, c)]
  <1>1. \A c \in 0 .. b - 1 : IsFiniteSet(A[c]) /\ h[c] = Cardinality(A[c])
    <2> SUFFICES ASSUME NEW c \in 0 .. b - 1 PROVE IsFiniteSet(A[c]) /\ h[c] = Cardinality(A[c])
      OBVIOUS
    <2>1. Holders(f, n, c) \in SUBSET (0 .. n - 1)
      BY DEF Holders
    <2>2. IsFiniteSet(0 .. n - 1)
      BY EarlierFinite
    <2> QED BY <2>1, <2>2, FS_Subset
  <1>2. Apart(A, b)
    BY DEF Apart, Holders
  <1>3. UnionBelow(A, b) = Smaller(f, n, b)
    <2>1. ASSUME NEW i \in Smaller(f, n, b) PROVE i \in UnionBelow(A, b)
      <3>1. i \in 0 .. n - 1 /\ f[i] \in 0 .. b - 1
        BY DEF Smaller
      <3>2. i \in A[f[i]]
        BY <3>1 DEF Holders
      <3> QED BY <3>1, <3>2 DEF UnionBelow
    <2>2. ASSUME NEW i \in UnionBelow(A, b) PROVE i \in Smaller(f, n, b)
      <3>1. PICK c \in 0 .. b - 1 : i \in A[c]
        BY DEF UnionBelow
      <3> QED BY <3>1 DEF Smaller, Holders
    <2> QED BY <2>1, <2>2
  <1> HIDE DEF A
  <1> QED BY <1>1, <1>2, <1>3, CardSum

(* The place to which a task copies an item is its rank.                    *)
LEMMA TargetIsRank ==
  ASSUME NEW n \in Nat, NEW k \in Nat \ {0}, NEW f \in [0 .. n - 1 -> Nat], NEW t \in 0 .. k - 1,
         NEW i \in Segment(t, n, k)
  PROVE  Cardinality(Smaller(f, n, f[i])) + Cardinality(Holders(f, Cut(t, n, k), f[i]))
           + Cardinality(EarlierInShare(f, n, k, t, i)) = Rank(f, n, i)
  <1> DEFINE A == Smaller(f, n, f[i])
             B == Holders(f, Cut(t, n, k), f[i])
             C == EarlierInShare(f, n, k, t, i)
  <1>1. /\ Cut(t, n, k) \in 0 .. n /\ Cut(t + 1, n, k) \in 0 .. n /\ i \in 0 .. n - 1
        /\ Cut(t, n, k) <= i /\ i < Cut(t + 1, n, k)
    <2>1. t \in 0 .. k /\ t + 1 \in 0 .. k
      OBVIOUS
    <2>2. Cut(t, n, k) \in 0 .. n /\ Cut(t + 1, n, k) \in 0 .. n
      BY <2>1, CutFacts
    <2> QED BY <2>2 DEF Segment
  <1>2. /\ \A j : j \in A <=> j \in 0 .. n - 1 /\ f[j] < f[i]
        /\ \A j : j \in B <=> j \in 0 .. n - 1 /\ f[j] = f[i] /\ j < Cut(t, n, k)
        /\ \A j : j \in C <=> j \in 0 .. n - 1 /\ f[j] = f[i] /\ Cut(t, n, k) <= j /\ j < i
        /\ \A j : j \in Earlier(f, n, i) <=>
                    j \in 0 .. n - 1 /\ (f[j] < f[i] \/ (f[j] = f[i] /\ j < i))
    <2> DEFINE a == Cut(t, n, k)
               z == Cut(t + 1, n, k)
    <2>1. a \in 0 .. n /\ z \in 0 .. n /\ i \in 0 .. n - 1 /\ a <= i /\ i < z
      BY <1>1
    <2>2. B = {j \in 0 .. a - 1 : f[j] = f[i]} /\ C = {j \in {o \in a .. z - 1 : f[o] = f[i]} : j < i}
      BY DEF Holders, EarlierInShare, InShare, Segment
    <2>3. \A j : j \in A <=> j \in 0 .. n - 1 /\ f[j] < f[i]
      BY DEF Smaller
    <2>4. \A j : j \in Earlier(f, n, i) <=>
                  j \in 0 .. n - 1 /\ (f[j] < f[i] \/ (f[j] = f[i] /\ j < i))
      BY DEF Earlier, SortsBefore
    <2> HIDE DEF A, B, C, a, z
    <2>5. \A j : j \in B <=> j \in 0 .. n - 1 /\ f[j] = f[i] /\ j < a
      BY <2>1, <2>2
    <2>6. \A j : j \in C <=> j \in 0 .. n - 1 /\ f[j] = f[i] /\ a <= j /\ j < i
      BY <2>1, <2>2
    <2> QED BY <2>3, <2>4, <2>5, <2>6 DEF a
  <1> HIDE DEF A, B, C
  <1>3. /\ (A \union B) \union C = Earlier(f, n, i)
        /\ A \cap B = {} /\ (A \union B) \cap C = {}
    <2> DEFINE E == Earlier(f, n, i)
               a == Cut(t, n, k)
    <2>1. a \in Int /\ i \in Int /\ a <= i /\ \A j \in 0 .. n - 1 : f[j] \in Nat /\ j \in Int
      BY <1>1
    <2>2. /\ \A j : j \in A <=> j \in 0 .. n - 1 /\ f[j] < f[i]
          /\ \A j : j \in B <=> j \in 0 .. n - 1 /\ f[j] = f[i] /\ j < a
          /\ \A j : j \in C <=> j \in 0 .. n - 1 /\ f[j] = f[i] /\ a <= j /\ j < i
          /\ \A j : j \in E <=> j \in 0 .. n - 1 /\ (f[j] < f[i] \/ (f[j] = f[i] /\ j < i))
      BY <1>2
    <2>3. f[i] \in Nat
      BY <1>1
    <2> HIDE DEF E, a
    <2>4. (A \union B) \union C = E
      BY <2>1, <2>2
    <2>5. A \cap B = {} /\ (A \union B) \cap C = {}
      BY <2>1, <2>2, <2>3
    <2> QED BY <2>4, <2>5 DEF E
  <1>4. IsFiniteSet(A) /\ IsFiniteSet(B) /\ IsFiniteSet(C)
    <2>1. A \in SUBSET (0 .. n - 1) /\ B \in SUBSET (0 .. n - 1) /\ C \in SUBSET (0 .. n - 1)
      BY <1>2
    <2>2. IsFiniteSet(0 .. n - 1)
      BY EarlierFinite
    <2> QED BY <2>1, <2>2, FS_Subset
  <1>5. /\ IsFiniteSet(A \union B)
        /\ Cardinality(A \union B) = Cardinality(A) + Cardinality(B) - Cardinality(A \cap B)
    BY <1>4, FS_Union
  <1>6. Cardinality((A \union B) \union C) =
          Cardinality(A \union B) + Cardinality(C) - Cardinality((A \union B) \cap C)
    BY <1>4, <1>5, FS_Union
  <1>7. Cardinality(A \cap B) = 0 /\ Cardinality((A \union B) \cap C) = 0
    BY <1>3, FS_EmptySet
  <1>8. Cardinality(A) \in Nat /\ Cardinality(B) \in Nat /\ Cardinality(C) \in Nat
    BY <1>4, FS_CardinalityType
  <1>9. Cardinality(A) + Cardinality(B) + Cardinality(C) = Rank(f, n, i)
    <2>1. Cardinality(A \union B) = Cardinality(A) + Cardinality(B)
      BY <1>5, <1>7, <1>8
    <2>2. Cardinality((A \union B) \union C) = Cardinality(A) + Cardinality(B) + Cardinality(C)
      BY <1>6, <1>7, <1>8, <2>1
    <2>3. Cardinality((A \union B) \union C) = Rank(f, n, i)
      BY <1>3 DEF Rank
    <2> QED BY <2>2, <2>3
  <1> QED BY <1>9 DEF A, B, C

(* An iteration: a is in the order of the digits looked at so far, which    *)
(* weigh w together, and new is a with its items at their ranks.            *)
Perm(a, n) == a \in Bijection(0 .. n - 1, 0 .. n - 1)

IsArray(a, n) == a = [i \in 0 .. n - 1 |-> a[i]]

OrderedMod(a, n, ks, w) == \A i, j \in 0 .. n - 1 : i < j => ks[a[i]] % w <= ks[a[j]] % w

Moved(f, n, S, a, new) == \A i \in S : new[Rank(f, n, i)] = a[i]

LEMMA IterationSorts ==
  ASSUME NEW n \in Nat, NEW ks \in [0 .. n - 1 -> Nat], NEW w \in Nat \ {0}, NEW b \in Nat \ {0},
         NEW a, Perm(a, n), OrderedMod(a, n, ks, w),
         NEW f \in [0 .. n - 1 -> Nat], \A i \in 0 .. n - 1 : f[i] = (ks[a[i]] \div w) % b,
         NEW new, IsArray(new, n), Moved(f, n, 0 .. n - 1, a, new)
  PROVE  Perm(new, n) /\ OrderedMod(new, n, ks, w * b)
  <1> DEFINE P == 0 .. n - 1
  <1>1. /\ a \in [P -> P] /\ \A i, k \in P : a[i] = a[k] => i = k
        /\ \A q \in P : \E i \in P : a[i] = q
    BY DEF Perm, Bijection, Injection, Surjection, IsInjective
  <1>2. /\ \A i \in P : Rank(f, n, i) \in P
        /\ \A i, k \in P : Rank(f, n, i) < Rank(f, n, k) => SortsBefore(f, i, k)
        /\ \A p \in P : \E i \in P : Rank(f, n, i) = p
    <2>1. f \in [P -> Int]
      OBVIOUS
    <2> QED BY <2>1, RankPermutes
  <1>3. \A i \in P : new[Rank(f, n, i)] = a[i]
    BY DEF Moved
  <1>4. Perm(new, n)
    <2>1. new \in [P -> P]
      <3>1. ASSUME NEW p \in P PROVE new[p] \in P
        <4>1. PICK i \in P : Rank(f, n, i) = p
          BY <1>2
        <4>2. new[p] = a[i]
          BY <1>3, <4>1
        <4>3. a \in [P -> P]
          BY <1>1
        <4>4. a[i] \in P
          BY <4>3
        <4> QED BY <4>2, <4>4
      <3> HIDE DEF P
      <3> QED BY <3>1 DEF IsArray, P
    <2>2. ASSUME NEW p \in P, NEW q \in P, new[p] = new[q] PROVE p = q
      <3>1. PICK i \in P : Rank(f, n, i) = p
        BY <1>2
      <3>2. PICK k \in P : Rank(f, n, k) = q
        BY <1>2
      <3>3. a[i] = a[k]
        BY <1>3, <2>2, <3>1, <3>2
      <3> QED BY <1>1, <3>1, <3>2, <3>3
    <2>3. ASSUME NEW q \in P PROVE \E p \in P : new[p] = q
      <3>1. PICK i \in P : a[i] = q
        BY <1>1
      <3> QED BY <1>2, <1>3, <3>1
    <2> HIDE DEF P
    <2>4. new \in Bijection(P, P)
      BY <2>1, <2>2, <2>3 DEF Bijection, Injection, Surjection, IsInjective
    <2> QED BY <2>4 DEF Perm, P
  <1>5. ASSUME NEW p \in P, NEW q \in P, p < q
        PROVE  ks[new[p]] % (w * b) <= ks[new[q]] % (w * b)
    <2>1. PICK i \in P : Rank(f, n, i) = p
      BY <1>2
    <2>2. PICK k \in P : Rank(f, n, k) = q
      BY <1>2
    <2>3. SortsBefore(f, i, k) /\ new[p] = a[i] /\ new[q] = a[k]
      BY <1>2, <1>3, <1>5, <2>1, <2>2
    <2> DEFINE x == ks[a[i]]
               y == ks[a[k]]
    <2>4. x \in Nat /\ y \in Nat
      BY <1>1
    <2>5. f[i] = (x \div w) % b /\ f[k] = (y \div w) % b
      OBVIOUS
    <2>6. i < k => x % w <= y % w
      BY DEF OrderedMod
    <2> HIDE DEF x, y
    <2>7. \/ (x \div w) % b < (y \div w) % b
          \/ (x \div w) % b = (y \div w) % b /\ x % w <= y % w
      BY <2>3, <2>5, <2>6 DEF SortsBefore
    <2>8. x % (w * b) <= y % (w * b)
      BY <2>4, <2>7, DigitStep
    <2> QED BY <2>3, <2>8 DEF x, y
  <1> QED BY <1>4, <1>5 DEF OrderedMod

------------------------------------------------------------------------------
(* The build's primitives. Laid end to end, those of geometry g begin at    *)
(* position Below(gs, g), and the item at position x is the primitive there.*)
GeometriesOK(gs, c) == c \in Nat /\ gs \in [0 .. c - 1 -> Nat]

LEMMA BelowFacts ==
  ASSUME NEW gs, NEW c, GeometriesOK(gs, c)
  PROVE  /\ Below(gs, 0) = 0
         /\ \A g \in 0 .. c : Below(gs, g) \in Nat
         /\ \A g \in 0 .. c - 1 : Below(gs, g + 1) = Below(gs, g) + gs[g]
         /\ \A g, h \in 0 .. c : g <= h => Below(gs, g) <= Below(gs, h)
  <1>1. c \in Nat /\ gs \in [0 .. c - 1 -> Nat]
    BY DEF GeometriesOK
  <1>2. \A a, b \in Int : IsFiniteSet(a .. b)
    BY FS_Interval
  <1>3. Below(gs, 0) = 0
    <2>1. 0 .. 0 - 1 = {}
      OBVIOUS
    <2> QED BY <2>1, SumEmpty DEF Below
  <1>4. ASSUME NEW g \in 0 .. c PROVE Below(gs, g) \in Nat
    <2> DEFINE A == 0 .. g - 1
    <2>1. IsFiniteSet(A) /\ \A x \in A : gs[x] \in Nat
      BY <1>1, <1>2
    <2> HIDE DEF A
    <2>2. SumFunctionOnSet(gs, A) \in Nat
      BY <2>1, SumNat
    <2> QED BY <2>2 DEF A, Below
  <1>5. ASSUME NEW g \in 0 .. c, NEW h \in 0 .. c, g <= h
        PROVE  /\ SumFunctionOnSet(gs, g .. h - 1) \in Nat
               /\ Below(gs, h) = Below(gs, g) + SumFunctionOnSet(gs, g .. h - 1)
    <2>1. h \in g .. c
      BY <1>1, <1>5
    <2>2. Below(gs, h) = Below(gs, g) + SumFunctionOnSet(gs, g .. h - 1)
      <3>1. c \in Nat /\ gs \in [0 .. c - 1 -> Nat] /\ g \in 0 .. c
        BY <1>1
      <3> QED BY <2>1, <3>1, BelowSplit
    <2> DEFINE A == g .. h - 1
    <2>3. IsFiniteSet(A) /\ \A x \in A : gs[x] \in Nat
      BY <1>1, <1>2
    <2> HIDE DEF A
    <2>4. SumFunctionOnSet(gs, A) \in Nat
      BY <2>3, SumNat
    <2> QED BY <2>2, <2>4 DEF A
  <1>6. ASSUME NEW g \in 0 .. c - 1 PROVE Below(gs, g + 1) = Below(gs, g) + gs[g]
    <2>1. g \in 0 .. c /\ g + 1 \in 0 .. c /\ g <= g + 1
      BY <1>1
    <2>2. Below(gs, g + 1) = Below(gs, g) + SumFunctionOnSet(gs, g .. (g + 1) - 1)
      BY <1>5, <2>1
    <2>3. g .. (g + 1) - 1 = {} \union {g} /\ g \notin {}
      OBVIOUS
    <2>4. gs[g] \in Int /\ \A y \in {} : gs[y] \in Int
      BY <1>1
    <2>5. SumFunctionOnSet(gs, {} \union {g}) = gs[g] + SumFunctionOnSet(gs, {})
      BY <2>4, SumAdd, FS_EmptySet
    <2>6. SumFunctionOnSet(gs, {}) = 0
      BY SumEmpty
    <2> QED BY <2>2, <2>3, <2>4, <2>5, <2>6
  <1>7. ASSUME NEW g \in 0 .. c, NEW h \in 0 .. c, g <= h PROVE Below(gs, g) <= Below(gs, h)
    BY <1>4, <1>5, <1>7
  <1> QED BY <1>3, <1>4, <1>6, <1>7

(* Positions are in the order of geometries, and of the primitives in each. *)
LEMMA PositionsApart ==
  ASSUME NEW gs, NEW c, GeometriesOK(gs, c),
         NEW g \in 0 .. c - 1, NEW h \in 0 .. c - 1, NEW p \in 0 .. gs[g] - 1, NEW q \in 0 .. gs[h] - 1
  PROVE  /\ Below(gs, g) + p \in 0 .. Below(gs, c) - 1
         /\ Below(gs, g) + p < Below(gs, h) + q <=> (g < h \/ (g = h /\ p < q))
  <1>1. c \in Nat /\ gs[g] \in Nat /\ gs[h] \in Nat /\ p \in Nat /\ q \in Nat
    BY DEF GeometriesOK
  <1>2. /\ Below(gs, g) \in Nat /\ Below(gs, h) \in Nat /\ Below(gs, c) \in Nat
        /\ Below(gs, g + 1) = Below(gs, g) + gs[g] /\ Below(gs, h + 1) = Below(gs, h) + gs[h]
    <2>1. g \in 0 .. c /\ h \in 0 .. c /\ c \in 0 .. c
      BY <1>1
    <2> QED BY <2>1, BelowFacts
  <1>3. /\ Below(gs, g + 1) <= Below(gs, c)
        /\ g < h => Below(gs, g + 1) <= Below(gs, h)
        /\ h < g => Below(gs, h + 1) <= Below(gs, g)
    <2>1. /\ g \in 0 .. c /\ h \in 0 .. c /\ c \in 0 .. c /\ g + 1 \in 0 .. c /\ h + 1 \in 0 .. c
          /\ g + 1 <= c /\ (g < h => g + 1 <= h) /\ (h < g => h + 1 <= g)
      BY <1>1
    <2> QED BY <2>1, BelowFacts
  <1>4. g < h \/ g = h \/ h < g
    OBVIOUS
  <1> QED BY <1>1, <1>2, <1>3, <1>4

IsItem(gs, c, q) == q \in (0 .. c - 1) \X Nat /\ q[2] < gs[q[1]]

Item(gs, c, x) == CHOOSE q \in (0 .. c - 1) \X Nat : IsItem(gs, c, q) /\ Below(gs, q[1]) + q[2] = x

LEMMA ItemThere ==
  ASSUME NEW gs, NEW c, GeometriesOK(gs, c), NEW x \in 0 .. Below(gs, c) - 1
  PROVE  IsItem(gs, c, Item(gs, c, x)) /\ Below(gs, Item(gs, c, x)[1]) + Item(gs, c, x)[2] = x
  <1> DEFINE C == {g \in 0 .. c : x < Below(gs, g)}
  <1>1. c \in Nat /\ \A g \in 0 .. c : Below(gs, g) \in Nat
    BY BelowFacts DEF GeometriesOK
  <1>2. c \in C /\ C \in SUBSET Nat /\ 0 \notin C
    BY <1>1, BelowFacts
  <1>3. PICK u \in C : \A m \in C : u <= m
    <2> HIDE DEF C
    <2> QED BY <1>2, SmallestNat
  <1> DEFINE g == u - 1
  <1>4. g \in 0 .. c - 1 /\ g \in 0 .. c /\ g + 1 = u /\ g \notin C
    BY <1>2, <1>3
  <1>5. Below(gs, g) <= x /\ x < Below(gs, u)
    BY <1>1, <1>3, <1>4
  <1> HIDE DEF C, g
  <1>6. Below(gs, u) = Below(gs, g) + gs[g] /\ gs[g] \in Nat /\ Below(gs, g) \in Nat
    BY <1>1, <1>4, BelowFacts DEF GeometriesOK
  <1> DEFINE p == x - Below(gs, g)
             q == <<g, p>>
  <1>7. p \in Nat /\ p < gs[g] /\ Below(gs, g) + p = x
    BY <1>5, <1>6
  <1> HIDE DEF p
  <1>8. q \in (0 .. c - 1) \X Nat /\ q[1] = g /\ q[2] = p
    BY <1>4, <1>7
  <1> HIDE DEF q
  <1>9. IsItem(gs, c, q) /\ Below(gs, q[1]) + q[2] = x
    BY <1>7, <1>8 DEF IsItem
  <1> QED BY <1>8, <1>9 DEF Item

LEMMA ItemAt ==
  ASSUME NEW gs, NEW c, GeometriesOK(gs, c), NEW g \in 0 .. c - 1, NEW p \in 0 .. gs[g] - 1
  PROVE  /\ Item(gs, c, Below(gs, g) + p) = <<g, p>>
         /\ Below(gs, g) + p \in 0 .. Below(gs, c) - 1
  <1> DEFINE x == Below(gs, g) + p
             q == Item(gs, c, x)
  <1>1. x \in 0 .. Below(gs, c) - 1
    BY PositionsApart
  <1> HIDE DEF x
  <1>2. IsItem(gs, c, q) /\ Below(gs, q[1]) + q[2] = x
    BY <1>1, ItemThere
  <1> HIDE DEF q
  <1>3. q = <<q[1], q[2]>> /\ q[1] \in 0 .. c - 1 /\ q[2] \in Nat /\ q[2] < gs[q[1]]
    BY <1>2 DEF IsItem
  <1> DEFINE h == q[1]
             o == q[2]
  <1>4. h \in 0 .. c - 1 /\ gs[h] \in Nat /\ o \in 0 .. gs[h] - 1 /\ Below(gs, h) + o = x
    BY <1>2, <1>3 DEF GeometriesOK
  <1> HIDE DEF h, o
  <1>5. Below(gs, g) + p < Below(gs, h) + o <=> (g < h \/ (g = h /\ p < o))
    BY <1>4, PositionsApart
  <1>6. Below(gs, h) + o < Below(gs, g) + p <=> (h < g \/ (h = g /\ o < p))
    BY <1>4, PositionsApart
  <1>7. gs[g] \in Nat /\ p \in Nat /\ o \in Nat /\ x \in Nat /\ x = Below(gs, g) + p
    BY <1>1, <1>4 DEF GeometriesOK, x
  <1>8. g = h /\ p = o
    BY <1>4, <1>5, <1>6, <1>7
  <1>9. q = <<g, p>>
    BY <1>3, <1>8 DEF h, o
  <1> QED BY <1>1, <1>9 DEF q, x

(* How many places from a up to b are marked by f.                          *)
Marked(f, a, b) == {x \in a .. b - 1 : f[x] = 1}

Number(f, a, b) == Cardinality(Marked(f, a, b))

LEMMA MarkedFinite ==
  ASSUME NEW f, NEW a \in Nat, NEW b \in Nat
  PROVE  IsFiniteSet(Marked(f, a, b)) /\ Number(f, a, b) \in Nat
  <1>1. a \in Int /\ b - 1 \in Int
    OBVIOUS
  <1>2. IsFiniteSet(a .. b - 1)
    BY <1>1, FS_Interval
  <1>3. Marked(f, a, b) \in SUBSET (a .. b - 1)
    BY DEF Marked
  <1>4. IsFiniteSet(Marked(f, a, b))
    BY <1>2, <1>3, FS_Subset
  <1> QED BY <1>4, FS_CardinalityType DEF Number

LEMMA NumberSplit ==
  ASSUME NEW f, NEW a \in Nat, NEW b \in Nat, NEW c \in Nat, a <= b, b <= c
  PROVE  Number(f, a, c) = Number(f, a, b) + Number(f, b, c)
  <1> DEFINE A == Marked(f, a, b)
             B == Marked(f, b, c)
  <1>1. IsFiniteSet(A) /\ IsFiniteSet(B) /\ Cardinality(A) \in Nat /\ Cardinality(B) \in Nat
    BY MarkedFinite DEF Number
  <1>2. A \union B = Marked(f, a, c) /\ A \cap B = {}
    BY DEF Marked
  <1> HIDE DEF A, B
  <1>3. Cardinality(A \union B) = Cardinality(A) + Cardinality(B) - Cardinality(A \cap B)
    BY <1>1, FS_Union
  <1>4. Cardinality(A \cap B) = 0
    BY <1>2, FS_EmptySet
  <1>5. Cardinality(A \union B) = Cardinality(A) + Cardinality(B)
    BY <1>1, <1>3, <1>4
  <1> QED BY <1>2, <1>5 DEF Number, A, B

LEMMA NumberFacts ==
  ASSUME NEW f
  PROVE  /\ \A a, b \in Nat : Number(f, a, b) \in Nat
         /\ \A a, b, c \in Nat : a <= b /\ b <= c =>
              Number(f, a, c) = Number(f, a, b) + Number(f, b, c)
         /\ \A a \in Nat : Number(f, a, a) = 0
         /\ \A a \in Nat : Number(f, a, a + 1) = IF f[a] = 1 THEN 1 ELSE 0
         /\ \A a, b, c \in Nat : a <= b /\ b <= c => Number(f, a, b) <= Number(f, a, c)
  <1>1. \A a, b \in Nat : Number(f, a, b) \in Nat
    BY MarkedFinite
  <1>2. ASSUME NEW a \in Nat, NEW b \in Nat, NEW c \in Nat, a <= b, b <= c
        PROVE  Number(f, a, c) = Number(f, a, b) + Number(f, b, c)
    BY <1>2, NumberSplit
  <1>3. ASSUME NEW a \in Nat PROVE Number(f, a, a) = 0
    <2>1. Marked(f, a, a) = {}
      BY DEF Marked
    <2> QED BY <2>1, FS_EmptySet DEF Number
  <1>4. ASSUME NEW a \in Nat PROVE Number(f, a, a + 1) = IF f[a] = 1 THEN 1 ELSE 0
    <2>1. a .. (a + 1) - 1 = {a}
      OBVIOUS
    <2>2. Marked(f, a, a + 1) = IF f[a] = 1 THEN {a} ELSE {}
      BY <2>1 DEF Marked
    <2>3. Cardinality({a}) = 1 /\ Cardinality({}) = 0
      BY FS_Singleton, FS_EmptySet
    <2> QED BY <2>2, <2>3 DEF Number
  <1>5. ASSUME NEW a \in Nat, NEW b \in Nat, NEW c \in Nat, a <= b, b <= c
        PROVE  Number(f, a, b) <= Number(f, a, c)
    <2>1. Number(f, a, c) = Number(f, a, b) + Number(f, b, c)
      BY <1>2, <1>5
    <2>2. Number(f, a, b) \in Nat /\ Number(f, b, c) \in Nat
      BY <1>1
    <2> QED BY <2>1, <2>2
  <1> QED BY <1>1, <1>2, <1>3, <1>4, <1>5

(* f marks nothing that g does not mark.                                    *)
MarksWithin(f, g, a, b) == \A x \in a .. b - 1 : f[x] = 1 => g[x] = 1

LEMMA NumberWithin ==
  ASSUME NEW f, NEW g, NEW a \in Nat, NEW b \in Nat, MarksWithin(f, g, a, b)
  PROVE  /\ Number(f, a, b) <= Number(g, a, b)
         /\ Number(f, a, b) = Number(g, a, b) => MarksWithin(g, f, a, b)
         /\ MarksWithin(g, f, a, b) => Number(f, a, b) = Number(g, a, b)
  <1> DEFINE A == Marked(f, a, b)
             B == Marked(g, a, b)
  <1>1. A \in SUBSET B
    BY DEF MarksWithin, Marked
  <1>2. IsFiniteSet(B)
    BY MarkedFinite
  <1>3. A = B <=> MarksWithin(g, f, a, b)
    BY DEF MarksWithin, Marked
  <1> HIDE DEF A, B
  <1>4. Cardinality(A) <= Cardinality(B) /\ (Cardinality(B) = Cardinality(A) => B = A)
    BY <1>1, <1>2, FS_Subset
  <1>5. Number(f, a, b) = Cardinality(A) /\ Number(g, a, b) = Cardinality(B)
    BY DEF Number, A, B
  <1> QED BY <1>3, <1>4, <1>5

(* The marks of tasks' shares add up.                                       *)
LEMMA NumberOfTasks ==
  ASSUME NEW n \in Nat, NEW k \in Nat \ {0}, NEW f, NEW s \in 0 .. k, NEW rc,
         \A t \in 0 .. k - 1 : rc[t] = Number(f, Cut(t, n, k), Cut(t + 1, n, k))
  PROVE  SumFunctionOnSet(rc, 0 .. s - 1) = Number(f, 0, Cut(s, n, k))
  <1>1. RadixCounts(rc, f, n, k, 1)
    BY DEF RadixCounts, InShare, Segment, Number, Marked
  <1>2. SumFunctionOnSet(rc, 0 .. s - 1) = Cardinality(Holders(f, Cut(s, n, k), 1))
    BY <1>1, TaskSum
  <1> QED BY <1>2 DEF Holders, Number, Marked

(* A set of numbers moved to other numbers is as large.                     *)
ShiftedTo(f, a, b, d, Q) ==
  /\ Q \in SUBSET (d .. d + b - a - 1)
  /\ \A x \in a .. b - 1 : f[x] = 1 <=> x - a + d \in Q

LEMMA NumberShifted ==
  ASSUME NEW f, NEW a \in Nat, NEW b \in Nat, NEW d \in Nat, a <= b, NEW Q, ShiftedTo(f, a, b, d, Q)
  PROVE  IsFiniteSet(Q) /\ Number(f, a, b) = Cardinality(Q)
  <1> DEFINE M == Marked(f, a, b)
             h == [x \in M |-> x - a + d]
  <1>0. /\ Q \in SUBSET (d .. d + b - a - 1)
        /\ \A x \in a .. b - 1 : f[x] = 1 <=> x - a + d \in Q
    BY DEF ShiftedTo
  <1>1. h \in [M -> Q]
    BY <1>0 DEF Marked
  <1>2. \A x, y \in M : h[x] = h[y] => x = y
    BY DEF Marked
  <1>3. ASSUME NEW q \in Q PROVE \E x \in M : h[x] = q
    <2> DEFINE x == q - d + a
    <2>1. q \in d .. d + b - a - 1
      BY <1>0
    <2>2. x \in a .. b - 1 /\ x - a + d = q
      BY <2>1
    <2> HIDE DEF x
    <2>3. x \in M
      BY <1>0, <2>2 DEF Marked
    <2> QED BY <2>2, <2>3
  <1> HIDE DEF h
  <1>4. h \in Bijection(M, Q)
    BY <1>1, <1>2, <1>3 DEF Bijection, Injection, Surjection, IsInjective
  <1>5. IsFiniteSet(M)
    BY MarkedFinite
  <1>6. ExistsBijection(M, Q)
    BY <1>4 DEF ExistsBijection
  <1> HIDE DEF M
  <1>7. IsFiniteSet(Q) /\ Cardinality(Q) = Cardinality(M)
    BY <1>5, <1>6, FS_Bijection
  <1> QED BY <1>7 DEF M, Number

(* Each number below that of all marked places is that before a marked one. *)
LEMMA NumberReached ==
  ASSUME NEW f, NEW n \in Nat, NEW s \in 0 .. Number(f, 0, n) - 1
  PROVE  \E x \in 0 .. n - 1 : f[x] = 1 /\ Number(f, 0, x) = s
  <1> DEFINE C == {y \in 0 .. n : s < Number(f, 0, y)}
  <1>0. \A y \in Nat : Number(f, 0, y) \in Nat
    BY NumberFacts
  <1>1. n \in C /\ C \in SUBSET Nat
    <2>1. Number(f, 0, n) \in Nat
      BY <1>0
    <2> QED BY <2>1
  <1>2. PICK u \in C : \A m \in C : u <= m
    <2> HIDE DEF C
    <2> QED BY <1>1, SmallestNat
  <1>3. u # 0
    <2>1. Number(f, 0, 0) = 0
      BY NumberFacts
    <2> QED BY <1>2, <2>1
  <1> DEFINE x == u - 1
  <1>4. x \in 0 .. n - 1 /\ x + 1 = u /\ x \notin C /\ x \in Nat /\ u \in Nat
    BY <1>2, <1>3
  <1>5. Number(f, 0, x) \in Nat /\ Number(f, x, x + 1) = IF f[x] = 1 THEN 1 ELSE 0
    BY <1>4, NumberFacts
  <1>6. Number(f, 0, u) = Number(f, 0, x) + Number(f, x, x + 1)
    <2>1. \A y \in Nat : Number(f, 0, y + 1) = Number(f, 0, y) + Number(f, y, y + 1)
      <3> TAKE y \in Nat
      <3>1. y + 1 \in Nat /\ 0 \in Nat /\ 0 <= y /\ y <= y + 1
        OBVIOUS
      <3> QED BY <3>1, NumberSplit
    <2> HIDE DEF x
    <2> QED BY <1>4, <2>1
  <1>7. Number(f, 0, x) <= s /\ s < Number(f, 0, u)
    <2>1. x \in 0 .. n /\ s \in Nat
      BY <1>4, NumberFacts
    <2> QED BY <1>2, <1>4, <1>5, <2>1
  <1> HIDE DEF C, x
  <1>8. f[x] = 1 /\ Number(f, 0, x) = s
    BY <1>5, <1>6, <1>7
  <1> QED BY <1>4, <1>8

LEMMA NumberGrows ==
  ASSUME NEW f, NEW a \in Nat, NEW x \in Nat, NEW y \in Nat, a <= x, x <= y
  PROVE  /\ Number(f, a, x) \in Nat /\ Number(f, a, y) \in Nat /\ Number(f, x, y) \in Nat
         /\ Number(f, a, x) <= Number(f, a, y)
         /\ (x < y /\ f[x] = 1) => Number(f, a, x) < Number(f, a, y)
  <1>1. Number(f, a, x) \in Nat /\ Number(f, a, y) \in Nat /\ Number(f, x, y) \in Nat
    BY MarkedFinite
  <1>2. Number(f, a, y) = Number(f, a, x) + Number(f, x, y)
    BY NumberSplit
  <1>3. ASSUME x < y, f[x] = 1 PROVE Number(f, x, y) # 0
    <2>1. x \in Marked(f, x, y)
      BY <1>3 DEF Marked
    <2>2. IsFiniteSet(Marked(f, x, y))
      BY MarkedFinite
    <2> QED BY <2>1, <2>2, FS_EmptySet DEF Number
  <1> QED BY <1>1, <1>2, <1>3

Agree(f, g, a, b) == \A x \in a .. b - 1 : f[x] = g[x]

LEMMA NumberSame ==
  ASSUME NEW f, NEW g, NEW a, NEW b, Agree(f, g, a, b)
  PROVE  Number(f, a, b) = Number(g, a, b)
  <1>1. Marked(f, a, b) = Marked(g, a, b)
    BY DEF Agree, Marked
  <1> QED BY <1>1 DEF Number

==============================================================================
