----------------------------- MODULE Recursion -----------------------------
(* Induction and recursion over the natural numbers, from the fact that    *)
(* every set of them has a least one: without operators as parameters,     *)
(* which the provers cannot give a value to.                               *)
EXTENDS Integers, WellFoundedInduction, TLAPS

\* A set of natural numbers has a least one.
LEMMA Least ==
  ASSUME NEW T \in SUBSET Nat, T # {}
  PROVE  \E x \in T : \A y \in T : x <= y
<1>1. IsWellFoundedOn(OpToRel(<, Nat), Nat)
  BY NatLessThanWellFounded
<1>2. PICK x \in T : \A y \in T : ~(<<y, x>> \in OpToRel(<, Nat))
  BY <1>1, WFMin
<1>3. \A y \in T : ~(y < x)
  BY <1>2 DEF OpToRel
<1> QED
  BY <1>3

\* What holds of m, and of n + 1 if of n, holds from m to N.
LEMMA SetInduction ==
  ASSUME NEW m \in Nat, NEW N \in Nat, NEW T, m \in T,
         \A n \in m..N - 1 : n \in T => n + 1 \in T
  PROVE  m..N \subseteq T
<1> DEFINE Out == {n \in m..N : n \notin T}
<1>1. CASE Out # {}
  <2>1. PICK x \in Out : \A y \in Out : x <= y
    <3>1. Out \in SUBSET Nat
      OBVIOUS
    <3> HIDE DEF Out
    <3> QED
      BY <1>1, <3>1, Least
  <2>2. x # m /\ x - 1 \in m..N - 1 /\ x - 1 \notin Out
    BY <2>1
  <2>3. (x - 1) + 1 \in T
    <3>1. x - 1 \in m..N /\ x - 1 \in T
      BY <2>2
    <3> QED
      BY <2>2, <3>1
  <2>4. (x - 1) + 1 = x
    BY <2>1
  <2> QED
    BY <2>1, <2>3, <2>4
<1> QED
  BY <1>1

-----------------------------------------------------------------------------
(* Recursive functions on m..N, from a value of S and a step for each number *)
(* that leads from S to S.                                                   *)

Steps(m, N, S) == [m..N -> [S -> S]]

\* g begins with the first value, and each of its values is a step from the last.
Iterates(g, m, N, first, step) ==
  \A n \in m..N : g[n] = IF n = m THEN first ELSE step[n][g[n - 1]]

\* There is such a function.
LEMMA RecursiveFunction ==
  ASSUME NEW m \in Nat, NEW N \in Nat, NEW S, NEW first \in S,
         NEW step \in Steps(m, N, S)
  PROVE  \E g \in [m..N -> S] : Iterates(g, m, N, first, step)
<1> USE DEF Iterates, Steps
<1> DEFINE Upto(k, g) == \A n \in m..k : g[n] = IF n = m THEN first ELSE step[n][g[n - 1]]
           T == {k \in m..N : \E g \in [m..k -> S] : Upto(k, g)}
<1>1. CASE m > N
  <2>1. [n \in m..N |-> first] \in [m..N -> S]
    OBVIOUS
  <2> QED
    BY <1>1, <2>1
<1>2. CASE m <= N
  <2>1. m \in T
    <3> DEFINE g == [n \in m..m |-> first]
    <3>1. g \in [m..m -> S] /\ Upto(m, g)
      OBVIOUS
    <3>2. m \in m..N
      BY <1>2
    <3> QED
      BY <3>1, <3>2
  <2>2. ASSUME NEW k \in m..N - 1, k \in T
        PROVE  k + 1 \in T
    <3>1. PICK g \in [m..k -> S] : Upto(k, g)
      BY <2>2
    <3> DEFINE h == [n \in m..k + 1 |-> IF n = k + 1 THEN step[k + 1][g[k]] ELSE g[n]]
    <3>2. k + 1 \in m..N /\ k + 1 # m /\ k \in m..k /\ g[k] \in S
      OBVIOUS
    <3>3. step[k + 1][g[k]] \in S
      BY <3>2
    <3>4. h \in [m..k + 1 -> S]
      BY <3>3
    <3>5. ASSUME NEW n \in m..k + 1
          PROVE  h[n] = IF n = m THEN first ELSE step[n][h[n - 1]]
      <4>1. CASE n = k + 1
        BY <3>2, <4>1
      <4>2. CASE n # k + 1
        BY <3>1, <3>2, <4>2
      <4> QED
        BY <4>1, <4>2
    <3>6. k + 1 \in m..N
      OBVIOUS
    <3> HIDE DEF h
    <3>7. Upto(k + 1, h)
      BY <3>5
    <3> QED
      BY <3>4, <3>6, <3>7
  <2>3. N \in T
    <3> HIDE DEF T
    <3>1. m..N \subseteq T
      BY <2>1, <2>2, SetInduction
    <3> QED
      BY <1>2, <3>1
  <2>4. PICK g \in [m..N -> S] : Upto(N, g)
    BY <2>3
  <2> QED
    BY <2>4
<1> QED
  BY <1>1, <1>2

-----------------------------------------------------------------------------
(* Recursive functions on a set A that ask for their value at next[x], which *)
(* has a lower rank, unless x is one of Ends.                                *)

Descends(A, Ends, next, rank) ==
  \A x \in A \ Ends : rank[next[x]] < rank[x]

Recurs(f, A, Ends, base, next, step) ==
  \A x \in A : f[x] = IF x \in Ends THEN base[x] ELSE step[x][f[next[x]]]

\* There is such a function.
LEMMA DescendingFunction ==
  ASSUME NEW A, NEW V, NEW Ends, NEW base \in [A -> V], NEW next \in [A -> A],
         NEW step \in [A -> [V -> V]], NEW N \in Nat, NEW rank \in [A -> 0..N],
         Descends(A, Ends, next, rank)
  PROVE  \E f \in [A -> V] : Recurs(f, A, Ends, base, next, step)
<1> DEFINE F == [A -> V]
           once == [f \in F |-> [x \in A |-> IF x \in Ends THEN base[x] ELSE step[x][f[next[x]]]]]
           again == [n \in 0..N + 2 |-> once]
<1>1. once \in [F -> F]
  <2>1. ASSUME NEW f \in F
        PROVE  [x \in A |-> IF x \in Ends THEN base[x] ELSE step[x][f[next[x]]]] \in F
    OBVIOUS
  <2> QED
    BY <2>1
<1>2. PICK g \in [0..N + 2 -> F] : Iterates(g, 0, N + 2, base, again)
  <2>1. base \in F /\ again \in Steps(0, N + 2, F) /\ 0 \in Nat /\ N + 2 \in Nat
    BY <1>1 DEF Steps
  <2> HIDE DEF F, again
  <2> QED
    BY <2>1, RecursiveFunction
<1>3. \A n \in 0..N + 1 : g[n] \in F /\ g[n + 1] = once[g[n]]
  <2>1. \A n \in 0..N + 1 : n + 1 \in 0..N + 2 /\ n + 1 # 0 /\ (n + 1) - 1 = n /\ n \in 0..N + 2
    OBVIOUS
  <2> HIDE DEF F, once
  <2> QED
    BY <1>2, <2>1 DEF Iterates
<1>4. \A n \in 0..N + 1, x \in A :
        g[n + 1][x] = IF x \in Ends THEN base[x] ELSE step[x][g[n][next[x]]]
  <2> SUFFICES ASSUME NEW n \in 0..N + 1, NEW x \in A
               PROVE  g[n + 1][x] = IF x \in Ends THEN base[x] ELSE step[x][g[n][next[x]]]
    OBVIOUS
  <2>1. ASSUME NEW f \in F
        PROVE  once[f][x] = IF x \in Ends THEN base[x] ELSE step[x][f[next[x]]]
    OBVIOUS
  <2>2. g[n] \in F /\ g[n + 1] = once[g[n]]
    BY <1>3
  <2> HIDE DEF once, F
  <2> QED
    BY <2>1, <2>2
<1> HIDE DEF once, again
<1> DEFINE Settled == {n \in 0..N + 1 : \A x \in A : rank[x] < n => g[n][x] = g[n + 1][x]}
<1>5. 0 \in Settled
  OBVIOUS
<1>6. ASSUME NEW n \in 0..N, n \in Settled
      PROVE  n + 1 \in Settled
  <2>1. n + 1 \in 0..N + 1 /\ n \in 0..N + 1
    OBVIOUS
  <2>2. ASSUME NEW x \in A, rank[x] < n + 1
        PROVE  g[n + 1][x] = g[(n + 1) + 1][x]
    <3>1. CASE x \in Ends
      BY <1>4, <2>1, <3>1
    <3>2. CASE x \notin Ends
      <4>1. rank[next[x]] < n /\ next[x] \in A
        <5>1. rank[next[x]] < rank[x] /\ next[x] \in A
          BY <3>2 DEF Descends
        <5>2. rank[x] \in 0..N /\ rank[next[x]] \in 0..N
          BY <5>1
        <5> QED
          BY <2>2, <5>1, <5>2
      <4>2. g[n][next[x]] = g[n + 1][next[x]]
        BY <1>6, <4>1
      <4> QED
        BY <1>4, <2>1, <3>2, <4>2
    <3> QED
      BY <3>1, <3>2
  <2>3. \A x \in A : rank[x] < n + 1 => g[n + 1][x] = g[(n + 1) + 1][x]
    BY <2>2
  <2> QED
    BY <2>1, <2>3
<1>7. N + 1 \in Settled
  <2>1. 0 \in Nat /\ N + 1 \in Nat /\ (N + 1) - 1 = N /\ N + 1 \in 0..N + 1
    OBVIOUS
  <2> HIDE DEF Settled
  <2>2. \A n \in 0..(N + 1) - 1 : n \in Settled => n + 1 \in Settled
    BY <1>6, <2>1
  <2>3. 0..N + 1 \subseteq Settled
    BY <1>5, <2>1, <2>2, SetInduction
  <2> QED
    BY <2>1, <2>3
<1>8. ASSUME NEW x \in A
      PROVE  g[N + 1][x] = IF x \in Ends THEN base[x] ELSE step[x][g[N + 1][next[x]]]
  <2>1. N + 1 \in 0..N + 1 /\ rank[x] < N + 1
    <3>1. rank[x] \in 0..N
      OBVIOUS
    <3> QED
      BY <3>1
  <2>2. g[N + 1][x] = g[(N + 1) + 1][x]
    BY <1>7, <2>1
  <2> QED
    BY <1>4, <2>1, <2>2
<1>9. g[N + 1] \in F
  BY <1>3
<1> QED
  BY <1>8, <1>9 DEF Recurs
=============================================================================
