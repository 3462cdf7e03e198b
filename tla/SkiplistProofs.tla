--------------------------- MODULE SkiplistProofs ---------------------------
(* The levels of a Skiplist stay together: for every number of levels,      *)
(* whatever the heights of the nodes, and for any addresses, texts, scores  *)
(* and ranges, searches, inserts and deletions do to it what they would do  *)
(* to a sorted list.                                                        *)
EXTENDS Skiplist, DatabaseProofs, FiniteSetTheorems, Recursion

-----------------------------------------------------------------------------
(* The inductive invariant.  The places of a list are its head, its nodes  *)
(* and Null; s says what stands at each of 0, 1, ... len + 1, P at which   *)
(* of them a place is, and h how many levels lead through it.              *)

Nodes(l) == DOMAIN l.node \ {head}

Places(l) == DOMAIN l.node \cup {Null}

InPlace(l, s, P) ==
  /\ l.len \in Nat
  /\ s \in [0..l.len + 1 -> Places(l)]
  /\ P \in [Places(l) -> 0..l.len + 1]
  /\ s[0] = head /\ s[l.len + 1] = Null
  /\ \A p \in 0..l.len + 1 : P[s[p]] = p
  /\ \A x \in Places(l) : s[P[x]] = x

Link(l) == [zforward : Nodes(l) \cup {Null}, zspan : Nat]

\* A node is what its constructor makes: its links lead to nodes, and there
\* are none above its height.
Typed(l, h) ==
  /\ head \in DOMAIN l.node
  /\ Nodes(l) \subseteq Addr
  /\ l.level \in 1..MaxLevel
  /\ h \in [Places(l) -> 1..MaxLevel]
  /\ h[head] = MaxLevel /\ h[Null] = MaxLevel
  /\ \A x \in DOMAIN l.node :
       /\ l.node[x] = [obj |-> l.node[x].obj, score |-> l.node[x].score,
                       backward |-> l.node[x].backward, level |-> l.node[x].level]
       /\ l.node[x].level \in Seq(Link(l))
       /\ Len(l.node[x].level) \in h[x]..MaxLevel
  /\ \A x \in Nodes(l) :
       /\ l.node[x].obj \in Texts /\ l.node[x].score \in Scores
       /\ h[x] <= l.level
       /\ \A i \in 1..Len(l.node[x].level) : i > h[x] => l.node[x].level[i].zforward = Null
  /\ \A i \in 1..MaxLevel : i > l.level => l.node[head].level[i].zforward = Null

\* Level i leads from x to the next place that it leads through.
Leads(l, P, h, i, x) ==
  LET n == l.node[x].level[i].zforward
  IN /\ P[x] < P[n]
     /\ i <= h[n]
     /\ \A y \in Nodes(l) : P[x] < P[y] /\ P[y] < P[n] => h[y] < i
     /\ l.node[x].level[i].zspan = (IF n = Null THEN l.len ELSE P[n]) - P[x]

Leveled(l, P, h) ==
  \A x \in DOMAIN l.node, i \in 1..l.level : i <= h[x] => Leads(l, P, h, i, x)

Mirrored(l, s, P) ==
  /\ l.tail = IF l.len = 0 THEN Null ELSE s[l.len]
  /\ l.node[head].backward = Null
  /\ \A x \in Nodes(l) : l.node[x].backward = IF P[x] = 1 THEN Null ELSE s[P[x] - 1]

Ascends(l, P) ==
  \A x, y \in Nodes(l) : P[x] < P[y] => l.node[x].score <= l.node[y].score

TopUsed(l) == l.level > 1 => l.node[head].level[l.level].zforward # Null

Arranged(l, s, P, h) ==
  /\ InPlace(l, s, P)
  /\ Typed(l, h)
  /\ Leveled(l, P, h)
  /\ Mirrored(l, s, P)
  /\ Ascends(l, P)
  /\ TopUsed(l)

IInv ==
  /\ usable \in BOOLEAN
  /\ \E s, P, h : Arranged(z, s, P, h)

-----------------------------------------------------------------------------
(* Searching.                                                              *)

\* The numbers of the places.
LEMMA Numbers ==
  ASSUME NEW l, NEW s, NEW P, InPlace(l, s, P), head \in DOMAIN l.node, Nodes(l) \subseteq Addr
  PROVE  /\ l.len \in Nat
         /\ P[head] = 0 /\ P[Null] = l.len + 1 /\ head # Null
         /\ \A x \in Places(l) : P[x] \in 0..l.len + 1
         /\ \A x \in Nodes(l) : P[x] \in 1..l.len
         /\ \A x, y \in Places(l) : P[x] = P[y] => x = y
         /\ \A p \in 1..l.len : s[p] \in Nodes(l)
<1>1. l.len \in Nat /\ head # Null
  BY AddrAssumption DEF InPlace
<1>2. P[head] = 0 /\ P[Null] = l.len + 1
  BY <1>1 DEF InPlace, Places
<1>3. \A x, y \in Places(l) : P[x] = P[y] => x = y
  BY DEF InPlace
<1>4. \A x \in Places(l) : P[x] \in 0..l.len + 1
  BY DEF InPlace
<1>5. ASSUME NEW x \in Nodes(l) PROVE P[x] \in 1..l.len
  <2>1. x \in Places(l) /\ x # head /\ x # Null /\ Null \in Places(l) /\ head \in Places(l)
    BY <1>5, AddrAssumption DEF Nodes, Places
  <2>2. P[x] # 0 /\ P[x] # l.len + 1
    BY <1>2, <1>3, <2>1
  <2> QED
    BY <1>1, <1>4, <2>1, <2>2
<1>6. ASSUME NEW p \in 1..l.len PROVE s[p] \in Nodes(l)
  <2>1. p \in 0..l.len + 1 /\ p # 0 /\ p # l.len + 1
    BY <1>1
  <2>2. s[p] \in Places(l) /\ P[s[p]] = p
    BY <2>1 DEF InPlace
  <2> QED
    BY <1>2, <2>1, <2>2 DEF Nodes, Places
<1> QED
  BY <1>1, <1>2, <1>3, <1>4, <1>5, <1>6

\* A link of an array leads on along its level, or to no node at all.
LEMMA LinkLeads ==
  ASSUME NEW s, NEW P, NEW h, Arranged(z, s, P, h), NEW i \in 1..z.level, NEW y \in Tall(i)
  PROVE  /\ forward(y, i) \in heap \cup {Null}
         /\ forward(y, i) \in heap =>
              /\ i <= h[y]
              /\ forward(y, i) \in Tall(i)
              /\ P[y] < P[forward(y, i)]
<1> DEFINE n == forward(y, i)
<1>1. y \in DOMAIN z.node /\ i \in DOMAIN z.node[y].level
  BY DEF Tall
<1>2. i \in 1..Len(z.node[y].level) /\ z.node[y].level[i] \in Link(z) /\ z.node[y].level \in Seq(Link(z))
  <2>1. z.node[y].level \in Seq(Link(z))
    BY <1>1 DEF Arranged, Typed
  <2> QED
    BY <1>1, <2>1, ElementOfSeq
<1>3. n \in Nodes(z) \cup {Null}
  BY <1>2 DEF forward, Link
<1>4. ASSUME n \in Nodes(z) PROVE i <= h[y]
  <2>1. n # Null
    BY <1>4, AddrAssumption DEF Arranged, Typed
  <2>2. CASE y = head
    BY <2>2, MaxLevelAssumption DEF Arranged, Typed
  <2>3. CASE y # head
    <3>1. y \in Nodes(z) /\ h[y] \in 1..MaxLevel
      BY <1>1, <2>3 DEF Nodes, Places, Arranged, Typed
    <3>2. i > h[y] => n = Null
      BY <1>2, <3>1 DEF Arranged, Typed, forward
    <3> QED
      BY <2>1, <3>1, <3>2
  <2> QED
    BY <2>2, <2>3
<1>5. ASSUME n \in Nodes(z) PROVE n \in Tall(i) /\ P[y] < P[n]
  <2>1. Leads(z, P, h, i, y)
    BY <1>1, <1>4, <1>5 DEF Arranged, Leveled
  <2>2. P[y] < P[n] /\ i <= h[n]
    BY <2>1 DEF Leads, forward
  <2>3. n \in DOMAIN z.node /\ h[n] \in 1..MaxLevel
    BY <1>5 DEF Nodes, Places, Arranged, Typed
  <2>4. z.node[n].level \in Seq(Link(z)) /\ Len(z.node[n].level) \in h[n]..MaxLevel
    BY <2>3 DEF Arranged, Typed
  <2>5. i \in 1..Len(z.node[n].level)
    BY <2>2, <2>3, <2>4
  <2> QED
    BY <2>2, <2>3, <2>4, <2>5 DEF Tall
<1>6. heap = Nodes(z)
  BY DEF heap, Nodes
<1> QED
  BY <1>3, <1>4, <1>5, <1>6

\* What a level leads through is in its arrays.
LEMMA HighAreTall ==
  ASSUME NEW s, NEW P, NEW h, Arranged(z, s, P, h), NEW i \in 1..z.level,
         NEW y \in DOMAIN z.node, i <= h[y]
  PROVE  y \in Tall(i)
<1>1. z.node[y].level \in Seq(Link(z)) /\ Len(z.node[y].level) \in h[y]..MaxLevel /\ h[y] \in 1..MaxLevel
  BY DEF Arranged, Typed, Places
<1>2. i \in 1..Len(z.node[y].level)
  BY <1>1
<1> QED
  BY <1>1, <1>2 DEF Tall

\* What Walk returns: the last of the nodes that the level leads over from x.
StopsAt(w, x, P, h, i, passed) ==
  /\ w \in DOMAIN z.node
  /\ i <= h[w]
  /\ P[x] <= P[w]
  /\ w = x \/ w \in passed
  /\ forward(w, i) \notin passed
  /\ \A y \in heap : i <= h[y] /\ P[x] < P[y] /\ P[y] <= P[w] => y \in passed

\* Walk stops there: at x, or at the last node that it may pass.
LEMMA WalkStops ==
  ASSUME NEW s, NEW P, NEW h, Arranged(z, s, P, h), NEW i \in 1..z.level,
         NEW passed \in SUBSET heap, NEW x \in DOMAIN z.node, i <= h[x]
  PROVE  StopsAt(Walk(i, x, passed), x, P, h, i, passed)
<1> DEFINE A == Tall(i)
           Ends == {y \in A : forward(y, i) \notin passed}
           next == [y \in A |-> IF y \in Ends THEN y ELSE forward(y, i)]
           id == [y \in A |-> y]
           step == [y \in A |-> id]
           rank == [y \in A |-> z.len + 1 - P[y]]
           Is(f) == f = [y \in A |-> IF forward(y, i) \in passed THEN f[forward(y, i)] ELSE y]
<1>1. /\ z.len \in Nat
      /\ \A y \in A : y \in Places(z) /\ y \in DOMAIN z.node /\ P[y] \in 0..z.len + 1
  BY DEF Arranged, InPlace, Places, Tall
<1>2. \A y \in A \ Ends : /\ forward(y, i) \in passed
                          /\ i <= h[y] /\ forward(y, i) \in A
                          /\ P[y] < P[forward(y, i)]
  BY LinkLeads
<1>3. \E f : Is(f)
  <2>1. next \in [A -> A] /\ id \in [A -> A] /\ step \in [A -> [A -> A]]
    BY <1>2
  <2>2. rank \in [A -> 0..z.len + 1]
    BY <1>1
  <2>3. Descends(A, Ends, next, rank)
    <3> SUFFICES ASSUME NEW y \in A \ Ends PROVE rank[next[y]] < rank[y]
      BY DEF Descends
    <3>1. next[y] = forward(y, i) /\ forward(y, i) \in A /\ P[y] < P[forward(y, i)]
      BY <1>2
    <3> QED
      BY <1>1, <3>1
  <2>4. z.len + 1 \in Nat
    BY <1>1
  <2> HIDE DEF A, Ends, next, id, step, rank
  <2>5. PICK f \in [A -> A] : Recurs(f, A, Ends, id, next, step)
    BY <2>1, <2>2, <2>3, <2>4, DescendingFunction
  <2>6. ASSUME NEW y \in A
        PROVE  f[y] = IF forward(y, i) \in passed THEN f[forward(y, i)] ELSE y
    <3>1. f[y] = IF y \in Ends THEN id[y] ELSE step[y][f[next[y]]]
      BY <2>5 DEF Recurs
    <3>2. y \notin Ends => next[y] \in A /\ next[y] = forward(y, i) /\ f[next[y]] \in A
      BY <1>2 DEF next
    <3>3. id[y] = y /\ \A v \in A : step[y][v] = v
      BY DEF id, step
    <3>4. y \in Ends <=> forward(y, i) \notin passed
      BY DEF Ends
    <3> QED
      BY <3>1, <3>2, <3>3, <3>4
  <2>7. f = [y \in A |-> IF forward(y, i) \in passed THEN f[forward(y, i)] ELSE y]
    BY <2>6
  <2> QED
    BY <2>7 DEF A
<1> DEFINE walk == CHOOSE f : Is(f)
<1>4. Is(walk)
  BY <1>3
<1>5. Walk(i, x, passed) = walk[x]
  BY DEF Walk
<1>6. \A y \in A : walk[y] = IF forward(y, i) \in passed THEN walk[forward(y, i)] ELSE y
  BY <1>4
<1> HIDE DEF walk, A, Ends
<1> DEFINE Right == {n \in 0..z.len + 1 :
                       \A y \in A : i <= h[y] /\ z.len + 1 - P[y] <= n
                                      => StopsAt(walk[y], y, P, h, i, passed)}
<1>7. ASSUME NEW y \in A, i <= h[y], y \in Ends
      PROVE  StopsAt(walk[y], y, P, h, i, passed)
  <2>1. walk[y] = y /\ forward(y, i) \notin passed
    BY <1>6, <1>7 DEF Ends
  <2>2. \A v \in heap : P[v] \in 0..z.len + 1
    BY DEF Arranged, InPlace, Places, heap
  <2>3. ~\E v \in heap : P[y] < P[v] /\ P[v] <= P[y]
    BY <1>1, <2>2
  <2> QED
    BY <1>1, <1>7, <2>1, <2>3 DEF StopsAt
<1>8. ASSUME NEW y \in A, y \notin Ends, StopsAt(walk[forward(y, i)], forward(y, i), P, h, i, passed)
      PROVE  StopsAt(walk[y], y, P, h, i, passed)
  <2>1. walk[y] = walk[forward(y, i)] /\ P[y] < P[forward(y, i)] /\ forward(y, i) \in passed
    BY <1>2, <1>6, <1>8
  <2>2. P[y] \in 0..z.len + 1 /\ P[forward(y, i)] \in 0..z.len + 1 /\ P[walk[y]] \in 0..z.len + 1
    <3>1. walk[y] \in DOMAIN z.node
      BY <1>8, <2>1 DEF StopsAt
    <3>2. \A v \in DOMAIN z.node : P[v] \in 0..z.len + 1
      BY DEF Arranged, InPlace, Places
    <3> QED
      BY <1>1, <1>2, <1>8, <3>1, <3>2
  <2>3. ASSUME NEW v \in heap, i <= h[v], P[y] < P[v], P[v] <= P[walk[y]]
        PROVE  v \in passed
    <3>1. Leads(z, P, h, i, y)
      BY <1>1, <1>2, <1>8 DEF Arranged, Leveled
    <3>2. ~(P[v] < P[forward(y, i)])
      <4>1. h[v] \in 1..MaxLevel /\ v \in Nodes(z)
        BY DEF heap, Nodes, Places, Arranged, Typed
      <4>2. P[v] < P[forward(y, i)] => h[v] < i
        BY <2>3, <3>1, <4>1 DEF Leads, forward
      <4> QED
        BY <2>3, <4>1, <4>2
    <3>3. CASE P[v] = P[forward(y, i)]
      <4>1. v = forward(y, i)
        BY <2>1, <3>3 DEF Arranged, InPlace, Places, heap
      <4> QED
        BY <2>1, <4>1
    <3>4. CASE P[forward(y, i)] < P[v]
      BY <1>8, <2>1, <2>3, <3>4 DEF StopsAt
    <3>5. P[v] \in Nat /\ P[forward(y, i)] \in Nat
      <4>1. P[v] \in 0..z.len + 1
        BY DEF Arranged, InPlace, Places, heap
      <4> QED
        BY <1>1, <2>2, <4>1
    <3> QED
      BY <3>2, <3>3, <3>4, <3>5
  <2> QED
    BY <1>1, <1>8, <2>1, <2>2, <2>3 DEF StopsAt
<1>9. 0 \in Right
  <2> SUFFICES ASSUME NEW y \in A, i <= h[y], z.len + 1 - P[y] <= 0
               PROVE  StopsAt(walk[y], y, P, h, i, passed)
    BY <1>1
  <2>1. y \in Ends
    <3>1. CASE y \notin Ends
      <4>1. P[y] < P[forward(y, i)] /\ P[forward(y, i)] \in 0..z.len + 1 /\ P[y] \in 0..z.len + 1
        BY <1>1, <1>2, <3>1
      <4> QED
        BY <1>1, <4>1
    <3> QED
      BY <3>1
  <2> QED
    BY <1>7, <2>1
<1>10. ASSUME NEW n \in 0..z.len, n \in Right
       PROVE  n + 1 \in Right
  <2>0. n + 1 \in 0..z.len + 1
    BY <1>1
  <2> SUFFICES ASSUME NEW y \in A, i <= h[y], z.len + 1 - P[y] <= n + 1
               PROVE  StopsAt(walk[y], y, P, h, i, passed)
    BY <2>0
  <2>1. CASE y \notin Ends
    <3>1. P[y] < P[forward(y, i)] /\ P[forward(y, i)] \in 0..z.len + 1 /\ P[y] \in 0..z.len + 1
          /\ forward(y, i) \in A
      BY <1>1, <1>2, <2>1
    <3>2. z.len + 1 - P[forward(y, i)] <= n
      BY <1>1, <3>1
    <3>3. i <= h[forward(y, i)]
      <4>1. Leads(z, P, h, i, y)
        BY <1>1 DEF Arranged, Leveled
      <4> QED
        BY <4>1 DEF Leads, forward
    <3>4. StopsAt(walk[forward(y, i)], forward(y, i), P, h, i, passed)
      BY <1>10, <3>1, <3>2, <3>3
    <3> QED
      BY <1>8, <2>1, <3>4
  <2> QED
    BY <1>7, <2>1
<1>11. z.len + 1 \in Right
  <2>1. 0 \in Nat /\ z.len + 1 \in Nat /\ (z.len + 1) - 1 = z.len /\ z.len + 1 \in 0..z.len + 1
    BY <1>1
  <2> HIDE DEF Right
  <2>2. 0..z.len + 1 \subseteq Right
    BY <1>9, <1>10, <2>1, SetInduction
  <2> QED
    BY <2>1, <2>2
<1>12. x \in A /\ z.len + 1 - P[x] <= z.len + 1
  <2>1. x \in A
    BY HighAreTall DEF A
  <2> QED
    BY <1>1, <2>1
<1> QED
  BY <1>5, <1>11, <1>12

\* On every level, update has the last place that the level leads through
\* before, or at, the place that it has on the lowest.
Straddles(l, P, h, update) ==
  \A i \in 1..l.level :
    /\ update[i] \in DOMAIN l.node
    /\ i <= h[update[i]]
    /\ P[update[i]] <= P[update[1]]
    /\ P[update[1]] < P[l.node[update[i]].level[i].zforward]

Searched(stop, passed, P, h) ==
  /\ stop = [i \in 1..z.level |-> stop[i]]
  /\ Straddles(z, P, h, stop)
  /\ \A i \in 1..z.level : stop[i] = head \/ stop[i] \in passed
  /\ \A i \in 1..z.level : forward(stop[i], i) \notin passed
  /\ \A i \in 1..z.level : i # z.level => P[stop[i + 1]] <= P[stop[i]]

\* What each level of a search does.
LEMMA StopsByLevel ==
  ASSUME NEW s, NEW P, NEW h, Arranged(z, s, P, h), NEW passed \in SUBSET heap
  PROVE  /\ Stops(passed) = [i \in 1..z.level |-> Stops(passed)[i]]
         /\ \A i \in 1..z.level :
              StopsAt(Stops(passed)[i], IF i = z.level THEN head ELSE Stops(passed)[i + 1],
                      P, h, i, passed)
<1> DEFINE A == 1..z.level
           V == DOMAIN z.node
           W(i, x) == Walk(i, x, passed)
           next == [i \in A |-> IF i = z.level THEN i ELSE i + 1]
           base == [i \in A |-> W(i, head)]
           step == [i \in A |-> [x \in V |-> IF i <= h[x] THEN W(i, x) ELSE x]]
           rank == [i \in A |-> z.level - i]
           Is(f) == f = [i \in 1..z.level |->
                           Walk(i, IF i = z.level THEN head ELSE f[i + 1], passed)]
<1>1. /\ z.level \in 1..MaxLevel /\ MaxLevel \in Nat /\ z.level \in Nat
      /\ head \in V /\ h[head] = MaxLevel
      /\ \A x \in V : h[x] \in 1..MaxLevel
  BY MaxLevelAssumption DEF Arranged, Typed, Places
<1>2. \A i \in A, x \in V : i <= h[x] => StopsAt(W(i, x), x, P, h, i, passed)
  BY WalkStops
<1>3. \A i \in A, x \in V : i <= h[x] => W(i, x) \in V /\ i <= h[W(i, x)]
  BY <1>2 DEF StopsAt
<1>4. \A i \in A : i <= h[head]
  BY <1>1
<1> HIDE DEF W
<1>5. \E f \in [A -> V] : Is(f) /\ \A i \in A : i <= h[f[i]]
  <2>1. next \in [A -> A] /\ base \in [A -> V] /\ step \in [A -> [V -> V]]
    <3>1. \A i \in A : W(i, head) \in V
      BY <1>1, <1>3, <1>4
    <3>2. \A i \in A : i # z.level => i + 1 \in A
      BY <1>1
    <3>3. \A i \in A, x \in V : (IF i <= h[x] THEN W(i, x) ELSE x) \in V
      BY <1>3
    <3> HIDE DEF A, V
    <3>4. base \in [A -> V]
      BY <3>1
    <3>5. next \in [A -> A]
      BY <3>2
    <3>6. step \in [A -> [V -> V]]
      BY <3>3
    <3> QED
      BY <3>4, <3>5, <3>6
  <2>2. rank \in [A -> 0..z.level] /\ Descends(A, {z.level}, next, rank)
    BY <1>1 DEF Descends
  <2> HIDE DEF A, V, next, base, step, rank
  <2>3. PICK f \in [A -> V] : Recurs(f, A, {z.level}, base, next, step)
    BY <1>1, <2>1, <2>2, DescendingFunction
  <2>4. \A i \in A : i # z.level =>
          /\ i + 1 \in A /\ f[i + 1] \in V
          /\ f[i] = IF i <= h[f[i + 1]] THEN W(i, f[i + 1]) ELSE f[i + 1]
    <3> SUFFICES ASSUME NEW i \in A, i # z.level
                 PROVE  /\ i + 1 \in A /\ f[i + 1] \in V
                        /\ f[i] = IF i <= h[f[i + 1]] THEN W(i, f[i + 1]) ELSE f[i + 1]
      OBVIOUS
    <3>1. next[i] = i + 1 /\ i + 1 \in A
      BY <1>1, <2>1 DEF next, A
    <3>2. f[i + 1] \in V
      BY <3>1
    <3>3. f[i] = step[i][f[i + 1]]
      BY <2>3, <3>1 DEF Recurs
    <3> QED
      BY <3>1, <3>2, <3>3 DEF step
  <2>5. f[z.level] = W(z.level, head) /\ z.level \in A
    <3>1. z.level \in A
      BY <1>1 DEF A
    <3>2. f[z.level] = base[z.level]
      BY <2>3, <3>1 DEF Recurs
    <3> QED
      BY <3>1, <3>2 DEF base
  <2>6. \A i \in A : i <= h[f[i]]
    <3> DEFINE High == {n \in 0..z.level - 1 : z.level - n <= h[f[z.level - n]]}
    <3>1. 0 \in High
      <4>1. z.level - 0 = z.level /\ 0 \in 0..z.level - 1
        BY <1>1
      <4>2. z.level <= h[f[z.level]]
        BY <1>1, <1>3, <1>4, <2>5
      <4> QED
        BY <4>1, <4>2
    <3>2. ASSUME NEW n \in 0..(z.level - 1) - 1, n \in High
          PROVE  n + 1 \in High
      <4> DEFINE i == z.level - (n + 1)
      <4>1. i \in A /\ i # z.level /\ i + 1 = z.level - n /\ n + 1 \in 0..z.level - 1
        BY <1>1 DEF A
      <4> HIDE DEF i
      <4>2. f[i + 1] \in V /\ i <= h[f[i + 1]]
        <5>1. f[i + 1] \in V /\ i + 1 <= h[f[i + 1]]
          BY <2>4, <3>2, <4>1
        <5>2. h[f[i + 1]] \in Int /\ i \in Int
          BY <1>1, <4>1, <5>1 DEF A
        <5> QED
          BY <5>1, <5>2
      <4>3. i <= h[f[i]]
        BY <1>3, <2>4, <4>1, <4>2
      <4> QED
        BY <4>1, <4>3 DEF i
    <3>3. z.level - 1 \in Nat /\ 0 \in Nat
      BY <1>1
    <3> HIDE DEF High
    <3>4. 0..z.level - 1 \subseteq High
      BY <3>1, <3>2, <3>3, SetInduction
    <3> SUFFICES ASSUME NEW i \in A PROVE i <= h[f[i]]
      OBVIOUS
    <3>5. z.level - i \in 0..z.level - 1 /\ z.level - (z.level - i) = i
      BY <1>1 DEF A
    <3> QED
      BY <3>4, <3>5 DEF High
  <2>7. ASSUME NEW i \in A
        PROVE  f[i] = W(i, IF i = z.level THEN head ELSE f[i + 1])
    <3>1. CASE i = z.level
      BY <2>5, <3>1
    <3>2. CASE i # z.level
      <4>1. f[i + 1] \in V /\ i + 1 \in A /\ i + 1 <= h[f[i + 1]]
        BY <2>4, <2>6, <3>2
      <4>2. h[f[i + 1]] \in Int /\ i \in Int
        BY <1>1, <4>1 DEF A
      <4>3. i <= h[f[i + 1]]
        BY <4>1, <4>2
      <4> QED
        BY <2>4, <3>2, <4>3
    <3> QED
      BY <3>1, <3>2
  <2>8. Is(f)
    <3>1. f = [i \in A |-> f[i]]
      OBVIOUS
    <3> QED
      BY <2>7, <3>1 DEF W, A
  <2> QED
    BY <2>6, <2>8
<1> DEFINE stop == CHOOSE f : Is(f)
<1>6. Is(stop)
  BY <1>5
<1>7. Stops(passed) = stop
  BY DEF Stops
<1> HIDE DEF stop
<1>8. stop = [i \in A |-> stop[i]]
  BY <1>6
<1>9. \A i \in A : stop[i] = W(i, IF i = z.level THEN head ELSE stop[i + 1])
  BY <1>6 DEF W
<1> DEFINE Up == {n \in 0..z.level - 1 : stop[z.level - n] \in V /\ z.level - n <= h[stop[z.level - n]]}
<1>10. 0 \in Up
  <2>1. z.level - 0 = z.level /\ 0 \in 0..z.level - 1 /\ z.level \in A
    BY <1>1
  <2>2. stop[z.level] = W(z.level, head)
    BY <1>9, <2>1
  <2>3. z.level <= h[stop[z.level]] /\ stop[z.level] \in V
    BY <1>1, <1>3, <1>4, <2>1, <2>2
  <2> QED
    BY <2>1, <2>3
<1>11. ASSUME NEW n \in 0..(z.level - 1) - 1, n \in Up
       PROVE  n + 1 \in Up
  <2> DEFINE i == z.level - (n + 1)
  <2>1. i \in A /\ i # z.level /\ i + 1 = z.level - n /\ n + 1 \in 0..z.level - 1 /\ i \in Int
    BY <1>1
  <2> HIDE DEF i
  <2>2. stop[i + 1] \in V /\ i <= h[stop[i + 1]]
    <3>1. stop[i + 1] \in V /\ i + 1 <= h[stop[i + 1]]
      BY <1>11, <2>1
    <3>2. h[stop[i + 1]] \in Int
      BY <1>1, <3>1
    <3> QED
      BY <2>1, <3>1, <3>2
  <2>3. stop[i] = W(i, stop[i + 1])
    BY <1>9, <2>1
  <2>4. i <= h[stop[i]] /\ stop[i] \in V
    BY <1>3, <2>1, <2>2, <2>3
  <2> QED
    BY <2>1, <2>4 DEF i
<1>12. 0..z.level - 1 \subseteq Up
  <2>1. z.level - 1 \in Nat /\ 0 \in Nat
    BY <1>1
  <2> HIDE DEF Up
  <2> QED
    BY <1>10, <1>11, <2>1, SetInduction
<1>13. \A i \in A : stop[i] \in V /\ i <= h[stop[i]]
  <2> SUFFICES ASSUME NEW i \in A PROVE stop[i] \in V /\ i <= h[stop[i]]
    OBVIOUS
  <2>1. z.level - i \in 0..z.level - 1 /\ z.level - (z.level - i) = i
    BY <1>1
  <2> QED
    BY <1>12, <2>1
<1>14. ASSUME NEW i \in A
       PROVE  StopsAt(stop[i], IF i = z.level THEN head ELSE stop[i + 1], P, h, i, passed)
  <2> DEFINE x == IF i = z.level THEN head ELSE stop[i + 1]
  <2>1. x \in V /\ i <= h[x]
    <3>1. CASE i # z.level
      <4>1. i + 1 \in A /\ i \in Int
        BY <1>1, <3>1
      <4>2. stop[i + 1] \in V /\ i + 1 <= h[stop[i + 1]]
        BY <1>13, <4>1
      <4>3. h[stop[i + 1]] \in Int
        BY <1>1, <4>2
      <4> QED
        BY <3>1, <4>1, <4>2, <4>3
    <3> QED
      BY <1>1, <1>4, <3>1
  <2>2. stop[i] = W(i, x)
    BY <1>9
  <2> QED
    BY <1>2, <2>1, <2>2 DEF W
<1> QED
  BY <1>7, <1>8, <1>14

\* A search comes out in front of the same node on every level.
LEMMA StopsSearch ==
  ASSUME NEW s, NEW P, NEW h, Arranged(z, s, P, h), NEW passed \in SUBSET heap
  PROVE  Searched(Stops(passed), passed, P, h)
<1> DEFINE A == 1..z.level
           stop == Stops(passed)
           n(i) == forward(stop[i], i)
<1>1. /\ z.level \in Nat /\ z.level >= 1 /\ z.level <= MaxLevel /\ MaxLevel \in Nat
      /\ head \in DOMAIN z.node /\ h[head] = MaxLevel
      /\ \A x \in DOMAIN z.node \cup {Null} : h[x] \in 1..MaxLevel /\ P[x] \in 0..z.len + 1
      /\ heap = Nodes(z) /\ Null \notin heap
  BY MaxLevelAssumption, AddrAssumption DEF Arranged, Typed, InPlace, Places, Nodes, heap
<1>2. /\ stop = [i \in A |-> stop[i]]
      /\ \A i \in A : StopsAt(stop[i], IF i = z.level THEN head ELSE stop[i + 1], P, h, i, passed)
  BY StopsByLevel
<1> HIDE DEF stop
<1>3. \A i \in A : /\ stop[i] \in DOMAIN z.node /\ i <= h[stop[i]] /\ stop[i] \in Tall(i)
                   /\ n(i) \notin passed
                   /\ n(i) \in DOMAIN z.node \cup {Null} /\ i <= h[n(i)]
                   /\ P[stop[i]] < P[n(i)]
  <2> SUFFICES ASSUME NEW i \in A
               PROVE  /\ stop[i] \in DOMAIN z.node /\ i <= h[stop[i]] /\ stop[i] \in Tall(i)
                      /\ n(i) \notin passed
                      /\ n(i) \in DOMAIN z.node \cup {Null} /\ i <= h[n(i)]
                      /\ P[stop[i]] < P[n(i)]
    OBVIOUS
  <2>1. stop[i] \in DOMAIN z.node /\ i <= h[stop[i]] /\ n(i) \notin passed
    BY <1>2 DEF StopsAt
  <2>2. stop[i] \in Tall(i)
    BY <2>1, HighAreTall
  <2>3. n(i) \in DOMAIN z.node \cup {Null}
    BY <2>2, LinkLeads DEF heap
  <2>4. Leads(z, P, h, i, stop[i])
    BY <2>1 DEF Arranged, Leveled
  <2> QED
    BY <2>1, <2>2, <2>3, <2>4 DEF Leads, forward
<1>4. \A i \in A : i # z.level => /\ i + 1 \in A
                                  /\ P[stop[i + 1]] <= P[stop[i]]
                                  /\ StopsAt(stop[i], stop[i + 1], P, h, i, passed)
  <2> SUFFICES ASSUME NEW i \in A, i # z.level
               PROVE  /\ i + 1 \in A
                      /\ P[stop[i + 1]] <= P[stop[i]]
                      /\ StopsAt(stop[i], stop[i + 1], P, h, i, passed)
    OBVIOUS
  <2>1. i + 1 \in A
    BY <1>1
  <2>2. StopsAt(stop[i], stop[i + 1], P, h, i, passed)
    BY <1>2
  <2> QED
    BY <2>1, <2>2 DEF StopsAt
<1>5. ASSUME NEW i \in A
      PROVE  P[stop[i]] <= P[stop[1]] /\ P[stop[1]] < P[n(i)]
  <2> DEFINE Below == {k \in 0..i - 1 : P[stop[i]] <= P[stop[i - k]] /\ P[stop[i - k]] < P[n(i)]}
  <2>1. 0 \in Below
    <3>1. 0 \in 0..i - 1 /\ i - 0 = i /\ P[stop[i]] \in Int
      BY <1>1, <1>3
    <3> QED
      BY <1>3, <3>1
  <2>2. ASSUME NEW k \in 0..(i - 1) - 1, k \in Below
        PROVE  k + 1 \in Below
    <3> DEFINE j == i - (k + 1)
    <3>1. j \in A /\ j # z.level /\ j + 1 = i - k /\ k + 1 \in 0..i - 1 /\ j < i
      BY <1>1
    <3> HIDE DEF j
    <3>2. /\ P[stop[i]] <= P[stop[j + 1]] /\ P[stop[j + 1]] < P[n(i)]
          /\ P[stop[j + 1]] <= P[stop[j]] /\ j + 1 \in A
          /\ StopsAt(stop[j], stop[j + 1], P, h, j, passed)
      BY <1>4, <2>2, <3>1
    <3>3. /\ P[stop[i]] \in Nat /\ P[stop[j]] \in Nat /\ P[stop[j + 1]] \in Nat /\ P[n(i)] \in Nat
          /\ h[n(i)] \in Nat /\ j \in Nat
      BY <1>1, <1>3, <3>1, <3>2
    <3>4. P[stop[j]] < P[n(i)]
      <4>1. CASE n(i) = Null
        <5>1. P[Null] = z.len + 1 /\ Null \in Places(z)
          BY DEF Arranged, InPlace, Places
        <5>2. stop[j] \in DOMAIN z.node /\ stop[j] # Null
          BY <1>3, <3>1, AddrAssumption DEF Arranged, Typed, Nodes
        <5>3. P[stop[j]] # P[Null]
          BY <5>1, <5>2 DEF Arranged, InPlace, Places
        <5>4. P[stop[j]] \in 0..z.len + 1 /\ z.len \in Nat
          BY <1>1, <5>2 DEF Arranged, InPlace
        <5> QED
          BY <4>1, <5>1, <5>3, <5>4
      <4>2. CASE n(i) # Null
        <5>1. n(i) \in heap
          <6>1. n(i) \in heap \cup {Null}
            BY <1>3, LinkLeads
          <6> QED
            BY <4>2, <6>1
        <5>2. n(i) \notin passed /\ i <= h[n(i)]
          BY <1>3
        <5>3. j <= h[n(i)]
          BY <3>1, <3>3, <5>2
        <5>4. ~(P[n(i)] <= P[stop[j]])
          BY <3>2, <5>1, <5>2, <5>3 DEF StopsAt
        <5> QED
          BY <3>3, <5>4
      <4> QED
        BY <4>1, <4>2
    <3>5. P[stop[i]] <= P[stop[j]]
      BY <3>2, <3>3
    <3> QED
      BY <3>1, <3>4, <3>5 DEF j
  <2>3. 0..i - 1 \subseteq Below
    <3>1. i - 1 \in Nat /\ 0 \in Nat
      BY <1>1
    <3> HIDE DEF Below
    <3> QED
      BY <2>1, <2>2, <3>1, SetInduction
  <2>4. i - 1 \in 0..i - 1 /\ i - (i - 1) = 1
    BY <1>1
  <2> QED
    BY <2>3, <2>4
<1>6. ASSUME NEW i \in A
      PROVE  stop[i] = head \/ stop[i] \in passed
  <2> DEFINE Met == {k \in 0..z.level - 1 : stop[z.level - k] = head \/ stop[z.level - k] \in passed}
  <2>1. 0 \in Met
    <3>1. z.level - 0 = z.level /\ z.level \in A /\ 0 \in 0..z.level - 1
      BY <1>1
    <3> QED
      BY <1>2, <3>1 DEF StopsAt
  <2>2. ASSUME NEW k \in 0..(z.level - 1) - 1, k \in Met
        PROVE  k + 1 \in Met
    <3> DEFINE j == z.level - (k + 1)
    <3>1. j \in A /\ j # z.level /\ j + 1 = z.level - k /\ k + 1 \in 0..z.level - 1
      BY <1>1
    <3> HIDE DEF j
    <3>2. stop[j] = stop[j + 1] \/ stop[j] \in passed
      BY <1>4, <3>1 DEF StopsAt
    <3>3. stop[j + 1] = head \/ stop[j + 1] \in passed
      BY <2>2, <3>1
    <3> QED
      BY <3>1, <3>2, <3>3 DEF j
  <2>3. 0..z.level - 1 \subseteq Met
    <3>1. z.level - 1 \in Nat /\ 0 \in Nat
      BY <1>1
    <3> HIDE DEF Met
    <3> QED
      BY <2>1, <2>2, <3>1, SetInduction
  <2>4. z.level - i \in 0..z.level - 1 /\ z.level - (z.level - i) = i
    BY <1>1
  <2> QED
    BY <2>3, <2>4
<1>7. Straddles(z, P, h, stop)
  BY <1>3, <1>5 DEF Straddles, forward
<1> QED
  BY <1>2, <1>3, <1>4, <1>6, <1>7 DEF Searched, stop

\* The spans of a level add up to the nodes that lie between two places on it.
LEMMA SpansAddUp ==
  ASSUME NEW s, NEW P, NEW h, Arranged(z, s, P, h), NEW i \in 1..z.level,
         NEW x \in DOMAIN z.node, i <= h[x], NEW last \in DOMAIN z.node, i <= h[last],
         P[x] <= P[last]
  PROVE  Spans(i, x, last) = P[last] - P[x]
<1> DEFINE A == Tall(i) \cup {Null}
           Ends == {last, Null}
           span(y) == z.node[y].level[i].zspan
           base == [y \in A |-> 0]
           next == [y \in A |-> IF y \in Ends THEN y ELSE forward(y, i)]
           step == [y \in A |-> [v \in Int |-> IF y \in Ends THEN v ELSE span(y) + v]]
           rank == [y \in A |-> z.len + 1 - P[y]]
           Is(f) == f = [y \in Tall(i) \cup {Null} |->
                           IF y \in {last, Null} THEN 0
                           ELSE z.node[y].level[i].zspan + f[forward(y, i)]]
<1>1. /\ z.len \in Nat
      /\ \A y \in A : y \in Places(z) /\ P[y] \in 0..z.len + 1
      /\ P[Null] = z.len + 1 /\ Null \in A
      /\ \A y \in DOMAIN z.node : P[y] \in 0..z.len
      /\ Null \notin DOMAIN z.node
  <2>1. InPlace(z, s, P) /\ head \in DOMAIN z.node /\ Nodes(z) \subseteq Addr
    BY DEF Arranged, Typed
  <2>2. /\ z.len \in Nat /\ P[head] = 0 /\ P[Null] = z.len + 1
        /\ \A y \in Places(z) : P[y] \in 0..z.len + 1
        /\ \A y \in Nodes(z) : P[y] \in 1..z.len
    BY <2>1, Numbers
  <2>3. A \subseteq Places(z) /\ Null \in A
    BY DEF Tall, Places
  <2>4. \A y \in DOMAIN z.node : y = head \/ y \in Nodes(z)
    BY DEF Nodes
  <2>5. Null \notin DOMAIN z.node
    BY <2>1, AddrAssumption DEF Nodes
  <2> QED
    BY <2>2, <2>3, <2>4, <2>5
<1>2. \A y \in A \ Ends : /\ y \in Tall(i) /\ y \in DOMAIN z.node
                          /\ forward(y, i) \in A
                          /\ P[y] < P[forward(y, i)]
                          /\ span(y) \in Int
  <2> SUFFICES ASSUME NEW y \in A \ Ends
               PROVE  /\ y \in Tall(i) /\ y \in DOMAIN z.node
                      /\ forward(y, i) \in A
                      /\ P[y] < P[forward(y, i)]
                      /\ span(y) \in Int
    OBVIOUS
  <2>1. y \in Tall(i) /\ y \in DOMAIN z.node
    BY DEF Tall
  <2>2. forward(y, i) \in A /\ P[y] < P[forward(y, i)]
    <3>1. CASE forward(y, i) = Null
      BY <1>1, <2>1, <3>1
    <3>2. CASE forward(y, i) # Null
      BY <2>1, <3>2, LinkLeads
    <3> QED
      BY <3>1, <3>2
  <2>3. span(y) \in Int
    <3>1. z.node[y].level \in Seq(Link(z)) /\ i \in DOMAIN z.node[y].level
      BY <2>1 DEF Tall, Arranged, Typed
    <3>2. z.node[y].level[i] \in Link(z)
      BY <3>1, ElementOfSeq
    <3> QED
      BY <3>2 DEF Link
  <2> QED
    BY <2>1, <2>2, <2>3
<1>3. \E f : Is(f)
  <2>1. base \in [A -> Int] /\ next \in [A -> A] /\ step \in [A -> [Int -> Int]]
    <3>1. next \in [A -> A]
      BY <1>2
    <3>2. \A y \in A, v \in Int : (IF y \in Ends THEN v ELSE span(y) + v) \in Int
      BY <1>2
    <3> HIDE DEF A, Ends, span
    <3>3. step \in [A -> [Int -> Int]]
      BY <3>2
    <3> QED
      BY <3>1, <3>3
  <2>2. rank \in [A -> 0..z.len + 1] /\ z.len + 1 \in Nat
    BY <1>1
  <2>3. Descends(A, Ends, next, rank)
    <3> SUFFICES ASSUME NEW y \in A \ Ends PROVE rank[next[y]] < rank[y]
      BY DEF Descends
    <3>1. next[y] = forward(y, i) /\ forward(y, i) \in A /\ P[y] < P[forward(y, i)]
      BY <1>2
    <3> QED
      BY <1>1, <3>1
  <2> HIDE DEF A, Ends, next, base, step, rank
  <2>4. PICK f \in [A -> Int] : Recurs(f, A, Ends, base, next, step)
    BY <2>1, <2>2, <2>3, DescendingFunction
  <2>5. ASSUME NEW y \in A
        PROVE  f[y] = IF y \in Ends THEN 0 ELSE span(y) + f[forward(y, i)]
    <3>1. f[y] = IF y \in Ends THEN base[y] ELSE step[y][f[next[y]]]
      BY <2>4 DEF Recurs
    <3>2. y \notin Ends => next[y] = forward(y, i) /\ f[forward(y, i)] \in Int
      BY <1>2 DEF next
    <3>3. base[y] = 0 /\ \A v \in Int : y \notin Ends => step[y][v] = span(y) + v
      BY DEF base, step
    <3> QED
      BY <3>1, <3>2, <3>3
  <2>6. f = [y \in A |-> f[y]]
    OBVIOUS
  <2> QED
    BY <2>5, <2>6 DEF A, Ends
<1> DEFINE spans == CHOOSE f : Is(f)
<1>4. Is(spans)
  BY <1>3
<1>5. Spans(i, x, last) = spans[x]
  BY DEF Spans
<1>6. \A y \in A : spans[y] = IF y \in Ends THEN 0 ELSE span(y) + spans[forward(y, i)]
  BY <1>4
<1> HIDE DEF spans, A
<1> DEFINE Right == {n \in 0..z.len : \A y \in DOMAIN z.node :
                        i <= h[y] /\ P[y] <= P[last] /\ P[last] - P[y] <= n
                          => spans[y] = P[last] - P[y]}
<1>7. \A y \in DOMAIN z.node : i <= h[y] => y \in A
  BY HighAreTall DEF A
<1>8. spans[last] = 0
  BY <1>6, <1>7
<1>9. \A y \in DOMAIN z.node : P[y] = P[last] => y = last
  BY DEF Arranged, InPlace, Places
<1>10. 0 \in Right
  <2> SUFFICES ASSUME NEW y \in DOMAIN z.node, P[y] <= P[last], P[last] - P[y] <= 0
               PROVE  spans[y] = P[last] - P[y]
    BY <1>1
  <2>1. P[y] = P[last] /\ P[last] - P[y] = 0
    BY <1>1
  <2> QED
    BY <1>8, <1>9, <2>1
<1>11. ASSUME NEW n \in 0..z.len - 1, n \in Right
       PROVE  n + 1 \in Right
  <2>1. n + 1 \in 0..z.len
    BY <1>1
  <2> SUFFICES ASSUME NEW y \in DOMAIN z.node, i <= h[y], P[y] <= P[last], P[last] - P[y] <= n + 1
               PROVE  spans[y] = P[last] - P[y]
    BY <2>1
  <2>2. CASE y # last
    <3> DEFINE w == forward(y, i)
    <3>1. P[y] # P[last] /\ y \in A \ Ends
      BY <1>1, <1>7, <1>9, <2>2
    <3>2. Leads(z, P, h, i, y)
      BY DEF Arranged, Leveled
    <3>3. w \in A /\ P[y] < P[w] /\ P[w] \in 0..z.len + 1 /\ P[y] \in 0..z.len /\ P[last] \in 0..z.len
      BY <1>1, <1>2, <3>1
    <3>4. P[w] <= P[last]
      <4>1. last \in Nodes(z)
        <5>1. P[head] = 0
          BY DEF Arranged, InPlace, Places, Typed
        <5> QED
          BY <3>1, <3>3, <5>1 DEF Nodes
      <4>2. P[y] < P[last]
        BY <3>1, <3>3
      <4>3. P[last] < P[w] => h[last] < i
        BY <3>2, <4>1, <4>2 DEF Leads, forward
      <4>4. h[last] \in Int
        BY <4>1 DEF Arranged, Typed, Places, Nodes
      <4> QED
        BY <3>3, <4>3, <4>4
    <3>5. w # Null /\ w \in DOMAIN z.node /\ i <= h[w]
      <4>1. w # Null
        BY <1>1, <3>3, <3>4
      <4>2. w \in DOMAIN z.node
        BY <3>3, <4>1 DEF A, Tall
      <4> QED
        BY <3>2, <4>1, <4>2 DEF Leads, forward
    <3>6. P[last] - P[w] <= n
      BY <3>3
    <3>7. spans[w] = P[last] - P[w]
      BY <1>11, <3>4, <3>5, <3>6
    <3>8. span(y) = P[w] - P[y]
      BY <3>2, <3>5 DEF Leads, forward
    <3>9. spans[y] = span(y) + spans[w]
      BY <1>6, <3>1
    <3> HIDE DEF w, span
    <3> QED
      BY <3>3, <3>7, <3>8, <3>9
  <2>3. CASE y = last
    BY <1>1, <1>8, <2>3
  <2> QED
    BY <2>2, <2>3
<1>12. z.len \in Right
  <2>1. 0 \in Nat /\ z.len \in Nat /\ z.len \in 0..z.len
    BY <1>1
  <2> HIDE DEF Right
  <2>2. 0..z.len \subseteq Right
    BY <1>10, <1>11, <2>1, SetInduction
  <2> QED
    BY <2>1, <2>2
<1>13. P[last] - P[x] <= z.len
  BY <1>1
<1> QED
  BY <1>5, <1>12, <1>13

\* rank[i] is the number of the node the search stopped at on level i.
LEMMA RanksArePlaces ==
  ASSUME NEW s, NEW P, NEW h, Arranged(z, s, P, h), NEW passed, NEW stop,
         Searched(stop, passed, P, h)
  PROVE  Ranks(stop) = [i \in 1..z.level |-> P[stop[i]]]
<1> DEFINE A == 1..z.level
           Is(f) == f = [i \in 1..z.level |->
                           IF i = z.level THEN Spans(i, head, stop[i])
                           ELSE f[i + 1] + Spans(i, stop[i + 1], stop[i])]
           places == [i \in A |-> P[stop[i]]]
<1>1. /\ z.level \in Nat /\ z.level >= 1 /\ MaxLevel \in Nat /\ z.level <= MaxLevel
      /\ head \in DOMAIN z.node /\ h[head] = MaxLevel
      /\ \A y \in DOMAIN z.node : h[y] \in 1..MaxLevel /\ P[y] \in 0..z.len + 1
      /\ P[head] = 0 /\ z.len \in Nat
  BY MaxLevelAssumption DEF Arranged, Typed, InPlace, Places
<1>2. \A i \in A : stop[i] \in DOMAIN z.node /\ i <= h[stop[i]] /\ P[stop[i]] \in 0..z.len + 1
  BY <1>1 DEF Searched, Straddles
<1>3. \A i \in A : i = z.level => Spans(i, head, stop[i]) = P[stop[i]]
  <2> SUFFICES ASSUME NEW i \in A PROVE Spans(i, head, stop[i]) = P[stop[i]]
    OBVIOUS
  <2>1. i <= h[head] /\ P[head] <= P[stop[i]]
    BY <1>1, <1>2
  <2>2. Spans(i, head, stop[i]) = P[stop[i]] - P[head]
    BY <1>1, <1>2, <2>1, SpansAddUp
  <2> QED
    BY <1>1, <1>2, <2>2
<1>4. \A i \in A : i # z.level => /\ i + 1 \in A
                                  /\ Spans(i, stop[i + 1], stop[i]) = P[stop[i]] - P[stop[i + 1]]
  <2> SUFFICES ASSUME NEW i \in A, i # z.level
               PROVE  /\ i + 1 \in A
                      /\ Spans(i, stop[i + 1], stop[i]) = P[stop[i]] - P[stop[i + 1]]
    OBVIOUS
  <2>1. i + 1 \in A /\ i \in Nat
    BY <1>1
  <2>2. stop[i + 1] \in DOMAIN z.node /\ i + 1 <= h[stop[i + 1]] /\ h[stop[i + 1]] \in 1..MaxLevel
    BY <1>1, <1>2, <2>1
  <2>3. i <= h[stop[i + 1]] /\ P[stop[i + 1]] <= P[stop[i]]
    <3>1. i <= h[stop[i + 1]]
      BY <1>1, <2>1, <2>2
    <3>2. P[stop[i + 1]] <= P[stop[i]]
      BY DEF Searched
    <3> QED
      BY <3>1, <3>2
  <2> QED
    BY <1>2, <2>1, <2>2, <2>3, SpansAddUp
<1>5. Is(places)
  <2> SUFFICES ASSUME NEW i \in A
               PROVE  P[stop[i]] = IF i = z.level THEN Spans(i, head, stop[i])
                                   ELSE places[i + 1] + Spans(i, stop[i + 1], stop[i])
    OBVIOUS
  <2>1. i # z.level => places[i + 1] = P[stop[i + 1]] /\ P[stop[i + 1]] \in Int
    BY <1>2, <1>4
  <2> QED
    BY <1>2, <1>3, <1>4, <2>1
<1> DEFINE rank == CHOOSE f : Is(f)
<1>6. Is(rank)
  BY <1>5
<1>7. Ranks(stop) = rank
  BY DEF Ranks
<1> HIDE DEF rank
<1> DEFINE Right == {k \in 0..z.level - 1 : rank[z.level - k] = P[stop[z.level - k]]}
<1>8. 0 \in Right
  <2>1. z.level - 0 = z.level /\ z.level \in A /\ 0 \in 0..z.level - 1
    BY <1>1
  <2> QED
    BY <1>3, <1>6, <2>1
<1>9. ASSUME NEW k \in 0..(z.level - 1) - 1, k \in Right
      PROVE  k + 1 \in Right
  <2> DEFINE j == z.level - (k + 1)
  <2>1. j \in A /\ j # z.level /\ j + 1 = z.level - k /\ k + 1 \in 0..z.level - 1
    BY <1>1
  <2> HIDE DEF j
  <2>2. rank[j + 1] = P[stop[j + 1]]
    BY <1>9, <2>1
  <2>3. rank[j] = rank[j + 1] + Spans(j, stop[j + 1], stop[j])
    BY <1>6, <2>1
  <2>4. P[stop[j]] \in Int /\ P[stop[j + 1]] \in Int
    BY <1>2, <1>4, <2>1
  <2>5. rank[j] = P[stop[j]]
    BY <1>4, <2>1, <2>2, <2>3, <2>4
  <2> QED
    BY <2>1, <2>5 DEF j
<1>10. 0..z.level - 1 \subseteq Right
  <2>1. z.level - 1 \in Nat /\ 0 \in Nat
    BY <1>1
  <2> HIDE DEF Right
  <2> QED
    BY <1>8, <1>9, <2>1, SetInduction
<1>11. \A i \in A : rank[i] = P[stop[i]]
  <2> SUFFICES ASSUME NEW i \in A PROVE rank[i] = P[stop[i]]
    OBVIOUS
  <2>1. z.level - i \in 0..z.level - 1 /\ z.level - (z.level - i) = i
    BY <1>1
  <2> QED
    BY <1>10, <2>1
<1>12. rank = [i \in A |-> rank[i]]
  BY <1>6
<1> QED
  BY <1>7, <1>11, <1>12

-----------------------------------------------------------------------------
(* Putting the node x behind place a.                                      *)

Opened(l, s, x, a) ==
  [p \in 0..l.len + 2 |-> IF p <= a THEN s[p] ELSE IF p = a + 1 THEN x ELSE s[p - 1]]

Shifted(l, P, x, a) ==
  [y \in Places(l) \cup {x} |-> IF y = x THEN a + 1 ELSE IF P[y] <= a THEN P[y] ELSE P[y] + 1]

Heights(l, h, x, zlevel) == [y \in Places(l) \cup {x} |-> IF y = x THEN zlevel ELSE h[y]]

\* The list m is l with the links led over x.
LinksOver(l, m, P, h, x, update, zlevel) ==
  LET a == P[update[1]]
  IN /\ \A i \in 1..zlevel :
          /\ m.node[x].level[i].zforward = l.node[update[i]].level[i].zforward
          /\ m.node[x].level[i].zspan = l.node[update[i]].level[i].zspan - (a - P[update[i]])
     /\ \A y \in DOMAIN l.node, i \in 1..l.level :
          /\ i <= h[y] /\ update[i] # y => m.node[y].level[i] = l.node[y].level[i]
          /\ i <= h[y] /\ update[i] = y /\ i <= zlevel =>
               /\ m.node[y].level[i].zforward = x
               /\ m.node[y].level[i].zspan = (a - P[y]) + 1
          /\ i <= h[y] /\ update[i] = y /\ ~(i <= zlevel) =>
               /\ m.node[y].level[i].zforward = l.node[y].level[i].zforward
               /\ m.node[y].level[i].zspan = l.node[y].level[i].zspan + 1

\* Opening a place for x gives places again.
LEMMA InsertInPlace ==
  ASSUME NEW l, NEW s, NEW P, InPlace(l, s, P), head \in DOMAIN l.node, Nodes(l) \subseteq Addr,
         NEW x \in Addr \ Nodes(l), NEW a \in 0..l.len,
         NEW m, DOMAIN m.node = DOMAIN l.node \cup {x}, m.len = l.len + 1
  PROVE  InPlace(m, Opened(l, s, x, a), Shifted(l, P, x, a))
<1> DEFINE t == Opened(l, s, x, a)
           Q == Shifted(l, P, x, a)
<1>1. /\ l.len \in Nat /\ P[head] = 0 /\ P[Null] = l.len + 1
      /\ \A y \in Places(l) : P[y] \in 0..l.len + 1
      /\ \A p \in 0..l.len + 1 : s[p] \in Places(l) /\ P[s[p]] = p
      /\ \A y \in Places(l) : s[P[y]] = y
      /\ s[0] = head /\ s[l.len + 1] = Null
      /\ Null \in Places(l) /\ head \in Places(l)
  BY Numbers DEF InPlace, Places
<1>2. x \notin Places(l) /\ x # head /\ x # Null
  BY AddrAssumption DEF Nodes, Places
<1>3. Places(m) = Places(l) \cup {x} /\ m.len + 1 = l.len + 2 /\ m.len \in Nat
  BY <1>1 DEF Places
<1>4. /\ Q = [y \in Places(m) |-> IF y = x THEN a + 1 ELSE IF P[y] <= a THEN P[y] ELSE P[y] + 1]
      /\ t = [p \in 0..m.len + 1 |-> IF p <= a THEN s[p] ELSE IF p = a + 1 THEN x ELSE s[p - 1]]
  BY <1>3 DEF Shifted, Opened
<1> HIDE DEF t, Q
<1>5. \A y \in Places(m) : Q[y] = IF y = x THEN a + 1 ELSE IF P[y] <= a THEN P[y] ELSE P[y] + 1
  BY <1>4
<1>6. \A p \in 0..m.len + 1 : t[p] = IF p <= a THEN s[p] ELSE IF p = a + 1 THEN x ELSE s[p - 1]
  BY <1>4
<1>7. t \in [0..m.len + 1 -> Places(m)]
  <2> SUFFICES ASSUME NEW p \in 0..m.len + 1
               PROVE  (IF p <= a THEN s[p] ELSE IF p = a + 1 THEN x ELSE s[p - 1]) \in Places(m)
    BY <1>4
  <2>1. p <= a => p \in 0..l.len + 1
    BY <1>1
  <2>2. ~(p <= a) /\ p # a + 1 => p - 1 \in 0..l.len + 1
    BY <1>1, <1>3
  <2> QED
    BY <1>1, <1>3, <2>1, <2>2
<1>8. Q \in [Places(m) -> 0..m.len + 1]
  <2> SUFFICES ASSUME NEW y \in Places(m)
               PROVE  (IF y = x THEN a + 1 ELSE IF P[y] <= a THEN P[y] ELSE P[y] + 1) \in 0..m.len + 1
    BY <1>4
  <2>1. y # x => P[y] \in 0..l.len + 1
    BY <1>1, <1>3
  <2> QED
    BY <1>1, <1>3, <2>1
<1>9. t[0] = head /\ t[m.len + 1] = Null
  <2>1. 0 \in 0..m.len + 1 /\ 0 <= a /\ m.len + 1 \in 0..m.len + 1 /\ ~(m.len + 1 <= a)
        /\ m.len + 1 # a + 1 /\ (m.len + 1) - 1 = l.len + 1
    BY <1>1, <1>3
  <2> QED
    BY <1>1, <1>6, <2>1
<1>10. ASSUME NEW p \in 0..m.len + 1 PROVE Q[t[p]] = p
  <2>1. CASE p <= a
    <3>1. p \in 0..l.len + 1
      BY <1>1, <2>1
    <3>2. t[p] = s[p] /\ s[p] \in Places(l) /\ P[s[p]] = p
      BY <1>1, <1>6, <2>1, <3>1
    <3> QED
      BY <1>2, <1>3, <1>5, <2>1, <3>2
  <2>2. CASE p = a + 1
    <3>1. t[p] = x
      BY <1>6, <2>2
    <3> QED
      BY <1>3, <1>5, <2>2, <3>1
  <2>3. CASE ~(p <= a) /\ p # a + 1
    <3>1. p - 1 \in 0..l.len + 1 /\ ~(p - 1 <= a) /\ (p - 1) + 1 = p
      BY <1>1, <1>3, <2>3
    <3>2. t[p] = s[p - 1] /\ s[p - 1] \in Places(l) /\ P[s[p - 1]] = p - 1
      BY <1>1, <1>6, <2>3, <3>1
    <3> QED
      BY <1>2, <1>3, <1>5, <3>1, <3>2
  <2> QED
    BY <2>1, <2>2, <2>3
<1>11. ASSUME NEW y \in Places(m) PROVE t[Q[y]] = y
  <2>1. CASE y = x
    <3>1. Q[y] = a + 1 /\ a + 1 \in 0..m.len + 1 /\ ~(a + 1 <= a)
      BY <1>1, <1>3, <1>5, <2>1
    <3> QED
      BY <1>6, <2>1, <3>1
  <2>2. CASE y # x /\ P[y] <= a
    <3>1. y \in Places(l) /\ P[y] \in 0..m.len + 1
      BY <1>1, <1>3, <2>2
    <3> QED
      BY <1>1, <1>5, <1>6, <2>2, <3>1
  <2>3. CASE y # x /\ ~(P[y] <= a)
    <3>1. y \in Places(l) /\ P[y] \in 0..l.len + 1
      BY <1>1, <1>3, <2>3
    <3>2. P[y] + 1 \in 0..m.len + 1 /\ ~(P[y] + 1 <= a) /\ P[y] + 1 # a + 1 /\ (P[y] + 1) - 1 = P[y]
      BY <1>1, <1>3, <2>3, <3>1
    <3> QED
      BY <1>1, <1>5, <1>6, <2>3, <3>1, <3>2
  <2> QED
    BY <2>1, <2>2, <2>3
<1> QED
  BY <1>3, <1>7, <1>8, <1>9, <1>10, <1>11 DEF InPlace, t, Q

\* Led over x, every level still leads to its next place, and counts right
\* (Skiplist.cc:80-96).
LEMMA InsertLeveled ==
  ASSUME NEW l, NEW s, NEW P, NEW h, InPlace(l, s, P), Typed(l, h), Leveled(l, P, h),
         NEW x \in Addr \ Nodes(l), NEW update, Straddles(l, P, h, update),
         NEW zlevel \in 1..l.level,
         NEW m, DOMAIN m.node = DOMAIN l.node \cup {x}, m.len = l.len + 1, m.level = l.level,
         LinksOver(l, m, P, h, x, update, zlevel)
  PROVE  Leveled(m, Shifted(l, P, x, P[update[1]]), Heights(l, h, x, zlevel))
<1> DEFINE a == P[update[1]]
           Q == Shifted(l, P, x, a)
           g == Heights(l, h, x, zlevel)
<1>1. /\ l.len \in Nat /\ P[head] = 0 /\ P[Null] = l.len + 1
      /\ head \in DOMAIN l.node /\ Nodes(l) \subseteq Addr
      /\ \A y \in Places(l) : P[y] \in 0..l.len + 1 /\ h[y] \in Nat
      /\ \A y, v \in Places(l) : P[y] = P[v] => y = v
      /\ l.level \in Nat /\ MaxLevel \in Nat
  BY Numbers, MaxLevelAssumption DEF Typed
<1>2. x \notin Places(l) /\ x # head /\ x # Null /\ Null \in Places(l) /\ head \in Places(l)
  BY <1>1, AddrAssumption DEF Nodes, Places
<1>3. Nodes(m) = Nodes(l) \cup {x} /\ Nodes(l) \subseteq Places(l)
  BY <1>2 DEF Nodes, Places
<1>4. \A i \in 1..l.level :
        /\ update[i] \in DOMAIN l.node /\ update[i] \in Places(l)
        /\ i <= h[update[i]]
        /\ P[update[i]] <= a
        /\ a < P[l.node[update[i]].level[i].zforward]
  BY DEF Straddles, Places
<1>5. a \in Nat /\ 1 \in 1..l.level
  <2>1. 1 \in 1..l.level
    BY <1>1
  <2> QED
    BY <1>1, <1>4, <2>1
<1>6. /\ Q[x] = a + 1 /\ g[x] = zlevel
      /\ \A y \in Places(l) : /\ Q[y] = IF P[y] <= a THEN P[y] ELSE P[y] + 1
                              /\ g[y] = h[y]
  BY <1>2 DEF Shifted, Heights
<1>7. \A y \in DOMAIN l.node, i \in 1..l.level : i <= h[y] =>
        /\ l.node[y].level[i].zforward \in Places(l)
        /\ l.node[y].level[i].zforward = Null \/ l.node[y].level[i].zforward \in Nodes(l)
        /\ Leads(l, P, h, i, y)
  <2> SUFFICES ASSUME NEW y \in DOMAIN l.node, NEW i \in 1..l.level, i <= h[y]
               PROVE  /\ l.node[y].level[i].zforward \in Nodes(l) \cup {Null}
                      /\ Leads(l, P, h, i, y)
    BY <1>2, <1>3
  <2>1. l.node[y].level \in Seq(Link(l)) /\ Len(l.node[y].level) \in h[y]..MaxLevel /\ h[y] \in Nat
    BY <1>1 DEF Typed, Places
  <2>2. i \in 1..Len(l.node[y].level)
    BY <1>1, <2>1
  <2>3. l.node[y].level[i] \in Link(l)
    BY <2>1, <2>2, ElementOfSeq
  <2> QED
    BY <2>3 DEF Link, Leveled
<1> HIDE DEF a, Q, g
\* The new node.
<1>8. ASSUME NEW i \in 1..l.level, i <= zlevel
      PROVE  Leads(m, Q, g, i, x)
  <2> DEFINE u == update[i]
             n == l.node[u].level[i].zforward
  <2>1. /\ i \in 1..zlevel
        /\ m.node[x].level[i].zforward = n
        /\ m.node[x].level[i].zspan = l.node[u].level[i].zspan - (a - P[u])
    BY <1>8 DEF LinksOver, a
  <2>2. /\ u \in DOMAIN l.node /\ u \in Places(l) /\ P[u] <= a /\ a < P[n]
        /\ Leads(l, P, h, i, u) /\ n \in Places(l)
    BY <1>4, <1>7
  <2> HIDE DEF u
  <2>3. /\ i <= h[n]
        /\ \A y \in Nodes(l) : P[u] < P[y] /\ P[y] < P[n] => h[y] < i
        /\ l.node[u].level[i].zspan = (IF n = Null THEN l.len ELSE P[n]) - P[u]
    BY <2>2 DEF Leads
  <2> HIDE DEF n
  <2>4. P[u] \in Int /\ P[n] \in Int
    BY <1>1, <2>2
  <2>5. Q[n] = P[n] + 1 /\ g[n] = h[n]
    BY <1>6, <2>2, <2>4, <1>5
  <2>6. ASSUME NEW y \in Nodes(m), Q[x] < Q[y], Q[y] < Q[n]
        PROVE  g[y] < i
    <3>1. CASE y = x
      BY <1>5, <1>6, <2>6, <3>1
    <3>2. CASE y # x
      <4>1. y \in Nodes(l) /\ y \in Places(l) /\ P[y] \in Int
        BY <1>1, <1>3, <3>2
      <4>2. P[u] < P[y] /\ P[y] < P[n]
        BY <1>5, <1>6, <2>2, <2>4, <2>5, <2>6, <4>1
      <4> QED
        BY <1>6, <2>3, <4>1, <4>2
    <3> QED
      BY <3>1, <3>2
  <2>7. m.node[x].level[i].zspan = (IF n = Null THEN m.len ELSE Q[n]) - Q[x]
    BY <1>1, <1>5, <1>6, <2>1, <2>3, <2>4, <2>5
  <2>8. Q[x] < Q[n] /\ i <= g[n]
    BY <1>5, <1>6, <2>2, <2>3, <2>4, <2>5
  <2> QED
    BY <2>1, <2>6, <2>7, <2>8 DEF Leads
\* The nodes that lead to it, or over it.
<1>9. ASSUME NEW i \in 1..l.level, NEW y \in DOMAIN l.node, i <= h[y], update[i] = y
      PROVE  Leads(m, Q, g, i, y)
  <2> DEFINE n == l.node[y].level[i].zforward
  <2>1. P[y] <= a /\ a < P[n] /\ Leads(l, P, h, i, y) /\ n \in Places(l) /\ y \in Places(l)
    BY <1>4, <1>7, <1>9
  <2>2. /\ i <= h[n]
        /\ \A v \in Nodes(l) : P[y] < P[v] /\ P[v] < P[n] => h[v] < i
        /\ l.node[y].level[i].zspan = (IF n = Null THEN l.len ELSE P[n]) - P[y]
    BY <2>1 DEF Leads
  <2>3. P[y] \in Int /\ P[n] \in Int
    BY <1>1, <2>1
  <2>4. Q[y] = P[y] /\ Q[n] = P[n] + 1 /\ g[n] = h[n]
    BY <1>5, <1>6, <2>1, <2>3
  <2>5. CASE i <= zlevel
    <3>1. m.node[y].level[i].zforward = x /\ m.node[y].level[i].zspan = (a - P[y]) + 1
      BY <1>9, <2>5 DEF LinksOver, a
    <3>2. ASSUME NEW v \in Nodes(m), Q[y] < Q[v], Q[v] < Q[x]
          PROVE  g[v] < i
      <4>1. v # x /\ v \in Nodes(l) /\ v \in Places(l) /\ P[v] \in Int
        BY <1>1, <1>3, <1>5, <1>6, <3>2
      <4>2. P[y] < P[v] /\ P[v] < P[n]
        BY <1>5, <1>6, <2>1, <2>3, <2>4, <3>2, <4>1
      <4> QED
        BY <1>6, <2>2, <4>1, <4>2
    <3>3. Q[y] < Q[x] /\ i <= g[x] /\ (a - P[y]) + 1 = Q[x] - Q[y] /\ x # Null
      BY <1>2, <1>5, <1>6, <2>1, <2>3, <2>4, <2>5
    <3> QED
      BY <3>1, <3>2, <3>3 DEF Leads
  <2>6. CASE ~(i <= zlevel)
    <3>1. m.node[y].level[i].zforward = n /\ m.node[y].level[i].zspan = l.node[y].level[i].zspan + 1
      BY <1>9, <2>6 DEF LinksOver
    <3> HIDE DEF n
    <3>2. ASSUME NEW v \in Nodes(m), Q[y] < Q[v], Q[v] < Q[n]
          PROVE  g[v] < i
      <4>1. CASE v = x
        BY <1>1, <1>6, <2>6, <4>1
      <4>2. CASE v # x
        <5>1. v \in Nodes(l) /\ v \in Places(l) /\ P[v] \in Int
          BY <1>1, <1>3, <4>2
        <5>2. P[y] < P[v] /\ P[v] < P[n]
          BY <1>5, <1>6, <2>1, <2>3, <2>4, <3>2, <5>1
        <5> QED
          BY <1>6, <2>2, <5>1, <5>2
      <4> QED
        BY <4>1, <4>2
    <3>3. l.node[y].level[i].zspan + 1 = (IF n = Null THEN m.len ELSE Q[n]) - Q[y]
      BY <1>1, <2>2, <2>3, <2>4
    <3>4. Q[y] < Q[n] /\ i <= g[n]
      BY <1>5, <2>1, <2>2, <2>3, <2>4
    <3> QED
      BY <3>1, <3>2, <3>3, <3>4 DEF Leads
  <2> QED
    BY <2>5, <2>6
\* The others.
<1>10. ASSUME NEW i \in 1..l.level, NEW y \in DOMAIN l.node, i <= h[y], update[i] # y
       PROVE  Leads(m, Q, g, i, y)
  <2> DEFINE n == l.node[y].level[i].zforward
             u == update[i]
             w == l.node[u].level[i].zforward
  <2>1. Leads(l, P, h, i, y) /\ n \in Places(l) /\ y \in Places(l) /\ (n = Null \/ n \in Nodes(l))
    BY <1>7, <1>10 DEF Places
  <2>2. /\ i <= h[n] /\ P[y] < P[n]
        /\ \A v \in Nodes(l) : P[y] < P[v] /\ P[v] < P[n] => h[v] < i
        /\ l.node[y].level[i].zspan = (IF n = Null THEN l.len ELSE P[n]) - P[y]
    BY <2>1 DEF Leads
  <2>3. /\ u \in DOMAIN l.node /\ u \in Places(l) /\ i <= h[u] /\ P[u] <= a /\ a < P[w] /\ w \in Places(l)
        /\ Leads(l, P, h, i, u)
    BY <1>4, <1>7
  <2>4. m.node[y].level[i] = l.node[y].level[i]
    BY <1>10 DEF LinksOver
  <2>5. /\ P[y] \in Int /\ P[n] \in Int /\ P[u] \in Int /\ P[w] \in Int
        /\ h[y] \in Int /\ h[u] \in Int /\ i \in Int
    BY <1>1, <2>1, <2>3
  <2>6. P[y] > a \/ P[n] <= a
    <3>1. P[y] # P[u]
      BY <1>1, <1>10, <2>1, <2>3
    <3>2. CASE P[y] < P[u]
      <4>1. u \in Nodes(l)
        <5>1. u # head
          BY <1>1, <2>1, <2>5, <3>2
        <5> QED
          BY <2>3, <5>1 DEF Nodes
      <4>2. ~(P[u] < P[n])
        <5>1. P[u] < P[n] => h[u] < i
          BY <2>2, <3>2, <4>1
        <5>2. i <= h[u] /\ h[u] \in Int /\ i \in Int
          BY <2>3, <2>5
        <5> QED
          BY <5>1, <5>2
      <4> QED
        BY <1>5, <2>3, <2>5, <4>2
    <3>3. CASE P[u] < P[y]
      <4>1. y \in Nodes(l)
        <5>1. y # head
          BY <1>1, <2>3, <2>5, <3>3
        <5> QED
          BY <1>10, <5>1 DEF Nodes
      <4>2. \A v \in Nodes(l) : P[u] < P[v] /\ P[v] < P[w] => h[v] < i
        BY <2>3 DEF Leads
      <4>3. ~(h[y] < i)
        BY <1>10, <2>5
      <4>4. ~(P[y] < P[w])
        BY <3>3, <4>1, <4>2, <4>3
      <4> QED
        BY <1>5, <2>3, <2>5, <4>4
    <3> QED
      BY <2>5, <3>1, <3>2, <3>3
  <2> HIDE DEF u, w
  <2>7. ASSUME NEW v \in Nodes(m), Q[y] < Q[v], Q[v] < Q[n]
        PROVE  g[v] < i
    <3>1. CASE v = x
      BY <1>5, <1>6, <2>1, <2>5, <2>6, <2>7, <3>1
    <3>2. CASE v # x
      <4>1. v \in Nodes(l) /\ v \in Places(l) /\ P[v] \in Int
        BY <1>1, <1>3, <3>2
      <4> HIDE DEF n
      <4>2. P[y] < P[v] /\ P[v] < P[n]
        BY <1>5, <1>6, <2>1, <2>5, <2>7, <4>1
      <4> QED
        BY <1>6, <2>2, <4>1, <4>2
    <3> QED
      BY <3>1, <3>2
  <2>8. n = Null => P[n] > a
    <3>1. update[1] \in DOMAIN l.node /\ Null \notin DOMAIN l.node /\ update[1] \in Places(l)
      BY <1>1, <1>4, <1>5, AddrAssumption DEF Nodes
    <3>2. P[update[1]] # P[Null] /\ P[update[1]] \in 0..l.len + 1
      BY <1>1, <1>2, <3>1
    <3> QED
      BY <1>1, <3>2 DEF a
  <2> HIDE DEF n
  <2>9. l.node[y].level[i].zspan = (IF n = Null THEN m.len ELSE Q[n]) - Q[y]
    <3>1. CASE P[y] > a
      <4>1. Q[y] = P[y] + 1 /\ Q[n] = P[n] + 1
        BY <1>5, <1>6, <2>1, <2>2, <2>5, <3>1
      <4> QED
        BY <1>1, <2>2, <2>5, <4>1
    <3>2. CASE ~(P[y] > a)
      <4>1. Q[y] = P[y] /\ Q[n] = P[n] /\ n # Null
        BY <1>5, <1>6, <2>1, <2>5, <2>6, <2>8, <3>2
      <4> QED
        BY <2>2, <4>1
    <3> QED
      BY <3>1, <3>2
  <2>10. Q[y] < Q[n] /\ i <= g[n]
    BY <1>5, <1>6, <2>1, <2>2, <2>5
  <2> QED
    BY <2>4, <2>7, <2>9, <2>10 DEF Leads, n
<1>11. \A y \in DOMAIN m.node, i \in 1..m.level : i <= g[y] => Leads(m, Q, g, i, y)
  <2> SUFFICES ASSUME NEW y \in DOMAIN m.node, NEW i \in 1..m.level, i <= g[y]
               PROVE  Leads(m, Q, g, i, y)
    OBVIOUS
  <2>1. CASE y = x
    BY <1>6, <1>8, <2>1
  <2>2. CASE y # x
    <3>1. y \in DOMAIN l.node /\ y \in Places(l) /\ g[y] = h[y]
      BY <1>6, <2>2 DEF Places
    <3> QED
      BY <1>9, <1>10, <3>1
  <2> QED
    BY <2>1, <2>2
<1> QED
  BY <1>11 DEF Leveled, a, Q, g

\* x is linked backwards, too, and may become the tail (Skiplist.cc:98-106).
LEMMA InsertMirrored ==
  ASSUME NEW l, NEW s, NEW P, InPlace(l, s, P), head \in DOMAIN l.node, Nodes(l) \subseteq Addr,
         Mirrored(l, s, P), NEW x \in Addr \ Nodes(l), NEW a \in 0..l.len,
         NEW m, DOMAIN m.node = DOMAIN l.node \cup {x}, m.len = l.len + 1,
         m.tail = IF s[a + 1] = Null THEN x ELSE l.tail,
         m.node[x].backward = IF a = 0 THEN Null ELSE s[a],
         \A y \in DOMAIN l.node : m.node[y].backward = IF y = s[a + 1] THEN x ELSE l.node[y].backward
  PROVE  Mirrored(m, Opened(l, s, x, a), Shifted(l, P, x, a))
<1> DEFINE t == Opened(l, s, x, a)
           Q == Shifted(l, P, x, a)
<1>1. /\ l.len \in Nat /\ P[head] = 0 /\ P[Null] = l.len + 1 /\ head # Null
      /\ \A y \in Nodes(l) : P[y] \in 1..l.len
      /\ \A y \in Places(l) : P[y] \in 0..l.len + 1
      /\ \A p \in 0..l.len + 1 : s[p] \in Places(l) /\ P[s[p]] = p
      /\ \A y \in Places(l) : s[P[y]] = y
      /\ s[0] = head /\ s[l.len + 1] = Null
  <2>1. /\ l.len \in Nat /\ P[head] = 0 /\ P[Null] = l.len + 1 /\ head # Null
        /\ \A y \in Nodes(l) : P[y] \in 1..l.len
        /\ \A y \in Places(l) : P[y] \in 0..l.len + 1
    BY Numbers
  <2>2. /\ \A p \in 0..l.len + 1 : s[p] \in Places(l) /\ P[s[p]] = p
        /\ \A y \in Places(l) : s[P[y]] = y
        /\ s[0] = head /\ s[l.len + 1] = Null
    BY DEF InPlace
  <2> QED
    BY <2>1, <2>2
<1>2. /\ x \notin Places(l) /\ x # head /\ x # Null /\ Nodes(m) = Nodes(l) \cup {x}
      /\ Nodes(l) \subseteq Places(l) /\ Null \in Places(l) /\ head \in Places(l)
      /\ a + 1 \in 0..l.len + 1
  BY <1>1, AddrAssumption DEF Nodes, Places
<1>3. /\ Q[x] = a + 1
      /\ \A y \in Places(l) : Q[y] = IF P[y] <= a THEN P[y] ELSE P[y] + 1
  BY <1>2 DEF Shifted
<1>4. \A p \in 0..l.len + 2 : t[p] = IF p <= a THEN s[p] ELSE IF p = a + 1 THEN x ELSE s[p - 1]
  BY DEF Opened
<1> HIDE DEF t, Q
<1>5. m.tail = IF m.len = 0 THEN Null ELSE t[m.len]
  <2>1. m.len # 0 /\ m.len \in 0..l.len + 2 /\ ~(m.len <= a) /\ m.len - 1 = l.len
    BY <1>1
  <2>2. CASE a = l.len
    <3>0. m.len = a + 1 /\ s[a + 1] = Null
      BY <1>1, <2>2
    <3>1. t[m.len] = x
      BY <1>4, <2>1, <3>0
    <3> QED
      BY <2>1, <3>0, <3>1
  <2>3. CASE a # l.len
    <3>1. P[s[a + 1]] = a + 1
      BY <1>1, <1>2
    <3>2. s[a + 1] # Null /\ m.len # a + 1 /\ l.len # 0
      BY <1>1, <1>2, <2>3, <3>1
    <3>3. t[m.len] = s[l.len]
      BY <1>4, <2>1, <3>2
    <3> QED
      BY <2>1, <3>2, <3>3 DEF Mirrored
  <2> QED
    BY <2>2, <2>3
<1>6. m.node[head].backward = Null
  <2>1. s[a + 1] # head
    <3>1. P[s[a + 1]] = a + 1
      BY <1>1, <1>2
    <3> QED
      BY <1>1, <3>1
  <2> QED
    BY <2>1 DEF Mirrored
<1>7. ASSUME NEW y \in Nodes(m)
      PROVE  m.node[y].backward = IF Q[y] = 1 THEN Null ELSE t[Q[y] - 1]
  <2>1. CASE y = x
    <3>1. Q[y] = a + 1 /\ (Q[y] = 1 <=> a = 0) /\ Q[y] - 1 = a /\ a \in 0..l.len + 2
      BY <1>1, <1>3, <2>1
    <3>2. t[a] = s[a]
      BY <1>4, <3>1
    <3> QED
      BY <2>1, <3>1, <3>2
  <2>2. CASE y # x
    <3>1. y \in Nodes(l) /\ y \in DOMAIN l.node /\ y \in Places(l) /\ P[y] \in 1..l.len
      BY <1>1, <1>2, <2>2 DEF Nodes
    <3>2. CASE y = s[a + 1]
      <4>1. P[y] = a + 1 /\ m.node[y].backward = x
        BY <1>1, <1>2, <3>1, <3>2
      <4>2. Q[y] = a + 2 /\ Q[y] # 1 /\ Q[y] - 1 = a + 1 /\ a + 1 \in 0..l.len + 2 /\ ~(a + 1 <= a)
        BY <1>1, <1>3, <3>1, <4>1
      <4>3. t[a + 1] = x
        BY <1>4, <4>2
      <4> QED
        BY <4>1, <4>2, <4>3
    <3>3. CASE y # s[a + 1]
      <4>1. m.node[y].backward = IF P[y] = 1 THEN Null ELSE s[P[y] - 1]
        BY <3>1, <3>3 DEF Mirrored
      <4>2. P[y] # a + 1
        BY <1>1, <3>1, <3>3
      <4>3. CASE P[y] <= a
        <5>1. Q[y] = P[y] /\ P[y] - 1 \in 0..l.len + 2 /\ P[y] - 1 <= a
          BY <1>1, <1>3, <3>1, <4>3
        <5>2. t[P[y] - 1] = s[P[y] - 1]
          BY <1>4, <5>1
        <5> QED
          BY <4>1, <5>1, <5>2
      <4>4. CASE ~(P[y] <= a)
        <5>1. /\ Q[y] = P[y] + 1 /\ Q[y] - 1 = P[y] /\ Q[y] # 1 /\ P[y] # 1
              /\ P[y] \in 0..l.len + 2
          BY <1>1, <1>3, <3>1, <4>2, <4>4
        <5>2. t[P[y]] = s[P[y] - 1]
          BY <1>4, <4>2, <4>4, <5>1
        <5> QED
          BY <4>1, <5>1, <5>2
      <4> QED
        BY <4>3, <4>4
    <3> QED
      BY <3>2, <3>3
  <2> QED
    BY <2>1, <2>2
<1> QED
  BY <1>5, <1>6, <1>7 DEF Mirrored, t, Q

\* The scores still ascend.
LEMMA InsertAscends ==
  ASSUME NEW l, NEW s, NEW P, InPlace(l, s, P), head \in DOMAIN l.node, Nodes(l) \subseteq Addr,
         Ascends(l, P), NEW x \in Addr \ Nodes(l), NEW a \in 0..l.len,
         \A y \in Nodes(l) : l.node[y].score \in Int,
         NEW m, DOMAIN m.node = DOMAIN l.node \cup {x}, m.node[x].score \in Int,
         \A y \in DOMAIN l.node : m.node[y].score = l.node[y].score,
         a # 0 => l.node[s[a]].score <= m.node[x].score,
         a # l.len => m.node[x].score <= l.node[s[a + 1]].score
  PROVE  Ascends(m, Shifted(l, P, x, a))
<1> DEFINE Q == Shifted(l, P, x, a)
           score(y) == m.node[y].score
<1>1. /\ l.len \in Nat
      /\ \A y \in Nodes(l) : P[y] \in 1..l.len
      /\ \A p \in 1..l.len : s[p] \in Nodes(l) /\ P[s[p]] = p
      /\ \A y \in Nodes(l) : s[P[y]] = y
  <2>1. /\ \A p \in 0..l.len + 1 : P[s[p]] = p
        /\ \A y \in Places(l) : s[P[y]] = y
        /\ l.len \in Nat
    BY DEF InPlace
  <2>2. 1..l.len \subseteq 0..l.len + 1
    BY <2>1
  <2>3. Nodes(l) \subseteq Places(l)
    BY DEF Nodes, Places
  <2>4. /\ \A y \in Nodes(l) : P[y] \in 1..l.len
        /\ \A p \in 1..l.len : s[p] \in Nodes(l)
    BY Numbers
  <2> QED
    BY <2>1, <2>2, <2>3, <2>4
<1>2. /\ x \notin Places(l) /\ Nodes(m) = Nodes(l) \cup {x}
      /\ Nodes(l) \subseteq Places(l)
  BY AddrAssumption DEF Nodes, Places
<1>3. /\ Q[x] = a + 1
      /\ \A y \in Nodes(l) : Q[y] = IF P[y] <= a THEN P[y] ELSE P[y] + 1
  BY <1>2 DEF Shifted
<1>4. \A y \in Nodes(l) : score(y) \in Int /\ score(y) = l.node[y].score
  BY DEF Nodes
<1>5. ASSUME NEW y \in Nodes(l), P[y] <= a
      PROVE  score(y) <= score(x)
  <2>1. a \in 1..l.len /\ s[a] \in Nodes(l) /\ P[s[a]] = a
    BY <1>1, <1>5
  <2>2. score(s[a]) <= score(x)
    BY <1>4, <2>1
  <2>3. y = s[a] \/ score(y) <= score(s[a])
    <3>1. P[y] = a => y = s[a]
      BY <1>1
    <3>2. P[y] < P[s[a]] => score(y) <= score(s[a])
      BY <1>4, <2>1 DEF Ascends
    <3> QED
      BY <1>1, <1>5, <2>1, <3>1, <3>2
  <2> QED
    BY <1>4, <2>1, <2>2, <2>3
<1>6. ASSUME NEW y \in Nodes(l), ~(P[y] <= a)
      PROVE  score(x) <= score(y)
  <2>0. P[y] \in 1..l.len
    BY <1>1
  <2>1. a + 1 \in 1..l.len /\ s[a + 1] \in Nodes(l) /\ P[s[a + 1]] = a + 1 /\ a # l.len
    BY <1>1, <1>6, <2>0
  <2>2. score(x) <= score(s[a + 1])
    BY <1>4, <2>1
  <2>3. y = s[a + 1] \/ score(s[a + 1]) <= score(y)
    <3>1. P[y] = a + 1 => y = s[a + 1]
      BY <1>1
    <3>2. P[s[a + 1]] < P[y] => score(s[a + 1]) <= score(y)
      BY <1>4, <2>1 DEF Ascends
    <3> QED
      BY <1>1, <1>6, <2>0, <2>1, <3>1, <3>2
  <2> QED
    BY <1>4, <2>1, <2>2, <2>3
<1> HIDE DEF Q, score
<1>7. ASSUME NEW y \in Nodes(m), NEW v \in Nodes(m), Q[y] < Q[v]
      PROVE  score(y) <= score(v)
  <2>1. CASE y = x /\ v = x
    BY <1>3, <1>7, <2>1
  <2>2. CASE y = x /\ v # x
    <3>1. v \in Nodes(l) /\ P[v] \in 1..l.len
      BY <1>1, <1>2, <2>2
    <3> QED
      BY <1>3, <1>6, <1>7, <2>2, <3>1
  <2>3. CASE y # x /\ v = x
    <3>1. y \in Nodes(l) /\ P[y] \in 1..l.len
      BY <1>1, <1>2, <2>3
    <3> QED
      BY <1>3, <1>5, <1>7, <2>3, <3>1
  <2>4. CASE y # x /\ v # x
    <3>1. y \in Nodes(l) /\ P[y] \in 1..l.len /\ v \in Nodes(l) /\ P[v] \in 1..l.len
      BY <1>1, <1>2, <2>4
    <3>2. P[y] < P[v]
      BY <1>3, <1>7, <3>1
    <3> QED
      BY <1>4, <3>1, <3>2 DEF Ascends
  <2> QED
    BY <2>1, <2>2, <2>3, <2>4
<1> QED
  BY <1>7 DEF Ascends, Q, score

\* What opening levels does to the nodes.
LEMMA RaiseNodes ==
  ASSUME NEW s, NEW P, NEW h, Arranged(z, s, P, h), NEW zlevel \in 1..MaxLevel
  PROVE  /\ DOMAIN Raised(zlevel) = DOMAIN z.node
         /\ \A y \in Nodes(z) : Raised(zlevel)[y] = z.node[y]
         /\ Raised(zlevel)[head].obj = z.node[head].obj
         /\ Raised(zlevel)[head].score = z.node[head].score
         /\ Raised(zlevel)[head].backward = z.node[head].backward
         /\ Raised(zlevel)[head] =
              [obj |-> Raised(zlevel)[head].obj, score |-> Raised(zlevel)[head].score,
               backward |-> Raised(zlevel)[head].backward, level |-> Raised(zlevel)[head].level]
         /\ Raised(zlevel)[head].level \in Seq(Link(z))
         /\ Len(Raised(zlevel)[head].level) = MaxLevel
         /\ \A i \in 1..z.level : Raised(zlevel)[head].level[i] = z.node[head].level[i]
         /\ \A i \in 1..MaxLevel : i > z.level =>
              /\ Raised(zlevel)[head].level[i].zforward = Null
              /\ i <= zlevel => Raised(zlevel)[head].level[i].zspan = z.len
<1> DEFINE node == Raised(zlevel)
           old == z.node[head].level
           new == [i \in 1..MaxLevel |-> IF i \in z.level + 1..zlevel
                                          THEN [old[i] EXCEPT !.zspan = z.len] ELSE old[i]]
<1>1. /\ head \in DOMAIN z.node /\ z.level \in 1..MaxLevel /\ h[head] = MaxLevel /\ MaxLevel \in Nat
      /\ z.node[head] = [obj |-> z.node[head].obj, score |-> z.node[head].score,
                         backward |-> z.node[head].backward, level |-> old]
      /\ old \in Seq(Link(z)) /\ Len(old) \in MaxLevel..MaxLevel
      /\ \A i \in 1..MaxLevel : i > z.level => old[i].zforward = Null
      /\ z.len \in Nat
  BY MaxLevelAssumption DEF Arranged, Typed, InPlace
<1>2. node = [z.node EXCEPT ![head].level = new]
  BY DEF Raised
<1>3. \A i \in 1..MaxLevel : old[i] \in Link(z)
  BY <1>1, ElementOfSeq
<1>4. \A i \in 1..MaxLevel : new[i] = IF i \in z.level + 1..zlevel
                                       THEN [old[i] EXCEPT !.zspan = z.len] ELSE old[i]
  OBVIOUS
<1> HIDE DEF node
<1>5. new \in [1..MaxLevel -> Link(z)]
  <2> SUFFICES ASSUME NEW i \in 1..MaxLevel
               PROVE  (IF i \in z.level + 1..zlevel THEN [old[i] EXCEPT !.zspan = z.len] ELSE old[i])
                        \in Link(z)
    OBVIOUS
  <2> QED
    BY <1>1, <1>3 DEF Link
<1> HIDE DEF new, old
<1>6. new \in Seq(Link(z)) /\ Len(new) = MaxLevel
  BY <1>1, <1>5, FunctionIsSeq
<1>7. DOMAIN node = DOMAIN z.node /\ \A y \in Nodes(z) : node[y] = z.node[y]
  BY <1>2 DEF Nodes
<1>8. node[head] = [z.node[head] EXCEPT !.level = new]
  BY <1>1, <1>2
<1>9. node[head] = [obj |-> z.node[head].obj, score |-> z.node[head].score,
                    backward |-> z.node[head].backward, level |-> new]
  BY <1>1, <1>8
<1>10. \A i \in 1..z.level : new[i] = old[i]
  <2> SUFFICES ASSUME NEW i \in 1..z.level PROVE new[i] = old[i]
    OBVIOUS
  <2>1. i \in 1..MaxLevel /\ i \notin z.level + 1..zlevel
    BY <1>1
  <2> QED
    BY <1>4, <2>1
<1>11. ASSUME NEW i \in 1..MaxLevel, i > z.level
       PROVE  new[i].zforward = Null /\ (i <= zlevel => new[i].zspan = z.len)
  <2>1. i <= zlevel <=> i \in z.level + 1..zlevel
    BY <1>1, <1>11
  <2>2. old[i].zforward = Null /\ old[i] \in Link(z)
    BY <1>1, <1>3, <1>11
  <2>3. [old[i] EXCEPT !.zspan = z.len].zforward = Null /\ [old[i] EXCEPT !.zspan = z.len].zspan = z.len
    BY <2>2 DEF Link
  <2> QED
    BY <1>4, <2>1, <2>2, <2>3
<1> QED
  BY <1>6, <1>7, <1>9, <1>10, <1>11 DEF node, old

\* It stays arranged, but for the new levels being empty.
LEMMA RaiseKeeps ==
  ASSUME NEW s, NEW P, NEW h, Arranged(z, s, P, h), NEW zlevel \in 1..MaxLevel
  PROVE  /\ InPlace(Raise(zlevel), s, P)
         /\ Typed(Raise(zlevel), h)
         /\ Leveled(Raise(zlevel), P, h)
         /\ Mirrored(Raise(zlevel), s, P)
         /\ Ascends(Raise(zlevel), P)
         /\ Nodes(Raise(zlevel)) = Nodes(z)
         /\ Places(Raise(zlevel)) = Places(z)
<1> DEFINE l == Raise(zlevel)
<1>1. /\ l.node = Raised(zlevel) /\ l.tail = z.tail /\ l.len = z.len
      /\ l.level = IF zlevel > z.level THEN zlevel ELSE z.level
  BY DEF Raise
<1> HIDE DEF l
<1>2. /\ DOMAIN l.node = DOMAIN z.node
      /\ \A y \in Nodes(z) : l.node[y] = z.node[y]
      /\ l.node[head].obj = z.node[head].obj
      /\ l.node[head].score = z.node[head].score
      /\ l.node[head].backward = z.node[head].backward
      /\ l.node[head] = [obj |-> l.node[head].obj, score |-> l.node[head].score,
                         backward |-> l.node[head].backward, level |-> l.node[head].level]
      /\ l.node[head].level \in Seq(Link(z))
      /\ Len(l.node[head].level) = MaxLevel
      /\ \A i \in 1..z.level : l.node[head].level[i] = z.node[head].level[i]
      /\ \A i \in 1..MaxLevel : i > z.level =>
           /\ l.node[head].level[i].zforward = Null
           /\ i <= zlevel => l.node[head].level[i].zspan = z.len
  BY <1>1, RaiseNodes
<1>3. Nodes(l) = Nodes(z) /\ Places(l) = Places(z) /\ Link(l) = Link(z)
  BY <1>2 DEF Nodes, Places, Link
<1>4. /\ z.level \in 1..MaxLevel /\ MaxLevel \in Nat /\ l.level \in 1..MaxLevel /\ z.level <= l.level
      /\ z.len \in Nat
      /\ head \in DOMAIN z.node /\ Nodes(z) \subseteq Addr /\ Null \notin DOMAIN z.node
  BY <1>1, MaxLevelAssumption, AddrAssumption DEF Arranged, Typed, InPlace, Nodes
<1>5. InPlace(l, s, P)
  BY <1>1, <1>3 DEF Arranged, InPlace
<1>6. Typed(l, h)
  <2>1. /\ h \in [Places(l) -> 1..MaxLevel]
        /\ h[head] = MaxLevel /\ h[Null] = MaxLevel
    BY <1>3 DEF Arranged, Typed
  <2>2. ASSUME NEW x \in DOMAIN l.node
        PROVE  /\ l.node[x] = [obj |-> l.node[x].obj, score |-> l.node[x].score,
                               backward |-> l.node[x].backward, level |-> l.node[x].level]
               /\ l.node[x].level \in Seq(Link(l))
               /\ Len(l.node[x].level) \in h[x]..MaxLevel
    <3>1. CASE x = head
      BY <1>2, <1>3, <1>4, <2>1, <3>1
    <3>2. CASE x # head
      <4>1. x \in Nodes(z) /\ l.node[x] = z.node[x] /\ x \in DOMAIN z.node
        BY <1>2, <3>2 DEF Nodes
      <4> QED
        BY <1>3, <4>1 DEF Arranged, Typed
    <3> QED
      BY <3>1, <3>2
  <2>3. ASSUME NEW x \in Nodes(l)
        PROVE  /\ l.node[x].obj \in Texts /\ l.node[x].score \in Scores
               /\ h[x] <= l.level
               /\ \A i \in 1..Len(l.node[x].level) : i > h[x] => l.node[x].level[i].zforward = Null
    <3>1. l.node[x] = z.node[x] /\ x \in Nodes(z) /\ h[x] \in 1..MaxLevel
      BY <1>2, <1>3, <2>1 DEF Places, Nodes
    <3>2. h[x] <= z.level
      BY <3>1 DEF Arranged, Typed
    <3>3. h[x] <= l.level
      BY <1>4, <3>1, <3>2
    <3> QED
      BY <3>1, <3>3 DEF Arranged, Typed
  <2>4. \A i \in 1..MaxLevel : i > l.level => l.node[head].level[i].zforward = Null
    BY <1>2, <1>4
  <2> QED
    BY <1>2, <1>3, <1>4, <2>1, <2>2, <2>3, <2>4 DEF Typed
<1>7. Leveled(l, P, h)
  <2> SUFFICES ASSUME NEW x \in DOMAIN l.node, NEW i \in 1..l.level, i <= h[x]
               PROVE  Leads(l, P, h, i, x)
    BY DEF Leveled
  <2>1. CASE i <= z.level
    <3>1. i \in 1..z.level
      BY <1>4, <2>1
    <3>2. l.node[x].level[i] = z.node[x].level[i]
      BY <1>2, <3>1 DEF Nodes
    <3>3. Leads(z, P, h, i, x)
      BY <1>2, <3>1 DEF Arranged, Leveled
    <3> QED
      BY <1>1, <1>3, <3>2, <3>3 DEF Leads
  <2>2. CASE ~(i <= z.level)
    <3>1. \A y \in Nodes(z) : h[y] \in Nat /\ h[y] <= z.level
      BY DEF Arranged, Typed, Nodes, Places
    <3>2. x = head
      <4>1. x # head => x \in Nodes(z)
        BY <1>2 DEF Nodes
      <4> QED
        BY <1>4, <2>2, <3>1, <4>1
    <3>3. i \in 1..MaxLevel /\ i > z.level /\ i <= zlevel
      BY <1>1, <1>4, <2>2
    <3>4. l.node[x].level[i].zforward = Null /\ l.node[x].level[i].zspan = z.len
      BY <1>2, <3>2, <3>3
    <3>5. P[head] = 0 /\ P[Null] = z.len + 1
      BY <1>4, Numbers DEF Arranged
    <3>6. i <= h[Null]
      BY <3>3 DEF Arranged, Typed
    <3>7. \A y \in Nodes(l) : h[y] < i
      BY <1>3, <1>4, <3>1, <3>3
    <3> QED
      BY <1>1, <1>4, <3>2, <3>4, <3>5, <3>6, <3>7 DEF Leads
  <2> QED
    BY <2>1, <2>2
<1>8. Mirrored(l, s, P)
  BY <1>1, <1>2, <1>3 DEF Arranged, Mirrored
<1>9. Ascends(l, P)
  BY <1>2, <1>3 DEF Arranged, Ascends
<1> QED
  BY <1>3, <1>5, <1>6, <1>7, <1>8, <1>9 DEF l

\* The lowest level leads from each place to the next.
LEMMA NextPlace ==
  ASSUME NEW l, NEW s, NEW P, NEW h, InPlace(l, s, P), Typed(l, h), Leveled(l, P, h),
         NEW y \in DOMAIN l.node
  PROVE  /\ P[y] \in 0..l.len
         /\ l.node[y].level[1].zforward = s[P[y] + 1]
         /\ l.node[y].level[1].zforward \in Nodes(l) \cup {Null}
<1> DEFINE n == l.node[y].level[1].zforward
<1>1. /\ l.len \in Nat /\ l.level \in 1..MaxLevel /\ MaxLevel \in Nat
      /\ head \in DOMAIN l.node /\ Nodes(l) \subseteq Addr
      /\ y \in Places(l) /\ Null \in Places(l) /\ Null \notin DOMAIN l.node
      /\ h[y] \in 1..MaxLevel
  BY MaxLevelAssumption, AddrAssumption DEF Typed, InPlace, Places, Nodes
<1>2. /\ P[head] = 0 /\ P[Null] = l.len + 1
      /\ \A x \in Places(l) : P[x] \in 0..l.len + 1
      /\ \A x, v \in Places(l) : P[x] = P[v] => x = v
      /\ \A p \in 1..l.len : s[p] \in Nodes(l)
  BY <1>1, Numbers
<1>3. P[y] \in 0..l.len
  <2>1. P[y] # P[Null]
    BY <1>1, <1>2
  <2> QED
    BY <1>1, <1>2, <2>1
<1>4. n \in Nodes(l) \cup {Null}
  <2>1. l.node[y].level \in Seq(Link(l)) /\ 1 \in 1..Len(l.node[y].level)
    <3>1. l.node[y].level \in Seq(Link(l)) /\ Len(l.node[y].level) \in h[y]..MaxLevel
      BY DEF Typed
    <3> QED
      BY <1>1, <3>1
  <2>2. l.node[y].level[1] \in Link(l)
    BY <2>1, ElementOfSeq
  <2> QED
    BY <2>2 DEF Link
<1>5. Leads(l, P, h, 1, y)
  BY <1>1 DEF Leveled
<1>6. n \in Places(l) /\ P[n] \in 0..l.len + 1 /\ P[y] < P[n]
  <2>1. n \in Places(l)
    BY <1>4 DEF Places, Nodes
  <2> QED
    BY <1>2, <1>5, <2>1 DEF Leads
<1>7. P[n] = P[y] + 1
  <2>1. CASE P[y] + 1 < P[n]
    <3> DEFINE v == s[P[y] + 1]
    <3>1. P[y] + 1 \in 1..l.len
      BY <1>3, <1>6, <2>1, <1>1
    <3>2. v \in Nodes(l) /\ P[v] = P[y] + 1
      <4>1. v \in Nodes(l)
        BY <1>2, <3>1
      <4>2. P[y] + 1 \in 0..l.len + 1
        BY <1>1, <3>1
      <4> QED
        BY <4>1, <4>2 DEF InPlace
    <3> HIDE DEF v
    <3>3. P[y] < P[v] /\ P[v] < P[n]
      BY <1>3, <2>1, <3>2
    <3>4. h[v] < 1
      BY <1>5, <3>2, <3>3 DEF Leads
    <3>5. h[v] \in 1..MaxLevel
      BY <3>2 DEF Typed, Places, Nodes
    <3> QED
      BY <1>1, <3>4, <3>5
  <2> QED
    BY <1>1, <1>3, <1>6, <2>1
<1>8. n = s[P[n]]
  BY <1>6 DEF InPlace
<1> QED
  BY <1>3, <1>4, <1>7, <1>8

\* A list, and what insertNode has found out about it.
Inserting(l, s, P, h, x, update, passed, zlevel) ==
  /\ InPlace(l, s, P) /\ Typed(l, h) /\ Leveled(l, P, h)
  /\ x \in Addr \ Nodes(l)
  /\ update = [i \in 1..l.level |-> update[i]]
  /\ Straddles(l, P, h, update)
  /\ \A i \in 1..l.level : passed[i] = P[update[1]] - P[update[i]]
  /\ zlevel \in 1..l.level

\* A link that is to be replaced, and the numbers it has.
LEMMA LinkOver ==
  ASSUME NEW l, NEW s, NEW P, NEW h, NEW x, NEW update, NEW passed, NEW zlevel,
         Inserting(l, s, P, h, x, update, passed, zlevel), NEW i \in 1..l.level
  PROVE  /\ update[i] \in DOMAIN l.node
         /\ i \in 1..Len(l.node[update[i]].level) /\ i <= h[update[i]]
         /\ l.node[update[i]].level[i] \in Link(l)
         /\ P[update[1]] \in 0..l.len
         /\ passed[i] \in Nat
         /\ l.node[update[i]].level[i].zspan - passed[i] \in Nat
<1> DEFINE u == update[i]
           a == P[update[1]]
           n == l.node[u].level[i].zforward
<1>1. /\ u \in DOMAIN l.node /\ i <= h[u] /\ P[u] <= a /\ a < P[n]
      /\ update[1] \in DOMAIN l.node
      /\ l.level \in 1..MaxLevel /\ MaxLevel \in Nat
      /\ passed[i] = a - P[u]
  <2>1. 1 \in 1..l.level /\ l.level \in 1..MaxLevel
    BY MaxLevelAssumption DEF Inserting, Typed
  <2> QED
    BY <2>1, MaxLevelAssumption DEF Inserting, Straddles
<1>2. a \in 0..l.len /\ P[u] \in 0..l.len
  BY <1>1, NextPlace DEF Inserting
<1>3. l.node[u].level \in Seq(Link(l)) /\ i \in 1..Len(l.node[u].level)
  <2>1. l.node[u].level \in Seq(Link(l)) /\ Len(l.node[u].level) \in h[u]..MaxLevel /\ h[u] \in 1..MaxLevel
    BY <1>1 DEF Inserting, Typed, Places
  <2> QED
    BY <1>1, <2>1
<1>4. l.node[u].level[i] \in Link(l)
  BY <1>3, ElementOfSeq
<1>5. n \in Places(l) /\ P[n] \in 0..l.len + 1 /\ l.len \in Nat
  <2>1. n \in Places(l)
    BY <1>4 DEF Link, Places, Nodes
  <2> QED
    BY <2>1 DEF Inserting, InPlace
<1>6. Leads(l, P, h, i, u)
  BY <1>1 DEF Inserting, Leveled
<1>7. l.node[u].level[i].zspan = (IF n = Null THEN l.len ELSE P[n]) - P[u]
  BY <1>6 DEF Leads
<1> HIDE DEF u, a, n
<1>8. passed[i] \in Nat /\ l.node[u].level[i].zspan - passed[i] \in Nat
  BY <1>1, <1>2, <1>5, <1>7
<1> QED
  BY <1>1, <1>2, <1>3, <1>4, <1>8 DEF u, a, n

\* A node with all of its members but the pointer backwards.
NodeIs(n, obj, score, levels) ==
  n = [obj |-> obj, score |-> score, backward |-> n.backward, level |-> levels]

\* What its members are.
LEMMA MembersOf ==
  ASSUME NEW n, NEW obj, NEW score, NEW levels, NodeIs(n, obj, score, levels)
  PROVE  /\ n.obj = obj /\ n.score = score /\ n.level = levels
         /\ NodeIs(n, n.obj, n.score, n.level)
<1> DEFINE b == n.backward
<1>1. n = [obj |-> obj, score |-> score, backward |-> b, level |-> levels]
  BY DEF NodeIs
<1> HIDE DEF b
<1>2. n.obj = obj /\ n.score = score /\ n.level = levels
  BY <1>1
<1> QED
  BY <1>2

\* What inserting does to each node.
LEMMA InsertedNodes ==
  ASSUME NEW l, NEW s, NEW P, NEW h, NEW x, NEW update, NEW passed, NEW zlevel,
         Inserting(l, s, P, h, x, update, passed, zlevel), NEW obj, NEW score,
         NEW m, m = Inserted(l, x, obj, score, update, passed, zlevel)
  PROVE  /\ DOMAIN m.node = DOMAIN l.node \cup {x}
         /\ m.len = l.len + 1 /\ m.level = l.level
         /\ m.tail = IF s[P[update[1]] + 1] = Null THEN x ELSE l.tail
         /\ NodeIs(m.node[x], obj, score, NewLevels(l.node, update, passed, zlevel))
         /\ m.node[x].backward = IF P[update[1]] = 0 THEN Null ELSE s[P[update[1]]]
         /\ \A y \in DOMAIN l.node :
              /\ NodeIs(m.node[y], l.node[y].obj, l.node[y].score,
                        Spliced(l.node, y, x, update, passed, zlevel))
              /\ m.node[y].backward =
                   IF y = s[P[update[1]] + 1] THEN x ELSE l.node[y].backward
<1> DEFINE a == P[update[1]]
           back == IF update[1] = head THEN Null ELSE update[1]
           new == [obj |-> obj, score |-> score, backward |-> back,
                   level |-> NewLevels(l.node, update, passed, zlevel)]
           next == new.level[1].zforward
           node == [y \in DOMAIN l.node \cup {x} |->
                      IF y = x THEN new
                      ELSE [l.node[y] EXCEPT
                              !.level = Spliced(l.node, y, x, update, passed, zlevel),
                              !.backward = IF y = next THEN x ELSE @]]
<1>1. /\ head \in DOMAIN l.node /\ Nodes(l) \subseteq Addr /\ x \notin DOMAIN l.node
      /\ l.level \in 1..MaxLevel /\ MaxLevel \in Nat /\ 1 \in 1..l.level /\ 1 <= zlevel
      /\ update[1] \in DOMAIN l.node
      /\ DOMAIN update = 1..l.level
  <2>1. /\ head \in DOMAIN l.node /\ Nodes(l) \subseteq Addr /\ x \in Addr \ Nodes(l)
        /\ l.level \in 1..MaxLevel /\ MaxLevel \in Nat /\ zlevel \in 1..l.level
        /\ DOMAIN update = 1..l.level
    BY MaxLevelAssumption DEF Inserting, Typed
  <2>2. x \notin DOMAIN l.node
    BY <2>1, AddrAssumption DEF Nodes
  <2>3. 1 \in 1..l.level /\ 1 <= zlevel
    BY <2>1
  <2>4. update[1] \in DOMAIN l.node
    BY <2>3 DEF Inserting, Straddles
  <2> QED
    BY <2>1, <2>2, <2>3, <2>4
<1>2. m = [node |-> node, tail |-> IF next = Null THEN x ELSE l.tail,
           len |-> l.len + 1, level |-> l.level]
  BY DEF Inserted
<1>3. next = l.node[update[1]].level[1].zforward
  <2>1. new.level[1] = [l.node[update[1]].level[1] EXCEPT !.zspan = @ - passed[1]]
    BY <1>1 DEF NewLevels
  <2>2. l.node[update[1]].level[1] \in Link(l)
    BY <1>1, LinkOver
  <2> HIDE DEF new
  <2> QED
    BY <2>1, <2>2 DEF Link
<1>4. next = s[a + 1]
  <2>1. InPlace(l, s, P) /\ Typed(l, h) /\ Leveled(l, P, h)
    BY DEF Inserting
  <2>2. l.node[update[1]].level[1].zforward = s[P[update[1]] + 1]
    BY <1>1, <2>1, NextPlace
  <2> HIDE DEF next
  <2> QED
    BY <1>3, <2>2
<1>5. back = IF a = 0 THEN Null ELSE s[a]
  <2>1. InPlace(l, s, P)
    BY DEF Inserting
  <2>2. update[1] \in Places(l)
    BY <1>1 DEF Places
  <2>3. s[a] = update[1]
    BY <2>1, <2>2 DEF InPlace
  <2>4. P[head] = 0 /\ s[0] = head
    BY <1>1, <2>1, Numbers DEF InPlace
  <2> QED
    BY <2>3, <2>4
<1>6. /\ DOMAIN node = DOMAIN l.node \cup {x}
      /\ node[x] = new
      /\ \A y \in DOMAIN l.node :
           node[y] = [l.node[y] EXCEPT
                        !.level = Spliced(l.node, y, x, update, passed, zlevel),
                        !.backward = IF y = next THEN x ELSE @]
  BY <1>1
<1>7. NodeIs(new, obj, score, NewLevels(l.node, update, passed, zlevel)) /\ new.backward = back
  BY DEF NodeIs
<1> HIDE DEF node, next, new, back
<1>8. m.node = node /\ m.tail = (IF next = Null THEN x ELSE l.tail) /\ m.len = l.len + 1
      /\ m.level = l.level
  BY <1>2
<1>9. ASSUME NEW y \in DOMAIN l.node
      PROVE  /\ NodeIs(m.node[y], l.node[y].obj, l.node[y].score,
                       Spliced(l.node, y, x, update, passed, zlevel))
             /\ m.node[y].backward = IF y = s[a + 1] THEN x ELSE l.node[y].backward
  <2> DEFINE levels == Spliced(l.node, y, x, update, passed, zlevel)
  <2>1. l.node[y] = [obj |-> l.node[y].obj, score |-> l.node[y].score,
                     backward |-> l.node[y].backward, level |-> l.node[y].level]
    BY DEF Inserting, Typed
  <2>2. m.node[y] = [l.node[y] EXCEPT !.level = levels, !.backward = IF y = next THEN x ELSE @]
    BY <1>6, <1>8
  <2> HIDE DEF levels
  <2>3. m.node[y] = [obj |-> l.node[y].obj, score |-> l.node[y].score,
                     backward |-> IF y = next THEN x ELSE l.node[y].backward, level |-> levels]
    BY <2>1, <2>2
  <2>4. m.node[y].backward = IF y = next THEN x ELSE l.node[y].backward
    BY <2>3
  <2>5. NodeIs(m.node[y], l.node[y].obj, l.node[y].score, levels)
    BY <2>3 DEF NodeIs
  <2> QED
    BY <1>4, <2>4, <2>5 DEF levels
<1> QED
  BY <1>4, <1>5, <1>6, <1>7, <1>8, <1>9

\* What it does to the links.
LEMMA InsertedLinks ==
  ASSUME NEW l, NEW s, NEW P, NEW h, NEW x, NEW update, NEW passed, NEW zlevel,
         Inserting(l, s, P, h, x, update, passed, zlevel), NEW obj, NEW score,
         NEW m, m = Inserted(l, x, obj, score, update, passed, zlevel)
  PROVE  LinksOver(l, m, P, h, x, update, zlevel)
<1> DEFINE a == P[update[1]]
<1>1. /\ m.node[x].level = NewLevels(l.node, update, passed, zlevel)
      /\ \A y \in DOMAIN l.node : m.node[y].level = Spliced(l.node, y, x, update, passed, zlevel)
  <2>1. NodeIs(m.node[x], obj, score, NewLevels(l.node, update, passed, zlevel))
    BY InsertedNodes
  <2>2. \A y \in DOMAIN l.node :
          NodeIs(m.node[y], l.node[y].obj, l.node[y].score,
                 Spliced(l.node, y, x, update, passed, zlevel))
    BY InsertedNodes
  <2> QED
    BY <2>1, <2>2, MembersOf
<1>2. DOMAIN update = 1..l.level /\ zlevel \in 1..l.level /\ l.level \in 1..MaxLevel /\ MaxLevel \in Nat
      /\ \A i \in 1..l.level : passed[i] = a - P[update[i]]
  BY MaxLevelAssumption DEF Inserting, Typed
<1>3. ASSUME NEW i \in 1..zlevel
      PROVE  /\ m.node[x].level[i].zforward = l.node[update[i]].level[i].zforward
             /\ m.node[x].level[i].zspan = l.node[update[i]].level[i].zspan - (a - P[update[i]])
  <2>1. i \in 1..l.level /\ i <= zlevel
    BY <1>2
  <2>2. l.node[update[i]].level[i] \in Link(l)
    BY <2>1, LinkOver
  <2>3. m.node[x].level[i] = [l.node[update[i]].level[i] EXCEPT !.zspan = @ - passed[i]]
    BY <1>1, <1>2, <2>1 DEF NewLevels
  <2> QED
    BY <1>2, <2>1, <2>2, <2>3 DEF Link
<1>4. ASSUME NEW y \in DOMAIN l.node, NEW i \in 1..l.level, i <= h[y]
      PROVE  /\ update[i] # y => m.node[y].level[i] = l.node[y].level[i]
             /\ update[i] = y /\ i <= zlevel =>
                  /\ m.node[y].level[i].zforward = x
                  /\ m.node[y].level[i].zspan = (a - P[y]) + 1
             /\ update[i] = y /\ ~(i <= zlevel) =>
                  /\ m.node[y].level[i].zforward = l.node[y].level[i].zforward
                  /\ m.node[y].level[i].zspan = l.node[y].level[i].zspan + 1
  <2>1. i \in DOMAIN l.node[y].level
    <3>1. l.node[y].level \in Seq(Link(l)) /\ Len(l.node[y].level) \in h[y]..MaxLevel /\ h[y] \in 1..MaxLevel
      BY DEF Inserting, Typed, Places
    <3>2. i \in 1..Len(l.node[y].level)
      BY <1>2, <1>4, <3>1
    <3> QED
      BY <3>1, <3>2
  <2>2. m.node[y].level[i] =
          IF i \notin DOMAIN update \/ update[i] # y THEN l.node[y].level[i]
          ELSE IF i <= zlevel THEN [zforward |-> x, zspan |-> passed[i] + 1]
          ELSE [l.node[y].level[i] EXCEPT !.zspan = @ + 1]
    <3>1. m.node[y].level[i] = Spliced(l.node, y, x, update, passed, zlevel)[i]
      BY <1>1
    <3>2. Spliced(l.node, y, x, update, passed, zlevel)[i] =
            IF i \notin DOMAIN update \/ update[i] # y THEN l.node[y].level[i]
            ELSE IF i <= zlevel THEN [zforward |-> x, zspan |-> passed[i] + 1]
            ELSE [l.node[y].level[i] EXCEPT !.zspan = @ + 1]
      BY <2>1 DEF Spliced
    <3> QED
      BY <3>1, <3>2
  <2>3. update[i] = y => l.node[y].level[i] \in Link(l)
    BY LinkOver
  <2>4. update[i] # y => m.node[y].level[i] = l.node[y].level[i]
    BY <2>2
  <2>5. CASE update[i] = y /\ i <= zlevel
    <3>1. m.node[y].level[i] = [zforward |-> x, zspan |-> passed[i] + 1]
      BY <1>2, <2>2, <2>5
    <3> QED
      BY <1>2, <2>5, <3>1
  <2>6. CASE update[i] = y /\ ~(i <= zlevel)
    <3>1. m.node[y].level[i] = [l.node[y].level[i] EXCEPT !.zspan = @ + 1]
      BY <1>2, <2>2, <2>6
    <3> QED
      BY <2>3, <2>6, <3>1 DEF Link
  <2> QED
    BY <2>4, <2>5, <2>6
<1> QED
  BY <1>3, <1>4 DEF LinksOver

\* The nodes stay what they are made to be.
LEMMA InsertedTyped ==
  ASSUME NEW l, NEW s, NEW P, NEW h, NEW x, NEW update, NEW passed, NEW zlevel,
         Inserting(l, s, P, h, x, update, passed, zlevel), NEW obj \in Texts, NEW score \in Scores,
         NEW m, m = Inserted(l, x, obj, score, update, passed, zlevel)
  PROVE  Typed(m, Heights(l, h, x, zlevel))
<1> DEFINE g == Heights(l, h, x, zlevel)
<1>1. /\ DOMAIN m.node = DOMAIN l.node \cup {x} /\ m.level = l.level
      /\ NodeIs(m.node[x], obj, score, NewLevels(l.node, update, passed, zlevel))
  BY InsertedNodes
<1>2. \A y \in DOMAIN l.node :
        NodeIs(m.node[y], l.node[y].obj, l.node[y].score,
               Spliced(l.node, y, x, update, passed, zlevel))
  BY InsertedNodes
<1> DEFINE levels(y) == Spliced(l.node, y, x, update, passed, zlevel)
<1>14. /\ m.node[x].obj = obj /\ m.node[x].score = score
       /\ m.node[x].level = NewLevels(l.node, update, passed, zlevel)
       /\ NodeIs(m.node[x], m.node[x].obj, m.node[x].score, m.node[x].level)
  BY <1>1, MembersOf
<1>15. ASSUME NEW y \in DOMAIN l.node
       PROVE  /\ m.node[y].obj = l.node[y].obj /\ m.node[y].score = l.node[y].score
              /\ m.node[y].level = levels(y)
              /\ NodeIs(m.node[y], m.node[y].obj, m.node[y].score, m.node[y].level)
  BY <1>2, MembersOf
<1> HIDE DEF levels
<1>3. /\ DOMAIN update = 1..l.level /\ zlevel \in 1..l.level /\ l.level \in 1..MaxLevel /\ MaxLevel \in Nat
      /\ x \in Addr \ Nodes(l) /\ head \in DOMAIN l.node /\ Nodes(l) \subseteq Addr
      /\ h \in [Places(l) -> 1..MaxLevel] /\ h[head] = MaxLevel /\ h[Null] = MaxLevel
  BY MaxLevelAssumption DEF Inserting, Typed
<1>4. /\ x \notin DOMAIN l.node /\ x # head /\ x # Null
      /\ Nodes(m) = Nodes(l) \cup {x} /\ Places(m) = Places(l) \cup {x} /\ x \notin Places(l)
      /\ Nodes(m) \subseteq Addr
  BY <1>1, <1>3, AddrAssumption DEF Nodes, Places
<1>5. g \in [Places(m) -> 1..MaxLevel] /\ g[x] = zlevel /\ \A y \in Places(l) : g[y] = h[y]
  <2>1. zlevel \in 1..MaxLevel
    BY <1>3
  <2> QED
    BY <1>3, <1>4, <2>1 DEF Heights
<1>6. g[head] = MaxLevel /\ g[Null] = MaxLevel
  BY <1>3, <1>5 DEF Places
<1>7. Link(l) \subseteq Link(m) /\ Nowhere \in Link(m)
  BY <1>4 DEF Link, Nowhere
<1> HIDE DEF g
<1>8. /\ m.node[x].level \in Seq(Link(m)) /\ Len(m.node[x].level) = l.level
      /\ \A i \in 1..l.level : i > zlevel => m.node[x].level[i].zforward = Null
  <2> DEFINE new == NewLevels(l.node, update, passed, zlevel)
  <2>1. \A i \in 1..l.level : new[i] = IF i <= zlevel
                                         THEN [l.node[update[i]].level[i] EXCEPT !.zspan = @ - passed[i]]
                                       ELSE Nowhere
    BY <1>3 DEF NewLevels
  <2>2. new = [i \in 1..l.level |-> new[i]]
    BY <1>3 DEF NewLevels
  <2> HIDE DEF new
  <2>3. ASSUME NEW i \in 1..l.level
        PROVE  new[i] \in Link(m)
    <3>1. CASE i <= zlevel
      <4>1. /\ l.node[update[i]].level[i] \in Link(l)
            /\ l.node[update[i]].level[i].zspan - passed[i] \in Nat
        BY LinkOver
      <4>2. [l.node[update[i]].level[i] EXCEPT !.zspan = @ - passed[i]] \in Link(l)
        BY <4>1 DEF Link
      <4> QED
        BY <1>7, <2>1, <3>1, <4>2
    <3>2. CASE ~(i <= zlevel)
      BY <1>7, <2>1, <3>2
    <3> QED
      BY <3>1, <3>2
  <2>4. new \in [1..l.level -> Link(m)] /\ l.level \in Nat
    BY <1>3, <2>2, <2>3
  <2>5. new \in Seq(Link(m)) /\ Len(new) = l.level
    BY <2>4, FunctionIsSeq
  <2>6. ASSUME NEW i \in 1..l.level, i > zlevel PROVE new[i].zforward = Null
    <3>1. ~(i <= zlevel)
      BY <1>3, <2>6
    <3>2. new[i] = Nowhere
      BY <2>1, <3>1
    <3> QED
      BY <3>2 DEF Nowhere
  <2>7. m.node[x].level = new
    BY <1>14 DEF new
  <2> QED
    BY <2>5, <2>6, <2>7
<1>9. ASSUME NEW y \in DOMAIN l.node
      PROVE  /\ m.node[y].level \in Seq(Link(m)) /\ Len(m.node[y].level) = Len(l.node[y].level)
             /\ Len(l.node[y].level) \in Nat
             /\ \A i \in 1..Len(l.node[y].level) :
                  i > l.level \/ i > h[y] => m.node[y].level[i].zforward = l.node[y].level[i].zforward
  <2> DEFINE old == l.node[y].level
             new == Spliced(l.node, y, x, update, passed, zlevel)
  <2>1. old \in Seq(Link(l)) /\ Len(old) \in h[y]..MaxLevel /\ h[y] \in 1..MaxLevel
    BY DEF Inserting, Typed, Places
  <2>2. /\ new = [i \in DOMAIN old |-> new[i]]
        /\ \A i \in DOMAIN old : new[i] = IF i \notin DOMAIN update \/ update[i] # y THEN old[i]
                                          ELSE IF i <= zlevel THEN [zforward |-> x, zspan |-> passed[i] + 1]
                                          ELSE [old[i] EXCEPT !.zspan = @ + 1]
    BY DEF Spliced
  <2> HIDE DEF new
  <2>3. DOMAIN old = 1..Len(old) /\ Len(old) \in Nat
    BY <2>1
  <2>4. ASSUME NEW i \in 1..Len(old)
        PROVE  new[i] \in Link(m)
    <3>1. old[i] \in Link(l)
      BY <2>1, ElementOfSeq
    <3>2. CASE i \notin DOMAIN update \/ update[i] # y
      BY <1>7, <2>2, <2>3, <3>1, <3>2
    <3>3. CASE i \in DOMAIN update /\ update[i] = y /\ i <= zlevel
      <4>1. passed[i] \in Nat /\ passed[i] + 1 \in Nat
        <5>1. passed[i] \in Nat
          BY <1>3, <3>3, LinkOver
        <5> QED
          BY <5>1
      <4>2. new[i] = [zforward |-> x, zspan |-> passed[i] + 1]
        BY <2>2, <2>3, <3>3
      <4> QED
        BY <1>4, <4>1, <4>2 DEF Link
    <3>4. CASE i \in DOMAIN update /\ update[i] = y /\ ~(i <= zlevel)
      <4>1. new[i] = [old[i] EXCEPT !.zspan = @ + 1]
        BY <2>2, <2>3, <3>4
      <4>2. new[i] \in Link(l)
        BY <3>1, <4>1 DEF Link
      <4> QED
        BY <1>7, <4>2
    <3> QED
      BY <3>2, <3>3, <3>4
  <2>5. new \in [1..Len(old) -> Link(m)]
    BY <2>2, <2>3, <2>4
  <2>6. new \in Seq(Link(m)) /\ Len(new) = Len(old)
    BY <2>3, <2>5, FunctionIsSeq
  <2>7. ASSUME NEW i \in 1..Len(old), i > l.level \/ i > h[y]
        PROVE  new[i] = old[i]
    <3>1. i \in DOMAIN update => i <= h[update[i]]
      BY <1>3 DEF Inserting, Straddles
    <3>2. i \notin DOMAIN update \/ update[i] # y
      BY <1>3, <2>1, <2>7, <3>1
    <3> QED
      BY <2>2, <2>3, <3>2
  <2>8. m.node[y].level = new
    BY <1>15 DEF new, levels
  <2> QED
    BY <2>3, <2>6, <2>7, <2>8
<1>10. ASSUME NEW y \in DOMAIN m.node
       PROVE  /\ NodeIs(m.node[y], m.node[y].obj, m.node[y].score, m.node[y].level)
              /\ m.node[y].level \in Seq(Link(m))
              /\ Len(m.node[y].level) \in g[y]..MaxLevel
  <2>1. CASE y = x
    <3>1. NodeIs(m.node[y], m.node[y].obj, m.node[y].score, m.node[y].level)
      BY <1>14, <2>1
    <3> QED
      BY <1>3, <1>5, <1>8, <2>1, <3>1
  <2>2. CASE y # x
    <3>1. y \in DOMAIN l.node /\ y \in Places(l)
      BY <1>1, <2>2 DEF Places
    <3>2. NodeIs(m.node[y], m.node[y].obj, m.node[y].score, m.node[y].level)
      BY <1>15, <3>1
    <3>3. Len(l.node[y].level) \in h[y]..MaxLevel
      BY <3>1 DEF Inserting, Typed
    <3> QED
      BY <1>5, <1>9, <3>1, <3>2, <3>3
  <2> QED
    BY <2>1, <2>2
<1>11. ASSUME NEW y \in Nodes(m)
       PROVE  /\ m.node[y].obj \in Texts /\ m.node[y].score \in Scores
              /\ g[y] <= m.level
              /\ \A i \in 1..Len(m.node[y].level) : i > g[y] => m.node[y].level[i].zforward = Null
  <2>1. CASE y = x
    BY <1>1, <1>3, <1>5, <1>8, <1>14, <2>1
  <2>2. CASE y # x
    <3>1. y \in Nodes(l) /\ y \in DOMAIN l.node /\ y \in Places(l)
      BY <1>4, <2>2 DEF Places, Nodes
    <3>2. m.node[y].obj = l.node[y].obj /\ m.node[y].score = l.node[y].score
      BY <1>15, <3>1
    <3>3. /\ l.node[y].obj \in Texts /\ l.node[y].score \in Scores
          /\ h[y] <= l.level
          /\ \A i \in 1..Len(l.node[y].level) : i > h[y] => l.node[y].level[i].zforward = Null
      BY <3>1 DEF Inserting, Typed
    <3> QED
      BY <1>1, <1>5, <1>9, <3>1, <3>2, <3>3
  <2> QED
    BY <2>1, <2>2
<1>12. ASSUME NEW i \in 1..MaxLevel, i > m.level
       PROVE  m.node[head].level[i].zforward = Null
  <2>1. l.node[head].level[i].zforward = Null /\ i > l.level
    BY <1>1, <1>12 DEF Inserting, Typed
  <2>2. Len(l.node[head].level) \in MaxLevel..MaxLevel
    BY <1>3 DEF Inserting, Typed
  <2>3. i \in 1..Len(l.node[head].level)
    BY <1>3, <2>2
  <2> QED
    BY <1>3, <1>9, <2>1, <2>3
<1>13. head \in DOMAIN m.node /\ m.level \in 1..MaxLevel
  BY <1>1, <1>3
<1> QED
  BY <1>4, <1>5, <1>6, <1>10, <1>11, <1>12, <1>13 DEF Typed, NodeIs, g

\* Where a search ends on the lowest level.
LEMMA SearchEnds ==
  ASSUME NEW s, NEW P, NEW h, Arranged(z, s, P, h), NEW passed \in SUBSET heap,
         NEW stop, stop = Stops(passed), NEW a, a = P[stop[1]]
  PROVE  /\ a \in 0..z.len
         /\ stop[1] = s[a] /\ stop[1] \in DOMAIN z.node
         /\ stop[1] = head <=> a = 0
         /\ a # 0 => s[a] \in passed
         /\ Found(stop) = s[a + 1]
         /\ s[a + 1] \in heap \cup {Null}
         /\ s[a + 1] \notin passed
<1>1. Searched(stop, passed, P, h)
  BY StopsSearch
<1>2. /\ InPlace(z, s, P) /\ Typed(z, h) /\ Leveled(z, P, h)
      /\ head \in DOMAIN z.node /\ Nodes(z) \subseteq Addr /\ 1 \in 1..z.level
  BY MaxLevelAssumption DEF Arranged, Typed
<1>3. /\ stop[1] \in DOMAIN z.node
      /\ stop[1] = head \/ stop[1] \in passed
      /\ forward(stop[1], 1) \notin passed
  BY <1>1, <1>2 DEF Searched, Straddles
<1>4. /\ a \in 0..z.len
      /\ forward(stop[1], 1) = s[a + 1]
      /\ s[a + 1] \in heap \cup {Null}
  BY <1>2, <1>3, NextPlace DEF forward, heap, Nodes
<1>5. P[head] = 0 /\ s[0] = head /\ stop[1] = s[a]
  <2>1. P[head] = 0
    BY <1>2, Numbers
  <2>2. s[0] = head /\ stop[1] = s[a]
    BY <1>2, <1>3 DEF InPlace, Places
  <2> QED
    BY <2>1, <2>2
<1> QED
  BY <1>3, <1>4, <1>5 DEF Found

UpdateOf(l, stop) == [i \in 1..l.level |-> IF i <= z.level THEN stop[i] ELSE head]

PassedOf(l, stop) ==
  [i \in 1..l.level |-> IF i <= z.level THEN Ranks(stop)[1] - Ranks(stop)[i] ELSE Ranks(stop)[1]]

\* What insertNode has found out when it inserts.
LEMMA InsertNodeFinds ==
  ASSUME NEW s, NEW P, NEW h, Arranged(z, s, P, h), NEW obj, NEW score,
         NEW zlevel \in 1..MaxLevel, NEW x \in Addr \ heap,
         NEW l, l = Raise(zlevel), NEW stop, stop = Stops(Preceding(obj, score)),
         NEW update, update = UpdateOf(l, stop), NEW passed, passed = PassedOf(l, stop)
  PROVE  /\ Inserting(l, s, P, h, x, update, passed, zlevel)
         /\ update[1] = stop[1]
         /\ \A i \in z.level + 1..l.level : update[i] = head
<1> DEFINE a == P[stop[1]]
<1>1. /\ InPlace(l, s, P) /\ Typed(l, h) /\ Leveled(l, P, h) /\ Nodes(l) = Nodes(z)
  BY RaiseKeeps
<1>2. /\ l.node = Raised(zlevel) /\ l.len = z.len
      /\ l.level = IF zlevel > z.level THEN zlevel ELSE z.level
  BY DEF Raise
<1>3. /\ z.level \in 1..MaxLevel /\ MaxLevel \in Nat /\ z.level <= l.level /\ zlevel \in 1..l.level
      /\ l.level \in 1..MaxLevel /\ h[head] = MaxLevel /\ head \in DOMAIN z.node /\ Nodes(z) \subseteq Addr
      /\ z.len \in Nat /\ InPlace(z, s, P) /\ 1 \in 1..z.level
  <2>1. /\ z.level \in 1..MaxLevel /\ MaxLevel \in Nat
        /\ h[head] = MaxLevel /\ head \in DOMAIN z.node /\ Nodes(z) \subseteq Addr
    BY MaxLevelAssumption DEF Arranged, Typed
  <2>2. z.len \in Nat /\ InPlace(z, s, P)
    BY DEF Arranged, InPlace
  <2> QED
    BY <1>2, <2>1, <2>2
<1>4. Searched(stop, Preceding(obj, score), P, h) /\ a \in 0..z.len
  <2>1. Preceding(obj, score) \in SUBSET heap
    BY DEF Preceding
  <2> HIDE DEF a
  <2>2. Searched(stop, Preceding(obj, score), P, h)
    BY <2>1, StopsSearch
  <2>3. a \in 0..z.len
    BY <2>1, SearchEnds DEF a
  <2> QED
    BY <2>2, <2>3
<1>5. Ranks(stop) = [i \in 1..z.level |-> P[stop[i]]]
  BY <1>4, RanksArePlaces
<1>6. P[head] = 0 /\ P[Null] = z.len + 1
  BY <1>3, Numbers
<1>7. /\ DOMAIN Raised(zlevel) = DOMAIN z.node
      /\ \A y \in Nodes(z) : Raised(zlevel)[y] = z.node[y]
      /\ \A i \in 1..z.level : Raised(zlevel)[head].level[i] = z.node[head].level[i]
      /\ \A i \in 1..MaxLevel : i > z.level => Raised(zlevel)[head].level[i].zforward = Null
  BY RaiseNodes
<1>8. \A i \in 1..l.level : update[i] = IF i <= z.level THEN stop[i] ELSE head
  BY DEF UpdateOf
<1>9. update[1] = stop[1]
  <2>1. 1 \in 1..l.level /\ 1 <= z.level
    BY <1>3
  <2> QED
    BY <1>8, <2>1
<1>10. update = [i \in 1..l.level |-> update[i]]
  BY DEF UpdateOf
<1>11. ASSUME NEW i \in 1..l.level
       PROVE  /\ update[i] \in DOMAIN l.node
              /\ i <= h[update[i]]
              /\ P[update[i]] <= P[update[1]]
              /\ P[update[1]] < P[l.node[update[i]].level[i].zforward]
  <2>1. CASE i <= z.level
    <3>1. i \in 1..z.level /\ update[i] = stop[i]
      BY <1>3, <1>8, <2>1
    <3>2. /\ stop[i] \in DOMAIN z.node /\ i <= h[stop[i]] /\ P[stop[i]] <= P[stop[1]]
          /\ P[stop[1]] < P[z.node[stop[i]].level[i].zforward]
      BY <1>4, <3>1 DEF Searched, Straddles
    <3>3. l.node[stop[i]].level[i] = z.node[stop[i]].level[i]
      BY <1>2, <1>7, <3>1, <3>2 DEF Nodes
    <3> QED
      BY <1>2, <1>7, <1>9, <3>1, <3>2, <3>3
  <2>2. CASE ~(i <= z.level)
    <3>1. update[i] = head /\ i \in 1..MaxLevel /\ i > z.level
      BY <1>3, <1>8, <2>2
    <3>2. l.node[head].level[i].zforward = Null
      BY <1>2, <1>7, <3>1
    <3>3. i <= h[head] /\ P[head] <= P[stop[1]] /\ P[stop[1]] < P[Null]
      BY <1>3, <1>4, <1>6, <3>1
    <3> QED
      BY <1>2, <1>3, <1>7, <1>9, <3>1, <3>2, <3>3
  <2> QED
    BY <2>1, <2>2
<1>12. Straddles(l, P, h, update)
  BY <1>11 DEF Straddles
<1>13. ASSUME NEW i \in 1..l.level
       PROVE  passed[i] = P[update[1]] - P[update[i]]
  <2>0. passed[i] = IF i <= z.level THEN Ranks(stop)[1] - Ranks(stop)[i] ELSE Ranks(stop)[1]
    BY DEF PassedOf
  <2>1. Ranks(stop)[1] = a
    BY <1>3, <1>5
  <2>2. CASE i <= z.level
    <3>1. i \in 1..z.level
      BY <1>3, <2>2
    <3>2. Ranks(stop)[i] = P[stop[i]]
      BY <1>5, <3>1
    <3> QED
      BY <1>8, <1>9, <2>0, <2>1, <2>2, <3>2
  <2>3. CASE ~(i <= z.level)
    <3>1. passed[i] = a /\ update[i] = head
      BY <1>8, <2>0, <2>1, <2>3
    <3> QED
      BY <1>4, <1>6, <1>9, <3>1
  <2> QED
    BY <2>2, <2>3
<1>14. x \in Addr \ Nodes(l)
  BY <1>1 DEF heap, Nodes
<1>15. \A i \in z.level + 1..l.level : update[i] = head
  <2> SUFFICES ASSUME NEW i \in z.level + 1..l.level PROVE update[i] = head
    OBVIOUS
  <2>1. i \in 1..l.level /\ ~(i <= z.level)
    BY <1>3
  <2> QED
    BY <1>8, <2>1
<1> QED
  BY <1>1, <1>3, <1>9, <1>10, <1>12, <1>13, <1>14, <1>15 DEF Inserting

\* insertNode keeps the list arranged, and puts the new node where its search
\* has ended.
LEMMA InsertKeeps ==
  ASSUME NEW s, NEW P, NEW h, Arranged(z, s, P, h), NEW obj \in Texts, NEW score \in Scores,
         NEW zlevel \in 1..MaxLevel, NEW x \in Addr \ heap,
         NEW l, l = Raise(zlevel), NEW stop, stop = Stops(Preceding(obj, score)),
         NEW update, update = UpdateOf(l, stop), NEW passed, passed = PassedOf(l, stop),
         NEW m, m = Inserted(l, x, obj, score, update, passed, zlevel),
         NEW a, a = P[stop[1]]
  PROVE  /\ Arranged(m, Opened(z, s, x, a), Shifted(z, P, x, a), Heights(z, h, x, zlevel))
         /\ a \in 0..z.len
         /\ m.len = z.len + 1
         /\ m.node[x].obj = obj /\ m.node[x].score = score
         /\ \A y \in heap : m.node[y].obj = z.node[y].obj /\ m.node[y].score = z.node[y].score
<1>1. /\ InPlace(l, s, P) /\ Typed(l, h) /\ Leveled(l, P, h) /\ Mirrored(l, s, P) /\ Ascends(l, P)
      /\ Nodes(l) = Nodes(z) /\ Places(l) = Places(z) /\ l.len = z.len /\ heap = Nodes(z)
      /\ l.node = Raised(zlevel) /\ l.level = IF zlevel > z.level THEN zlevel ELSE z.level
  <2>1. heap = Nodes(z) /\ l.len = z.len
        /\ l.node = Raised(zlevel) /\ l.level = IF zlevel > z.level THEN zlevel ELSE z.level
    BY DEF heap, Nodes, Raise
  <2> QED
    BY <2>1, RaiseKeeps
<1>2. /\ Inserting(l, s, P, h, x, update, passed, zlevel)
      /\ update[1] = stop[1]
      /\ \A i \in z.level + 1..l.level : update[i] = head
  BY InsertNodeFinds
<1>3. /\ DOMAIN m.node = DOMAIN l.node \cup {x}
      /\ m.len = l.len + 1 /\ m.level = l.level
      /\ m.tail = IF s[a + 1] = Null THEN x ELSE l.tail
      /\ m.node[x].backward = IF a = 0 THEN Null ELSE s[a]
      /\ \A y \in DOMAIN l.node : m.node[y].backward = IF y = s[a + 1] THEN x ELSE l.node[y].backward
  <2>1. P[update[1]] = a
    BY <1>2
  <2>2. /\ DOMAIN m.node = DOMAIN l.node \cup {x}
        /\ m.len = l.len + 1 /\ m.level = l.level
        /\ m.tail = IF s[P[update[1]] + 1] = Null THEN x ELSE l.tail
        /\ m.node[x].backward = IF P[update[1]] = 0 THEN Null ELSE s[P[update[1]]]
    BY <1>2, InsertedNodes
  <2>3. \A y \in DOMAIN l.node :
          m.node[y].backward = IF y = s[P[update[1]] + 1] THEN x ELSE l.node[y].backward
    BY <1>2, InsertedNodes
  <2> QED
    BY <2>1, <2>2, <2>3
<1>4. /\ m.node[x].obj = obj /\ m.node[x].score = score
      /\ \A y \in DOMAIN l.node : m.node[y].obj = l.node[y].obj /\ m.node[y].score = l.node[y].score
  <2>1. NodeIs(m.node[x], obj, score, NewLevels(l.node, update, passed, zlevel))
    BY <1>2, InsertedNodes
  <2>2. \A y \in DOMAIN l.node :
          NodeIs(m.node[y], l.node[y].obj, l.node[y].score,
                 Spliced(l.node, y, x, update, passed, zlevel))
    BY <1>2, InsertedNodes
  <2> QED
    BY <2>1, <2>2, MembersOf
<1>5. /\ a \in 0..z.len
      /\ a # 0 => s[a] \in Preceding(obj, score)
      /\ s[a + 1] \in heap \cup {Null}
      /\ s[a + 1] \notin Preceding(obj, score)
  <2>1. Preceding(obj, score) \in SUBSET heap
    BY DEF Preceding
  <2> QED
    BY <2>1, SearchEnds
<1>6. /\ head \in DOMAIN l.node /\ Nodes(l) \subseteq Addr /\ x \in Addr \ Nodes(l) /\ a \in 0..l.len
      /\ zlevel \in 1..l.level /\ Straddles(l, P, h, update)
      /\ \A y \in Nodes(l) : l.node[y].score \in Int
      /\ score \in Int
  <2>1. \A y \in Nodes(l) : l.node[y].score \in Scores
    BY <1>1 DEF Typed
  <2> QED
    BY <1>1, <1>2, <1>5, <2>1, ScoresAssumption DEF Typed, Inserting
<1>7. /\ \A y \in heap : l.node[y] = z.node[y] /\ y \in DOMAIN l.node
  <2> SUFFICES ASSUME NEW y \in heap
               PROVE  l.node[y] = z.node[y] /\ y \in DOMAIN l.node
    OBVIOUS
  <2>1. y \in Nodes(z) /\ y \in Nodes(l)
    BY <1>1
  <2>2. Raised(zlevel)[y] = z.node[y]
    BY <2>1, RaiseNodes
  <2>3. y \in DOMAIN l.node
    BY <2>1 DEF Nodes
  <2> QED
    BY <1>1, <2>2, <2>3
<1>8. InPlace(m, Opened(l, s, x, a), Shifted(l, P, x, a))
  BY <1>1, <1>3, <1>6, InsertInPlace
<1>9. Typed(m, Heights(l, h, x, zlevel))
  BY <1>2, InsertedTyped
<1>10. Leveled(m, Shifted(l, P, x, a), Heights(l, h, x, zlevel))
  <2>1. LinksOver(l, m, P, h, x, update, zlevel)
    BY <1>2, InsertedLinks
  <2>2. Leveled(m, Shifted(l, P, x, P[update[1]]), Heights(l, h, x, zlevel))
    BY <1>1, <1>3, <1>6, <2>1, InsertLeveled
  <2> QED
    BY <1>2, <2>2
<1>11. Mirrored(m, Opened(l, s, x, a), Shifted(l, P, x, a))
  BY <1>1, <1>3, <1>6, InsertMirrored
<1>12. Ascends(m, Shifted(l, P, x, a))
  <2>1. a # 0 => l.node[s[a]].score <= m.node[x].score
    <3>1. a # 0 => s[a] \in heap /\ Precedes(s[a], obj, score)
      BY <1>5 DEF Preceding
    <3>2. a # 0 => z.node[s[a]].score <= score
      BY <1>1, <1>6, <1>7, <3>1 DEF Precedes
    <3> QED
      BY <1>4, <1>7, <3>1, <3>2
  <2>2. a # l.len => m.node[x].score <= l.node[s[a + 1]].score
    <3>1. a # l.len => s[a + 1] # Null
      <4>1. P[s[a + 1]] = a + 1 /\ P[Null] = l.len + 1 /\ l.len \in Nat
        <5>1. l.len \in Nat /\ P[Null] = l.len + 1
          BY <1>1, <1>6, Numbers
        <5>2. a + 1 \in 0..l.len + 1
          BY <1>6, <5>1
        <5> QED
          BY <1>1, <5>1, <5>2 DEF InPlace
      <4> QED
        BY <1>6, <4>1
    <3>2. a # l.len => s[a + 1] \in heap /\ ~Precedes(s[a + 1], obj, score)
      BY <1>5, <3>1 DEF Preceding
    <3>3. a # l.len => score <= z.node[s[a + 1]].score
      BY <1>1, <1>6, <1>7, <3>2 DEF Precedes
    <3> QED
      BY <1>4, <1>7, <3>2, <3>3
  <2>3. m.node[x].score \in Int /\ \A y \in DOMAIN l.node : m.node[y].score = l.node[y].score
    BY <1>4, <1>6
  <2> QED
    BY <1>1, <1>3, <1>6, <2>1, <2>2, <2>3, InsertAscends
<1>13. TopUsed(m)
  <2> SUFFICES ASSUME m.level > 1 PROVE m.node[head].level[m.level].zforward # Null
    BY DEF TopUsed
  <2> DEFINE i == m.level
  <2>1. i \in 1..l.level /\ i = l.level /\ h[head] = MaxLevel /\ i <= MaxLevel /\ MaxLevel \in Nat
        /\ z.level \in 1..MaxLevel /\ i <= h[head]
    <3>1. h[head] = MaxLevel /\ l.level \in 1..MaxLevel /\ MaxLevel \in Nat
      BY <1>1, MaxLevelAssumption DEF Typed
    <3>2. z.level \in 1..MaxLevel
      BY DEF Arranged, Typed
    <3> QED
      BY <1>3, <3>1, <3>2
  <2>2. LinksOver(l, m, P, h, x, update, zlevel)
    BY <1>2, InsertedLinks
  <2> HIDE DEF i
  <2>3. /\ update[i] # head => m.node[head].level[i] = l.node[head].level[i]
        /\ update[i] = head /\ i <= zlevel => m.node[head].level[i].zforward = x
        /\ update[i] = head /\ ~(i <= zlevel) =>
             m.node[head].level[i].zforward = l.node[head].level[i].zforward
    <3>1. head \in DOMAIN l.node /\ i \in 1..l.level /\ i <= h[head]
      BY <1>6, <2>1
    <3>2. update[i] # head => m.node[head].level[i] = l.node[head].level[i]
      BY <2>2, <3>1 DEF LinksOver
    <3>3. update[i] = head /\ i <= zlevel => m.node[head].level[i].zforward = x
      BY <2>2, <3>1 DEF LinksOver
    <3>4. update[i] = head /\ ~(i <= zlevel) =>
            m.node[head].level[i].zforward = l.node[head].level[i].zforward
      BY <2>2, <3>1 DEF LinksOver
    <3> QED
      BY <3>2, <3>3, <3>4
  <2>4. x # Null
    BY AddrAssumption
  <2>5. CASE zlevel > z.level
    <3>1. i = zlevel /\ i \in z.level + 1..l.level /\ i <= zlevel
      BY <1>1, <2>1, <2>5
    <3>2. update[i] = head
      BY <1>2, <3>1
    <3> QED
      BY <2>3, <2>4, <3>1, <3>2 DEF i
  <2>6. CASE ~(zlevel > z.level)
    <3>1. i = z.level /\ z.level > 1 /\ i \in 1..z.level
      BY <1>1, <2>1, <2>6 DEF i
    <3>2. z.node[head].level[i].zforward # Null
      BY <3>1 DEF Arranged, TopUsed
    <3>3. l.node[head].level[i] = z.node[head].level[i]
      <4>1. Raised(zlevel)[head].level[i] = z.node[head].level[i]
        BY <3>1, RaiseNodes
      <4>2. l.node = Raised(zlevel)
        BY <1>1
      <4> QED
        BY <4>1, <4>2
    <3>4. \/ m.node[head].level[i].zforward = l.node[head].level[i].zforward
          \/ m.node[head].level[i].zforward = x
      BY <2>3
    <3>5. m.node[head].level[i].zforward # Null
      BY <2>4, <3>2, <3>3, <3>4
    <3> QED
      BY <3>5 DEF i
  <2> QED
    BY <2>5, <2>6
<1>14. /\ Opened(l, s, x, a) = Opened(z, s, x, a)
       /\ Shifted(l, P, x, a) = Shifted(z, P, x, a)
       /\ Heights(l, h, x, zlevel) = Heights(z, h, x, zlevel)
  BY <1>1 DEF Opened, Shifted, Heights
<1>15. Arranged(m, Opened(z, s, x, a), Shifted(z, P, x, a), Heights(z, h, x, zlevel))
  BY <1>8, <1>9, <1>10, <1>11, <1>12, <1>13, <1>14 DEF Arranged
<1>16. \A y \in heap : m.node[y].obj = z.node[y].obj /\ m.node[y].score = z.node[y].score
  BY <1>4, <1>7
<1> QED
  BY <1>1, <1>3, <1>4, <1>5, <1>15, <1>16

\* What Lowered returns.
LEMMA LoweredIs ==
  ASSUME NEW node, NEW level \in Nat, level >= 1, NEW top, top = Lowered(node, level)
  PROVE  /\ top \in 1..level
         /\ top = 1 \/ node[head].level[top].zforward # Null
         /\ \A j \in top + 1..level : node[head].level[j].zforward = Null
<1> DEFINE empty(i) == node[head].level[i].zforward = Null
           T == {i \in 1..level : \A j \in i + 1..level : empty(j)}
           Is(i) == (i = 1 \/ ~empty(i)) /\ \A j \in i + 1..level : empty(j)
<1> HIDE DEF empty
<1>1. T \in SUBSET Nat /\ T # {}
  <2>1. level \in T
    OBVIOUS
  <2> QED
    BY <2>1
<1>2. PICK i \in T : \A j \in T : i <= j
  <2> HIDE DEF T
  <2> QED
    BY <1>1, Least
<1>3. Is(i)
  <2>1. CASE i # 1 /\ empty(i)
    <3>1. i - 1 \in 1..level /\ i \in 1..level
      BY <1>2, <2>1
    <3>2. \A j \in (i - 1) + 1..level : j = i \/ j \in i + 1..level
      BY <3>1
    <3>3. i - 1 \in T
      BY <1>2, <2>1, <3>1, <3>2
    <3> QED
      BY <1>2, <3>1, <3>3
  <2> QED
    BY <1>2, <2>1
<1>4. \E j \in 1..level : Is(j)
  BY <1>2, <1>3
<1>5. top = CHOOSE j \in 1..level : Is(j)
  BY DEF Lowered, empty
<1> HIDE DEF Is
<1>6. top \in 1..level /\ Is(top)
  BY <1>4, <1>5
<1> QED
  BY <1>6 DEF Is, empty

-----------------------------------------------------------------------------
(* Taking out the node x behind place a.                                   *)

Closed(l, s, a) == [p \in 0..l.len |-> IF p <= a THEN s[p] ELSE s[p + 1]]

Unshifted(l, P, x, a) ==
  [y \in Places(l) \ {x} |-> IF P[y] <= a THEN P[y] ELSE P[y] - 1]

HeightsWithout(l, h, x) == [y \in Places(l) \ {x} |-> h[y]]

\* A list, and the node that update leads to.
Unlinking(l, s, P, h, x, update) ==
  /\ InPlace(l, s, P) /\ Typed(l, h) /\ Leveled(l, P, h)
  /\ Straddles(l, P, h, update)
  /\ x \in Nodes(l)
  /\ P[x] = P[update[1]] + 1

\* What taking it out does to each node.
LEMMA UnlinkedNodes ==
  ASSUME NEW l, NEW s, NEW P, NEW h, NEW x, NEW update,
         Unlinking(l, s, P, h, x, update), NEW m, m = Unlinked(l, x, update)
  PROVE  /\ DOMAIN m.node = DOMAIN l.node \ {x}
         /\ m.len = l.len - 1
         /\ m.level = Lowered(m.node, l.level)
         /\ m.tail = IF l.node[x].level[1].zforward = Null THEN l.node[x].backward ELSE l.tail
         /\ \A y \in DOMAIN l.node \ {x} :
              /\ NodeIs(m.node[y], l.node[y].obj, l.node[y].score, Bypassed(l, y, x, update))
              /\ m.node[y].backward =
                   IF y = l.node[x].level[1].zforward THEN l.node[x].backward ELSE l.node[y].backward
<1> DEFINE gone == l.node[x]
           next == gone.level[1].zforward
           node == [y \in DOMAIN l.node \ {x} |->
                      [l.node[y] EXCEPT !.level = Bypassed(l, y, x, update),
                                        !.backward = IF y = next THEN gone.backward ELSE @]]
<1>1. m = [node |-> node, tail |-> TailWithout(l, gone), len |-> l.len - 1,
           level |-> Lowered(node, l.level)]
  BY DEF Unlinked
<1>2. /\ DOMAIN node = DOMAIN l.node \ {x}
      /\ \A y \in DOMAIN l.node \ {x} :
           node[y] = [l.node[y] EXCEPT !.level = Bypassed(l, y, x, update),
                                       !.backward = IF y = next THEN gone.backward ELSE @]
  OBVIOUS
<1> HIDE DEF node
<1>3. /\ m.node = node /\ m.len = l.len - 1 /\ m.level = Lowered(m.node, l.level)
      /\ m.tail = TailWithout(l, gone)
  BY <1>1
<1>4. ASSUME NEW y \in DOMAIN l.node \ {x}
      PROVE  /\ NodeIs(m.node[y], l.node[y].obj, l.node[y].score, Bypassed(l, y, x, update))
             /\ m.node[y].backward = IF y = next THEN gone.backward ELSE l.node[y].backward
  <2> DEFINE levels == Bypassed(l, y, x, update)
  <2>1. l.node[y] = [obj |-> l.node[y].obj, score |-> l.node[y].score,
                     backward |-> l.node[y].backward, level |-> l.node[y].level]
    BY DEF Unlinking, Typed
  <2>2. m.node[y] = [l.node[y] EXCEPT !.level = levels,
                                      !.backward = IF y = next THEN gone.backward ELSE @]
    BY <1>2, <1>3
  <2> HIDE DEF levels, next, gone
  <2>3. m.node[y] = [obj |-> l.node[y].obj, score |-> l.node[y].score,
                     backward |-> IF y = next THEN gone.backward ELSE l.node[y].backward,
                     level |-> levels]
    BY <2>1, <2>2
  <2>4. m.node[y].backward = IF y = next THEN gone.backward ELSE l.node[y].backward
    BY <2>3
  <2>5. NodeIs(m.node[y], l.node[y].obj, l.node[y].score, levels)
    BY <2>3 DEF NodeIs
  <2> QED
    BY <2>4, <2>5 DEF levels
<1> QED
  BY <1>2, <1>3, <1>4 DEF TailWithout

\* The numbers around the node that is taken out.
LEMMA UnlinkNumbers ==
  ASSUME NEW l, NEW s, NEW P, NEW h, NEW x, NEW update, NEW a, a = P[update[1]],
         Unlinking(l, s, P, h, x, update)
  PROVE  /\ l.len \in Nat /\ a \in 0..l.len - 1 /\ P[x] = a + 1 /\ s[a + 1] = x
         /\ l.level \in 1..MaxLevel /\ MaxLevel \in Nat
         /\ head \in DOMAIN l.node /\ Nodes(l) \subseteq Addr
         /\ x \in Places(l) /\ x # head /\ x # Null /\ Null \in Places(l) /\ head \in Places(l)
         /\ P[head] = 0 /\ P[Null] = l.len + 1 /\ s[0] = head /\ s[l.len + 1] = Null
         /\ \A y \in Places(l) : P[y] \in 0..l.len + 1 /\ s[P[y]] = y /\ h[y] \in 1..MaxLevel
         /\ \A y \in Nodes(l) : P[y] \in 1..l.len
         /\ \A p \in 0..l.len + 1 : s[p] \in Places(l) /\ P[s[p]] = p
         /\ \A y \in Places(l) : y # x => P[y] # a + 1
<1>1. /\ InPlace(l, s, P) /\ Typed(l, h) /\ Leveled(l, P, h)
      /\ x \in Nodes(l) /\ P[x] = a + 1
      /\ l.level \in 1..MaxLevel /\ MaxLevel \in Nat
      /\ head \in DOMAIN l.node /\ Nodes(l) \subseteq Addr
      /\ h \in [Places(l) -> 1..MaxLevel]
  BY MaxLevelAssumption DEF Unlinking, Typed
<1>2. update[1] \in DOMAIN l.node
  <2>1. 1 \in 1..l.level
    BY <1>1
  <2> QED
    BY <2>1 DEF Unlinking, Straddles
<1>3. a \in 0..l.len
  BY <1>1, <1>2, NextPlace
<1>4. /\ l.len \in Nat /\ P[head] = 0 /\ P[Null] = l.len + 1 /\ head # Null
      /\ \A y \in Places(l) : P[y] \in 0..l.len + 1
      /\ \A y \in Nodes(l) : P[y] \in 1..l.len
  BY <1>1, Numbers
<1>5. /\ \A y \in Places(l) : s[P[y]] = y
      /\ \A p \in 0..l.len + 1 : s[p] \in Places(l) /\ P[s[p]] = p
      /\ s[0] = head /\ s[l.len + 1] = Null
  BY <1>1 DEF InPlace
<1>6. x \in Places(l) /\ x # head /\ x # Null /\ Null \in Places(l) /\ head \in Places(l)
  BY <1>1, AddrAssumption DEF Nodes, Places
<1>7. a \in 0..l.len - 1
  <2>1. P[x] \in 1..l.len
    BY <1>1, <1>4
  <2> QED
    BY <1>1, <1>3, <1>4, <2>1
<1>8. s[a + 1] = x /\ \A y \in Places(l) : y # x => P[y] # a + 1
  BY <1>1, <1>5, <1>6
<1> QED
  BY <1>1, <1>4, <1>5, <1>6, <1>7, <1>8

\* Closing the place of x gives places again.
LEMMA UnlinkedInPlace ==
  ASSUME NEW l, NEW s, NEW P, NEW h, NEW x, NEW update, NEW a, a = P[update[1]],
         Unlinking(l, s, P, h, x, update), NEW m, m = Unlinked(l, x, update)
  PROVE  InPlace(m, Closed(l, s, a), Unshifted(l, P, x, a))
<1> DEFINE t == Closed(l, s, a)
           Q == Unshifted(l, P, x, a)
<1>1. /\ l.len \in Nat /\ a \in 0..l.len - 1 /\ P[x] = a + 1 /\ s[a + 1] = x
      /\ x \in Places(l) /\ x # head /\ x # Null /\ Null \in Places(l) /\ head \in Places(l)
      /\ s[0] = head /\ s[l.len + 1] = Null
      /\ \A y \in Places(l) : P[y] \in 0..l.len + 1 /\ s[P[y]] = y
      /\ \A p \in 0..l.len + 1 : s[p] \in Places(l) /\ P[s[p]] = p
      /\ \A y \in Places(l) : y # x => P[y] # a + 1
  BY UnlinkNumbers
<1>2. DOMAIN m.node = DOMAIN l.node \ {x} /\ m.len = l.len - 1
  BY UnlinkedNodes
<1>3. Places(m) = Places(l) \ {x} /\ m.len + 1 = l.len /\ m.len \in Nat
  BY <1>1, <1>2 DEF Places
<1>4. /\ Q = [y \in Places(m) |-> IF P[y] <= a THEN P[y] ELSE P[y] - 1]
      /\ t = [p \in 0..m.len + 1 |-> IF p <= a THEN s[p] ELSE s[p + 1]]
  BY <1>3 DEF Unshifted, Closed
<1> HIDE DEF t, Q
<1>5. \A y \in Places(m) : Q[y] = IF P[y] <= a THEN P[y] ELSE P[y] - 1
  BY <1>4
<1>6. \A p \in 0..m.len + 1 : t[p] = IF p <= a THEN s[p] ELSE s[p + 1]
  BY <1>4
<1>7. ASSUME NEW p \in 0..m.len + 1
      PROVE  /\ t[p] \in Places(m)
             /\ Q[t[p]] = p
  <2>1. CASE p <= a
    <3>1. p \in 0..l.len + 1 /\ p # a + 1
      BY <1>1, <1>3, <2>1
    <3>2. t[p] = s[p] /\ s[p] \in Places(l) /\ P[s[p]] = p
      BY <1>1, <1>6, <2>1, <3>1
    <3>3. t[p] \in Places(m)
      BY <1>1, <1>3, <3>1, <3>2
    <3> QED
      BY <1>5, <2>1, <3>2, <3>3
  <2>2. CASE ~(p <= a)
    <3>1. p + 1 \in 0..l.len + 1 /\ p + 1 # a + 1 /\ ~(p + 1 <= a) /\ (p + 1) - 1 = p
      BY <1>1, <1>3, <2>2
    <3>2. t[p] = s[p + 1] /\ s[p + 1] \in Places(l) /\ P[s[p + 1]] = p + 1
      BY <1>1, <1>6, <2>2, <3>1
    <3>3. t[p] \in Places(m)
      BY <1>1, <1>3, <3>1, <3>2
    <3> QED
      BY <1>5, <3>1, <3>2, <3>3
  <2> QED
    BY <2>1, <2>2
<1>8. ASSUME NEW y \in Places(m)
      PROVE  /\ Q[y] \in 0..m.len + 1
             /\ t[Q[y]] = y
  <2>1. y \in Places(l) /\ P[y] \in 0..l.len + 1 /\ P[y] # a + 1 /\ s[P[y]] = y
    BY <1>1, <1>3
  <2>2. CASE P[y] <= a
    <3>1. Q[y] = P[y] /\ P[y] \in 0..m.len + 1
      BY <1>1, <1>3, <1>5, <2>1, <2>2
    <3> QED
      BY <1>6, <2>1, <2>2, <3>1
  <2>3. CASE ~(P[y] <= a)
    <3>1. Q[y] = P[y] - 1 /\ P[y] - 1 \in 0..m.len + 1 /\ ~(P[y] - 1 <= a) /\ (P[y] - 1) + 1 = P[y]
      BY <1>1, <1>3, <1>5, <2>1, <2>3
    <3> QED
      BY <1>6, <2>1, <3>1
  <2> QED
    BY <2>2, <2>3
<1>9. t[0] = head /\ t[m.len + 1] = Null
  <2>1. 0 \in 0..m.len + 1 /\ 0 <= a /\ m.len + 1 \in 0..m.len + 1 /\ ~(m.len + 1 <= a)
        /\ (m.len + 1) + 1 = l.len + 1
    BY <1>1, <1>3
  <2> QED
    BY <1>1, <1>6, <2>1
<1>10. t \in [0..m.len + 1 -> Places(m)]
  BY <1>4, <1>7
<1>11. Q \in [Places(m) -> 0..m.len + 1]
  BY <1>4, <1>8
<1> QED
  BY <1>3, <1>7, <1>8, <1>9, <1>10, <1>11 DEF InPlace, t, Q

\* The links that a level leads through are in the arrays.
LEMMA ArrayLinks ==
  ASSUME NEW l, NEW s, NEW P, NEW h, InPlace(l, s, P), Typed(l, h), Leveled(l, P, h),
         NEW y \in DOMAIN l.node, NEW i \in 1..l.level, i <= h[y]
  PROVE  /\ DOMAIN l.node[y].level = 1..Len(l.node[y].level)
         /\ i \in 1..Len(l.node[y].level)
         /\ l.node[y].level[i] \in Link(l)
         /\ l.node[y].level[i].zforward \in Places(l)
         /\ Leads(l, P, h, i, y)
<1>1. l.node[y].level \in Seq(Link(l)) /\ Len(l.node[y].level) \in h[y]..MaxLevel /\ h[y] \in 1..MaxLevel
      /\ l.level \in 1..MaxLevel /\ MaxLevel \in Nat
  BY MaxLevelAssumption DEF Typed, Places
<1>2. i \in 1..Len(l.node[y].level) /\ DOMAIN l.node[y].level = 1..Len(l.node[y].level)
  BY <1>1
<1>3. l.node[y].level[i] \in Link(l)
  BY <1>1, <1>2, ElementOfSeq
<1>4. l.node[y].level[i].zforward \in Places(l)
  BY <1>3 DEF Link, Places, Nodes
<1> QED
  BY <1>2, <1>3, <1>4 DEF Leveled

\* The list m is l with the links led past x.
LinksPast(l, m, h, x, update) ==
  \A y \in DOMAIN l.node \ {x}, i \in 1..l.level :
    /\ i <= h[y] /\ update[i] # y => m.node[y].level[i] = l.node[y].level[i]
    /\ i <= h[y] /\ update[i] = y /\ l.node[y].level[i].zforward = x =>
         /\ m.node[y].level[i].zforward = l.node[x].level[i].zforward
         /\ m.node[y].level[i].zspan = l.node[y].level[i].zspan + l.node[x].level[i].zspan - 1
    /\ i <= h[y] /\ update[i] = y /\ l.node[y].level[i].zforward # x =>
         /\ m.node[y].level[i].zforward = l.node[y].level[i].zforward
         /\ m.node[y].level[i].zspan = l.node[y].level[i].zspan - 1

\* Unlinked leads them so (Skiplist.cc:128-138).
LEMMA UnlinkedLinks ==
  ASSUME NEW l, NEW s, NEW P, NEW h, NEW x, NEW update,
         Unlinking(l, s, P, h, x, update), NEW m, m = Unlinked(l, x, update)
  PROVE  LinksPast(l, m, h, x, update)
<1>1. \A y \in DOMAIN l.node \ {x} : m.node[y].level = Bypassed(l, y, x, update)
  <2>1. \A y \in DOMAIN l.node \ {x} :
          NodeIs(m.node[y], l.node[y].obj, l.node[y].score, Bypassed(l, y, x, update))
    BY UnlinkedNodes
  <2> QED
    BY <2>1, MembersOf
<1>2. InPlace(l, s, P) /\ Typed(l, h) /\ Leveled(l, P, h) /\ l.level \in Nat
  BY MaxLevelAssumption DEF Unlinking, Typed
<1>3. ASSUME NEW y \in DOMAIN l.node \ {x}, NEW i \in 1..l.level, i <= h[y]
      PROVE  /\ update[i] # y => m.node[y].level[i] = l.node[y].level[i]
             /\ update[i] = y /\ l.node[y].level[i].zforward = x =>
                  /\ m.node[y].level[i].zforward = l.node[x].level[i].zforward
                  /\ m.node[y].level[i].zspan = l.node[y].level[i].zspan + l.node[x].level[i].zspan - 1
             /\ update[i] = y /\ l.node[y].level[i].zforward # x =>
                  /\ m.node[y].level[i].zforward = l.node[y].level[i].zforward
                  /\ m.node[y].level[i].zspan = l.node[y].level[i].zspan - 1
  <2> DEFINE at == l.node[y].level[i]
             gone == l.node[x].level[i]
  <2>1. i \in DOMAIN l.node[y].level /\ at \in Link(l)
    BY <1>2, <1>3, ArrayLinks
  <2>2. ~(i > l.level)
    BY <1>2
  <2>3. m.node[y].level[i] =
          IF i > l.level \/ update[i] # y THEN at
          ELSE IF at.zforward = x
            THEN [zforward |-> gone.zforward, zspan |-> at.zspan + gone.zspan - 1]
          ELSE [at EXCEPT !.zspan = @ - 1]
    <3>1. m.node[y].level[i] = Bypassed(l, y, x, update)[i]
      BY <1>1
    <3>2. Bypassed(l, y, x, update)[i] =
            IF i > l.level \/ update[i] # y THEN at
            ELSE IF at.zforward = x
              THEN [zforward |-> gone.zforward, zspan |-> at.zspan + gone.zspan - 1]
            ELSE [at EXCEPT !.zspan = @ - 1]
      BY <2>1 DEF Bypassed
    <3> QED
      BY <3>1, <3>2
  <2>4. CASE update[i] # y
    BY <2>3, <2>4
  <2>5. CASE update[i] = y /\ at.zforward = x
    <3>1. m.node[y].level[i] = [zforward |-> gone.zforward, zspan |-> at.zspan + gone.zspan - 1]
      BY <2>2, <2>3, <2>5
    <3> QED
      BY <2>5, <3>1
  <2>6. CASE update[i] = y /\ at.zforward # x
    <3>1. m.node[y].level[i] = [at EXCEPT !.zspan = @ - 1]
      BY <2>2, <2>3, <2>6
    <3> QED
      BY <2>1, <2>6, <3>1 DEF Link
  <2> QED
    BY <2>4, <2>5, <2>6
<1> QED
  BY <1>3 DEF LinksPast

\* Led past x, every level still leads to its next place, and counts right.
LEMMA UnlinkedLeads ==
  ASSUME NEW l, NEW s, NEW P, NEW h, NEW x, NEW update, NEW a, a = P[update[1]],
         Unlinking(l, s, P, h, x, update), NEW m, m = Unlinked(l, x, update),
         NEW y \in DOMAIN l.node \ {x}, NEW i \in 1..l.level, i <= h[y]
  PROVE  /\ Leads(m, Unshifted(l, P, x, a), HeightsWithout(l, h, x), i, y)
         /\ m.node[y].level[i].zforward \in Places(l) \ {x}
         /\ m.node[y].level[i].zspan \in Nat
         /\ update[i] = y => P[m.node[y].level[i].zforward] > a + 1
<1> DEFINE Q == Unshifted(l, P, x, a)
           g == HeightsWithout(l, h, x)
           n == l.node[y].level[i].zforward
<1>1. /\ l.len \in Nat /\ a \in 0..l.len - 1 /\ P[x] = a + 1 /\ s[a + 1] = x
      /\ l.level \in 1..MaxLevel /\ MaxLevel \in Nat
      /\ x \in Places(l) /\ x # head /\ x # Null /\ Null \in Places(l) /\ head \in Places(l)
      /\ P[head] = 0 /\ P[Null] = l.len + 1
      /\ \A v \in Places(l) : P[v] \in 0..l.len + 1 /\ s[P[v]] = v /\ h[v] \in 1..MaxLevel
      /\ \A v \in Places(l) : v # x => P[v] # a + 1
  BY UnlinkNumbers
<1>2. /\ InPlace(l, s, P) /\ Typed(l, h) /\ Leveled(l, P, h) /\ Straddles(l, P, h, update)
      /\ x \in Nodes(l) /\ x \in DOMAIN l.node
  BY DEF Unlinking, Nodes
<1>3. DOMAIN m.node = DOMAIN l.node \ {x} /\ m.len = l.len - 1
  BY UnlinkedNodes
<1>4. /\ Nodes(m) = Nodes(l) \ {x} /\ Nodes(m) \subseteq Places(l) \ {x} /\ y \in Places(l) \ {x}
      /\ Nodes(l) \subseteq Places(l)
  BY <1>3 DEF Nodes, Places
<1>5. \A v \in Places(l) \ {x} : /\ Q[v] = IF P[v] <= a THEN P[v] ELSE P[v] - 1
                                 /\ g[v] = h[v]
  BY DEF Unshifted, HeightsWithout
<1>6. /\ update[i] # y => m.node[y].level[i] = l.node[y].level[i]
      /\ update[i] = y /\ n = x =>
           /\ m.node[y].level[i].zforward = l.node[x].level[i].zforward
           /\ m.node[y].level[i].zspan = l.node[y].level[i].zspan + l.node[x].level[i].zspan - 1
      /\ update[i] = y /\ n # x =>
           /\ m.node[y].level[i].zforward = n
           /\ m.node[y].level[i].zspan = l.node[y].level[i].zspan - 1
  <2>1. LinksPast(l, m, h, x, update)
    BY UnlinkedLinks
  <2> QED
    BY <2>1 DEF LinksPast
<1>7. /\ n \in Places(l) /\ P[y] < P[n] /\ i <= h[n]
      /\ \A v \in Nodes(l) : P[y] < P[v] /\ P[v] < P[n] => h[v] < i
      /\ l.node[y].level[i].zspan = (IF n = Null THEN l.len ELSE P[n]) - P[y]
  <2>1. n \in Places(l) /\ Leads(l, P, h, i, y)
    BY <1>2, ArrayLinks
  <2> QED
    BY <2>1 DEF Leads
<1> DEFINE u == update[i]
           w == l.node[u].level[i].zforward
<1>8. u \in DOMAIN l.node /\ u \in Places(l) /\ i <= h[u] /\ P[u] <= a /\ a < P[w]
  BY <1>2 DEF Straddles, Places
<1>9. /\ w \in Places(l)
      /\ \A v \in Nodes(l) : P[u] < P[v] /\ P[v] < P[w] => h[v] < i
  <2>1. w \in Places(l) /\ Leads(l, P, h, i, u)
    BY <1>2, <1>8, ArrayLinks
  <2> QED
    BY <2>1 DEF Leads
<1>10. /\ P[y] \in Int /\ P[n] \in Int /\ P[u] \in Int /\ P[w] \in Int
       /\ h[y] \in Int /\ h[u] \in Int /\ i \in Int /\ P[y] >= 0
  <2>1. \A v \in Places(l) : P[v] \in Int /\ P[v] >= 0 /\ h[v] \in Int
    BY <1>1
  <2> HIDE DEF n, u, w
  <2>2. y \in Places(l) /\ n \in Places(l) /\ u \in Places(l) /\ w \in Places(l)
    BY <1>4, <1>7, <1>8, <1>9
  <2>3. i \in Int
    BY <1>1
  <2> QED
    BY <2>1, <2>2, <2>3
<1> HIDE DEF Q, g, n
\* The nodes that lead to x.
<1>11. CASE update[i] = y /\ n = x
  <2> DEFINE k == l.node[x].level[i].zforward
  <2>1. /\ k \in Places(l) /\ P[x] < P[k] /\ i <= h[k]
        /\ \A v \in Nodes(l) : P[x] < P[v] /\ P[v] < P[k] => h[v] < i
        /\ l.node[x].level[i].zspan = (IF k = Null THEN l.len ELSE P[k]) - P[x]
    <3>1. k \in Places(l) /\ Leads(l, P, h, i, x)
      BY <1>2, <1>7, <1>11, ArrayLinks
    <3> QED
      BY <3>1 DEF Leads
  <2>2. /\ m.node[y].level[i].zforward = k
        /\ m.node[y].level[i].zspan = l.node[y].level[i].zspan + l.node[x].level[i].zspan - 1
    BY <1>6, <1>11
  <2> HIDE DEF k
  <2>3. P[k] \in 0..l.len + 1 /\ P[k] > a + 1 /\ k # x
    BY <1>1, <2>1
  <2>4. Q[y] = P[y] /\ Q[k] = P[k] - 1 /\ g[k] = h[k]
    BY <1>1, <1>4, <1>5, <1>8, <1>11, <2>1, <2>3
  <2>5. ASSUME NEW v \in Nodes(m), Q[y] < Q[v], Q[v] < Q[k]
        PROVE  g[v] < i
    <3>1. v \in Nodes(l) /\ v # x /\ v \in Places(l) /\ P[v] \in Int /\ P[v] # a + 1
      BY <1>1, <1>4
    <3>2. (P[y] < P[v] /\ P[v] < P[n]) \/ (P[x] < P[v] /\ P[v] < P[k])
      BY <1>1, <1>5, <1>8, <1>10, <1>11, <2>3, <2>4, <2>5, <3>1
    <3> QED
      BY <1>5, <1>7, <2>1, <3>1, <3>2
  <2>6. m.node[y].level[i].zspan = (IF k = Null THEN m.len ELSE Q[k]) - Q[y]
    BY <1>1, <1>3, <1>7, <1>10, <1>11, <2>1, <2>2, <2>3, <2>4
  <2>7. Q[y] < Q[k] /\ i <= g[k]
    BY <1>1, <1>7, <1>10, <1>11, <2>1, <2>3, <2>4
  <2>8. m.node[y].level[i].zspan \in Nat
    BY <1>1, <1>3, <1>10, <2>3, <2>4, <2>6, <2>7
  <2> QED
    BY <2>1, <2>2, <2>3, <2>5, <2>6, <2>7, <2>8 DEF Leads, Q, g
\* Those that lead over it.
<1>12. CASE update[i] = y /\ n # x
  <2>1. /\ m.node[y].level[i].zforward = n
        /\ m.node[y].level[i].zspan = l.node[y].level[i].zspan - 1
    BY <1>6, <1>12
  <2>2. P[n] \in 0..l.len + 1 /\ P[n] > a + 1
    <3>1. a < P[n] /\ P[n] # a + 1
      BY <1>1, <1>7, <1>8, <1>12 DEF n
    <3> QED
      BY <1>1, <1>7, <3>1
  <2>3. Q[y] = P[y] /\ Q[n] = P[n] - 1 /\ g[n] = h[n]
    BY <1>1, <1>4, <1>5, <1>7, <1>8, <1>12, <2>2
  <2>4. ASSUME NEW v \in Nodes(m), Q[y] < Q[v], Q[v] < Q[n]
        PROVE  g[v] < i
    <3>1. v \in Nodes(l) /\ v # x /\ v \in Places(l) /\ P[v] \in Int /\ P[v] # a + 1
      BY <1>1, <1>4
    <3>2. P[y] < P[v] /\ P[v] < P[n]
      BY <1>1, <1>5, <1>8, <1>10, <1>12, <2>2, <2>3, <2>4, <3>1
    <3> QED
      BY <1>5, <1>7, <3>1, <3>2
  <2>5. m.node[y].level[i].zspan = (IF n = Null THEN m.len ELSE Q[n]) - Q[y]
    BY <1>1, <1>3, <1>7, <1>10, <2>1, <2>2, <2>3
  <2>6. Q[y] < Q[n] /\ i <= g[n]
    <3>1. P[y] <= a
      BY <1>8, <1>12
    <3> QED
      BY <1>1, <1>7, <1>10, <2>2, <2>3, <3>1
  <2>7. m.node[y].level[i].zspan \in Nat
    BY <1>1, <1>3, <1>10, <2>2, <2>3, <2>5, <2>6
  <2> QED
    BY <1>7, <1>12, <2>1, <2>2, <2>4, <2>5, <2>6, <2>7 DEF Leads, Q, g
\* The others.
<1>13. CASE update[i] # y
  <2>1. m.node[y].level[i] = l.node[y].level[i]
    BY <1>6, <1>13
  <2>2. P[y] > a \/ P[n] <= a
    <3>1. P[y] # P[u]
      <4>1. s[P[y]] = y /\ s[P[u]] = u
        BY <1>1, <1>4, <1>8
      <4> QED
        BY <1>13, <4>1
    <3>2. CASE P[y] < P[u]
      <4>1. u \in Nodes(l)
        BY <1>1, <1>8, <1>10, <3>2 DEF Nodes
      <4>2. ~(P[u] < P[n])
        BY <1>7, <1>8, <1>10, <3>2, <4>1
      <4> QED
        BY <1>1, <1>8, <1>10, <4>2
    <3>3. CASE P[u] < P[y]
      <4>1. y \in Nodes(l)
        <5>1. y # head
          BY <1>1, <1>8, <1>10, <3>3
        <5> QED
          BY <5>1 DEF Nodes
      <4>2. ~(h[y] < i)
        BY <1>10
      <4>3. ~(P[y] < P[w])
        BY <1>9, <3>3, <4>1, <4>2
      <4> QED
        BY <1>1, <1>8, <1>10, <4>3
    <3> QED
      BY <1>10, <3>1, <3>2, <3>3
  <2>3. n # x
    <3>1. P[y] # a + 1
      BY <1>1, <1>4
    <3>2. n = x => P[n] = a + 1
      BY <1>1
    <3> QED
      BY <1>1, <1>7, <1>10, <2>2, <3>1, <3>2
  <2>4. /\ P[y] # a + 1 /\ P[n] # a + 1
        /\ P[n] \in 0..l.len + 1
        /\ Q[y] = IF P[y] <= a THEN P[y] ELSE P[y] - 1
        /\ Q[n] = IF P[n] <= a THEN P[n] ELSE P[n] - 1
        /\ g[n] = h[n]
    BY <1>1, <1>4, <1>5, <1>7, <2>3
  <2>5. ASSUME NEW v \in Nodes(m), Q[y] < Q[v], Q[v] < Q[n]
        PROVE  g[v] < i
    <3>1. v \in Nodes(l) /\ v # x /\ v \in Places(l) /\ P[v] \in Int /\ P[v] # a + 1
      BY <1>1, <1>4
    <3>2. Q[v] = IF P[v] <= a THEN P[v] ELSE P[v] - 1
      BY <1>5, <3>1
    <3>3. P[y] < P[v] /\ P[v] < P[n]
      BY <1>1, <1>10, <2>2, <2>4, <2>5, <3>1, <3>2
    <3> QED
      BY <1>5, <1>7, <3>1, <3>3
  <2>6. Q[y] < Q[n] /\ i <= g[n]
    BY <1>1, <1>7, <1>10, <2>2, <2>4
  <2>7. m.node[y].level[i].zspan = (IF n = Null THEN m.len ELSE Q[n]) - Q[y]
    <3>1. CASE P[y] > a
      <4>1. Q[y] = P[y] - 1 /\ Q[n] = P[n] - 1
        BY <1>1, <1>7, <1>10, <2>4, <3>1
      <4> QED
        BY <1>1, <1>3, <1>7, <1>10, <2>1, <4>1
    <3>2. CASE ~(P[y] > a)
      <4>1. Q[y] = P[y] /\ Q[n] = P[n] /\ n # Null
        BY <1>1, <1>10, <2>2, <2>4, <3>2
      <4> QED
        BY <1>7, <2>1, <4>1
    <3> QED
      BY <3>1, <3>2
  <2>8. m.node[y].level[i].zspan \in Nat
    <3>1. l.node[y].level[i] \in Link(l)
      BY <1>2, ArrayLinks
    <3> QED
      BY <2>1, <3>1 DEF Link
  <2>9. m.node[y].level[i].zforward = n
    BY <2>1 DEF n
  <2> QED
    BY <1>7, <1>13, <2>3, <2>5, <2>6, <2>7, <2>8, <2>9 DEF Leads, Q, g
<1> QED
  BY <1>11, <1>12, <1>13

\* The arrays of the nodes that stay.
LEMMA UnlinkedArrays ==
  ASSUME NEW l, NEW s, NEW P, NEW h, NEW x, NEW update,
         Unlinking(l, s, P, h, x, update), NEW m, m = Unlinked(l, x, update),
         NEW y \in DOMAIN l.node \ {x}
  PROVE  /\ m.node[y].level \in Seq(Link(m))
         /\ Len(m.node[y].level) = Len(l.node[y].level)
         /\ \A i \in 1..Len(l.node[y].level) :
              i > l.level \/ i > h[y] => m.node[y].level[i].zforward = Null
<1> DEFINE old == l.node[y].level
           new == Bypassed(l, y, x, update)
           Q == Unshifted(l, P, x, P[update[1]])
           g == HeightsWithout(l, h, x)
<1>1. m.node[y].level = new
  <2>1. NodeIs(m.node[y], l.node[y].obj, l.node[y].score, Bypassed(l, y, x, update))
    BY UnlinkedNodes
  <2> QED
    BY <2>1, MembersOf
<1>2. /\ InPlace(l, s, P) /\ Typed(l, h) /\ Leveled(l, P, h) /\ Straddles(l, P, h, update)
      /\ x \in Nodes(l) /\ x \in DOMAIN l.node /\ l.level \in 1..MaxLevel /\ MaxLevel \in Nat
      /\ y \in DOMAIN l.node /\ y # x /\ head \in DOMAIN l.node
  BY MaxLevelAssumption DEF Unlinking, Nodes, Typed
<1>3. old \in Seq(Link(l)) /\ Len(old) \in h[y]..MaxLevel /\ h[y] \in 1..MaxLevel
      /\ DOMAIN old = 1..Len(old) /\ Len(old) \in Nat
  <2>1. old \in Seq(Link(l)) /\ Len(old) \in h[y]..MaxLevel /\ h[y] \in 1..MaxLevel
    BY <1>2 DEF Typed, Places
  <2> QED
    BY <2>1
<1>4. /\ new = [i \in 1..Len(old) |-> new[i]]
      /\ \A i \in 1..Len(old) :
           new[i] = IF i > l.level \/ update[i] # y THEN old[i]
                    ELSE IF old[i].zforward = x
                      THEN [zforward |-> l.node[x].level[i].zforward,
                            zspan |-> old[i].zspan + l.node[x].level[i].zspan - 1]
                    ELSE [old[i] EXCEPT !.zspan = @ - 1]
  BY <1>3 DEF Bypassed
<1>5. \A i \in 1..Len(old) : old[i] \in Link(l)
  BY <1>3, ElementOfSeq
<1>6. DOMAIN m.node = DOMAIN l.node \ {x} /\ Nodes(m) = Nodes(l) \ {x}
  <2>1. DOMAIN m.node = DOMAIN l.node \ {x}
    BY UnlinkedNodes
  <2> QED
    BY <2>1 DEF Nodes
<1> HIDE DEF new
<1>7. ASSUME NEW i \in 1..Len(old), i > l.level \/ i > h[y]
      PROVE  new[i] = old[i] /\ old[i].zforward = Null
  <2>1. i > l.level \/ update[i] # y
    <3>1. i \in 1..l.level => i <= h[update[i]]
      BY <1>2 DEF Straddles
    <3> QED
      BY <1>2, <1>3, <1>7, <3>1
  <2>2. old[i].zforward = Null
    <3>1. CASE y = head
      <4>1. h[head] = MaxLevel
        BY <1>2 DEF Typed
      <4>2. i \in 1..MaxLevel /\ i > l.level
        BY <1>2, <1>3, <1>7, <3>1, <4>1
      <4> QED
        BY <1>2, <3>1, <4>2 DEF Typed
    <3>2. CASE y # head
      <4>1. y \in Nodes(l)
        BY <1>2, <3>2 DEF Nodes
      <4>2. h[y] <= l.level
        BY <1>2, <4>1 DEF Typed
      <4>3. i > h[y]
        BY <1>2, <1>3, <1>7, <4>2
      <4> QED
        BY <1>2, <4>1, <4>3 DEF Typed
    <3> QED
      BY <3>1, <3>2
  <2> QED
    BY <1>4, <2>1, <2>2
<1>8. ASSUME NEW i \in 1..Len(old)
      PROVE  new[i] \in Link(m)
  <2>1. CASE i > l.level \/ i > h[y]
    BY <1>5, <1>6, <1>7, <2>1 DEF Link
  <2>2. CASE ~(i > l.level \/ i > h[y])
    <3>1. i \in 1..l.level /\ i <= h[y]
      BY <1>2, <1>3, <2>2
    <3>2. new[i].zforward \in Places(l) \ {x} /\ new[i].zspan \in Nat
      BY <1>1, <1>2, <3>1, UnlinkedLeads
    <3>3. /\ new[i] = [zforward |-> new[i].zforward, zspan |-> new[i].zspan]
          /\ new[i].zforward \in Nodes(l) \cup {Null}
      <4>1. CASE i > l.level \/ update[i] # y
        BY <1>4, <1>5, <4>1 DEF Link
      <4>2. CASE ~(i > l.level \/ update[i] # y) /\ old[i].zforward = x
        <5>1. new[i] = [zforward |-> l.node[x].level[i].zforward,
                        zspan |-> old[i].zspan + l.node[x].level[i].zspan - 1]
          BY <1>4, <4>2
        <5>2. i <= h[x]
          <6>1. Leads(l, P, h, i, y)
            BY <1>2, <3>1, ArrayLinks
          <6> QED
            BY <4>2, <6>1 DEF Leads
        <5>3. l.node[x].level[i] \in Link(l)
          BY <1>2, <3>1, <5>2, ArrayLinks
        <5> QED
          BY <5>1, <5>3 DEF Link
      <4>3. CASE ~(i > l.level \/ update[i] # y) /\ old[i].zforward # x
        <5>1. new[i] = [old[i] EXCEPT !.zspan = @ - 1]
          BY <1>4, <4>3
        <5> QED
          BY <1>5, <5>1 DEF Link
      <4> QED
        BY <4>1, <4>2, <4>3
    <3>4. new[i].zforward \in Nodes(m) \cup {Null}
      BY <1>6, <3>2, <3>3
    <3> QED
      BY <3>2, <3>3, <3>4 DEF Link
  <2> QED
    BY <2>1, <2>2
<1>9. new \in [1..Len(old) -> Link(m)]
  BY <1>4, <1>8
<1>10. new \in Seq(Link(m)) /\ Len(new) = Len(old)
  BY <1>3, <1>9, FunctionIsSeq
<1> QED
  BY <1>1, <1>7, <1>10

\* The nodes keep their types, and no empty level is left on top
\* (Skiplist.cc:145-146).
LEMMA UnlinkedTyped ==
  ASSUME NEW l, NEW s, NEW P, NEW h, NEW x, NEW update,
         Unlinking(l, s, P, h, x, update), NEW m, m = Unlinked(l, x, update)
  PROVE  Typed(m, HeightsWithout(l, h, x)) /\ TopUsed(m) /\ m.level \in 1..l.level
<1> DEFINE a == P[update[1]]
           Q == Unshifted(l, P, x, a)
           g == HeightsWithout(l, h, x)
<1>1. /\ l.level \in 1..MaxLevel /\ MaxLevel \in Nat
      /\ head \in DOMAIN l.node /\ Nodes(l) \subseteq Addr
      /\ x \in Places(l) /\ x # head /\ x # Null /\ Null \in Places(l) /\ head \in Places(l)
      /\ \A v \in Places(l) : h[v] \in 1..MaxLevel
  BY UnlinkNumbers
<1>2. /\ InPlace(l, s, P) /\ Typed(l, h) /\ Leveled(l, P, h)
      /\ h[head] = MaxLevel /\ h[Null] = MaxLevel
  BY DEF Unlinking, Typed
<1>3. DOMAIN m.node = DOMAIN l.node \ {x} /\ m.level = Lowered(m.node, l.level) /\ m.len = l.len - 1
  BY UnlinkedNodes
<1>4. /\ Nodes(m) = Nodes(l) \ {x} /\ Places(m) = Places(l) \ {x} /\ head \in DOMAIN m.node
      /\ Nodes(m) \subseteq Addr
  BY <1>1, <1>3 DEF Nodes, Places
<1>5. /\ m.level \in 1..l.level
      /\ m.level = 1 \/ m.node[head].level[m.level].zforward # Null
      /\ \A j \in m.level + 1..l.level : m.node[head].level[j].zforward = Null
  <2>1. l.level \in Nat /\ l.level >= 1
    BY <1>1
  <2> QED
    BY <1>3, <2>1, LoweredIs
<1>6. g \in [Places(m) -> 1..MaxLevel] /\ \A y \in Places(m) : g[y] = h[y]
  BY <1>1, <1>4 DEF HeightsWithout
<1>7. \A y \in DOMAIN m.node :
        /\ m.node[y].obj = l.node[y].obj /\ m.node[y].score = l.node[y].score
        /\ NodeIs(m.node[y], m.node[y].obj, m.node[y].score, m.node[y].level)
  <2>1. \A y \in DOMAIN l.node \ {x} :
          NodeIs(m.node[y], l.node[y].obj, l.node[y].score, Bypassed(l, y, x, update))
    BY UnlinkedNodes
  <2> QED
    BY <1>3, <2>1, MembersOf
<1>8. ASSUME NEW y \in DOMAIN m.node
      PROVE  /\ m.node[y].level \in Seq(Link(m))
             /\ Len(m.node[y].level) = Len(l.node[y].level)
             /\ \A i \in 1..Len(l.node[y].level) :
                  i > l.level \/ i > h[y] => m.node[y].level[i].zforward = Null
             /\ Len(l.node[y].level) \in h[y]..MaxLevel
             /\ y \in Places(m)
  <2>1. y \in DOMAIN l.node \ {x}
    BY <1>3
  <2>2. Len(l.node[y].level) \in h[y]..MaxLevel
    BY <1>2, <2>1 DEF Typed
  <2> QED
    BY <2>1, <2>2, UnlinkedArrays DEF Places
<1> HIDE DEF g, Q
<1>9. ASSUME NEW y \in Nodes(m)
      PROVE  h[y] <= m.level
  <2>1. InPlace(m, Closed(l, s, a), Q)
    BY UnlinkedInPlace DEF Q
  <2>2. /\ Q[head] = 0 /\ Q[Null] = m.len + 1 /\ m.len \in Nat /\ Q[y] \in 1..m.len
    BY <1>4, <2>1, Numbers
  <2>3. y \in Nodes(l) /\ y \in Places(m) /\ h[y] <= l.level /\ h[y] \in 1..MaxLevel
    <3>1. y \in Nodes(l) /\ y \in Places(m) /\ y \in Places(l)
      BY <1>4 DEF Nodes, Places
    <3>2. h[y] <= l.level
      BY <1>2, <3>1 DEF Typed
    <3> QED
      BY <1>1, <3>1, <3>2
  <2>4. CASE h[y] > m.level
    <3>1. h[y] \in m.level + 1..l.level /\ h[y] \in 1..l.level /\ h[y] <= h[head]
      BY <1>1, <1>2, <1>5, <2>3, <2>4
    <3>2. m.node[head].level[h[y]].zforward = Null
      BY <1>5, <3>1
    <3>3. head \in DOMAIN l.node \ {x}
      BY <1>1
    <3>4. Leads(m, Q, g, h[y], head)
      BY <3>1, <3>3, UnlinkedLeads DEF Q, g
    <3>5. Q[head] < Q[y] /\ Q[y] < Q[Null]
      BY <2>2
    <3>6. g[y] < h[y]
      BY <3>2, <3>4, <3>5 DEF Leads
    <3> QED
      BY <1>6, <2>3, <3>6
  <2> QED
    BY <1>1, <1>5, <2>3, <2>4
<1>10. ASSUME NEW y \in Nodes(m)
       PROVE  /\ m.node[y].obj \in Texts /\ m.node[y].score \in Scores
              /\ g[y] <= m.level
              /\ \A i \in 1..Len(m.node[y].level) : i > g[y] => m.node[y].level[i].zforward = Null
  <2>1. y \in Nodes(l) /\ y \in DOMAIN m.node /\ y \in Places(m)
    BY <1>4 DEF Nodes, Places
  <2>2. l.node[y].obj \in Texts /\ l.node[y].score \in Scores
    BY <1>2, <2>1 DEF Typed
  <2> QED
    BY <1>6, <1>7, <1>8, <1>9, <2>1, <2>2
<1>11. ASSUME NEW i \in 1..MaxLevel, i > m.level
       PROVE  m.node[head].level[i].zforward = Null
  <2>1. CASE i \in m.level + 1..l.level
    BY <1>5, <2>1
  <2>2. CASE i \notin m.level + 1..l.level
    <3>1. i > l.level
      BY <1>1, <1>5, <1>11, <2>2
    <3>2. Len(l.node[head].level) \in h[head]..MaxLevel
      BY <1>4, <1>8
    <3>3. i \in 1..Len(l.node[head].level)
      BY <1>1, <1>2, <3>2
    <3> QED
      BY <1>4, <1>8, <3>1, <3>3
  <2> QED
    BY <2>1, <2>2
<1>12. ASSUME NEW y \in DOMAIN m.node
       PROVE  /\ m.node[y] = [obj |-> m.node[y].obj, score |-> m.node[y].score,
                              backward |-> m.node[y].backward, level |-> m.node[y].level]
              /\ m.node[y].level \in Seq(Link(m))
              /\ Len(m.node[y].level) \in g[y]..MaxLevel
  BY <1>6, <1>7, <1>8 DEF NodeIs
<1>13. m.level \in 1..MaxLevel /\ g[head] = MaxLevel /\ g[Null] = MaxLevel
  <2>1. head \in Places(m) /\ Null \in Places(m)
    BY <1>1, <1>4
  <2> QED
    BY <1>1, <1>2, <1>5, <1>6, <2>1
<1>14. Typed(m, g)
  BY <1>4, <1>6, <1>10, <1>11, <1>12, <1>13 DEF Typed
<1>15. TopUsed(m)
  BY <1>5 DEF TopUsed
<1> QED
  BY <1>5, <1>14, <1>15 DEF g

\* The next node is linked backwards past x, and the tail is set if x was it
\* (Skiplist.cc:139-143).
LEMMA UnlinkedMirrored ==
  ASSUME NEW l, NEW s, NEW P, NEW h, NEW x, NEW update, NEW a, a = P[update[1]],
         Unlinking(l, s, P, h, x, update), Mirrored(l, s, P), NEW m, m = Unlinked(l, x, update)
  PROVE  Mirrored(m, Closed(l, s, a), Unshifted(l, P, x, a))
<1> DEFINE t == Closed(l, s, a)
           Q == Unshifted(l, P, x, a)
           next == l.node[x].level[1].zforward
<1>1. /\ l.len \in Nat /\ a \in 0..l.len - 1 /\ P[x] = a + 1 /\ s[a + 1] = x
      /\ x \in Places(l) /\ x # head /\ x # Null /\ Null \in Places(l) /\ head \in Places(l)
      /\ P[head] = 0 /\ P[Null] = l.len + 1 /\ s[0] = head /\ s[l.len + 1] = Null
      /\ head \in DOMAIN l.node
  BY UnlinkNumbers
<1>2. /\ \A y \in Places(l) : s[P[y]] = y
      /\ \A y \in Nodes(l) : P[y] \in 1..l.len
      /\ \A p \in 0..l.len + 1 : s[p] \in Places(l) /\ P[s[p]] = p
      /\ \A y \in Places(l) : y # x => P[y] # a + 1
  BY UnlinkNumbers
<1>3. /\ DOMAIN m.node = DOMAIN l.node \ {x} /\ m.len = l.len - 1
      /\ m.tail = IF next = Null THEN l.node[x].backward ELSE l.tail
      /\ \A y \in DOMAIN l.node \ {x} :
           m.node[y].backward = IF y = next THEN l.node[x].backward ELSE l.node[y].backward
  BY UnlinkedNodes
<1>4. Nodes(m) = Nodes(l) \ {x} /\ x \in Nodes(l) /\ Nodes(l) \subseteq Places(l) /\ x \in DOMAIN l.node
  BY <1>3 DEF Nodes, Places, Unlinking
<1>5. next = s[a + 2]
  <2>1. next = s[P[x] + 1]
    BY <1>4, NextPlace DEF Unlinking
  <2>2. P[x] + 1 = a + 2
    BY <1>1
  <2> QED
    BY <2>1, <2>2
<1>6. l.node[x].backward = IF a = 0 THEN Null ELSE s[a]
  <2>1. l.node[x].backward = IF P[x] = 1 THEN Null ELSE s[P[x] - 1]
    BY <1>4 DEF Mirrored
  <2>2. (P[x] = 1 <=> a = 0) /\ P[x] - 1 = a
    BY <1>1
  <2> QED
    BY <2>1, <2>2
<1>7. a + 2 \in 0..l.len + 1 /\ P[next] = a + 2
  <2>1. a + 2 \in 0..l.len + 1
    BY <1>1
  <2> QED
    BY <1>2, <1>5, <2>1
<1>8. \A p \in 0..l.len : t[p] = IF p <= a THEN s[p] ELSE s[p + 1]
  BY DEF Closed
<1>9. \A y \in Nodes(m) : Q[y] = IF P[y] <= a THEN P[y] ELSE P[y] - 1
  BY <1>4 DEF Unshifted
<1> HIDE DEF t, Q, next
<1>10. m.tail = IF m.len = 0 THEN Null ELSE t[m.len]
  <2>1. CASE next = Null
    <3>1. m.len = a /\ a \in 0..l.len /\ a <= a
      BY <1>1, <1>3, <1>7, <2>1
    <3>2. t[a] = s[a]
      BY <1>8, <3>1
    <3> QED
      BY <1>3, <1>6, <2>1, <3>1, <3>2
  <2>2. CASE next # Null
    <3>1. a + 2 # l.len + 1
      BY <1>1, <1>5, <2>2
    <3>2. m.len \in 0..l.len /\ ~(m.len <= a) /\ m.len + 1 = l.len /\ m.len # 0 /\ l.len # 0
      BY <1>1, <1>3, <3>1
    <3>3. t[m.len] = s[l.len]
      BY <1>8, <3>2
    <3> QED
      BY <1>3, <2>2, <3>2, <3>3 DEF Mirrored
  <2> QED
    BY <2>1, <2>2
<1>11. m.node[head].backward = Null
  <2>1. next # head
    BY <1>1, <1>7
  <2> QED
    BY <1>1, <1>3, <2>1 DEF Mirrored
<1>12. ASSUME NEW y \in Nodes(m)
       PROVE  m.node[y].backward = IF Q[y] = 1 THEN Null ELSE t[Q[y] - 1]
  <2>1. /\ y \in Nodes(l) /\ y \in DOMAIN l.node \ {x} /\ y \in Places(l) /\ P[y] \in 1..l.len
        /\ P[y] # a + 1 /\ s[P[y]] = y
    <3>1. y \in Nodes(l) /\ y \in DOMAIN l.node \ {x} /\ y \in Places(l)
      BY <1>3, <1>4 DEF Nodes
    <3> QED
      BY <1>2, <3>1
  <2>2. CASE y = next
    <3>1. Q[y] = a + 1 /\ (Q[y] = 1 <=> a = 0) /\ Q[y] - 1 = a /\ a \in 0..l.len
      BY <1>1, <1>7, <1>9, <2>2
    <3>2. t[a] = s[a]
      BY <1>8, <3>1
    <3> QED
      BY <1>3, <1>6, <2>1, <2>2, <3>1, <3>2
  <2>3. CASE y # next
    <3>1. m.node[y].backward = IF P[y] = 1 THEN Null ELSE s[P[y] - 1]
      BY <1>3, <2>1, <2>3 DEF Mirrored
    <3>2. P[y] # a + 2
      BY <1>5, <2>1, <2>3
    <3>3. CASE P[y] <= a
      <4>1. Q[y] = P[y] /\ P[y] - 1 \in 0..l.len /\ P[y] - 1 <= a
        BY <1>1, <1>9, <2>1, <3>3
      <4>2. t[P[y] - 1] = s[P[y] - 1]
        BY <1>8, <4>1
      <4> QED
        BY <3>1, <4>1, <4>2
    <3>4. CASE ~(P[y] <= a)
      <4>1. /\ Q[y] = P[y] - 1 /\ Q[y] # 1 /\ P[y] # 1
            /\ Q[y] - 1 \in 0..l.len /\ ~(Q[y] - 1 <= a) /\ (Q[y] - 1) + 1 = P[y] - 1
        BY <1>1, <1>9, <2>1, <3>2, <3>4
      <4>2. t[Q[y] - 1] = s[P[y] - 1]
        BY <1>8, <4>1
      <4> QED
        BY <3>1, <4>1, <4>2
    <3> QED
      BY <3>3, <3>4
  <2> QED
    BY <2>2, <2>3
<1> QED
  BY <1>10, <1>11, <1>12 DEF Mirrored, t, Q

\* Taking a node out keeps the list arranged, and update straddles the place
\* still.
LEMMA UnlinkKeeps ==
  ASSUME NEW l, NEW s, NEW P, NEW h, NEW x, NEW update, NEW a, a = P[update[1]],
         Arranged(l, s, P, h), Straddles(l, P, h, update), x \in Nodes(l), P[x] = a + 1,
         NEW m, m = Unlinked(l, x, update),
         NEW Q, Q = Unshifted(l, P, x, a), NEW g, g = HeightsWithout(l, h, x)
  PROVE  /\ Arranged(m, Closed(l, s, a), Q, g)
         /\ Straddles(m, Q, g, update)
         /\ Q[update[1]] = a
         /\ m.len = l.len - 1
         /\ Nodes(m) = Nodes(l) \ {x}
         /\ \A y \in Nodes(m) : m.node[y].obj = l.node[y].obj /\ m.node[y].score = l.node[y].score
<1>1. Unlinking(l, s, P, h, x, update)
  BY DEF Unlinking, Arranged
<1>2. /\ l.len \in Nat /\ a \in 0..l.len - 1 /\ P[x] = a + 1 /\ s[a + 1] = x
      /\ l.level \in 1..MaxLevel /\ MaxLevel \in Nat
      /\ \A v \in Places(l) : P[v] \in 0..l.len + 1
      /\ \A v \in Nodes(l) : P[v] \in 1..l.len
      /\ \A v \in Places(l) : v # x => P[v] # a + 1
  BY <1>1, UnlinkNumbers
<1>3. DOMAIN m.node = DOMAIN l.node \ {x} /\ m.len = l.len - 1
  BY <1>1, UnlinkedNodes
<1>4. Nodes(m) = Nodes(l) \ {x} /\ Nodes(l) \subseteq Places(l)
  BY <1>3 DEF Nodes, Places
<1>5. \A y \in Nodes(m) : m.node[y].obj = l.node[y].obj /\ m.node[y].score = l.node[y].score
  <2>1. \A y \in DOMAIN l.node \ {x} :
          NodeIs(m.node[y], l.node[y].obj, l.node[y].score, Bypassed(l, y, x, update))
    BY <1>1, UnlinkedNodes
  <2>2. Nodes(m) \subseteq DOMAIN l.node \ {x}
    BY <1>3 DEF Nodes
  <2> QED
    BY <2>1, <2>2, MembersOf
<1>6. Typed(m, g) /\ TopUsed(m) /\ m.level \in 1..l.level
  BY <1>1, UnlinkedTyped
<1>7. InPlace(m, Closed(l, s, a), Q)
  BY <1>1, UnlinkedInPlace
<1>8. Mirrored(m, Closed(l, s, a), Q)
  BY <1>1, UnlinkedMirrored DEF Arranged
<1>9. \A y \in Places(l) \ {x} : /\ Q[y] = IF P[y] <= a THEN P[y] ELSE P[y] - 1
                                 /\ g[y] = h[y]
  BY DEF Unshifted, HeightsWithout
<1>10. Ascends(m, Q)
  <2> SUFFICES ASSUME NEW y \in Nodes(m), NEW v \in Nodes(m), Q[y] < Q[v]
               PROVE  m.node[y].score <= m.node[v].score
    BY DEF Ascends
  <2>1. y \in Nodes(l) /\ v \in Nodes(l) /\ y \in Places(l) \ {x} /\ v \in Places(l) \ {x}
    BY <1>4
  <2>2. P[y] < P[v]
    <3>1. P[y] \in 1..l.len /\ P[v] \in 1..l.len /\ P[y] # a + 1 /\ P[v] # a + 1
      BY <1>2, <2>1
    <3> QED
      BY <1>2, <1>9, <2>1, <3>1
  <2>3. l.node[y].score <= l.node[v].score
    BY <2>1, <2>2 DEF Arranged, Ascends
  <2> QED
    BY <1>5, <2>3
<1>11. Leveled(m, Q, g)
  <2> SUFFICES ASSUME NEW y \in DOMAIN m.node, NEW i \in 1..m.level, i <= g[y]
               PROVE  Leads(m, Q, g, i, y)
    BY DEF Leveled
  <2>1. y \in DOMAIN l.node \ {x} /\ y \in Places(l) \ {x}
    BY <1>3 DEF Places
  <2>2. i \in 1..l.level /\ i <= h[y]
    BY <1>2, <1>6, <1>9, <2>1
  <2> QED
    BY <1>1, <2>1, <2>2, UnlinkedLeads
<1>12. Straddles(m, Q, g, update) /\ Q[update[1]] = a
  <2>1. ASSUME NEW i \in 1..l.level
        PROVE  /\ update[i] \in DOMAIN l.node \ {x} /\ update[i] \in Places(l) \ {x} /\ i <= h[update[i]]
               /\ P[update[i]] <= a /\ Q[update[i]] = P[update[i]]
    <3>1. update[i] \in DOMAIN l.node /\ i <= h[update[i]] /\ P[update[i]] <= a
      BY DEF Straddles
    <3>2. update[i] # x
      BY <1>2, <3>1
    <3>3. update[i] \in Places(l) \ {x}
      BY <3>1, <3>2 DEF Places
    <3> QED
      BY <1>9, <3>1, <3>2, <3>3
  <2>2. 1 \in 1..l.level
    BY <1>2
  <2>3. Q[update[1]] = a
    BY <2>1, <2>2
  <2>4. ASSUME NEW i \in 1..m.level
        PROVE  /\ update[i] \in DOMAIN m.node
               /\ i <= g[update[i]]
               /\ Q[update[i]] <= Q[update[1]]
               /\ Q[update[1]] < Q[m.node[update[i]].level[i].zforward]
    <3>1. i \in 1..l.level
      BY <1>2, <1>6
    <3> DEFINE n == m.node[update[i]].level[i].zforward
    <3>2. n \in Places(l) \ {x} /\ P[n] > a + 1
      BY <1>1, <2>1, <3>1, UnlinkedLeads
    <3> HIDE DEF n
    <3>3. Q[n] > a
      <4>1. P[n] \in 0..l.len + 1 /\ ~(P[n] <= a)
        BY <1>2, <3>2
      <4> QED
        BY <1>2, <1>9, <3>2, <4>1
    <3>4. update[i] \in DOMAIN m.node
      BY <1>3, <2>1, <3>1
    <3>5. i <= g[update[i]] /\ Q[update[i]] <= Q[update[1]]
      BY <1>9, <2>1, <2>3, <3>1
    <3>6. a < Q[n]
      BY <1>2, <1>9, <3>2, <3>3
    <3> QED
      BY <2>3, <3>4, <3>5, <3>6 DEF n
  <2> QED
    BY <2>3, <2>4 DEF Straddles
<1> QED
  BY <1>3, <1>4, <1>5, <1>6, <1>7, <1>8, <1>10, <1>11, <1>12 DEF Arranged

-----------------------------------------------------------------------------
(* Walks that collect the nodes.                                           *)

High(i, h) == {v \in heap : i <= h[v]}

\* What From returns, a node at a time.
LEMMA FromUnfolds ==
  ASSUME NEW s, NEW P, NEW h, Arranged(z, s, P, h), NEW i \in 1..z.level,
         NEW T \in SUBSET heap, NEW y \in Tall(i) \cup {Null}
  PROVE  /\ y \in T => forward(y, i) \in Tall(i) \cup {Null}
         /\ From(y, i, T) = IF y \in T THEN <<y>> \o From(forward(y, i), i, T) ELSE <<>>
         /\ From(y, i, T) \in Seq(heap)
         /\ y = Null \/ i <= h[y] => From(y, i, T) \in Seq(High(i, h))
<1> DEFINE A == Tall(i) \cup {Null}
           V == Seq(heap)
           W == Seq(High(i, h))
           N == z.len + 1
           Ends == A \ T
           base == [v \in A |-> <<>>]
           next == [v \in A |-> IF v \in Ends THEN v ELSE forward(v, i)]
           step == [v \in A |-> [q \in V |-> IF v \in Ends THEN q ELSE <<v>> \o q]]
           rank == [v \in A |-> N - P[v]]
           Is(f) == f = [n \in Tall(i) \cup {Null} |->
                           IF n \in T THEN <<n>> \o f[forward(n, i)] ELSE <<>>]
<1>1. /\ z.len \in Nat /\ N \in Nat /\ P[Null] = N
      /\ \A v \in A : P[v] \in 0..N
      /\ Null \notin heap /\ Null \in A
  <2>1. InPlace(z, s, P) /\ head \in DOMAIN z.node /\ Nodes(z) \subseteq Addr
    BY DEF Arranged, Typed
  <2>2. /\ z.len \in Nat /\ P[Null] = z.len + 1
        /\ \A v \in Places(z) : P[v] \in 0..z.len + 1
    BY <2>1, Numbers
  <2>3. A \subseteq Places(z)
    BY DEF Tall, Places
  <2>4. Null \notin heap
    BY <2>1, AddrAssumption DEF heap, Nodes
  <2> QED
    BY <2>2, <2>3, <2>4
<1>2. \A v \in A \ Ends : /\ v \in heap /\ v \in Tall(i)
                          /\ forward(v, i) \in A
                          /\ P[v] < P[forward(v, i)]
                          /\ forward(v, i) = Null \/ (forward(v, i) \in heap /\ i <= h[forward(v, i)])
  <2> SUFFICES ASSUME NEW v \in A \ Ends
               PROVE  /\ v \in heap /\ v \in Tall(i)
                      /\ forward(v, i) \in A
                      /\ P[v] < P[forward(v, i)]
                      /\ forward(v, i) = Null \/ (forward(v, i) \in heap /\ i <= h[forward(v, i)])
    OBVIOUS
  <2>1. v \in heap /\ v \in Tall(i)
    BY <1>1
  <2>2. /\ forward(v, i) \in heap \cup {Null}
        /\ forward(v, i) \in heap => /\ forward(v, i) \in Tall(i)
                                     /\ P[v] < P[forward(v, i)]
                                     /\ i <= h[v]
    BY <2>1, LinkLeads
  <2>3. CASE forward(v, i) = Null
    <3>1. P[v] \in 1..z.len
      <4>1. InPlace(z, s, P) /\ head \in DOMAIN z.node /\ Nodes(z) \subseteq Addr /\ v \in Nodes(z)
        BY <2>1 DEF Arranged, Typed, Nodes, heap
      <4> QED
        BY <4>1, Numbers
    <3> QED
      BY <1>1, <2>1, <2>3, <3>1
  <2>4. CASE forward(v, i) \in heap
    <3>1. Leads(z, P, h, i, v)
      BY <2>1, <2>2, <2>4 DEF Arranged, Leveled, heap
    <3>2. i <= h[forward(v, i)]
      BY <3>1 DEF Leads, forward
    <3> QED
      BY <2>1, <2>2, <2>4, <3>2
  <2> QED
    BY <2>2, <2>3, <2>4
<1>3. \E f : Is(f)
  <2>1. <<>> \in V /\ \A v \in heap, q \in V : <<v>> \o q \in V
    OBVIOUS
  <2>2. base \in [A -> V] /\ next \in [A -> A]
    BY <1>2, <2>1
  <2>3. step \in [A -> [V -> V]]
    <3>1. \A v \in A, q \in V : (IF v \in Ends THEN q ELSE <<v>> \o q) \in V
      BY <1>2, <2>1
    <3> HIDE DEF A, V, Ends
    <3> QED
      BY <3>1
  <2>4. rank \in [A -> 0..N]
    BY <1>1
  <2>5. Descends(A, Ends, next, rank)
    <3> SUFFICES ASSUME NEW v \in A \ Ends PROVE rank[next[v]] < rank[v]
      BY DEF Descends
    <3>1. next[v] = forward(v, i) /\ forward(v, i) \in A /\ P[v] < P[forward(v, i)]
      BY <1>2
    <3> QED
      BY <1>1, <3>1
  <2> HIDE DEF A, V, Ends, base, next, step, rank, N
  <2>6. PICK f \in [A -> V] : Recurs(f, A, Ends, base, next, step)
    BY <1>1, <2>2, <2>3, <2>4, <2>5, DescendingFunction
  <2>7. ASSUME NEW v \in A
        PROVE  f[v] = IF v \in T THEN <<v>> \o f[forward(v, i)] ELSE <<>>
    <3>1. f[v] = IF v \in Ends THEN base[v] ELSE step[v][f[next[v]]]
      BY <2>6 DEF Recurs
    <3>2. v \in Ends <=> v \notin T
      BY DEF Ends
    <3>3. base[v] = <<>>
      BY DEF base
    <3>4. CASE v \notin Ends
      <4>1. next[v] = forward(v, i) /\ forward(v, i) \in A
        BY <1>2, <3>4 DEF next
      <4>2. f[forward(v, i)] \in V
        BY <2>6, <4>1
      <4>3. step[v][f[forward(v, i)]] = <<v>> \o f[forward(v, i)]
        BY <3>4, <4>2 DEF step
      <4> QED
        BY <3>1, <3>2, <3>4, <4>1, <4>3
    <3> QED
      BY <3>1, <3>2, <3>3, <3>4
  <2>8. f = [v \in A |-> IF v \in T THEN <<v>> \o f[forward(v, i)] ELSE <<>>]
    BY <2>6, <2>7
  <2> QED
    BY <2>8 DEF A
<1> DEFINE run == CHOOSE f : Is(f)
<1>4. Is(run)
  BY <1>3
<1>5. \A x : From(x, i, T) = run[x]
  BY DEF From
<1>6. \A v \in A : run[v] = IF v \in T THEN <<v>> \o run[forward(v, i)] ELSE <<>>
  BY <1>4
<1> HIDE DEF run
<1>7. \A v \in A : v \in Ends <=> v \notin T
  OBVIOUS
<1>8. <<>> \in V /\ <<>> \in W /\ (\A v \in heap, q \in V : <<v>> \o q \in V)
      /\ (\A v \in High(i, h), q \in W : <<v>> \o q \in W)
  OBVIOUS
<1>9. \A v \in heap : i <= h[v] => v \in High(i, h)
  BY DEF High
<1> HIDE DEF A, V, W, Ends
<1> DEFINE Good(v) == run[v] \in V /\ (v = Null \/ i <= h[v] => run[v] \in W)
<1>10. ASSUME NEW v \in A, v \in Ends PROVE Good(v)
  BY <1>6, <1>7, <1>8, <1>10
<1>11. ASSUME NEW v \in A \ Ends, Good(forward(v, i)) PROVE Good(v)
  <2>1. run[v] = <<v>> \o run[forward(v, i)] /\ v \in heap
    BY <1>2, <1>6, <1>7
  <2>2. run[v] \in V
    BY <1>8, <1>11, <2>1
  <2>3. v # Null /\ run[forward(v, i)] \in W
    BY <1>1, <1>2, <1>11, <2>1
  <2>4. i <= h[v] => run[v] \in W
    BY <1>8, <1>9, <2>1, <2>3
  <2> QED
    BY <2>2, <2>3, <2>4
<1> HIDE DEF Good
<1> DEFINE Right == {n \in 0..N : \A v \in A : N - P[v] <= n => Good(v)}
<1>12. 0 \in Right
  <2> SUFFICES ASSUME NEW v \in A, N - P[v] <= 0 PROVE Good(v)
    BY <1>1
  <2>1. v \in Ends
    <3>1. CASE v \notin Ends
      <4>1. P[v] < P[forward(v, i)] /\ P[forward(v, i)] \in 0..N /\ P[v] \in 0..N
        BY <1>1, <1>2, <3>1
      <4> QED
        BY <1>1, <4>1
    <3> QED
      BY <3>1
  <2> QED
    BY <1>10, <2>1
<1>13. ASSUME NEW n \in 0..N - 1, n \in Right
       PROVE  n + 1 \in Right
  <2>0. n + 1 \in 0..N
    BY <1>1
  <2> SUFFICES ASSUME NEW v \in A, N - P[v] <= n + 1 PROVE Good(v)
    BY <2>0
  <2>1. CASE v \notin Ends
    <3>1. P[v] < P[forward(v, i)] /\ P[forward(v, i)] \in 0..N /\ P[v] \in 0..N
          /\ forward(v, i) \in A
      BY <1>1, <1>2, <2>1
    <3>2. N - P[forward(v, i)] <= n
      BY <1>1, <3>1
    <3>3. Good(forward(v, i))
      BY <1>13, <3>1, <3>2
    <3> QED
      BY <1>11, <2>1, <3>3
  <2> QED
    BY <1>10, <2>1
<1>14. N \in Right
  <2>1. 0 \in Nat /\ N \in 0..N
    BY <1>1
  <2> HIDE DEF Right, N
  <2>2. 0..N \subseteq Right
    BY <1>1, <1>12, <1>13, <2>1, SetInduction
  <2> QED
    BY <2>1, <2>2
<1>15. \A v \in A : Good(v)
  <2>1. \A v \in A : N - P[v] <= N
    BY <1>1
  <2> QED
    BY <1>14, <2>1
<1>16. y \in A
  BY DEF A
<1>17. y \in T => forward(y, i) \in A
  BY <1>2, <1>7, <1>16
<1> QED
  BY <1>5, <1>6, <1>15, <1>16, <1>17 DEF Good, A, V, W

\* The nodes of the n places behind place a.
Listed(s, a, n) == [j \in 1..n |-> s[a + j]]

\* They are a sequence of as many elements.
LEMMA ListedIsSeq ==
  ASSUME NEW s, NEW a \in Int, NEW n \in Nat, NEW T, \A j \in 1..n : s[a + j] \in T
  PROVE  Listed(s, a, n) \in Seq(T) /\ Len(Listed(s, a, n)) = n
<1>1. Listed(s, a, n) \in [1..n -> T]
  BY DEF Listed
<1> QED
  BY <1>1, FunctionIsSeq

\* They begin with the node at the next place.
LEMMA ListedCons ==
  ASSUME NEW s, NEW a \in Int, NEW n \in Nat, NEW T, \A j \in 1..n + 1 : s[a + j] \in T
  PROVE  <<s[a + 1]>> \o Listed(s, a + 1, n) = Listed(s, a, n + 1)
<1> DEFINE q == Listed(s, a + 1, n)
           r == Listed(s, a, n + 1)
           x == s[a + 1]
<1>1. q \in Seq(T) /\ Len(q) = n
  <2>1. \A j \in 1..n : s[(a + 1) + j] \in T
    <3> SUFFICES ASSUME NEW j \in 1..n PROVE s[(a + 1) + j] \in T
      OBVIOUS
    <3>1. j + 1 \in 1..n + 1 /\ (a + 1) + j = a + (j + 1)
      OBVIOUS
    <3> QED
      BY <3>1
  <2>2. a + 1 \in Int
    OBVIOUS
  <2> QED
    BY <2>1, <2>2, ListedIsSeq
<1>2. r \in Seq(T) /\ Len(r) = n + 1
  <2>1. n + 1 \in Nat
    OBVIOUS
  <2> QED
    BY <2>1, ListedIsSeq
<1>3. x \in T
  <2>1. 1 \in 1..n + 1
    OBVIOUS
  <2> QED
    BY <2>1
<1>4. \A j \in 1..n : q[j] = s[(a + 1) + j]
  BY DEF Listed
<1>5. \A j \in 1..n + 1 : r[j] = s[a + j]
  BY DEF Listed
<1> HIDE DEF q, r, x
<1>6. <<x>> \o q \in Seq(T) /\ Len(<<x>> \o q) = n + 1
      /\ \A j \in 1..n + 1 : (<<x>> \o q)[j] = IF j = 1 THEN x ELSE q[j - 1]
  BY <1>1, <1>3
<1>7. ASSUME NEW j \in 1..n + 1
      PROVE  (<<x>> \o q)[j] = r[j]
  <2>1. CASE j = 1
    BY <1>5, <1>6, <2>1 DEF x
  <2>2. CASE j # 1
    <3>1. j - 1 \in 1..n /\ (a + 1) + (j - 1) = a + j
      BY <2>2
    <3> QED
      BY <1>4, <1>5, <1>6, <2>2, <3>1
  <2> QED
    BY <2>1, <2>2
<1>8. <<x>> \o q = r
  BY <1>2, <1>6, <1>7, SeqEqual
<1> QED
  BY <1>8 DEF q, r, x

\* The places behind a up to b have nodes of T, and the one behind b has not.
Until(s, T, a, b) == (\A p \in a + 1..b : s[p] \in T) /\ s[b + 1] \notin T

\* Null is of no set of nodes.
LEMMA UntilExists ==
  ASSUME NEW s, NEW P, NEW h, Arranged(z, s, P, h), NEW T \in SUBSET heap, NEW a \in 0..z.len
  PROVE  \E b \in a..z.len : Until(s, T, a, b)
<1> DEFINE Out == {p \in a + 1..z.len + 1 : s[p] \notin T}
<1>1. z.len \in Nat /\ s[z.len + 1] = Null /\ Null \notin heap
  BY AddrAssumption DEF Arranged, InPlace, Typed, heap, Nodes
<1>2. Out \in SUBSET Nat /\ Out # {}
  <2>1. z.len + 1 \in a + 1..z.len + 1
    BY <1>1
  <2>2. z.len + 1 \in Out
    BY <1>1, <2>1
  <2> QED
    BY <1>1, <2>2
<1>3. PICK b \in Out : \A p \in Out : b <= p
  <2> HIDE DEF Out
  <2> QED
    BY <1>2, Least
<1>4. b - 1 \in a..z.len /\ (b - 1) + 1 = b
  BY <1>1, <1>3
<1>5. \A p \in a + 1..b - 1 : s[p] \in T
  <2> SUFFICES ASSUME NEW p \in a + 1..b - 1 PROVE s[p] \in T
    OBVIOUS
  <2>1. p \in a + 1..z.len + 1 /\ ~(b <= p)
    BY <1>1, <1>3, <1>4
  <2> QED
    BY <1>3, <2>1
<1>6. Until(s, T, a, b - 1)
  BY <1>3, <1>4, <1>5 DEF Until
<1> QED
  BY <1>4, <1>6

\* A walk of the lowest level collects them.
LEMMA FromListed ==
  ASSUME NEW s, NEW P, NEW h, Arranged(z, s, P, h), NEW T \in SUBSET heap,
         NEW a \in 0..z.len, NEW b \in a..z.len, Until(s, T, a, b)
  PROVE  From(s[a + 1], 1, T) = Listed(s, a, b - a)
<1> DEFINE Good == {n \in 0..b - a : From(s[(b - n) + 1], 1, T) = Listed(s, b - n, n)}
<1>1. /\ InPlace(z, s, P) /\ Typed(z, h) /\ Leveled(z, P, h)
      /\ head \in DOMAIN z.node /\ Nodes(z) \subseteq Addr /\ 1 \in 1..z.level
      /\ z.len \in Nat /\ s[z.len + 1] = Null /\ heap = Nodes(z)
      /\ \A v \in Places(z) : h[v] \in 1..MaxLevel
  BY MaxLevelAssumption DEF Arranged, Typed, InPlace, heap, Nodes
<1>2. \A p \in 1..z.len : s[p] \in heap /\ P[s[p]] = p
  <2>1. \A p \in 1..z.len : s[p] \in heap /\ p \in 0..z.len + 1
    BY <1>1, Numbers
  <2> QED
    BY <1>1, <2>1 DEF InPlace
<1>3. ASSUME NEW p \in 1..z.len + 1
      PROVE  s[p] \in Tall(1) \cup {Null}
  <2>1. CASE p = z.len + 1
    BY <1>1, <2>1
  <2>2. CASE p # z.len + 1
    <3>1. p \in 1..z.len
      BY <1>1, <2>2
    <3>2. s[p] \in DOMAIN z.node /\ 1 <= h[s[p]]
      <4>1. s[p] \in Nodes(z) /\ s[p] \in Places(z)
        BY <1>1, <1>2, <3>1 DEF Nodes, Places
      <4>2. h[s[p]] \in 1..MaxLevel
        BY <1>1, <4>1
      <4> QED
        BY <4>1, <4>2, MaxLevelAssumption DEF Nodes
    <3> QED
      BY <1>1, <3>2, HighAreTall
  <2> QED
    BY <2>1, <2>2
<1>4. 0 \in Good
  <2>1. b - 0 = b /\ 0 \in 0..b - a /\ b + 1 \in 1..z.len + 1
    BY <1>1
  <2>2. From(s[b + 1], 1, T) = <<>>
    <3> DEFINE y == s[b + 1]
    <3>1. y \notin T
      BY DEF Until
    <3>2. y \in Tall(1) \cup {Null} /\ 1 \in 1..z.level
      BY <1>1, <1>3, <2>1
    <3> HIDE DEF y
    <3>3. From(y, 1, T) = IF y \in T THEN <<y>> \o From(forward(y, 1), 1, T) ELSE <<>>
      BY <3>2, FromUnfolds
    <3> QED
      BY <3>1, <3>3 DEF y
  <2>3. Listed(s, b, 0) = <<>>
    <3>1. Listed(s, b, 0) \in Seq(heap) /\ Len(Listed(s, b, 0)) = 0
      <4>1. b \in Int /\ 0 \in Nat /\ \A j \in 1..0 : s[b + j] \in heap
        OBVIOUS
      <4> QED
        BY <4>1, ListedIsSeq
    <3> QED
      BY <3>1, EmptySeq
  <2> QED
    BY <2>1, <2>2, <2>3
<1>5. ASSUME NEW n \in 0..(b - a) - 1, n \in Good
      PROVE  n + 1 \in Good
  <2> DEFINE c == b - (n + 1)
  <2>1. /\ c \in a..b - 1 /\ c + 1 = b - n /\ n + 1 \in 0..b - a /\ c \in Int /\ n \in Nat
        /\ c + 1 \in a + 1..b /\ c + 1 \in 1..z.len
    BY <1>1
  <2> HIDE DEF c
  <2>2. From(s[(c + 1) + 1], 1, T) = Listed(s, c + 1, n)
    BY <1>5, <2>1
  <2> DEFINE x == s[c + 1]
  <2>3. x \in T /\ x \in heap /\ P[x] = c + 1 /\ x \in Tall(1) \cup {Null}
    <3>1. x \in T
      BY <2>1 DEF Until
    <3>2. x \in heap /\ P[x] = c + 1
      BY <1>2, <2>1
    <3>3. x \in Tall(1) \cup {Null}
      BY <1>1, <1>3, <2>1
    <3> QED
      BY <3>1, <3>2, <3>3
  <2>4. forward(x, 1) = s[(c + 1) + 1]
    <3>1. x \in DOMAIN z.node
      BY <2>3 DEF heap
    <3> QED
      BY <1>1, <2>3, <3>1, NextPlace DEF forward
  <2>5. From(x, 1, T) = <<x>> \o From(forward(x, 1), 1, T)
    <3> HIDE DEF x
    <3>1. 1 \in 1..z.level
      BY <1>1
    <3>2. From(x, 1, T) = IF x \in T THEN <<x>> \o From(forward(x, 1), 1, T) ELSE <<>>
      BY <2>3, <3>1, FromUnfolds
    <3> QED
      BY <2>3, <3>2
  <2>6. <<x>> \o Listed(s, c + 1, n) = Listed(s, c, n + 1)
    <3> SUFFICES \A j \in 1..n + 1 : s[c + j] \in heap
      BY <2>1, ListedCons
    <3> SUFFICES ASSUME NEW j \in 1..n + 1 PROVE s[c + j] \in heap
      OBVIOUS
    <3>1. c + j \in 1..z.len
      BY <1>1, <2>1
    <3> QED
      BY <1>2, <3>1
  <2>7. From(s[c + 1], 1, T) = Listed(s, c, n + 1)
    BY <2>2, <2>4, <2>5, <2>6
  <2> QED
    BY <2>1, <2>7 DEF c
<1>6. b - a \in Good
  <2>1. 0 \in Nat /\ b - a \in Nat /\ b - a \in 0..b - a
    BY <1>1
  <2> HIDE DEF Good
  <2>2. 0..b - a \subseteq Good
    BY <1>4, <1>5, <2>1, SetInduction
  <2> QED
    BY <2>1, <2>2
<1>7. b - (b - a) = a
  BY <1>1
<1> QED
  BY <1>6, <1>7

\* Order lists the nodes by their places.
LEMMA OrderIs ==
  ASSUME NEW s, NEW P, NEW h, Arranged(z, s, P, h)
  PROVE  /\ Order = Listed(s, 0, z.len)
         /\ Order \in Seq(heap) /\ Len(Order) = z.len
         /\ \A p \in 1..z.len : Order[p] = s[p] /\ s[p] \in heap /\ P[s[p]] = p
         /\ \A x \in heap : P[x] \in 1..z.len /\ s[P[x]] = x
         /\ \A x \in DOMAIN z.node : Place(x) = P[x]
         /\ forward(head, 1) = s[1]
<1>1. /\ InPlace(z, s, P) /\ Typed(z, h) /\ Leveled(z, P, h)
      /\ head \in DOMAIN z.node /\ Nodes(z) \subseteq Addr
      /\ z.len \in Nat /\ s[z.len + 1] = Null /\ heap = Nodes(z) /\ Null \notin heap
  BY AddrAssumption DEF Arranged, Typed, InPlace, heap, Nodes
<1>2. /\ \A p \in 1..z.len : s[p] \in heap /\ P[s[p]] = p
      /\ \A x \in heap : P[x] \in 1..z.len /\ s[P[x]] = x
      /\ P[head] = 0
  <2>1. /\ \A p \in 1..z.len : s[p] \in heap /\ p \in 0..z.len + 1
        /\ \A x \in heap : P[x] \in 1..z.len /\ x \in Places(z)
        /\ P[head] = 0
    <3>1. /\ \A p \in 1..z.len : s[p] \in heap
          /\ \A x \in heap : P[x] \in 1..z.len
          /\ P[head] = 0
      BY <1>1, Numbers
    <3>2. 1..z.len \subseteq 0..z.len + 1 /\ heap \subseteq Places(z)
      BY <1>1 DEF Places, heap
    <3> QED
      BY <3>1, <3>2
  <2> QED
    BY <1>1, <2>1 DEF InPlace
<1>3. forward(head, 1) = s[1]
  <2>1. forward(head, 1) = s[P[head] + 1]
    BY <1>1, NextPlace DEF forward
  <2>2. P[head] + 1 = 1
    BY <1>2
  <2> QED
    BY <2>1, <2>2
<1>4. Order = Listed(s, 0, z.len)
  <2>1. Until(s, heap, 0, z.len)
    <3>1. \A p \in 0 + 1..z.len : s[p] \in heap
      BY <1>2
    <3> QED
      BY <1>1, <3>1 DEF Until
  <2>2. 0 \in 0..z.len /\ z.len \in 0..z.len /\ z.len - 0 = z.len /\ 0 + 1 = 1
    BY <1>1
  <2>3. From(s[0 + 1], 1, heap) = Listed(s, 0, z.len - 0)
    BY <2>1, <2>2, FromListed
  <2> QED
    BY <1>3, <2>2, <2>3 DEF Order, OnLevel
<1>5. Order \in Seq(heap) /\ Len(Order) = z.len
  <2>1. \A j \in 1..z.len : s[0 + j] \in heap
    BY <1>2
  <2> QED
    BY <1>1, <1>4, <2>1, ListedIsSeq
<1>6. \A p \in 1..z.len : Order[p] = s[p]
  BY <1>4 DEF Listed
<1>7. ASSUME NEW x \in DOMAIN z.node
      PROVE  Place(x) = P[x]
  <2>1. CASE x = head
    BY <1>2, <2>1 DEF Place
  <2>2. CASE x # head
    <3>1. x \in heap
      BY <2>2 DEF heap
    <3>2. \A p \in 1..z.len : Order[p] = x <=> p = P[x]
      BY <1>2, <1>6, <3>1
    <3>3. P[x] \in 1..Len(Order) /\ Order[P[x]] = x
      BY <1>2, <1>5, <3>1, <3>2
    <3>4. Place(x) = CHOOSE p \in 1..Len(Order) : Order[p] = x
      BY <2>2 DEF Place
    <3>5. Place(x) \in 1..Len(Order) /\ Order[Place(x)] = x
      BY <3>3, <3>4
    <3> QED
      BY <1>5, <3>2, <3>5
  <2> QED
    BY <2>1, <2>2
<1> QED
  BY <1>2, <1>3, <1>4, <1>5, <1>6, <1>7

-----------------------------------------------------------------------------
(* What the invariant says of the list.                                    *)

\* An arranged list has the types of TypeOK.
LEMMA ArrangedTyped ==
  ASSUME NEW s, NEW P, NEW h, Arranged(z, s, P, h), usable \in BOOLEAN
  PROVE  TypeOK
<1>1. /\ InPlace(z, s, P) /\ Typed(z, h) /\ Mirrored(z, s, P)
      /\ head \in DOMAIN z.node /\ Nodes(z) \subseteq Addr
      /\ heap = Nodes(z) /\ heap \cup {head} = DOMAIN z.node
  BY DEF Arranged, Typed, heap, Nodes
<1>2. /\ z.len \in Nat
      /\ \A p \in 1..z.len : s[p] \in Nodes(z)
      /\ \A x \in Nodes(z) : P[x] \in 1..z.len
  BY <1>1, Numbers
<1>3. z.tail \in heap \cup {Null}
  <2>1. CASE z.len = 0
    BY <1>1, <2>1 DEF Mirrored
  <2>2. CASE z.len # 0
    <3>1. z.len \in 1..z.len
      BY <1>2, <2>2
    <3> QED
      BY <1>1, <1>2, <2>2, <3>1 DEF Mirrored
  <2> QED
    BY <2>1, <2>2
<1>4. ASSUME NEW x \in heap \cup {head}
      PROVE  z.node[x].backward \in heap \cup {Null}
  <2>1. CASE x = head
    BY <1>1, <2>1 DEF Mirrored
  <2>2. CASE x # head /\ P[x] = 1
    BY <1>1, <2>2 DEF Mirrored
  <2>3. CASE x # head /\ P[x] # 1
    <3>1. z.node[x].backward = s[P[x] - 1] /\ P[x] \in 1..z.len
      BY <1>1, <1>2, <2>3 DEF Mirrored
    <3>2. P[x] - 1 \in 1..z.len
      BY <1>2, <2>3, <3>1
    <3> QED
      BY <1>1, <1>2, <3>1, <3>2
  <2> QED
    BY <2>1, <2>2, <2>3
<1>5. ASSUME NEW x \in heap \cup {head}, NEW i \in 1..Len(z.node[x].level)
      PROVE  z.node[x].level[i] \in [zforward : heap \cup {Null}, zspan : Nat]
  <2>1. z.node[x].level \in Seq(Link(z))
    BY <1>1 DEF Typed
  <2>2. z.node[x].level[i] \in Link(z)
    BY <2>1
  <2> QED
    BY <1>1, <2>2 DEF Link
<1>6. \A x \in heap \cup {head} : x # head => z.node[x].obj \in Texts /\ z.node[x].score \in Scores
  BY <1>1 DEF Typed, Nodes
<1>7. z.level \in 1..MaxLevel
  BY <1>1 DEF Typed
<1> QED
  BY <1>1, <1>2, <1>3, <1>4, <1>5, <1>6, <1>7 DEF TypeOK

\* A level lists nodes that it leads through.
LEMMA OnLevelHigh ==
  ASSUME NEW s, NEW P, NEW h, Arranged(z, s, P, h), NEW i \in 1..z.level
  PROVE  /\ OnLevel(i) \in Seq(High(i, h))
         /\ forward(head, i) # Null => OnLevel(i) # <<>>
         /\ \A x \in Range(OnLevel(i)) : x \in heap /\ i <= h[x]
<1>1. /\ Typed(z, h) /\ Leveled(z, P, h) /\ head \in DOMAIN z.node /\ h[head] = MaxLevel
      /\ z.level \in 1..MaxLevel /\ MaxLevel \in Nat
  BY MaxLevelAssumption DEF Arranged, Typed
<1>2. i <= h[head]
  BY <1>1
<1>3. head \in Tall(i)
  BY <1>1, <1>2, HighAreTall
<1> DEFINE y == forward(head, i)
<1>4. y \in heap \cup {Null} /\ (y \in heap => y \in Tall(i))
  BY <1>3, LinkLeads
<1>5. y \in Tall(i) \cup {Null}
  BY <1>4
<1>6. y = Null \/ i <= h[y]
  <2>1. Leads(z, P, h, i, head)
    BY <1>1, <1>2 DEF Leveled
  <2> QED
    BY <2>1 DEF Leads, forward
<1>7. heap \in SUBSET heap
  OBVIOUS
<1> HIDE DEF y
<1>8. From(y, i, heap) = IF y \in heap THEN <<y>> \o From(forward(y, i), i, heap) ELSE <<>>
  BY <1>5, <1>7, FromUnfolds
<1>9. y \in heap => forward(y, i) \in Tall(i) \cup {Null}
  BY <1>5, <1>7, FromUnfolds
<1>10. From(y, i, heap) \in Seq(High(i, h))
  BY <1>5, <1>6, <1>7, FromUnfolds
<1>11. ASSUME y \in heap PROVE From(y, i, heap) # <<>>
  <2> DEFINE r == forward(y, i)
             q == From(r, i, heap)
  <2>1. r \in Tall(i) \cup {Null}
    BY <1>9, <1>11
  <2> HIDE DEF r
  <2>2. q \in Seq(heap)
    BY <2>1, <1>7, FromUnfolds
  <2> HIDE DEF q
  <2>3. <<y>> \o q # <<>>
    <3>1. Len(<<y>> \o q) = 1 + Len(q) /\ Len(q) \in Nat
      BY <1>11, <2>2
    <3> QED
      BY <3>1
  <2> QED
    BY <1>8, <1>11, <2>3 DEF q, r
<1>12. OnLevel(i) = From(y, i, heap)
  BY DEF OnLevel, y
<1>13. y # Null => OnLevel(i) # <<>>
  BY <1>4, <1>11, <1>12
<1>14. ASSUME NEW x \in Range(OnLevel(i))
       PROVE  x \in heap /\ i <= h[x]
  <2>1. OnLevel(i) \in Seq(High(i, h))
    BY <1>10, <1>12
  <2>2. PICK p \in DOMAIN OnLevel(i) : x = OnLevel(i)[p]
    BY <1>14 DEF Range
  <2>3. x \in High(i, h)
    BY <2>1, <2>2, ElementOfSeq
  <2> QED
    BY <2>3 DEF High
<1> QED
  BY <1>10, <1>12, <1>13, <1>14 DEF y

\* The spans of an arranged list count its nodes.
LEMMA ArrangedSpans ==
  ASSUME NEW s, NEW P, NEW h, Arranged(z, s, P, h)
  PROVE  SpansCount
<1>1. /\ InPlace(z, s, P) /\ Typed(z, h) /\ Leveled(z, P, h) /\ TopUsed(z)
      /\ head \in DOMAIN z.node /\ Nodes(z) \subseteq Addr
      /\ z.level \in 1..MaxLevel /\ MaxLevel \in Nat /\ h[head] = MaxLevel
      /\ z.len \in Nat
  BY MaxLevelAssumption DEF Arranged, Typed, InPlace
<1>2. z.len = Len(Order) /\ \A x \in DOMAIN z.node : Place(x) = P[x]
  BY OrderIs
<1>3. z.level > 1 => OnLevel(z.level) # <<>>
  <2>1. z.level \in 1..z.level
    BY <1>1
  <2>2. forward(head, z.level) # Null => OnLevel(z.level) # <<>>
    BY <2>1, OnLevelHigh
  <2> QED
    BY <1>1, <2>2 DEF TopUsed, forward
<1>4. ASSUME NEW i \in 1..z.level, NEW x \in {head} \cup Range(OnLevel(i))
      PROVE  /\ z.node[x].level[i].zspan =
                  (IF forward(x, i) = Null THEN z.len ELSE Place(forward(x, i))) - Place(x)
             /\ forward(x, i) # Null => Place(forward(x, i)) > Place(x)
  <2>1. x \in DOMAIN z.node /\ i <= h[x]
    <3>1. CASE x = head
      BY <1>1, <3>1
    <3>2. CASE x # head
      <4>1. x \in heap /\ i <= h[x]
        BY <3>2, OnLevelHigh
      <4> QED
        BY <4>1 DEF heap
    <3> QED
      BY <3>1, <3>2
  <2>2. Leads(z, P, h, i, x)
    BY <1>1, <2>1 DEF Leveled
  <2>3. forward(x, i) \in DOMAIN z.node \cup {Null}
    <3>1. x \in Tall(i)
      BY <2>1, HighAreTall
    <3> QED
      BY <3>1, LinkLeads DEF heap
  <2>4. /\ Place(x) = P[x]
        /\ forward(x, i) # Null => Place(forward(x, i)) = P[forward(x, i)]
    BY <1>2, <2>1, <2>3
  <2>5. P[x] \in 0..z.len + 1 /\ P[forward(x, i)] \in 0..z.len + 1
    BY <1>1, <2>1, <2>3 DEF InPlace, Places
  <2>6. /\ z.node[x].level[i].zspan = (IF forward(x, i) = Null THEN z.len ELSE P[forward(x, i)]) - P[x]
        /\ P[x] < P[forward(x, i)]
    BY <2>2 DEF Leads, forward
  <2>7. forward(x, i) # Null => P[forward(x, i)] > P[x]
    BY <1>1, <2>5, <2>6
  <2> QED
    BY <2>4, <2>6, <2>7
<1> QED
  BY <1>2, <1>3, <1>4 DEF SpansCount

\* An arranged list is the same backwards.
LEMMA ArrangedBackward ==
  ASSUME NEW s, NEW P, NEW h, Arranged(z, s, P, h)
  PROVE  BackwardMirrors
<1>1. InPlace(z, s, P) /\ Mirrored(z, s, P) /\ z.len \in Nat /\ heap = Nodes(z)
  BY DEF Arranged, InPlace, heap, Nodes
<1>2. Order \in Seq(heap) /\ Len(Order) = z.len
  BY OrderIs
<1>3. \A p \in 1..z.len : Order[p] = s[p] /\ s[p] \in heap /\ P[s[p]] = p
  BY OrderIs
<1>4. \A x \in heap : P[x] \in 1..z.len /\ s[P[x]] = x
  BY OrderIs
<1>5. Range(Order) = heap
  <2>1. DOMAIN Order = 1..z.len
    BY <1>2
  <2> QED
    BY <1>3, <1>4, <2>1 DEF Range
<1>6. z.tail = IF Order = <<>> THEN Null ELSE Last(Order)
  <2>1. CASE z.len = 0
    <3>1. Order = <<>>
      BY <1>2, <2>1, EmptySeq
    <3> QED
      BY <1>1, <2>1, <3>1 DEF Mirrored
  <2>2. CASE z.len # 0
    <3>1. Order # <<>>
      BY <1>2, <2>2
    <3>2. z.len \in 1..z.len
      BY <1>1, <2>2
    <3>3. Last(Order) = s[z.len]
      BY <1>2, <1>3, <3>2 DEF Last
    <3> QED
      BY <1>1, <2>2, <3>1, <3>3 DEF Mirrored
  <2> QED
    BY <2>1, <2>2
<1>7. ASSUME NEW p \in 1..Len(Order)
      PROVE  z.node[Order[p]].backward = IF p = 1 THEN Null ELSE Order[p - 1]
  <2>1. p \in 1..z.len
    BY <1>2
  <2>2. Order[p] = s[p] /\ s[p] \in heap /\ P[s[p]] = p
    BY <1>3, <2>1
  <2>3. z.node[s[p]].backward = IF P[s[p]] = 1 THEN Null ELSE s[P[s[p]] - 1]
    BY <1>1, <2>2 DEF Mirrored
  <2>4. p # 1 => p - 1 \in 1..z.len
    BY <1>1, <2>1
  <2>5. p # 1 => Order[p - 1] = s[p - 1]
    BY <1>3, <2>4
  <2> QED
    BY <2>2, <2>3, <2>5
<1> QED
  BY <1>5, <1>6, <1>7 DEF BackwardMirrors

ScoresAscend(s) ==
  /\ \A p \in 1..z.len : z.node[s[p]].score \in Int
  /\ \A p, q \in 1..z.len : p <= q => z.node[s[p]].score <= z.node[s[q]].score

\* The scores at the places of the list.
LEMMA ScoresByPlace ==
  ASSUME NEW s, NEW P, NEW h, Arranged(z, s, P, h)
  PROVE  ScoresAscend(s)
<1>1. /\ Typed(z, h) /\ Ascends(z, P) /\ z.len \in Nat /\ heap = Nodes(z)
  BY DEF Arranged, InPlace, heap, Nodes
<1>2. \A p \in 1..z.len : s[p] \in Nodes(z) /\ P[s[p]] = p
  BY <1>1, OrderIs
<1>3. \A p \in 1..z.len : z.node[s[p]].score \in Int
  BY <1>1, <1>2, ScoresAssumption DEF Typed
<1>4. ASSUME NEW p \in 1..z.len, NEW q \in 1..z.len, p <= q
      PROVE  z.node[s[p]].score <= z.node[s[q]].score
  <2>1. CASE p = q
    BY <1>3, <2>1
  <2>2. CASE p < q
    BY <1>1, <1>2, <2>2 DEF Ascends
  <2> QED
    BY <1>4, <2>1, <2>2
<1> QED
  BY <1>3, <1>4 DEF ScoresAscend

\* A range has the nodes at the places behind a up to b.
RangeAt(s, P, r, a, b) ==
  /\ a \in 0..z.len /\ b \in a..z.len
  /\ a = P[BelowMin(r)[1]]
  /\ Found(BelowMin(r)) = s[a + 1]
  /\ getNodeInRange(r) = Listed(s, a, b - a)
  /\ \A p \in 1..z.len : valueGteMin(z.node[s[p]].score, r) <=> p > a
  /\ \A p \in a + 1..z.len : valueLteMax(z.node[s[p]].score, r) <=> p <= b

\* Every range has such places: what is below it comes first, and what is above
\* it last, as the scores ascend.
LEMMA RangeIsAt ==
  ASSUME NEW s, NEW P, NEW h, Arranged(z, s, P, h), NEW r \in Ranges
  PROVE  \E a, b : RangeAt(s, P, r, a, b)
<1> DEFINE low == {n \in heap : ~valueGteMin(z.node[n].score, r)}
           T == {n \in heap : valueLteMax(z.node[n].score, r)}
           stop == Stops(low)
           a == P[stop[1]]
           score(p) == z.node[s[p]].score
<1>1. low \in SUBSET heap /\ T \in SUBSET heap /\ stop = BelowMin(r)
  BY DEF BelowMin
<1>2. /\ z.len \in Nat
      /\ \A p \in 1..z.len : s[p] \in heap /\ score(p) \in Int
      /\ \A p, q \in 1..z.len : p <= q => score(p) <= score(q)
      /\ s[z.len + 1] = Null /\ Null \notin heap
      /\ r.zmin \in Int /\ r.zmax \in Int
  <2>1. z.len \in Nat /\ s[z.len + 1] = Null /\ Null \notin heap
    BY AddrAssumption DEF Arranged, InPlace, Typed, heap, Nodes
  <2>2. \A p \in 1..z.len : s[p] \in heap
    BY OrderIs
  <2>3. ScoresAscend(s)
    BY ScoresByPlace
  <2>4. r.zmin \in Int /\ r.zmax \in Int
    BY RangesAssumption
  <2> QED
    BY <2>1, <2>2, <2>3, <2>4 DEF ScoresAscend
<1>3. /\ \A p \in 1..z.len : s[p] \in low <=> ~valueGteMin(score(p), r)
      /\ \A p \in 1..z.len : s[p] \in T <=> valueLteMax(score(p), r)
  BY <1>2
<1>4. /\ a \in 0..z.len
      /\ a # 0 => s[a] \in low
      /\ Found(stop) = s[a + 1]
      /\ s[a + 1] \notin low
  <2> HIDE DEF low
  <2> QED
    BY <1>1, SearchEnds
<1> HIDE DEF low, T, stop, a, score
<1>5. ASSUME NEW p \in 1..z.len, p <= a
      PROVE  ~valueGteMin(score(p), r)
  <2>1. a \in 1..z.len /\ a # 0
    BY <1>2, <1>4, <1>5
  <2>2. ~valueGteMin(score(a), r) /\ score(p) <= score(a) /\ score(a) \in Int /\ score(p) \in Int
    BY <1>2, <1>3, <1>4, <1>5, <2>1
  <2> QED
    BY <1>2, <2>2 DEF valueGteMin
<1>6. ASSUME NEW p \in 1..z.len, p > a
      PROVE  valueGteMin(score(p), r)
  <2>1. a + 1 \in 1..z.len /\ a + 1 <= p
    BY <1>2, <1>4, <1>6
  <2>2. valueGteMin(score(a + 1), r) /\ score(a + 1) <= score(p) /\ score(a + 1) \in Int /\ score(p) \in Int
    BY <1>2, <1>3, <1>4, <2>1
  <2> QED
    BY <1>2, <2>2 DEF valueGteMin
<1>7. PICK b \in a..z.len : Until(s, T, a, b)
  BY <1>1, <1>4, UntilExists
<1>8. b \in a..z.len /\ Until(s, T, a, b)
  BY <1>7
<1>9. getNodeInRange(r) = Listed(s, a, b - a)
  <2>1. From(s[a + 1], 1, T) = Listed(s, a, b - a)
    BY <1>1, <1>4, <1>8, FromListed
  <2>2. getNodeInRange(r) = From(Found(stop), 1, T)
    BY <1>1 DEF getNodeInRange, T
  <2> QED
    BY <1>4, <2>1, <2>2
<1>10. ASSUME NEW p \in a + 1..z.len, p <= b
       PROVE  valueLteMax(score(p), r)
  <2>1. p \in a + 1..b /\ p \in 1..z.len
    BY <1>2, <1>4, <1>8, <1>10
  <2> QED
    BY <1>3, <1>8, <2>1 DEF Until
<1>11. ASSUME NEW p \in a + 1..z.len, ~(p <= b)
       PROVE  ~valueLteMax(score(p), r)
  <2>1. b + 1 \in 1..z.len /\ b + 1 <= p /\ p \in 1..z.len
    BY <1>2, <1>4, <1>8, <1>11
  <2>2. ~valueLteMax(score(b + 1), r)
    BY <1>3, <1>8, <2>1 DEF Until
  <2>3. score(b + 1) <= score(p) /\ score(b + 1) \in Int /\ score(p) \in Int
    BY <1>2, <2>1
  <2> QED
    BY <1>2, <2>2, <2>3 DEF valueLteMax
<1>12. \A p \in 1..z.len : valueGteMin(score(p), r) <=> p > a
  <2> SUFFICES ASSUME NEW p \in 1..z.len PROVE valueGteMin(score(p), r) <=> p > a
    OBVIOUS
  <2>1. p > a \/ p <= a
    BY <1>2, <1>4
  <2>2. CASE p > a
    BY <1>6, <2>2
  <2>3. CASE p <= a
    <3>1. ~(p > a)
      BY <1>2, <1>4, <2>3
    <3> QED
      BY <1>5, <2>3, <3>1
  <2> QED
    BY <2>1, <2>2, <2>3
<1>13. \A p \in a + 1..z.len : valueLteMax(score(p), r) <=> p <= b
  BY <1>10, <1>11
<1>14. a = P[BelowMin(r)[1]] /\ Found(BelowMin(r)) = s[a + 1]
  BY <1>1, <1>4 DEF a
<1>15. RangeAt(s, P, r, a, b)
  BY <1>4, <1>8, <1>9, <1>12, <1>13, <1>14 DEF RangeAt, score
<1> QED
  BY <1>15

\* A range query of an arranged list finds the members of the range.
LEMMA ArrangedRanges ==
  ASSUME NEW s, NEW P, NEW h, Arranged(z, s, P, h)
  PROVE  RangesFound
<1> SUFFICES ASSUME NEW r \in Ranges
             PROVE  LET found == getNodeInRange(r)
                    IN /\ Range(found) = {n \in heap : valueGteMin(z.node[n].score, r)
                                                       /\ valueLteMax(z.node[n].score, r)}
                       /\ \A p, q \in 1..Len(found) : p < q => Place(found[p]) < Place(found[q])
                       /\ getFirstInRange(r) = IF found = <<>> THEN Null ELSE found[1]
  BY DEF RangesFound
<1> DEFINE found == getNodeInRange(r)
           score(p) == z.node[s[p]].score
           gte(p) == valueGteMin(score(p), r)
           lte(p) == valueLteMax(score(p), r)
<1>1. PICK a, b : RangeAt(s, P, r, a, b)
  BY RangeIsAt
<1>2. /\ a \in 0..z.len /\ b \in a..z.len
      /\ Found(BelowMin(r)) = s[a + 1]
      /\ found = Listed(s, a, b - a)
      /\ \A p \in 1..z.len : gte(p) <=> p > a
      /\ \A p \in a + 1..z.len : lte(p) <=> p <= b
  BY <1>1 DEF RangeAt
<1>3. /\ z.len \in Nat
      /\ s[z.len + 1] = Null /\ Null \notin heap
      /\ z.tail = IF z.len = 0 THEN Null ELSE s[z.len]
      /\ r.zmin \in Int /\ r.zmax \in Int /\ r.zminex \in BOOLEAN /\ r.zmaxex \in BOOLEAN
  <2>1. r \in [zmin : Int, zmax : Int, zminex : BOOLEAN, zmaxex : BOOLEAN]
    BY RangesAssumption
  <2>2. /\ z.len \in Nat /\ s[z.len + 1] = Null /\ Null \notin heap
        /\ z.tail = IF z.len = 0 THEN Null ELSE s[z.len]
    BY AddrAssumption DEF Arranged, InPlace, Typed, heap, Nodes, Mirrored
  <2> QED
    BY <2>1, <2>2
<1>4. /\ \A p \in 1..z.len : s[p] \in heap /\ P[s[p]] = p
      /\ \A x \in heap : P[x] \in 1..z.len /\ s[P[x]] = x
      /\ \A x \in DOMAIN z.node : Place(x) = P[x]
      /\ forward(head, 1) = s[1]
  BY OrderIs
<1>5. /\ \A p \in 1..z.len : score(p) \in Int
      /\ \A p, q \in 1..z.len : p <= q => score(p) <= score(q)
  BY ScoresByPlace DEF ScoresAscend
<1>6. /\ b - a \in Nat
      /\ \A j \in 1..b - a : a + j \in 1..z.len /\ a + j \in a + 1..b
      /\ Len(found) = b - a /\ DOMAIN found = 1..b - a /\ found \in Seq(heap)
      /\ \A j \in 1..b - a : found[j] = s[a + j]
  <2>1. b - a \in Nat /\ a \in Int
    BY <1>2, <1>3
  <2>2. \A j \in 1..b - a : a + j \in 1..z.len /\ a + j \in a + 1..b
    BY <1>2, <1>3
  <2>3. \A j \in 1..b - a : s[a + j] \in heap
    BY <1>4, <2>2
  <2>4. found \in Seq(heap) /\ Len(found) = b - a
    <3> DEFINE n == b - a
    <3>1. n \in Nat /\ a \in Int /\ \A j \in 1..n : s[a + j] \in heap
      BY <2>1, <2>3
    <3> HIDE DEF n
    <3>2. Listed(s, a, n) \in Seq(heap) /\ Len(Listed(s, a, n)) = n
      BY <3>1, ListedIsSeq
    <3> HIDE DEF found
    <3>3. found = Listed(s, a, n)
      BY <1>2 DEF n
    <3> QED
      BY <3>2, <3>3 DEF n
  <2>5. \A j \in 1..b - a : found[j] = s[a + j]
    BY <1>2 DEF Listed
  <2>6. DOMAIN found = 1..b - a
    BY <2>4
  <2> HIDE DEF found
  <2> QED
    BY <2>1, <2>2, <2>4, <2>5, <2>6
<1> HIDE DEF found
<1>7. Range(found) = {n \in heap : valueGteMin(z.node[n].score, r) /\ valueLteMax(z.node[n].score, r)}
  <2>1. ASSUME NEW n \in Range(found)
        PROVE  n \in heap /\ valueGteMin(z.node[n].score, r) /\ valueLteMax(z.node[n].score, r)
    <3>1. PICK j \in 1..b - a : n = found[j]
      BY <1>6, <2>1 DEF Range
    <3>2. a + j \in 1..z.len /\ a + j > a /\ a + j <= b /\ a + j \in a + 1..z.len
      <4>1. a + j \in 1..z.len /\ a + j \in a + 1..b
        BY <1>6
      <4> QED
        BY <1>2, <1>3, <4>1
    <3>3. n = s[a + j]
      BY <1>6, <3>1
    <3>4. gte(a + j) /\ lte(a + j)
      BY <1>2, <3>2
    <3> QED
      BY <1>4, <3>2, <3>3, <3>4
  <2>2. ASSUME NEW n \in heap, valueGteMin(z.node[n].score, r), valueLteMax(z.node[n].score, r)
        PROVE  n \in Range(found)
    <3>1. P[n] \in 1..z.len /\ s[P[n]] = n
      BY <1>4
    <3>2. P[n] > a
      BY <1>2, <2>2, <3>1
    <3>3. P[n] \in a + 1..z.len
      BY <1>2, <1>3, <3>1, <3>2
    <3>4. P[n] <= b
      BY <1>2, <2>2, <3>1, <3>3
    <3>5. P[n] - a \in 1..b - a /\ a + (P[n] - a) = P[n]
      BY <1>2, <1>3, <3>3, <3>4
    <3>6. found[P[n] - a] = n
      BY <1>6, <3>1, <3>5
    <3> QED
      BY <1>6, <3>5, <3>6 DEF Range
  <2> QED
    BY <2>1, <2>2
<1>8. ASSUME NEW p \in 1..Len(found), NEW q \in 1..Len(found), p < q
      PROVE  Place(found[p]) < Place(found[q])
  <2>1. p \in 1..b - a /\ q \in 1..b - a
    BY <1>6
  <2>2. a + p \in 1..z.len /\ a + q \in 1..z.len /\ found[p] = s[a + p] /\ found[q] = s[a + q]
    BY <1>6, <2>1
  <2>3. Place(found[p]) = a + p /\ Place(found[q]) = a + q
    BY <1>4, <2>2 DEF heap
  <2> QED
    BY <1>2, <1>3, <1>8, <2>1, <2>3
<1> DEFINE x == Found(BelowMin(r))
<1>9. getFirstInRange(r) = IF isInRange(r) /\ valueLteMax(z.node[x].score, r) THEN x ELSE Null
  BY DEF getFirstInRange
<1>10. x = s[a + 1]
  BY <1>2
<1> HIDE DEF x
<1>11. CASE b = a
  <2>1. found = <<>>
    <3>1. Len(found) = 0 /\ found \in Seq(heap)
      BY <1>2, <1>3, <1>6, <1>11
    <3> QED
      BY <3>1, EmptySeq
  <2>2. ASSUME isInRange(r), valueLteMax(z.node[x].score, r) PROVE FALSE
    <3>1. z.tail # Null /\ valueGteMin(z.node[z.tail].score, r)
      BY <2>2 DEF isInRange
    <3>2. z.len # 0 /\ gte(z.len)
      BY <1>3, <3>1
    <3>3. z.len \in 1..z.len
      BY <1>3, <3>2
    <3>4. z.len > a
      BY <1>2, <3>2, <3>3
    <3>5. a + 1 \in a + 1..z.len /\ ~(a + 1 <= b)
      BY <1>2, <1>3, <1>11, <3>4
    <3>6. ~lte(a + 1)
      BY <1>2, <3>5
    <3> QED
      BY <1>10, <2>2, <3>6
  <2> QED
    BY <1>7, <1>8, <1>9, <2>1, <2>2 DEF found
<1>12. CASE b # a
  <2>1. a + 1 \in 1..z.len /\ a + 1 \in a + 1..z.len /\ a + 1 > a /\ a + 1 <= b /\ 1 \in 1..b - a
        /\ z.len \in 1..z.len /\ z.len > a /\ z.len # 0 /\ 1 \in 1..z.len /\ 1 <= a + 1
    BY <1>2, <1>3, <1>12
  <2>2. found[1] = x /\ found # <<>>
    <3>1. found[1] = s[a + 1]
      BY <1>6, <2>1
    <3>2. DOMAIN <<>> = {}
      OBVIOUS
    <3> QED
      BY <1>6, <1>10, <2>1, <3>1
  <2>3. gte(a + 1) /\ lte(a + 1) /\ gte(z.len)
    BY <1>2, <2>1
  <2>4. lte(1)
    <3>1. score(1) <= score(a + 1) /\ score(1) \in Int /\ score(a + 1) \in Int
      BY <1>5, <2>1
    <3> QED
      BY <1>3, <2>3, <3>1 DEF valueLteMax
  <2>5. ~(r.zmin > r.zmax \/ (r.zmin = r.zmax /\ (r.zminex \/ r.zmaxex)))
    <3>1. score(a + 1) \in Int
      BY <1>5, <2>1
    <3> HIDE DEF score
    <3> QED
      BY <1>3, <2>3, <3>1 DEF valueLteMax, valueGteMin
  <2>6. z.tail = s[z.len] /\ s[z.len] \in heap /\ s[1] \in heap
    BY <1>3, <1>4, <2>1
  <2>7. isInRange(r)
    BY <1>3, <1>4, <2>3, <2>4, <2>5, <2>6 DEF isInRange
  <2>8. getFirstInRange(r) = x
    BY <1>9, <1>10, <2>3, <2>7
  <2> QED
    BY <1>7, <1>8, <2>2, <2>8 DEF found
<1> QED
  BY <1>11, <1>12 DEF found

\* A search of an arranged list ends in front of a node whose score is its own.
LEMMA ArrangedSole ==
  ASSUME NEW s, NEW P, NEW h, Arranged(z, s, P, h)
  PROVE  SoleScoresFound
<1> SUFFICES ASSUME NEW n \in heap, \A m \in heap \ {n} : z.node[m].score # z.node[n].score
             PROVE  Found(Stops(Preceding(z.node[n].obj, z.node[n].score))) = n
  BY DEF SoleScoresFound
<1> DEFINE passed == Preceding(z.node[n].obj, z.node[n].score)
           stop == Stops(passed)
           a == P[stop[1]]
           score(p) == z.node[s[p]].score
<1>1. passed \in SUBSET heap
  BY DEF Preceding
<1>2. \A m \in heap : m \in passed <=> z.node[m].score < z.node[n].score
  <2> SUFFICES ASSUME NEW m \in heap PROVE m \in passed <=> z.node[m].score < z.node[n].score
    OBVIOUS
  <2>1. CASE m = n
    <3>1. z.node[n].score \in Int
      BY ScoresAssumption DEF Arranged, Typed, heap, Nodes
    <3> QED
      BY <2>1, <3>1 DEF Preceding, Precedes
  <2>2. CASE m # n
    BY <2>2 DEF Preceding, Precedes
  <2> QED
    BY <2>1, <2>2
<1> HIDE DEF passed
<1>3. /\ a \in 0..z.len
      /\ a # 0 => s[a] \in passed
      /\ Found(stop) = s[a + 1]
      /\ s[a + 1] \notin passed
  BY <1>1, SearchEnds
<1> HIDE DEF stop, a
<1>4. /\ \A p \in 1..z.len : s[p] \in heap
      /\ P[n] \in 1..z.len /\ s[P[n]] = n
  BY OrderIs
<1>5. /\ \A p \in 1..z.len : score(p) \in Int
      /\ \A p, q \in 1..z.len : p <= q => score(p) <= score(q)
      /\ z.len \in Nat
  BY ScoresByPlace DEF ScoresAscend, Arranged, InPlace
<1> DEFINE c == P[n]
<1>6. c \in 1..z.len /\ score(c) = z.node[n].score /\ s[c] = n
  BY <1>4
<1> HIDE DEF c
<1>7. ~(c <= a)
  <2> SUFFICES ASSUME c <= a PROVE FALSE
    OBVIOUS
  <2>1. a # 0 /\ a \in 1..z.len
    BY <1>3, <1>5, <1>6
  <2>2. score(a) < score(c)
    BY <1>2, <1>3, <1>4, <1>6, <2>1
  <2>3. score(c) <= score(a) /\ score(a) \in Int /\ score(c) \in Int
    BY <1>5, <1>6, <2>1
  <2> HIDE DEF score
  <2> QED
    BY <2>2, <2>3
<1>8. a + 1 \in 1..z.len /\ a + 1 <= c
  BY <1>3, <1>5, <1>6, <1>7
<1>9. s[a + 1] \in heap /\ ~(score(a + 1) < score(c))
  BY <1>2, <1>3, <1>4, <1>6, <1>8
<1>10. score(a + 1) = score(c)
  <2>1. score(a + 1) <= score(c) /\ score(a + 1) \in Int /\ score(c) \in Int
    BY <1>5, <1>6, <1>8
  <2>2. ~(score(a + 1) < score(c))
    BY <1>9
  <2> HIDE DEF score
  <2> QED
    BY <2>1, <2>2
<1>11. s[a + 1] = n
  BY <1>6, <1>9, <1>10
<1> QED
  BY <1>3, <1>11 DEF stop, passed

-----------------------------------------------------------------------------
(* The first list, and what each operation does to the list.               *)

\* The constructor makes an arranged list (Skiplist.cc:3-19).
LEMMA BeginsArranged ==
  ASSUME Init
  PROVE  z.len = 0 /\ \E s, P, h : Arranged(z, s, P, h)
<1> DEFINE first == [obj |-> Null, score |-> 0, backward |-> Null,
                     level |-> [i \in 1..MaxLevel |-> Nowhere]]
           s == [p \in 0..1 |-> IF p = 0 THEN head ELSE Null]
           P == [x \in {head, Null} |-> IF x = head THEN 0 ELSE 1]
           h == [x \in {head, Null} |-> MaxLevel]
<1>1. /\ z.len = 0 /\ z.level = 1 /\ z.tail = Null
      /\ DOMAIN z.node = {head} /\ z.node[head] = first
  BY DEF Init
<1>2. Nodes(z) = {} /\ Places(z) = {head, Null} /\ head # Null
  BY <1>1, AddrAssumption DEF Nodes, Places
<1>3. /\ first.backward = Null
      /\ first.level \in Seq(Link(z)) /\ Len(first.level) = MaxLevel
      /\ \A i \in 1..MaxLevel : first.level[i].zforward = Null /\ first.level[i].zspan = 0
      /\ first = [obj |-> first.obj, score |-> first.score,
                  backward |-> first.backward, level |-> first.level]
  <2>1. Nowhere \in Link(z)
    BY DEF Nowhere, Link
  <2>2. first.level \in [1..MaxLevel -> Link(z)]
    BY <2>1
  <2>3. first.level \in Seq(Link(z)) /\ Len(first.level) = MaxLevel
    BY <2>2, FunctionIsSeq, MaxLevelAssumption
  <2> QED
    BY <2>3 DEF Nowhere
<1> HIDE DEF first
<1>4. InPlace(z, s, P)
  BY <1>1, <1>2 DEF InPlace
<1>5. Typed(z, h)
  BY <1>1, <1>2, <1>3, MaxLevelAssumption DEF Typed
<1>6. Leveled(z, P, h)
  BY <1>1, <1>2, <1>3, MaxLevelAssumption DEF Leveled, Leads
<1>7. Mirrored(z, s, P) /\ Ascends(z, P) /\ TopUsed(z)
  BY <1>1, <1>2, <1>3 DEF Mirrored, Ascends, TopUsed
<1> HIDE DEF s, P, h
<1>8. Arranged(z, s, P, h)
  BY <1>4, <1>5, <1>6, <1>7 DEF Arranged
<1> QED
  BY <1>1, <1>8

\* The node x has been inserted behind place a.
InsertedAt(s, P, h, obj, score, x, a) ==
  /\ \E zlevel \in 1..MaxLevel :
       Arranged(z', Opened(z, s, x, a), Shifted(z, P, x, a), Heights(z, h, x, zlevel))
  /\ x \in Addr \ heap
  /\ a = P[Stops(Preceding(obj, score))[1]]
  /\ a \in 0..z.len
  /\ z'.len = z.len + 1
  /\ z'.node[x].obj = obj /\ z'.node[x].score = score
  /\ \A y \in heap : z'.node[y].obj = z.node[y].obj /\ z'.node[y].score = z.node[y].score

\* insertNode puts a node where its search has ended, and keeps the list arranged.
LEMMA InsertNodeArranges ==
  ASSUME NEW s, NEW P, NEW h, Arranged(z, s, P, h), NEW obj \in Texts, NEW score \in Scores,
         insertNode(obj, score)
  PROVE  \E x, a : InsertedAt(s, P, h, obj, score, x, a)
<1> DEFINE stop == Stops(Preceding(obj, score))
           a == P[stop[1]]
<1>1. PICK zlevel \in 1..MaxLevel, x \in Addr \ heap :
        z' = Inserted(Raise(zlevel), x, obj, score, UpdateOf(Raise(zlevel), stop),
                      PassedOf(Raise(zlevel), stop), zlevel)
  BY DEF insertNode, UpdateOf, PassedOf
<1> DEFINE l == Raise(zlevel)
           update == UpdateOf(l, stop)
           passed == PassedOf(l, stop)
           m == Inserted(l, x, obj, score, update, passed, zlevel)
<1>2. z' = m
  BY <1>1
<1>3. /\ Arranged(m, Opened(z, s, x, a), Shifted(z, P, x, a), Heights(z, h, x, zlevel))
      /\ a \in 0..z.len
      /\ m.len = z.len + 1
      /\ m.node[x].obj = obj /\ m.node[x].score = score
      /\ \A y \in heap : m.node[y].obj = z.node[y].obj /\ m.node[y].score = z.node[y].score
  BY InsertKeeps
<1> HIDE DEF m
<1>4. InsertedAt(s, P, h, obj, score, x, a)
  BY <1>2, <1>3 DEF InsertedAt
<1> QED
  BY <1>4

\* The node found has been taken out.
RemovedAt(s, P, h, x, a) ==
  /\ Arranged(z', Closed(z, s, a), Unshifted(z, P, x, a), HeightsWithout(z, h, x))
  /\ a \in 0..z.len - 1
  /\ x = s[a + 1]
  /\ z'.len = z.len - 1
  /\ \A p \in 1..z.len : p # a + 1 =>
       z'.node[s[p]].obj = z.node[s[p]].obj /\ z'.node[s[p]].score = z.node[s[p]].score

\* deleteNode takes out the node behind where its search has ended, if anything,
\* and keeps the list arranged.
LEMMA DeleteNodeArranges ==
  ASSUME NEW s, NEW P, NEW h, Arranged(z, s, P, h), NEW obj, NEW score,
         deleteNode(obj, score), z' # z
  PROVE  \E x, a : RemovedAt(s, P, h, x, a)
<1> DEFINE passed == Preceding(obj, score)
           stop == Stops(passed)
           x == Found(stop)
           a == P[stop[1]]
<1>1. x # Null /\ z' = Unlinked(z, x, stop)
  BY DEF deleteNode, vars
<1>2. passed \in SUBSET heap
  BY DEF Preceding
<1> HIDE DEF passed
<1>3. /\ a \in 0..z.len
      /\ Found(stop) = s[a + 1]
      /\ s[a + 1] \in heap \cup {Null}
  BY <1>2, SearchEnds
<1>4. Searched(stop, passed, P, h)
  BY <1>2, StopsSearch
<1> HIDE DEF stop
<1>5. Straddles(z, P, h, stop)
  BY <1>4 DEF Searched
<1>6. /\ \A p \in 1..z.len : s[p] \in heap /\ P[s[p]] = p
      /\ \A y \in heap : P[y] \in 1..z.len /\ s[P[y]] = y
  BY OrderIs
<1>7. x = s[a + 1] /\ x \in heap /\ x \in Nodes(z)
  BY <1>1, <1>3 DEF heap, Nodes
<1>8. z.len \in Nat /\ InPlace(z, s, P)
  BY DEF Arranged, InPlace
<1> HIDE DEF a, x
<1>9. P[x] = a + 1 /\ a \in 0..z.len - 1
  <2>1. a + 1 \in 0..z.len + 1
    BY <1>3, <1>8
  <2>2. P[s[a + 1]] = a + 1
    BY <1>8, <2>1 DEF InPlace
  <2>3. P[x] \in 1..z.len
    BY <1>6, <1>7
  <2> QED
    BY <1>3, <1>7, <1>8, <2>2, <2>3
<1>10. a = P[stop[1]]
  BY DEF a
<1> DEFINE m == Unlinked(z, x, stop)
           Q == Unshifted(z, P, x, a)
           g == HeightsWithout(z, h, x)
<1>11. /\ Arranged(m, Closed(z, s, a), Q, g)
       /\ Straddles(m, Q, g, stop)
       /\ Q[stop[1]] = a
       /\ m.len = z.len - 1
       /\ Nodes(m) = Nodes(z) \ {x}
       /\ \A y \in Nodes(m) : m.node[y].obj = z.node[y].obj /\ m.node[y].score = z.node[y].score
  BY <1>5, <1>7, <1>9, <1>10, UnlinkKeeps
<1> HIDE DEF m, Q, g
<1>12. ASSUME NEW p \in 1..z.len, p # a + 1
       PROVE  m.node[s[p]].obj = z.node[s[p]].obj /\ m.node[s[p]].score = z.node[s[p]].score
  <2>1. s[p] \in heap /\ s[p] # x
    BY <1>6, <1>9, <1>12
  <2>2. s[p] \in Nodes(m)
    BY <1>11, <2>1 DEF heap, Nodes
  <2> QED
    BY <1>11, <2>2
<1>13. z' = m
  BY <1>1 DEF m
<1>14. RemovedAt(s, P, h, x, a)
  BY <1>7, <1>9, <1>11, <1>12, <1>13 DEF RemovedAt, Q, g
<1> QED
  BY <1>14

-----------------------------------------------------------------------------
(* Taking the nodes of a range out, one after the other.                   *)

\* g has the lists that taking out the first k of nodes goes through.
Goes(g, k, nodes, update) ==
  g = [n \in 0..k |-> IF n = 0 THEN z ELSE Unlinked(g[n - 1], nodes[n], update)]

\* There are such lists.
LEMMA GoesExists ==
  ASSUME NEW N \in Nat, NEW nodes, NEW update
  PROVE  \E g : Goes(g, N, nodes, update)
<1> DEFINE T == {k \in 0..N : \E g : Goes(g, k, nodes, update)}
<1>1. 0 \in T
  <2> DEFINE g == [n \in 0..0 |-> z]
  <2>1. g = [n \in 0..0 |-> IF n = 0 THEN z ELSE Unlinked(g[n - 1], nodes[n], update)]
    OBVIOUS
  <2> HIDE DEF g
  <2>2. Goes(g, 0, nodes, update)
    BY <2>1 DEF Goes
  <2> QED
    BY <2>2
<1>2. ASSUME NEW k \in 0..N - 1, k \in T
      PROVE  k + 1 \in T
  <2>1. PICK g : Goes(g, k, nodes, update)
    BY <1>2
  <2> DEFINE f == [n \in 0..k + 1 |-> IF n = k + 1 THEN Unlinked(g[k], nodes[k + 1], update) ELSE g[n]]
  <2>2. \A n \in 0..k : g[n] = IF n = 0 THEN z ELSE Unlinked(g[n - 1], nodes[n], update)
    BY <2>1 DEF Goes
  <2>3. /\ k + 1 \in 0..k + 1 /\ (k + 1) - 1 = k /\ k + 1 # 0 /\ k \in 0..k + 1 /\ k # k + 1
        /\ k + 1 \in 0..N
    OBVIOUS
  <2>4. \A n \in 0..k + 1 : f[n] = IF n = k + 1 THEN Unlinked(g[k], nodes[k + 1], update) ELSE g[n]
    OBVIOUS
  <2>5. f = [n \in 0..k + 1 |-> f[n]]
    OBVIOUS
  <2> HIDE DEF f
  <2>6. ASSUME NEW n \in 0..k + 1
        PROVE  f[n] = IF n = 0 THEN z ELSE Unlinked(f[n - 1], nodes[n], update)
    <3>1. CASE n = k + 1
      <4>1. f[n] = Unlinked(g[k], nodes[k + 1], update)
        BY <2>4, <3>1
      <4>2. f[k] = g[k]
        BY <2>3, <2>4
      <4>3. n # 0 /\ n - 1 = k
        BY <3>1
      <4> QED
        BY <3>1, <4>1, <4>2, <4>3
    <3>2. CASE n # k + 1
      <4>1. n \in 0..k /\ f[n] = g[n]
        BY <2>4, <3>2
      <4>2. n # 0 => n - 1 \in 0..k + 1 /\ n - 1 # k + 1
        BY <4>1
      <4>3. n # 0 => f[n - 1] = g[n - 1]
        BY <2>4, <4>2
      <4> QED
        BY <2>2, <4>1, <4>3
    <3> QED
      BY <3>1, <3>2
  <2>7. f = [n \in 0..k + 1 |-> IF n = 0 THEN z ELSE Unlinked(f[n - 1], nodes[n], update)]
    BY <2>5, <2>6
  <2>8. Goes(f, k + 1, nodes, update)
    BY <2>7 DEF Goes
  <2> QED
    BY <2>3, <2>8
<1>3. 0..N \subseteq T
  <2>1. 0 \in Nat
    OBVIOUS
  <2> HIDE DEF T
  <2> QED
    BY <1>1, <1>2, <2>1, SetInduction
<1>4. N \in 0..N
  OBVIOUS
<1> QED
  BY <1>3, <1>4

\* n nodes behind place a have been taken out of z, which has l as result.
Without(l, t, Q, g, s, a, n, update) ==
  /\ Arranged(l, t, Q, g)
  /\ Straddles(l, Q, g, update)
  /\ Q[update[1]] = a
  /\ l.len = z.len - n
  /\ \A p \in 0..l.len + 1 : t[p] = IF p <= a THEN s[p] ELSE s[p + n]
  /\ \A y \in Nodes(l) : l.node[y].obj = z.node[y].obj /\ l.node[y].score = z.node[y].score

\* Taking out the next node makes it one more.
LEMMA WithoutNext ==
  ASSUME NEW l, NEW t, NEW Q, NEW g, NEW s, NEW a \in 0..z.len, NEW n \in Nat, NEW update,
         z.len \in Nat, Without(l, t, Q, g, s, a, n, update), a + n + 1 <= z.len,
         NEW x, x = s[a + (n + 1)], NEW m, m = Unlinked(l, x, update)
  PROVE  Without(m, Closed(l, t, a), Unshifted(l, Q, x, a), HeightsWithout(l, g, x), s, a, n + 1, update)
<1>1. /\ Arranged(l, t, Q, g) /\ Straddles(l, Q, g, update) /\ a = Q[update[1]]
      /\ l.len = z.len - n /\ l.len \in Nat
  BY DEF Without
<1>2. \A p \in 0..l.len + 1 : t[p] = IF p <= a THEN s[p] ELSE s[p + n]
  BY DEF Without
<1>3. /\ a + 1 \in 1..l.len /\ a + 1 \in 0..l.len + 1 /\ ~(a + 1 <= a)
      /\ (a + 1) + n = a + (n + 1)
  BY <1>1
<1>4. x = t[a + 1]
  BY <1>2, <1>3
<1>5. x \in Nodes(l) /\ Q[x] = a + 1
  <2>1. InPlace(l, t, Q) /\ head \in DOMAIN l.node /\ Nodes(l) \subseteq Addr
    BY <1>1 DEF Arranged, Typed
  <2>2. \A p \in 1..l.len : t[p] \in Nodes(l)
    BY <2>1, Numbers
  <2>3. Q[t[a + 1]] = a + 1
    BY <1>3, <2>1 DEF InPlace
  <2> QED
    BY <1>3, <1>4, <2>2, <2>3
<1> DEFINE R == Unshifted(l, Q, x, a)
           k == HeightsWithout(l, g, x)
           u == Closed(l, t, a)
<1>6. /\ Arranged(m, u, R, k)
      /\ Straddles(m, R, k, update)
      /\ R[update[1]] = a
      /\ m.len = l.len - 1
      /\ Nodes(m) = Nodes(l) \ {x}
      /\ \A y \in Nodes(m) : m.node[y].obj = l.node[y].obj /\ m.node[y].score = l.node[y].score
  BY <1>1, <1>5, UnlinkKeeps
<1>7. m.len = z.len - (n + 1)
  <2>1. m.len = l.len - 1
    BY <1>6
  <2> QED
    BY <1>1, <2>1
<1>8. ASSUME NEW p \in 0..m.len + 1
      PROVE  u[p] = IF p <= a THEN s[p] ELSE s[p + (n + 1)]
  <2>1. p \in 0..l.len /\ p \in 0..l.len + 1 /\ p + 1 \in 0..l.len + 1
        /\ (p + 1) + n = p + (n + 1) /\ (~(p <= a) => ~(p + 1 <= a))
    <3>1. m.len = l.len - 1 /\ l.len \in Nat
      BY <1>1, <1>6
    <3>2. p \in 0..l.len
      BY <3>1
    <3> QED
      BY <3>1, <3>2
  <2>2. u[p] = IF p <= a THEN t[p] ELSE t[p + 1]
    BY <2>1 DEF Closed
  <2> HIDE DEF u
  <2> QED
    BY <1>2, <2>1, <2>2
<1>9. \A y \in Nodes(m) : m.node[y].obj = z.node[y].obj /\ m.node[y].score = z.node[y].score
  <2>1. \A y \in Nodes(l) : l.node[y].obj = z.node[y].obj /\ l.node[y].score = z.node[y].score
    BY DEF Without
  <2> QED
    BY <1>6, <2>1
<1> HIDE DEF R, k, u
<1>10. Without(m, u, R, k, s, a, n + 1, update)
  BY <1>6, <1>7, <1>8, <1>9 DEF Without
<1> QED
  BY <1>10 DEF R, k, u

Taken(l, s, a, n, update) == \E t, Q, g : Without(l, t, Q, g, s, a, n, update)

\* So N nodes are gone in the end.
LEMMA GoesWithout ==
  ASSUME NEW s, NEW P, NEW h, Arranged(z, s, P, h), NEW update, Straddles(z, P, h, update),
         NEW a, a = P[update[1]], a \in 0..z.len, NEW N \in Nat, a + N <= z.len,
         NEW f, Goes(f, N, Listed(s, a, N), update)
  PROVE  Taken(f[N], s, a, N, update)
<1> DEFINE T == {n \in 0..N : Taken(f[n], s, a, n, update)}
<1>1. z.len \in Nat
  BY DEF Arranged, InPlace
<1>2. \A n \in 0..N : f[n] = IF n = 0 THEN z ELSE Unlinked(f[n - 1], Listed(s, a, N)[n], update)
  BY DEF Goes
<1>3. 0 \in T
  <2>1. f[0] = z /\ 0 \in 0..N
    BY <1>2
  <2>2. z.len = z.len - 0 /\ \A p \in 0..z.len + 1 : s[p] = IF p <= a THEN s[p] ELSE s[p + 0]
    BY <1>1
  <2>3. Without(z, s, P, h, s, a, 0, update)
    BY <2>2 DEF Without
  <2> QED
    BY <2>1, <2>3 DEF Taken
<1>4. ASSUME NEW n \in 0..N - 1, n \in T
      PROVE  n + 1 \in T
  <2>1. n \in Nat /\ n + 1 \in 0..N /\ n + 1 # 0 /\ (n + 1) - 1 = n /\ n + 1 \in 1..N /\ a + n + 1 <= z.len
    BY <1>1
  <2>2. PICK t, Q, g : Without(f[n], t, Q, g, s, a, n, update)
    BY <1>4 DEF Taken
  <2> DEFINE x == s[a + (n + 1)]
             m == Unlinked(f[n], x, update)
  <2>3. Listed(s, a, N)[n + 1] = x
    BY <2>1 DEF Listed
  <2>4. f[n + 1] = m
    BY <1>2, <2>1, <2>3
  <2> DEFINE u == Closed(f[n], t, a)
             R == Unshifted(f[n], Q, x, a)
             k == HeightsWithout(f[n], g, x)
  <2>5. Without(m, u, R, k, s, a, n + 1, update)
    BY <1>1, <2>1, <2>2, WithoutNext
  <2> HIDE DEF m, u, R, k
  <2>6. Taken(f[n + 1], s, a, n + 1, update)
    BY <2>4, <2>5 DEF Taken
  <2> QED
    BY <2>1, <2>6
<1>5. 0..N \subseteq T
  <2>1. 0 \in Nat
    OBVIOUS
  <2> HIDE DEF T
  <2> QED
    BY <1>3, <1>4, <2>1, SetInduction
<1>6. N \in 0..N
  OBVIOUS
<1> QED
  BY <1>5, <1>6

\* deleteRange takes out the nodes of the range.
LEMMA DeleteRangeArranges ==
  ASSUME NEW s, NEW P, NEW h, Arranged(z, s, P, h), NEW r \in Ranges, deleteRange(r)
  PROVE  \E a, b : RangeAt(s, P, r, a, b) /\ Taken(z', s, a, b - a, BelowMin(r))
<1>1. PICK a, b : RangeAt(s, P, r, a, b)
  BY RangeIsAt
<1> DEFINE update == BelowMin(r)
           nodes == getNodeInRange(r)
           N == b - a
           Is(f) == f = [n \in 0..Len(nodes) |->
                           IF n = 0 THEN z ELSE Unlinked(f[n - 1], nodes[n], update)]
           after == CHOOSE f : Is(f)
<1>2. /\ z.len \in Nat
      /\ a \in 0..z.len /\ b \in a..z.len
      /\ a = P[update[1]]
      /\ nodes = Listed(s, a, N)
  BY <1>1 DEF RangeAt, Arranged, InPlace
<1>3. N \in Nat /\ a + N <= z.len /\ a \in Int
  BY <1>2
<1>4. Len(nodes) = N
  <2>1. \A j \in 1..N : s[a + j] \in heap
    <3>1. \A p \in 1..z.len : s[p] \in heap
      BY OrderIs
    <3>2. \A j \in 1..N : a + j \in 1..z.len
      BY <1>2
    <3> QED
      BY <3>1, <3>2
  <2> HIDE DEF N, nodes
  <2>2. Len(Listed(s, a, N)) = N
    BY <1>3, <2>1, ListedIsSeq
  <2> QED
    BY <1>2, <2>2
<1>5. z' = after[Len(nodes)]
  BY DEF deleteRange
<1> HIDE DEF update, nodes, N
<1>6. \E f : Is(f)
  <2>1. PICK f : Goes(f, N, nodes, update)
    BY <1>3, GoesExists
  <2>2. Is(f)
    BY <1>4, <2>1 DEF Goes
  <2> QED
    BY <2>2
<1>7. Is(after)
  BY <1>6
<1> HIDE DEF after
<1>8. Goes(after, N, Listed(s, a, N), update)
  BY <1>2, <1>4, <1>7 DEF Goes
<1>9. Straddles(z, P, h, update)
  <2> DEFINE low == {n \in heap : ~valueGteMin(z.node[n].score, r)}
  <2>1. low \in SUBSET heap /\ update = Stops(low)
    BY DEF update, BelowMin
  <2> HIDE DEF low
  <2>2. Searched(Stops(low), low, P, h)
    BY <2>1, StopsSearch
  <2> QED
    BY <2>1, <2>2 DEF Searched
<1>10. Taken(after[N], s, a, N, update)
  BY <1>2, <1>3, <1>8, <1>9, GoesWithout
<1>11. Taken(z', s, a, N, update)
  BY <1>4, <1>5, <1>10
<1> QED
  BY <1>1, <1>11 DEF update, N

-----------------------------------------------------------------------------
(* The sorted list that the skip list is.                                  *)

Member(l, x) == [obj |-> l.node[x].obj, score |-> l.node[x].score]

\* w has the members at the places of l.
Shows(w, l, s) ==
  /\ w \in Seq(Members) /\ Len(w) = l.len
  /\ \A p \in 1..l.len : w[p] = Member(l, s[p])

Mapped == \A s, P, h : Arranged(z, s, P, h) => Shows(zset, z, s)

\* zset has the members of the list in the order of its places.
LEMMA MappedNow == Mapped
<1> SUFFICES ASSUME NEW s, NEW P, NEW h, Arranged(z, s, P, h)
             PROVE  Shows(zset, z, s)
  BY DEF Mapped
<1>1. Len(Order) = z.len /\ z.len \in Nat
  BY OrderIs DEF Arranged, InPlace
<1>2. \A p \in 1..z.len : Order[p] = s[p] /\ s[p] \in heap
  BY OrderIs
<1>3. \A p \in 1..z.len : zset[p] = Member(z, s[p])
  BY <1>1, <1>2 DEF zset, Member
<1>4. zset \in [1..z.len -> Members]
  <2>1. \A p \in 1..z.len : Member(z, Order[p]) \in Members
    BY <1>2 DEF Members, Member, Arranged, Typed, heap, Nodes
  <2>2. zset = [p \in 1..z.len |-> Member(z, Order[p])]
    BY <1>1 DEF zset, Member
  <2> QED
    BY <2>1, <2>2
<1>5. zset \in Seq(Members) /\ Len(zset) = z.len
  BY <1>1, <1>4, FunctionIsSeq
<1> QED
  BY <1>3, <1>5 DEF Shows

\* So it has after a step.
LEMMA MappedNext == Mapped'
  BY MappedNow, PTL

\* The members keep their places where nothing has been inserted or taken out.
LEMMA InsertInserts ==
  ASSUME NEW s, NEW P, NEW h, Arranged(z, s, P, h), NEW obj \in Texts, NEW score \in Scores,
         insertNode(obj, score)
  PROVE  List!Insert([obj |-> obj, score |-> score])
<1>1. PICK x, a : InsertedAt(s, P, h, obj, score, x, a)
  BY InsertNodeArranges
<1> DEFINE passed == Preceding(obj, score)
           e == [obj |-> obj, score |-> score]
           t == Opened(z, s, x, a)
           w == zset
<1>2. /\ x \in Addr \ heap /\ a \in 0..z.len /\ a = P[Stops(passed)[1]]
      /\ z'.len = z.len + 1 /\ z'.node[x].obj = obj /\ z'.node[x].score = score
      /\ \A y \in heap : z'.node[y].obj = z.node[y].obj /\ z'.node[y].score = z.node[y].score
  BY <1>1 DEF InsertedAt
<1>3. PICK zlevel \in 1..MaxLevel :
        Arranged(z', t, Shifted(z, P, x, a), Heights(z, h, x, zlevel))
  BY <1>1 DEF InsertedAt
<1>4. /\ w \in Seq(Members) /\ Len(w) = z.len
      /\ \A p \in 1..z.len : w[p] = Member(z, s[p])
      /\ z.len \in Nat
  BY MappedNow DEF Mapped, Shows, Arranged, InPlace
<1>5. /\ zset' \in Seq(Members) /\ Len(zset') = z.len + 1
      /\ \A p \in 1..z.len + 1 : zset'[p] = Member(z', t[p])
  <2>1. Shows(zset', z', t)
    BY <1>3, MappedNext DEF Mapped
  <2> QED
    BY <1>2, <2>1 DEF Shows
<1>6. /\ a # 0 => s[a] \in passed
      /\ s[a + 1] \notin passed
  <2>1. passed \in SUBSET heap
    BY DEF Preceding
  <2> QED
    BY <1>2, <2>1, SearchEnds
<1>7. \A p \in 1..z.len : s[p] \in heap
  BY OrderIs
<1>8. e \in Members
  BY DEF Members
<1> HIDE DEF w, t, passed
<1>9. zset' = InsertAt(w, a + 1, e)
  <2>1. a + 1 \in 1..Len(w) + 1
    BY <1>2, <1>4
  <2>2. /\ InsertAt(w, a + 1, e) \in Seq(Members)
        /\ Len(InsertAt(w, a + 1, e)) = z.len + 1
        /\ \A j \in 1..z.len + 1 :
             InsertAt(w, a + 1, e)[j] = IF j < a + 1 THEN w[j] ELSE IF j = a + 1 THEN e ELSE w[j - 1]
    <3> DEFINE c == a + 1
               v == InsertAt(w, c, e)
    <3>1. c \in 1..Len(w) + 1
      BY <2>1
    <3> HIDE DEF c, e
    <3>2. /\ v \in Seq(Members)
          /\ Len(v) = Len(w) + 1
          /\ \A j \in 1..Len(w) + 1 :
               v[j] = IF j < c THEN w[j] ELSE IF j = c THEN e ELSE w[j - 1]
      BY <1>4, <1>8, <3>1, InsertAtEffect
    <3> HIDE DEF v
    <3>3. /\ v \in Seq(Members)
          /\ Len(v) = z.len + 1
          /\ \A j \in 1..z.len + 1 :
               v[j] = IF j < c THEN w[j] ELSE IF j = c THEN e ELSE w[j - 1]
      BY <1>4, <3>2
    <3> QED
      BY <3>3 DEF v, c
  <2>3. ASSUME NEW j \in 1..z.len + 1
        PROVE  zset'[j] = IF j < a + 1 THEN w[j] ELSE IF j = a + 1 THEN e ELSE w[j - 1]
    <3>1. t[j] = IF j <= a THEN s[j] ELSE IF j = a + 1 THEN x ELSE s[j - 1]
      <4>1. j \in 0..z.len + 2
        BY <1>4
      <4> QED
        BY <4>1 DEF t, Opened
    <3>2. zset'[j] = Member(z', t[j])
      BY <1>5
    <3>3. \A y \in heap : Member(z', y) = Member(z, y)
      BY <1>2 DEF Member
    <3>4. CASE j < a + 1
      <4>1. j <= a /\ j \in 1..z.len
        BY <1>2, <1>4, <3>4
      <4> QED
        BY <1>4, <1>7, <3>1, <3>2, <3>3, <3>4, <4>1
    <3>5. CASE j = a + 1
      <4>1. ~(j <= a) /\ ~(j < a + 1)
        BY <1>2, <3>5
      <4>2. Member(z', x) = e
        BY <1>2 DEF Member
      <4> QED
        BY <3>1, <3>2, <3>5, <4>1, <4>2
    <3>6. CASE j > a + 1
      <4>1. ~(j <= a) /\ ~(j < a + 1) /\ j # a + 1 /\ j - 1 \in 1..z.len
        BY <1>2, <1>4, <3>6
      <4> QED
        BY <1>4, <1>7, <3>1, <3>2, <3>3, <4>1
    <3>7. j < a + 1 \/ j = a + 1 \/ j > a + 1
      BY <1>2
    <3> QED
      BY <3>4, <3>5, <3>6, <3>7
  <2> QED
    BY <1>5, <2>2, <2>3, SeqEqual
<1>10. a + 1 \in InsertPositions(w, obj, score)
  <2>1. ScoresAscend(s)
    BY ScoresByPlace
  <2>2. /\ \A p \in 1..z.len : z.node[s[p]].score \in Int
        /\ \A p, q \in 1..z.len : p <= q => z.node[s[p]].score <= z.node[s[q]].score
    BY <2>1 DEF ScoresAscend
  <2>3. \A p \in 1..z.len : w[p].score = z.node[s[p]].score /\ w[p].obj = z.node[s[p]].obj
    <3> SUFFICES ASSUME NEW p \in 1..z.len
                 PROVE  w[p].score = z.node[s[p]].score /\ w[p].obj = z.node[s[p]].obj
      OBVIOUS
    <3>1. w[p] = Member(z, s[p])
      BY <1>4
    <3>2. Member(z, s[p]).score = z.node[s[p]].score /\ Member(z, s[p]).obj = z.node[s[p]].obj
      BY DEF Member
    <3> QED
      BY <3>1, <3>2
  <2>4. score \in Int
    BY ScoresAssumption
  <2>5. a # 0 => a \in 1..z.len /\ Precedes(s[a], obj, score)
    BY <1>2, <1>4, <1>6 DEF passed, Preceding
  <2>6. a + 1 <= z.len => a + 1 \in 1..z.len /\ ~Precedes(s[a + 1], obj, score)
    <3>1. a + 1 <= z.len => a + 1 \in 1..z.len
      BY <1>2, <1>4
    <3> QED
      BY <1>6, <1>7, <3>1 DEF passed, Preceding
  <2>7. ASSUME NEW i \in 1..z.len, i < a + 1
        PROVE  w[i].score <= score
    <3>1. a # 0 /\ i <= a
      BY <1>2, <2>7
    <3>2. w[a].score <= score /\ w[a].score \in Int
      BY <2>2, <2>3, <2>4, <2>5, <3>1 DEF Precedes
    <3>3. w[i].score <= w[a].score /\ w[i].score \in Int
      BY <2>2, <2>3, <2>5, <3>1
    <3> QED
      BY <2>4, <3>2, <3>3
  <2>8. ASSUME NEW i \in 1..z.len, ~(i < a + 1)
        PROVE  w[i].score >= score
    <3>1. a + 1 <= z.len /\ a + 1 <= i /\ a + 1 \in 1..z.len
      BY <1>2, <1>4, <2>8
    <3>2. w[a + 1].score >= score /\ w[a + 1].score \in Int
      BY <2>2, <2>3, <2>4, <2>6, <3>1 DEF Precedes
    <3>3. w[a + 1].score <= w[i].score /\ w[i].score \in Int
      BY <2>2, <2>3, <3>1
    <3> QED
      BY <2>4, <3>2, <3>3
  <2>9. a + 1 <= z.len /\ w[a + 1].score = score => w[a + 1].obj = obj
    BY <2>3, <2>6 DEF Precedes
  <2>10. a # 0 => w[a] # e
    <3> SUFFICES ASSUME a # 0, w[a] = e PROVE FALSE
      OBVIOUS
    <3>1. z.node[s[a]].score = score /\ z.node[s[a]].obj = obj
      BY <2>3, <2>5
    <3>2. Precedes(s[a], obj, score)
      BY <2>5
    <3> QED
      BY <2>4, <3>1, <3>2 DEF Precedes
  <2>11. (a + 1) - 1 = a /\ a + 1 \in 1..Len(w) + 1 /\ (a + 1 = 1 <=> a = 0)
    BY <1>2, <1>4
  <2> DEFINE c == a + 1
  <2> HIDE DEF c
  <2>12. c \in 1..Len(w) + 1
         /\ (\A i \in 1..Len(w) : IF i < c THEN w[i].score <= score ELSE w[i].score >= score)
    BY <1>4, <2>7, <2>8, <2>11 DEF c
  <2>13. IF c <= Len(w) /\ w[c].score = score THEN w[c].obj = obj
         ELSE c = 1 \/ w[c - 1] # e
    BY <1>4, <2>9, <2>10, <2>11 DEF c
  <2>14. c \in InsertPositions(w, obj, score)
    BY <2>12, <2>13 DEF InsertPositions
  <2> QED
    BY <2>14 DEF c
<1> QED
  BY <1>9, <1>10 DEF List!Insert, List!InsertPositions, InsertPositions, List!InsertAt, InsertAt, w

\* v is w without its n places behind a up to b.
IsLeft(v, w, a, b, n) ==
  /\ a \in 0..Len(w) /\ b \in a..Len(w) /\ n = b - a
  /\ v = SubSeq(w, 1, a) \o SubSeq(w, b + 1, Len(w))

\* What its elements are.
LEMMA LeftEffect ==
  ASSUME NEW S, NEW w \in Seq(S), NEW a, NEW b, NEW n, NEW v, IsLeft(v, w, a, b, n)
  PROVE  /\ v \in Seq(S) /\ Len(v) = Len(w) - n
         /\ \A j \in 1..Len(w) - n : v[j] = IF j <= a THEN w[j] ELSE w[j + n]
<1> DEFINE l == SubSeq(w, 1, a)
           r == SubSeq(w, b + 1, Len(w))
<1>0. a \in 0..Len(w) /\ b \in a..Len(w) /\ n = b - a
  BY DEF IsLeft
<1>1. Len(w) \in Nat /\ \A j \in 1..Len(w) : w[j] \in S
  BY LenProperties, ElementOfSeq
<1>2. l \in Seq(S) /\ Len(l) = a /\ \A j \in 1..a : l[j] = w[j]
  <2>1. l = [j \in 1..a |-> w[j]]
    BY <1>0, <1>1
  <2> HIDE DEF l
  <2>2. a \in Nat /\ l \in [1..a -> S]
    BY <1>0, <1>1, <2>1
  <2> QED
    BY <2>1, <2>2, FunctionIsSeq
<1>3. r \in Seq(S) /\ Len(r) = Len(w) - b /\ \A j \in 1..Len(w) - b : r[j] = w[b + j]
  <2> DEFINE c == Len(w) - b
  <2>1. r = [j \in 1..c |-> w[b + j]]
    BY <1>0, <1>1
  <2>2. c \in Nat /\ \A j \in 1..c : b + j \in 1..Len(w)
    BY <1>0, <1>1
  <2> HIDE DEF r
  <2>3. r \in [1..c -> S]
    BY <1>0, <1>1, <2>1, <2>2
  <2> HIDE DEF c
  <2>4. r \in Seq(S) /\ Len(r) = c /\ \A j \in 1..c : r[j] = w[b + j]
    BY <2>1, <2>2, <2>3, FunctionIsSeq
  <2> QED
    BY <2>4 DEF c
<1> HIDE DEF l, r
<1>4. v = l \o r
  BY DEF l, r, IsLeft
<1>5. /\ v \in Seq(S) /\ Len(v) = Len(l) + Len(r)
      /\ \A j \in 1..Len(l) + Len(r) : v[j] = IF j <= Len(l) THEN l[j] ELSE r[j - Len(l)]
  <2>1. /\ l \o r \in Seq(S) /\ Len(l \o r) = Len(l) + Len(r)
        /\ \A j \in 1..Len(l) + Len(r) : (l \o r)[j] = IF j <= Len(l) THEN l[j] ELSE r[j - Len(l)]
    BY <1>2, <1>3, ConcatProperties
  <2> QED
    BY <1>4, <2>1
<1>6. Len(l) + Len(r) = Len(w) - n
  BY <1>0, <1>1, <1>2, <1>3
<1>7. ASSUME NEW j \in 1..Len(w) - n
      PROVE  v[j] = IF j <= a THEN w[j] ELSE w[j + n]
  <2>1. v[j] = IF j <= a THEN l[j] ELSE r[j - a]
    BY <1>2, <1>5, <1>6
  <2>2. CASE j <= a
    <3>1. j \in 1..a
      BY <1>0, <1>1, <2>2
    <3> QED
      BY <1>2, <2>1, <2>2, <3>1
  <2>3. CASE ~(j <= a)
    <3>1. j - a \in 1..Len(w) - b /\ b + (j - a) = j + n
      BY <1>0, <1>1, <2>3
    <3>2. r[j - a] = w[b + (j - a)]
      BY <1>3, <3>1
    <3> QED
      BY <2>1, <2>3, <3>1, <3>2
  <2> QED
    BY <2>2, <2>3
<1> QED
  BY <1>5, <1>6, <1>7

\* A deleted node is one that leaves the zset, if it is taken out at all.
LEMMA DeleteDeletes ==
  ASSUME NEW s, NEW P, NEW h, Arranged(z, s, P, h), NEW obj, NEW score,
         deleteNode(obj, score), z' # z
  PROVE  \E p \in 1..Len(zset) : List!Delete(p)
<1>1. PICK x, a : RemovedAt(s, P, h, x, a)
  BY DeleteNodeArranges
<1> DEFINE w == zset
           t == Closed(z, s, a)
<1>2. /\ Arranged(z', t, Unshifted(z, P, x, a), HeightsWithout(z, h, x))
      /\ a \in 0..z.len - 1 /\ z'.len = z.len - 1
  BY <1>1 DEF RemovedAt
<1>3. \A p \in 1..z.len : p # a + 1 => Member(z', s[p]) = Member(z, s[p])
  BY <1>1 DEF RemovedAt, Member
<1>4. /\ w \in Seq(Members) /\ Len(w) = z.len
      /\ \A p \in 1..z.len : w[p] = Member(z, s[p])
      /\ z.len \in Nat
  BY MappedNow DEF Mapped, Shows, Arranged, InPlace
<1>5. /\ zset' \in Seq(Members) /\ Len(zset') = z.len - 1
      /\ \A p \in 1..z.len - 1 : zset'[p] = Member(z', t[p])
  <2>1. Shows(zset', z', t)
    BY <1>2, MappedNext DEF Mapped
  <2> QED
    BY <1>2, <2>1 DEF Shows
<1> HIDE DEF w, t
<1> DEFINE b == a + 1
           v == SubSeq(w, 1, a) \o SubSeq(w, b + 1, Len(w))
<1>6. a \in 0..Len(w) /\ b \in a..Len(w) /\ b - a = 1 /\ b \in 1..Len(w) /\ b - 1 = a
  BY <1>2, <1>4
<1> HIDE DEF b
<1>7. /\ v \in Seq(Members) /\ Len(v) = Len(w) - (b - a)
      /\ \A j \in 1..Len(w) - (b - a) : v[j] = IF j <= a THEN w[j] ELSE w[j + (b - a)]
  <2> DEFINE n == b - a
  <2>1. w \in Seq(Members) /\ IsLeft(v, w, a, b, n)
    BY <1>4, <1>6 DEF IsLeft
  <2> HIDE DEF n, v
  <2>2. v \in Seq(Members) /\ Len(v) = Len(w) - n
    BY <2>1, LeftEffect
  <2>3. \A j \in 1..Len(w) - n : v[j] = IF j <= a THEN w[j] ELSE w[j + n]
    BY <2>1, LeftEffect
  <2> QED
    BY <2>2, <2>3 DEF n
<1> HIDE DEF v
<1>8. ASSUME NEW j \in 1..z.len - 1
      PROVE  zset'[j] = v[j]
  <2>1. v[j] = IF j <= a THEN w[j] ELSE w[j + 1]
    BY <1>4, <1>6, <1>7
  <2>2. t[j] = IF j <= a THEN s[j] ELSE s[j + 1]
    <3>1. j \in 0..z.len
      BY <1>4
    <3> QED
      BY <3>1 DEF t, Closed
  <2>3. j \in 1..z.len /\ j + 1 \in 1..z.len /\ (j <= a => j # a + 1) /\ (~(j <= a) => j + 1 # a + 1)
    BY <1>2, <1>4
  <2> QED
    BY <1>3, <1>4, <1>5, <2>1, <2>2, <2>3
<1>9. zset' = v
  <2>1. Len(v) = z.len - 1
    BY <1>4, <1>6, <1>7
  <2> QED
    BY <1>5, <1>7, <1>8, <2>1, SeqEqual
<1>10. zset' = SubSeq(w, 1, b - 1) \o SubSeq(w, b + 1, Len(w))
  BY <1>6, <1>9 DEF v
<1>11. List!Delete(b)
  BY <1>10 DEF List!Delete, List!RemoveAt, w
<1> QED
  BY <1>6, <1>11 DEF w

\* The nodes of a range leave the zset.
LEMMA DeleteRangeDeletes ==
  ASSUME NEW s, NEW P, NEW h, Arranged(z, s, P, h), NEW r \in Ranges, deleteRange(r)
  PROVE  List!DeleteRange({c \in Scores : valueGteMin(c, r) /\ valueLteMax(c, r)})
<1> DEFINE w == zset
           R == {c \in Scores : valueGteMin(c, r) /\ valueLteMax(c, r)}
<1>1. PICK a, b : RangeAt(s, P, r, a, b) /\ Taken(z', s, a, b - a, BelowMin(r))
  BY DeleteRangeArranges
<1>2. /\ a \in 0..z.len /\ b \in a..z.len
      /\ \A p \in 1..z.len : valueGteMin(z.node[s[p]].score, r) <=> p > a
      /\ \A p \in a + 1..z.len : valueLteMax(z.node[s[p]].score, r) <=> p <= b
  BY <1>1 DEF RangeAt
<1>3. PICK t, Q, g : Without(z', t, Q, g, s, a, b - a, BelowMin(r))
  BY <1>1 DEF Taken
<1>4. /\ Arranged(z', t, Q, g) /\ z'.len = z.len - (b - a)
      /\ \A p \in 0..z'.len + 1 : t[p] = IF p <= a THEN s[p] ELSE s[p + (b - a)]
      /\ \A y \in Nodes(z') : z'.node[y].obj = z.node[y].obj /\ z'.node[y].score = z.node[y].score
  BY <1>3 DEF Without
<1>5. /\ w \in Seq(Members) /\ Len(w) = z.len
      /\ \A p \in 1..z.len : w[p] = Member(z, s[p])
      /\ z.len \in Nat
  BY MappedNow DEF Mapped, Shows, Arranged, InPlace
<1>6. /\ zset' \in Seq(Members) /\ Len(zset') = z'.len
      /\ \A p \in 1..z'.len : zset'[p] = Member(z', t[p])
  <2>1. Shows(zset', z', t)
    BY <1>4, MappedNext DEF Mapped
  <2> QED
    BY <2>1 DEF Shows
<1>7. \A p \in 1..z'.len : t[p] \in Nodes(z')
  <2>1. InPlace(z', t, Q) /\ head \in DOMAIN z'.node /\ Nodes(z') \subseteq Addr
    BY <1>4 DEF Arranged, Typed
  <2> QED
    BY <2>1, Numbers
<1>8. \A p \in 1..z.len : s[p] \in heap
  BY OrderIs
<1>9. \A p \in 1..z.len : w[p].score = z.node[s[p]].score /\ w[p].score \in Scores
  <2> SUFFICES ASSUME NEW p \in 1..z.len
               PROVE  w[p].score = z.node[s[p]].score /\ w[p].score \in Scores
    OBVIOUS
  <2>1. w[p] = Member(z, s[p])
    BY <1>5
  <2>2. Member(z, s[p]).score = z.node[s[p]].score
    BY DEF Member
  <2>3. z.node[s[p]].score \in Scores
    BY <1>8 DEF Arranged, Typed, heap, Nodes
  <2> QED
    BY <2>1, <2>2, <2>3
<1> HIDE DEF w
<1>10. ASSUME NEW p \in 1..Len(w)
       PROVE  w[p].score \in R <=> p \in a + 1..b
  <2>1. p \in 1..z.len
    BY <1>5
  <2>2. w[p].score \in R <=> p > a /\ valueLteMax(z.node[s[p]].score, r)
    BY <1>2, <1>9, <2>1
  <2>3. p > a => p \in a + 1..z.len
    BY <1>2, <2>1
  <2>4. p > a => (valueLteMax(z.node[s[p]].score, r) <=> p <= b)
    BY <1>2, <2>3
  <2>5. p > a /\ p <= b <=> p \in a + 1..b
    BY <1>2, <1>5, <2>1
  <2> QED
    BY <2>2, <2>4, <2>5
<1> DEFINE v == SubSeq(w, 1, a) \o SubSeq(w, b + 1, Len(w))
<1>11. a \in 0..Len(w) /\ b \in a..Len(w) /\ b \in 0..Len(w) /\ a <= b
  BY <1>2, <1>5
<1>12. /\ v \in Seq(Members) /\ Len(v) = Len(w) - (b - a)
       /\ \A j \in 1..Len(w) - (b - a) : v[j] = IF j <= a THEN w[j] ELSE w[j + (b - a)]
  <2> DEFINE n == b - a
  <2>1. w \in Seq(Members) /\ IsLeft(v, w, a, b, n)
    BY <1>5, <1>11 DEF IsLeft
  <2> HIDE DEF n, v
  <2>2. v \in Seq(Members) /\ Len(v) = Len(w) - n
    BY <2>1, LeftEffect
  <2>3. \A j \in 1..Len(w) - n : v[j] = IF j <= a THEN w[j] ELSE w[j + n]
    BY <2>1, LeftEffect
  <2> QED
    BY <2>2, <2>3 DEF n
<1> HIDE DEF v
<1>13. ASSUME NEW j \in 1..z'.len
       PROVE  zset'[j] = v[j]
  <2>1. v[j] = IF j <= a THEN w[j] ELSE w[j + (b - a)]
    BY <1>4, <1>5, <1>12
  <2>2. t[j] = IF j <= a THEN s[j] ELSE s[j + (b - a)]
    <3>1. j \in 0..z'.len + 1
      BY <1>2, <1>4, <1>5
    <3> QED
      BY <1>4, <3>1
  <2>3. zset'[j] = Member(z, t[j])
    <3>1. t[j] \in Nodes(z')
      BY <1>7
    <3>2. Member(z', t[j]) = Member(z, t[j])
      BY <1>4, <3>1 DEF Member
    <3> QED
      BY <1>6, <3>2
  <2>4. (j <= a => j \in 1..z.len) /\ (~(j <= a) => j + (b - a) \in 1..z.len)
    BY <1>2, <1>4, <1>5
  <2> QED
    BY <1>5, <2>1, <2>2, <2>3, <2>4
<1>14. zset' = v
  <2>1. Len(v) = z'.len
    BY <1>4, <1>5, <1>12
  <2> QED
    BY <1>6, <1>12, <1>13, <2>1, SeqEqual
<1> HIDE DEF R
<1>15. List!DeleteRange(R)
  BY <1>10, <1>11, <1>14 DEF List!DeleteRange, v, w
<1> QED
  BY <1>15 DEF R

-----------------------------------------------------------------------------
(* The theorems.                                                           *)

\* The invariant holds of the first list.
LEMMA InitArranged == Init => IInv
  BY BeginsArranged DEF Init, IInv

\* Every operation keeps it.
LEMMA NextArranged == IInv /\ [Next]_vars => IInv'
<1> SUFFICES ASSUME IInv, [Next]_vars PROVE IInv'
  OBVIOUS
<1>1. PICK s, P, h : Arranged(z, s, P, h)
  BY DEF IInv
<1>2. ASSUME z' = z, usable' \in BOOLEAN PROVE IInv'
  BY <1>1, <1>2 DEF IInv
<1>3. CASE UNCHANGED vars
  BY <1>2, <1>3 DEF vars, IInv
<1>4. ASSUME NEW m \in Members, insertNode(m.obj, m.score), UNCHANGED usable
      PROVE  IInv'
  <2>1. m.obj \in Texts /\ m.score \in Scores
    BY DEF Members
  <2>2. PICK x, a : InsertedAt(s, P, h, m.obj, m.score, x, a)
    BY <1>1, <1>4, <2>1, InsertNodeArranges
  <2>3. \E t, Q, g : Arranged(z', t, Q, g)
    BY <2>2 DEF InsertedAt
  <2> QED
    BY <1>4, <2>3 DEF IInv
<1>5. ASSUME NEW m \in Members, deleteNode(m.obj, m.score)
      PROVE  IInv'
  <2>1. usable' \in BOOLEAN
    BY <1>5 DEF deleteNode, IInv, vars
  <2>2. CASE z' # z
    <3>1. PICK x, a : RemovedAt(s, P, h, x, a)
      BY <1>1, <1>5, <2>2, DeleteNodeArranges
    <3>2. \E t, Q, g : Arranged(z', t, Q, g)
      BY <3>1 DEF RemovedAt
    <3> QED
      BY <2>1, <3>2 DEF IInv
  <2> QED
    BY <1>2, <2>1, <2>2
<1>6. ASSUME NEW r \in Ranges, deleteRange(r)
      PROVE  IInv'
  <2>1. PICK a, b : RangeAt(s, P, r, a, b) /\ Taken(z', s, a, b - a, BelowMin(r))
    BY <1>1, <1>6, DeleteRangeArranges
  <2>2. \E t, Q, g : Arranged(z', t, Q, g)
    BY <2>1 DEF Taken, Without
  <2>3. usable' \in BOOLEAN
    BY <1>6 DEF deleteRange, IInv
  <2> QED
    BY <2>2, <2>3 DEF IInv
<1> QED
  BY <1>3, <1>4, <1>5, <1>6 DEF Next

\* The list is always arranged: each level is a part of the lowest, spans count,
\* backward pointers mirror, scores ascend.
THEOREM AlwaysArranged == Spec => []IInv
  BY InitArranged, NextArranged, PTL DEF Spec

\* Every variable always has its type.
THEOREM TypeCorrect == Spec => []TypeOK
<1>1. IInv => TypeOK
  BY ArrangedTyped DEF IInv
<1> QED
  BY <1>1, AlwaysArranged, PTL

\* Every level leads through a part of the lowest in the same order, and every
\* span is the number of nodes it leads over, however high the nodes are
\* (Skiplist.cc:72-96, 129-147, 290-307).
THEOREM SpansCountAlways == Spec => []SpansCount
<1>1. IInv => SpansCount
  BY ArrangedSpans DEF IInv
<1> QED
  BY <1>1, AlwaysArranged, PTL

\* Backwards from the tail the list is always the same as forwards
\* (Skiplist.cc:21-31, 100-105).
THEOREM BackwardMirrorsAlways == Spec => []BackwardMirrors
<1>1. IInv => BackwardMirrors
  BY ArrangedBackward DEF IInv
<1> QED
  BY <1>1, AlwaysArranged, PTL

\* A range query always finds the members of the range, and no others
\* (Skiplist.cc:152-186, 206-248).
THEOREM RangesFoundAlways == Spec => []RangesFound
<1>1. IInv => RangesFound
  BY ArrangedRanges DEF IInv
<1> QED
  BY <1>1, AlwaysArranged, PTL

\* A member that shares its score with no other is always found
\* (Skiplist.cc:114-126).
THEOREM SoleScoresFoundAlways == Spec => []SoleScoresFound
<1>1. IInv => SoleScoresFound
  BY ArrangedSole DEF IInv
<1> QED
  BY <1>1, AlwaysArranged, PTL

\* An empty list is the empty sorted list.
LEMMA RefinesInit == Init => List!Init
<1> SUFFICES ASSUME Init PROVE zset = <<>>
  BY DEF List!Init
<1>1. PICK s, P, h : Arranged(z, s, P, h)
  BY BeginsArranged
<1>2. zset \in Seq(Members) /\ Len(zset) = 0
  BY <1>1, BeginsArranged, MappedNow DEF Mapped, Shows
<1> QED
  BY <1>2, EmptySeq

\* Every operation is an operation on the sorted list, or leaves it alone.
LEMMA RefinesNext == IInv /\ [Next]_vars => [List!Next]_zset
<1> SUFFICES ASSUME IInv, [Next]_vars PROVE [List!Next]_zset
  OBVIOUS
<1>1. PICK s, P, h : Arranged(z, s, P, h)
  BY DEF IInv
<1>2. ASSUME z' = z PROVE zset' = zset
  <2>1. Shows(zset, z, s)
    BY <1>1, MappedNow DEF Mapped
  <2>2. Shows(zset', z', s)
    BY <1>1, <1>2, MappedNext DEF Mapped
  <2>3. /\ zset \in Seq(Members) /\ zset' \in Seq(Members) /\ Len(zset) = z.len /\ Len(zset') = z.len
        /\ \A p \in 1..z.len : zset[p] = zset'[p]
    BY <1>2, <2>1, <2>2 DEF Shows
  <2> QED
    BY <2>3, SeqEqual
<1>3. CASE UNCHANGED vars
  BY <1>2, <1>3 DEF vars
<1>4. ASSUME NEW m \in Members, insertNode(m.obj, m.score)
      PROVE  List!Next
  <2>1. m.obj \in Texts /\ m.score \in Scores /\ m = [obj |-> m.obj, score |-> m.score]
    BY DEF Members
  <2>2. List!Insert(m)
    BY <1>1, <1>4, <2>1, InsertInserts
  <2>3. m \in List!Members
    BY DEF Members, List!Members
  <2> QED
    BY <2>2, <2>3 DEF List!Next
<1>5. ASSUME NEW m \in Members, deleteNode(m.obj, m.score)
      PROVE  [List!Next]_zset
  <2>1. CASE z' # z
    <3>1. \E p \in 1..Len(zset) : List!Delete(p)
      BY <1>1, <1>5, <2>1, DeleteDeletes
    <3> QED
      BY <3>1 DEF List!Next
  <2> QED
    BY <1>2, <2>1
<1>6. ASSUME NEW r \in Ranges, deleteRange(r)
      PROVE  List!Next
  <2>1. List!DeleteRange({c \in Scores : valueGteMin(c, r) /\ valueLteMax(c, r)})
    BY <1>1, <1>6, DeleteRangeDeletes
  <2> QED
    BY <2>1 DEF List!Next
<1> QED
  BY <1>3, <1>4, <1>5, <1>6 DEF Next

\* The skip list is the sorted list that Database takes a zset for, whatever the
\* heights of its nodes (Skiplist.cc:48-150, 271-313).
THEOREM ListImplementsSorted == Spec => RefinesSortedList
<1>1. Init => List!Init
  BY RefinesInit
<1>2. IInv /\ [Next]_vars => [List!Next]_zset
  BY RefinesNext
<1> QED
  BY <1>1, <1>2, AlwaysArranged, PTL DEF Spec, List!Spec, RefinesSortedList
=============================================================================
