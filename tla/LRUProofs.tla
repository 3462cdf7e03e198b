----------------------------- MODULE LRUProofs -----------------------------
(* The table and the list of an LRUCache agree, and it implements Recency: *)
(* for every set of keys and values, every capacity, and any number of     *)
(* addresses.  A cache beside a dictionary (Caching) is such a cache, and  *)
(* its copies keep up with the dictionary, for every kind of objects.      *)
EXTENDS Caching, SequenceTheorems, FiniteSetTheorems, WellFoundedInduction, TLAPS

Once(s) == \A i, j \in 1..Len(s) : s[i] = s[j] => i = j

\* The list l has the nodes of H, in the order s.
Chain(l, s, H) ==
  /\ s \in Seq(H)
  /\ Once(s)
  /\ \A n \in H : \E i \in 1..Len(s) : s[i] = n
  /\ Listed(l, s)

Entries == [key : Keys, value : Values]

\* Every node of H has its key in the table, and the table has no other.
Tabled(H, e, table) ==
  /\ \A n \in H : e[n] \in Entries /\ table[e[n].key] = n
  /\ \A k \in Keys : table[k] # Null => table[k] \in H /\ e[table[k]].key = k

IInv ==
  /\ TypeOK
  /\ \E s \in Seq(heap) : Chain(links, s, heap)
  /\ Tabled(heap, entry, cache)
  /\ Cardinality(heap) <= capacity

Holdings == [Addr -> Entries \cup {Null}]

Tables == [Keys -> Addr \cup {Null}]

Without(s, p) == SubSeq(s, 1, p - 1) \o SubSeq(s, p + 1, Len(s))

-----------------------------------------------------------------------------
(* Sequences.                                                              *)

\* A sequence without its entry at p, one by one.
LEMMA WithoutProperties ==
  ASSUME NEW S, NEW s \in Seq(S), NEW p \in 1..Len(s)
  PROVE  /\ Without(s, p) \in Seq(S)
         /\ Len(Without(s, p)) = Len(s) - 1
         /\ \A i \in 1..Len(s) - 1 : Without(s, p)[i] = IF i < p THEN s[i] ELSE s[i + 1]
<1> DEFINE a == SubSeq(s, 1, p - 1)
           b == SubSeq(s, p + 1, Len(s))
<1>1. Len(s) \in Nat /\ p \in Nat /\ \A i \in 1..Len(s) : s[i] \in S
  BY ElementOfSeq
<1>2. a \in Seq(S) /\ Len(a) = p - 1 /\ \A i \in 1..p - 1 : a[i] = s[i]
  <2>1. 1 \in Int /\ p - 1 \in Int /\ \A i \in 1..p - 1 : s[i] \in S
    BY <1>1
  <2>2. /\ a \in Seq(S)
        /\ Len(a) = IF 1 <= p - 1 THEN (p - 1) - 1 + 1 ELSE 0
        /\ \A i \in 1..(p - 1) - 1 + 1 : a[i] = s[1 + i - 1]
    BY <2>1, SubSeqProperties
  <2> QED
    BY <1>1, <2>2
<1>3. b \in Seq(S) /\ Len(b) = Len(s) - p /\ \A i \in 1..Len(s) - p : b[i] = s[p + i]
  <2>1. p + 1 \in Int /\ Len(s) \in Int /\ \A i \in p + 1..Len(s) : s[i] \in S
    BY <1>1
  <2>2. /\ b \in Seq(S)
        /\ Len(b) = IF p + 1 <= Len(s) THEN Len(s) - (p + 1) + 1 ELSE 0
        /\ \A i \in 1..Len(s) - (p + 1) + 1 : b[i] = s[(p + 1) + i - 1]
    BY <2>1, SubSeqProperties
  <2> QED
    BY <1>1, <2>2
<1>4. /\ a \o b \in Seq(S)
      /\ Len(a \o b) = Len(a) + Len(b)
      /\ \A i \in 1..Len(a) + Len(b) : (a \o b)[i] = IF i <= Len(a) THEN a[i] ELSE b[i - Len(a)]
  BY <1>2, <1>3, ConcatProperties
<1>5. \A i \in 1..Len(s) - 1 : (a \o b)[i] = IF i < p THEN s[i] ELSE s[i + 1]
  <2> HIDE DEF a, b
  <2> TAKE i \in 1..Len(s) - 1
  <2>1. CASE i < p
    BY <1>1, <1>2, <1>3, <1>4, <2>1
  <2>2. CASE i >= p
    <3>1. (a \o b)[i] = b[i - (p - 1)] /\ i - (p - 1) \in 1..Len(s) - p
      BY <1>1, <1>2, <1>3, <1>4, <2>2
    <3>2. b[i - (p - 1)] = s[p + (i - (p - 1))]
      BY <1>3, <3>1
    <3>3. p + (i - (p - 1)) = i + 1
      BY <1>1
    <3> QED
      BY <1>1, <2>2, <3>1, <3>2, <3>3
  <2>3. i < p \/ (i >= p /\ ~(i < p))
    BY <1>1
  <2> QED
    BY <2>1, <2>2, <2>3
<1> HIDE DEF a, b
<1>6. Len(a \o b) = Len(s) - 1
  BY <1>1, <1>2, <1>3, <1>4
<1> QED
  BY <1>4, <1>5, <1>6 DEF Without, a, b

\* A sequence with e in front, one by one.
LEMMA InFrontProperties ==
  ASSUME NEW S, NEW s \in Seq(S), NEW e \in S
  PROVE  /\ <<e>> \o s \in Seq(S)
         /\ Len(<<e>> \o s) = Len(s) + 1
         /\ (<<e>> \o s)[1] = e
         /\ \A i \in 2..Len(s) + 1 : (<<e>> \o s)[i] = s[i - 1]
<1>1. <<e>> \in Seq(S) /\ Len(<<e>>) = 1 /\ <<e>>[1] = e /\ Len(s) \in Nat
  OBVIOUS
<1>2. /\ <<e>> \o s \in Seq(S)
      /\ Len(<<e>> \o s) = Len(<<e>>) + Len(s)
      /\ \A i \in 1..Len(<<e>>) + Len(s) :
           (<<e>> \o s)[i] = IF i <= Len(<<e>>) THEN <<e>>[i] ELSE s[i - Len(<<e>>)]
  BY <1>1, ConcatProperties
<1> QED
  BY <1>1, <1>2

\* A set of natural numbers has a least one.
LEMMA Least ==
  ASSUME NEW T \in SUBSET Nat, T # {}
  PROVE  \E x \in T : \A y \in T : x <= y
<1>1. IsWellFoundedOn(OpToRel(<, Nat), Nat)
  BY NatLessThanWellFounded
<1>2. PICK x \in T : \A y \in T : ~(<<y, x>> \in OpToRel(<, Nat))
  BY <1>1, WFMin
<1>3. \A y \in T : ~(y < x)
  BY <1>2 DEF OpToRel
<1> QED
  BY <1>3

-----------------------------------------------------------------------------
(* The places of a list.                                                   *)

\* No two places of a list are the same.
LEMMA PlacesDiffer ==
  ASSUME NEW H \in SUBSET Addr, NEW s \in Seq(H), Once(s)
  PROVE  /\ \A i, j \in 0..Len(s) + 1 : At(s, i) = At(s, j) => i = j
         /\ \A i \in 1..Len(s) : At(s, i) = s[i] /\ s[i] \in H
         /\ At(s, 0) = head /\ At(s, Len(s) + 1) = tail
<1>1. Len(s) \in Nat /\ \A i \in 1..Len(s) : s[i] \in H
  BY ElementOfSeq
<1>2. \A i \in 1..Len(s) : s[i] # head /\ s[i] # tail
  BY <1>1, SentinelsAssumption
<1> QED
  BY <1>1, <1>2, SentinelsAssumption DEF At, Once

\* There are as many places as nodes.
LEMMA ChainLength ==
  ASSUME NEW H \in SUBSET Addr, NEW l, NEW s, Chain(l, s, H)
  PROVE  /\ IsFiniteSet(H)
         /\ Len(s) = Cardinality(H)
         /\ s \in [1..Cardinality(H) -> H]
<1>1. s \in Seq(H) /\ Len(s) \in Nat /\ s \in [1..Len(s) -> H]
  BY DEF Chain
<1>2. s \in Bijection(1..Len(s), H)
  BY <1>1 DEF Chain, Once, Bijection, Injection, Surjection, IsInjective
<1>3. IsFiniteSet(1..Len(s)) /\ Cardinality(1..Len(s)) = Len(s)
  <2>1. /\ IsFiniteSet(1..Len(s))
        /\ Cardinality(1..Len(s)) = IF 1 > Len(s) THEN 0 ELSE Len(s) - 1 + 1
    BY <1>1, FS_Interval
  <2> QED
    BY <1>1, <2>1
<1>4. IsFiniteSet(H) /\ Cardinality(H) = Len(s)
  <2>1. ExistsBijection(1..Len(s), H)
    BY <1>2 DEF ExistsBijection
  <2> QED
    BY <1>3, <2>1, FS_Bijection
<1> QED
  BY <1>1, <1>4

\* A list has its nodes in one order only.
LEMMA ChainUnique ==
  ASSUME NEW H \in SUBSET Addr, NEW l, NEW s, NEW t, Chain(l, s, H), Chain(l, t, H)
  PROVE  s = t
<1>1. s \in Seq(H) /\ t \in Seq(H) /\ Len(s) = Len(t) /\ Len(s) \in Nat
  <2>1. Len(s) = Cardinality(H)
    BY ChainLength
  <2>2. Len(t) = Cardinality(H)
    BY ChainLength
  <2> QED
    BY <2>1, <2>2 DEF Chain
<1> DEFINE Places == {i \in 1..Len(s) : s[i] # t[i]}
<1>2. Places = {}
  <2> SUFFICES ASSUME Places # {} PROVE FALSE
    OBVIOUS
  <2>1. Places \in SUBSET Nat
    OBVIOUS
  <2>2. PICK i \in Places : \A j \in Places : i <= j
    <3> HIDE DEF Places
    <3> QED
      BY <2>1, Least
  <2>3. i \in 1..Len(s) /\ s[i] # t[i] /\ i - 1 \in 0..Len(s) /\ i - 1 \notin Places /\ (i - 1) + 1 = i
    BY <2>2, <1>1
  <2>4. At(s, i - 1) = At(t, i - 1)
    BY <2>3, <1>1 DEF At
  <2>5. l.next[At(s, i - 1)] = At(s, i) /\ l.next[At(t, i - 1)] = At(t, i)
    BY <2>3, <1>1 DEF Chain, Listed
  <2>6. At(s, i) = s[i] /\ At(t, i) = t[i]
    BY <2>3, <1>1 DEF At
  <2> QED
    BY <2>3, <2>4, <2>5, <2>6
<1> QED
  BY <1>1, <1>2, SeqEqual

-----------------------------------------------------------------------------
(* addNode, removeNode and moveToHead.                                     *)

\* addNode puts a node in front.
LEMMA AddChain ==
  ASSUME NEW H \in SUBSET Addr, NEW l \in Links, NEW s, Chain(l, s, H), NEW n \in Addr \ H
  PROVE  /\ addNode(l, n) \in Links
         /\ Chain(addNode(l, n), <<n>> \o s, H \cup {n})
<1> DEFINE m == addNode(l, n)
           t == <<n>> \o s
<1>1. s \in Seq(H) /\ s \in Seq(H \cup {n}) /\ Once(s) /\ Len(s) \in Nat /\ n # head /\ n # tail
  BY SentinelsAssumption DEF Chain
<1>2. /\ t \in Seq(H \cup {n})
      /\ Len(t) = Len(s) + 1
      /\ t[1] = n
      /\ \A i \in 2..Len(s) + 1 : t[i] = s[i - 1]
  BY <1>1, InFrontProperties
<1> HIDE DEF t
<1>3. \A i \in 1..Len(s) : s[i] \in H
  BY <1>1, ElementOfSeq
<1>4. Once(t)
  <2> SUFFICES ASSUME NEW i \in 1..Len(t), NEW j \in 1..Len(t), t[i] = t[j] PROVE i = j
    BY DEF Once
  <2>1. \A p \in 1..Len(t) : p # 1 => /\ p \in 2..Len(s) + 1 /\ p - 1 \in 1..Len(s)
                                      /\ t[p] = s[p - 1] /\ t[p] # n
    <3> SUFFICES ASSUME NEW p \in 1..Len(t), p # 1
                 PROVE  /\ p \in 2..Len(s) + 1 /\ p - 1 \in 1..Len(s)
                        /\ t[p] = s[p - 1] /\ t[p] # n
      OBVIOUS
    <3>1. p \in 2..Len(s) + 1 /\ p - 1 \in 1..Len(s)
      BY <1>1, <1>2
    <3> QED
      BY <1>2, <1>3, <3>1
  <2>2. CASE i # 1 /\ j # 1
    <3>1. s[i - 1] = s[j - 1] /\ i - 1 \in 1..Len(s) /\ j - 1 \in 1..Len(s)
      BY <2>1, <2>2
    <3>2. i - 1 = j - 1
      BY <1>1, <3>1 DEF Once
    <3> QED
      BY <3>2
  <2>3. CASE i = 1 \/ j = 1
    BY <1>2, <2>1, <2>3
  <2> QED
    BY <2>2, <2>3
<1>5. \A x \in H \cup {n} : \E i \in 1..Len(t) : t[i] = x
  <2> TAKE x \in H \cup {n}
  <2>1. CASE x = n
    BY <1>1, <1>2, <2>1
  <2>2. CASE x \in H
    <3>1. PICK i \in 1..Len(s) : s[i] = x
      BY <2>2 DEF Chain
    <3>2. i + 1 \in 1..Len(t) /\ t[i + 1] = s[(i + 1) - 1] /\ (i + 1) - 1 = i
      BY <1>1, <1>2
    <3> QED
      BY <3>1, <3>2
  <2> QED
    BY <2>1, <2>2
<1>6. /\ At(t, 0) = head /\ At(t, 1) = n
      /\ \A i \in 1..Len(s) + 1 : At(t, i + 1) = At(s, i)
  <2>1. At(t, 0) = head /\ At(t, 1) = n
    BY <1>1, <1>2 DEF At
  <2>2. ASSUME NEW i \in 1..Len(s) + 1
        PROVE  At(t, i + 1) = At(s, i)
    <3>1. CASE i = Len(s) + 1
      BY <1>1, <1>2, <3>1 DEF At
    <3>2. CASE i # Len(s) + 1
      <4>1. i \in 1..Len(s) /\ i + 1 \in 2..Len(s) + 1 /\ (i + 1) - 1 = i /\ i + 1 # 0 /\ i + 1 # Len(t) + 1
        BY <1>1, <1>2, <3>2
      <4>2. t[i + 1] = s[(i + 1) - 1]
        BY <1>2, <4>1
      <4> QED
        BY <4>1, <4>2, <1>1 DEF At
    <3> QED
      BY <3>1, <3>2
  <2> QED
    BY <2>1, <2>2
<1>7. /\ \A i, j \in 0..Len(s) + 1 : At(s, i) = At(s, j) => i = j
      /\ \A i \in 1..Len(s) : At(s, i) = s[i] /\ s[i] \in H
      /\ At(s, 0) = head /\ At(s, Len(s) + 1) = tail
  BY <1>1, PlacesDiffer
<1>8. l.next[head] = At(s, 1) /\ At(s, 1) \in Addr \cup {tail} /\ At(s, 1) # n /\ At(s, 1) # head
  <2>1. l.next[At(s, 0)] = At(s, 0 + 1)
    BY <1>1 DEF Chain, Listed
  <2>2. At(s, 1) = tail \/ At(s, 1) \in H
    BY <1>1, <1>7
  <2> QED
    BY <1>1, <1>7, <2>1, <2>2, SentinelsAssumption
<1>9. /\ m.next = [l.next EXCEPT ![n] = At(s, 1), ![head] = n]
      /\ m.pre = [l.pre EXCEPT ![n] = head, ![At(s, 1)] = n]
  BY <1>8 DEF addNode
<1>10. /\ l.next \in [Addr \cup {head} -> Addr \cup {tail}]
       /\ l.pre \in [Addr \cup {tail} -> Addr \cup {head}]
  BY DEF Links
<1>11. m \in Links
  BY <1>8, <1>10 DEF addNode, Links
<1>12. /\ m.next[head] = n /\ m.next[n] = At(s, 1)
       /\ m.pre[n] = head /\ m.pre[At(s, 1)] = n
       /\ \A x \in Addr \cup {head} : x # n /\ x # head => m.next[x] = l.next[x]
       /\ \A x \in Addr \cup {tail} : x # n /\ x # At(s, 1) => m.pre[x] = l.pre[x]
  <2> HIDE DEF m
  <2> QED
    BY <1>1, <1>8, <1>9, <1>10
<1> HIDE DEF m
<1>13. Listed(m, t)
  <2> SUFFICES ASSUME NEW i \in 0..Len(t)
               PROVE  m.next[At(t, i)] = At(t, i + 1) /\ m.pre[At(t, i + 1)] = At(t, i)
    BY DEF Listed
  <2>1. CASE i = 0
    BY <2>1, <1>6, <1>12
  <2>2. CASE i = 1
    <3>1. At(t, 1 + 1) = At(s, 1)
      BY <1>1, <1>6
    <3> QED
      BY <2>2, <1>6, <1>12, <3>1
  <2>3. CASE i > 1
    <3>1. i - 1 \in 1..Len(s) /\ i \in 1..Len(s) + 1 /\ (i - 1) + 1 = i
      BY <1>1, <1>2, <2>3
    <3>2. At(t, i) = At(s, i - 1) /\ At(t, i + 1) = At(s, i)
      <4>1. At(t, (i - 1) + 1) = At(s, i - 1)
        BY <1>6, <3>1, <1>1
      <4>2. At(t, i + 1) = At(s, i)
        BY <1>6, <3>1
      <4> QED
        BY <3>1, <4>1, <4>2
    <3>3. l.next[At(s, i - 1)] = At(s, i) /\ l.pre[At(s, i)] = At(s, i - 1)
      <4>1. i - 1 \in 0..Len(s)
        BY <3>1, <1>1
      <4>2. l.next[At(s, i - 1)] = At(s, (i - 1) + 1) /\ l.pre[At(s, (i - 1) + 1)] = At(s, i - 1)
        BY <4>1 DEF Chain, Listed
      <4> QED
        BY <4>2, <3>1
    <3>4. At(s, i - 1) \in H /\ At(s, i - 1) # n /\ At(s, i - 1) # head
      BY <3>1, <1>7, SentinelsAssumption
    <3>5. At(s, i) \in Addr \cup {tail} /\ At(s, i) # n /\ At(s, i) # At(s, 1)
      <4>1. i \in 0..Len(s) + 1 /\ 1 \in 0..Len(s) + 1 /\ i # 1
        BY <3>1, <2>3, <1>1
      <4>2. i = Len(s) + 1 \/ i \in 1..Len(s)
        BY <3>1, <1>1
      <4>3. At(s, i) = tail \/ At(s, i) \in H
        BY <4>2, <1>7
      <4> QED
        BY <4>1, <4>3, <1>1, <1>7
    <3> QED
      BY <3>2, <3>3, <3>4, <3>5, <1>12
  <2>4. i = 0 \/ i = 1 \/ i > 1
    BY <1>1, <1>2
  <2> QED
    BY <2>1, <2>2, <2>3, <2>4
<1> QED
  BY <1>2, <1>4, <1>5, <1>11, <1>13 DEF Chain, m, t

\* removeNode takes a node out, wherever it is.
LEMMA UnlinkChain ==
  ASSUME NEW H \in SUBSET Addr, NEW l \in Links, NEW s, Chain(l, s, H), NEW p \in 1..Len(s)
  PROVE  /\ unlinked(l, s[p]) \in Links
         /\ Chain(unlinked(l, s[p]), Without(s, p), H \ {s[p]})
<1> DEFINE m == unlinked(l, s[p])
           t == Without(s, p)
<1>1. s \in Seq(H) /\ Once(s) /\ Len(s) \in Nat /\ p \in Nat
  BY DEF Chain
<1>2. /\ t \in Seq(H)
      /\ Len(t) = Len(s) - 1
      /\ \A i \in 1..Len(s) - 1 : t[i] = IF i < p THEN s[i] ELSE s[i + 1]
  BY <1>1, WithoutProperties
<1> HIDE DEF t
<1>3. /\ \A i, j \in 0..Len(s) + 1 : At(s, i) = At(s, j) => i = j
      /\ \A i \in 1..Len(s) : At(s, i) = s[i] /\ s[i] \in H
      /\ At(s, 0) = head /\ At(s, Len(s) + 1) = tail
  BY <1>1, PlacesDiffer
<1>4. t \in Seq(H \ {s[p]})
  <2>1. \A i \in 1..Len(t) : t[i] \in H \ {s[p]}
    BY <1>1, <1>2, <1>3 DEF Once
  <2> QED
    BY <1>2, <2>1
<1>5. Once(t)
  BY <1>1, <1>2 DEF Once
<1>6. \A x \in H \ {s[p]} : \E i \in 1..Len(t) : t[i] = x
  <2> TAKE x \in H \ {s[p]}
  <2>1. PICK i \in 1..Len(s) : s[i] = x
    BY DEF Chain
  <2>2. CASE i < p
    BY <1>1, <1>2, <2>1, <2>2
  <2>3. CASE i > p
    <3>1. i - 1 \in 1..Len(s) - 1 /\ ~(i - 1 < p) /\ (i - 1) + 1 = i
      BY <1>1, <2>3
    <3> QED
      BY <1>2, <2>1, <3>1
  <2> QED
    BY <1>1, <2>1, <2>2, <2>3
<1>7. /\ \A i \in 0..p - 1 : At(t, i) = At(s, i)
      /\ \A i \in p..Len(s) : At(t, i) = At(s, i + 1)
  <2>1. ASSUME NEW i \in 0..p - 1 PROVE At(t, i) = At(s, i)
    <3>1. i # Len(s) + 1 /\ i # Len(t) + 1 /\ (i # 0 => i \in 1..Len(s) - 1 /\ i < p)
      BY <1>1, <1>2
    <3> QED
      BY <1>2, <3>1 DEF At
  <2>2. ASSUME NEW i \in p..Len(s) PROVE At(t, i) = At(s, i + 1)
    <3>1. i # 0 /\ i + 1 # 0 /\ (i = Len(t) + 1 <=> i + 1 = Len(s) + 1)
      BY <1>1, <1>2
    <3>2. i # Len(t) + 1 => i \in 1..Len(s) - 1 /\ ~(i < p)
      BY <1>1, <1>2
    <3> QED
      BY <1>2, <3>1, <3>2 DEF At
  <2> QED
    BY <2>1, <2>2
<1> DEFINE a == At(s, p - 1)
           b == At(s, p + 1)
<1>8. \A i \in 0..Len(s) : l.next[At(s, i)] = At(s, i + 1) /\ l.pre[At(s, i + 1)] = At(s, i)
  BY DEF Chain, Listed
<1>9. l.pre[s[p]] = a /\ l.next[s[p]] = b
  <2>1. p - 1 \in 0..Len(s) /\ p \in 0..Len(s) /\ (p - 1) + 1 = p /\ At(s, p) = s[p]
    BY <1>1, <1>3
  <2>2. l.pre[At(s, (p - 1) + 1)] = At(s, p - 1) /\ l.next[At(s, p)] = At(s, p + 1)
    BY <1>8, <2>1
  <2> QED
    BY <2>1, <2>2
<1>10. a \in H \cup {head} /\ b \in H \cup {tail}
  <2>1. p - 1 = 0 \/ p - 1 \in 1..Len(s)
    BY <1>1
  <2>2. p + 1 = Len(s) + 1 \/ p + 1 \in 1..Len(s)
    BY <1>1
  <2> QED
    BY <1>3, <2>1, <2>2
<1> HIDE DEF a, b
<1>11. /\ m.next = [l.next EXCEPT ![a] = b]
       /\ m.pre = [l.pre EXCEPT ![b] = a]
  BY <1>9 DEF unlinked
<1>12. /\ l.next \in [Addr \cup {head} -> Addr \cup {tail}]
       /\ l.pre \in [Addr \cup {tail} -> Addr \cup {head}]
  BY DEF Links
<1>13. m \in Links
  BY <1>9, <1>10, <1>12 DEF unlinked, Links
<1> HIDE DEF m
<1>14. Listed(m, t)
  <2> SUFFICES ASSUME NEW i \in 0..Len(t)
               PROVE  m.next[At(t, i)] = At(t, i + 1) /\ m.pre[At(t, i + 1)] = At(t, i)
    BY DEF Listed
  <2>1. CASE i = p - 1
    <3>1. At(t, i) = a
      <4>1. i \in 0..p - 1
        BY <2>1, <1>1
      <4> QED
        BY <4>1, <1>7, <2>1 DEF a
    <3>2. At(t, i + 1) = b
      <4>1. i + 1 \in p..Len(s) /\ i + 1 = p
        BY <2>1, <1>1
      <4> QED
        BY <4>1, <1>7 DEF b
    <3> QED
      BY <3>1, <3>2, <1>10, <1>11, <1>12
  <2>2. CASE i < p - 1
    <3>1. i \in 0..p - 1 /\ i + 1 \in 0..p - 1 /\ i \in 0..Len(s) /\ i + 1 \in 0..Len(s) + 1
      BY <2>2, <1>1
    <3>2. At(t, i) = At(s, i) /\ At(t, i + 1) = At(s, i + 1)
      BY <1>7, <3>1
    <3>3. At(s, i) # a /\ At(s, i + 1) # b
      <4>1. p - 1 \in 0..Len(s) + 1 /\ p + 1 \in 0..Len(s) + 1 /\ i # p - 1 /\ i + 1 # p + 1 /\ i \in 0..Len(s) + 1
        BY <1>1, <2>2
      <4> QED
        BY <4>1, <3>1, <1>3 DEF a, b
    <3>4. At(s, i) \in Addr \cup {head} /\ At(s, i + 1) \in Addr \cup {tail}
      <4>1. (i = 0 \/ i \in 1..Len(s)) /\ (i + 1 = Len(s) + 1 \/ i + 1 \in 1..Len(s))
        BY <3>1, <1>1
      <4> QED
        BY <4>1, <1>3
    <3>5. l.next[At(s, i)] = At(s, i + 1) /\ l.pre[At(s, i + 1)] = At(s, i)
      BY <1>8, <3>1
    <3> QED
      BY <3>2, <3>3, <3>4, <3>5, <1>11, <1>12
  <2>3. CASE i > p - 1
    <3>1. i \in p..Len(s) /\ i + 1 \in p..Len(s) /\ i + 1 \in 0..Len(s)
      BY <2>3, <1>1, <1>2
    <3>2. At(t, i) = At(s, i + 1) /\ At(t, i + 1) = At(s, (i + 1) + 1)
      BY <1>7, <3>1
    <3>3. At(s, i + 1) # a /\ At(s, (i + 1) + 1) # b
      <4>1. p - 1 \in 0..Len(s) + 1 /\ p + 1 \in 0..Len(s) + 1 /\ i + 1 # p - 1 /\ (i + 1) + 1 # p + 1
            /\ i + 1 \in 0..Len(s) + 1 /\ (i + 1) + 1 \in 0..Len(s) + 1
        BY <1>1, <2>3, <3>1
      <4> QED
        BY <4>1, <1>3 DEF a, b
    <3>4. At(s, i + 1) \in Addr \cup {head} /\ At(s, (i + 1) + 1) \in Addr \cup {tail}
      <4>1. i + 1 \in 1..Len(s) /\ ((i + 1) + 1 = Len(s) + 1 \/ (i + 1) + 1 \in 1..Len(s))
        BY <3>1, <1>1
      <4> QED
        BY <4>1, <1>3
    <3>5. l.next[At(s, i + 1)] = At(s, (i + 1) + 1) /\ l.pre[At(s, (i + 1) + 1)] = At(s, i + 1)
      BY <1>8, <3>1
    <3> QED
      BY <3>2, <3>3, <3>4, <3>5, <1>11, <1>12
  <2>4. i = p - 1 \/ i < p - 1 \/ i > p - 1
    BY <1>1, <1>2
  <2> QED
    BY <2>1, <2>2, <2>3, <2>4
<1> QED
  BY <1>4, <1>5, <1>6, <1>13, <1>14 DEF Chain, m, t

\* moveToHead puts a node in front that is in the list.
LEMMA MoveChain ==
  ASSUME NEW H \in SUBSET Addr, NEW l \in Links, NEW s, Chain(l, s, H), NEW p \in 1..Len(s)
  PROVE  /\ moveToHead(l, s[p]) \in Links
         /\ Chain(moveToHead(l, s[p]), <<s[p]>> \o Without(s, p), H)
<1>1. s[p] \in H
  BY ElementOfSeq DEF Chain
<1>2. /\ unlinked(l, s[p]) \in Links
      /\ Chain(unlinked(l, s[p]), Without(s, p), H \ {s[p]})
  BY UnlinkChain
<1>3. H \ {s[p]} \in SUBSET Addr /\ s[p] \in Addr \ (H \ {s[p]}) /\ (H \ {s[p]}) \cup {s[p]} = H
  BY <1>1
<1>4. /\ addNode(unlinked(l, s[p]), s[p]) \in Links
      /\ Chain(addNode(unlinked(l, s[p]), s[p]), <<s[p]>> \o Without(s, p), (H \ {s[p]}) \cup {s[p]})
  BY <1>2, <1>3, AddChain
<1> QED
  BY <1>3, <1>4 DEF moveToHead

-----------------------------------------------------------------------------
(* The steps.                                                              *)

\* A key that is in the table leads to a place of the list.
LEMMA Place ==
  ASSUME IInv, NEW k \in Keys, cache[k] # Null
  PROVE  \E s \in Seq(heap) : \E p \in 1..Len(s) : Chain(links, s, heap) /\ cache[k] = s[p]
<1>1. PICK s \in Seq(heap) : Chain(links, s, heap)
  BY DEF IInv
<1>2. cache[k] \in heap
  BY DEF IInv, Tabled
<1> QED
  BY <1>1, <1>2 DEF Chain

\* There are as many keys in the table as nodes.
LEMMA SizeIsNodes ==
  ASSUME NEW H \in SUBSET Addr, NEW e \in Holdings, NEW table \in Tables, Tabled(H, e, table)
  PROVE  size(table) = Cardinality(H)
<1> DEFINE K == {k \in Keys : table[k] # Null}
           f == [n \in H |-> e[n].key]
<1>1. \A n \in H : e[n] \in Entries /\ e[n].key \in Keys /\ table[e[n].key] = n /\ n # Null
  BY SentinelsAssumption DEF Tabled, Holdings, Entries
<1>2. f \in [H -> K]
  BY <1>1
<1>3. \A m, n \in H : f[m] = f[n] => m = n
  BY <1>1
<1>4. \A k \in K : \E n \in H : f[n] = k
  BY DEF Tabled
<1> HIDE DEF f, K
<1>5. f \in Bijection(H, K)
  BY <1>2, <1>3, <1>4 DEF Bijection, Injection, Surjection, IsInjective
<1>6. ExistsBijection(H, K)
  BY <1>5 DEF ExistsBijection
<1>7. IsFiniteSet(H)
  BY AddrAssumption, FS_Subset
<1>8. Cardinality(K) = Cardinality(H)
  BY <1>6, <1>7, FS_Bijection
<1> QED
  BY <1>8 DEF size, K

\* get keeps the invariant, and puts the node it finds in front.
LEMMA GetStep ==
  ASSUME IInv, NEW k \in Keys, get(k)
  PROVE  /\ IInv'
         /\ \E s \in Seq(heap) : \E p \in 1..Len(s) :
              Chain(links, s, heap) /\ Chain(links', <<s[p]>> \o Without(s, p), heap)
<1>0. PICK s \in Seq(heap) : \E p \in 1..Len(s) : Chain(links, s, heap) /\ cache[k] = s[p]
  BY Place DEF get
<1>1. PICK p \in 1..Len(s) : Chain(links, s, heap) /\ cache[k] = s[p]
  BY <1>0
<1>2. links \in Links /\ heap \in SUBSET Addr
  BY DEF IInv, TypeOK
<1>3. /\ moveToHead(links, s[p]) \in Links
      /\ Chain(moveToHead(links, s[p]), <<s[p]>> \o Without(s, p), heap)
  BY <1>1, <1>2, MoveChain
<1>4. links' \in Links /\ Chain(links', <<s[p]>> \o Without(s, p), heap)
  BY <1>1, <1>3 DEF get
<1>5. heap' = heap /\ entry' = entry /\ cache' = cache
  BY DEF get
<1>6. TypeOK'
  BY <1>4, <1>5 DEF IInv, TypeOK
<1>7. \E t \in Seq(heap') : Chain(links', t, heap')
  BY <1>4, <1>5 DEF Chain
<1> QED
  BY <1>1, <1>4, <1>5, <1>6, <1>7 DEF IInv

\* set of a key that is in the table does the same, with a new value.
LEMMA SetOldStep ==
  ASSUME IInv, NEW k \in Keys, NEW v \in Values, setOld(k, v)
  PROVE  /\ IInv'
         /\ heap' = heap
         /\ \E s \in Seq(heap) : \E p \in 1..Len(s) :
              /\ Chain(links, s, heap)
              /\ Chain(links', <<s[p]>> \o Without(s, p), heap)
              /\ entry' = [entry EXCEPT ![s[p]].value = v]
<1>0. PICK s \in Seq(heap) : \E p \in 1..Len(s) : Chain(links, s, heap) /\ cache[k] = s[p]
  BY Place DEF setOld
<1>1. PICK p \in 1..Len(s) : Chain(links, s, heap) /\ cache[k] = s[p]
  BY <1>0
<1>2. links \in Links /\ heap \in SUBSET Addr /\ s[p] \in heap /\ entry \in Holdings
  BY ElementOfSeq DEF IInv, TypeOK, Holdings, Entries
<1>3. /\ moveToHead(links, s[p]) \in Links
      /\ Chain(moveToHead(links, s[p]), <<s[p]>> \o Without(s, p), heap)
  BY <1>1, <1>2, MoveChain
<1>4. links' \in Links /\ Chain(links', <<s[p]>> \o Without(s, p), heap)
  BY <1>1, <1>3 DEF setOld
<1>5. heap' = heap /\ cache' = cache /\ entry' = [entry EXCEPT ![s[p]].value = v]
  BY <1>1 DEF setOld
<1>6. entry[s[p]] \in Entries
  BY <1>2 DEF IInv, Tabled, Holdings
<1>7. /\ entry' \in Holdings
      /\ entry'[s[p]] \in Entries /\ entry'[s[p]].key = entry[s[p]].key
      /\ \A n \in Addr : n # s[p] => entry'[n] = entry[n]
  BY <1>2, <1>5, <1>6 DEF Holdings, Entries
<1>8. Tabled(heap', entry', cache')
  <2>1. \A n \in heap : entry'[n] \in Entries /\ entry'[n].key = entry[n].key
    BY <1>2, <1>7 DEF IInv, Tabled
  <2> QED
    BY <1>5, <2>1 DEF IInv, Tabled
<1>9. TypeOK'
  BY <1>4, <1>5, <1>7 DEF IInv, TypeOK, Holdings, Entries
<1>10. \E t \in Seq(heap') : Chain(links', t, heap')
  BY <1>4, <1>5 DEF Chain
<1>11. IInv'
  BY <1>5, <1>8, <1>9, <1>10 DEF IInv
<1> QED
  BY <1>1, <1>4, <1>5, <1>11

\* A new node is in front, its key in the table, and both agree.
LEMMA Inserted ==
  ASSUME IInv, NEW k \in Keys, NEW v \in Values, cache[k] = Null, NEW n \in Addr \ heap,
         NEW s, Chain(links, s, heap)
  PROVE  LET l == addNode(links, n)
             table == [cache EXCEPT ![k] = n]
             e == [entry EXCEPT ![n] = [key |-> k, value |-> v]]
             H == heap \cup {n}
         IN /\ H \in SUBSET Addr /\ l \in Links /\ e \in Holdings /\ table \in Tables
            /\ e[n] = [key |-> k, value |-> v] /\ \A m \in heap : e[m] = entry[m]
            /\ Chain(l, <<n>> \o s, H)
            /\ Tabled(H, e, table)
            /\ size(table) = Cardinality(H)
            /\ Cardinality(H) = Cardinality(heap) + 1
<1> DEFINE l == addNode(links, n)
           table == [cache EXCEPT ![k] = n]
           e == [entry EXCEPT ![n] = [key |-> k, value |-> v]]
           H == heap \cup {n}
<1>1. heap \in SUBSET Addr /\ links \in Links /\ entry \in Holdings /\ cache \in Tables
  BY DEF IInv, TypeOK, Holdings, Tables, Entries
<1>2. l \in Links /\ Chain(l, <<n>> \o s, H)
  BY <1>1, AddChain
<1>3. H \in SUBSET Addr /\ e \in Holdings /\ table \in Tables
  BY <1>1 DEF Holdings, Tables, Entries
<1>4. e[n] = [key |-> k, value |-> v] /\ \A m \in heap : e[m] = entry[m]
  BY <1>1 DEF Holdings
<1>5. table[k] = n /\ \A j \in Keys : j # k => table[j] = cache[j]
  BY <1>1 DEF Tables
<1> HIDE DEF e, table, l
<1>6. Tabled(H, e, table)
  <2>1. ASSUME NEW m \in H PROVE e[m] \in Entries /\ table[e[m].key] = m
    <3>1. CASE m = n
      BY <1>4, <1>5, <3>1 DEF Entries
    <3>2. CASE m \in heap
      <4>1. entry[m] \in Entries /\ cache[entry[m].key] = m /\ m # Null
        BY <1>1, <3>2, SentinelsAssumption DEF IInv, Tabled
      <4>2. entry[m].key \in Keys /\ entry[m].key # k
        BY <4>1 DEF Entries
      <4> QED
        BY <1>4, <1>5, <3>2, <4>1, <4>2
    <3> QED
      BY <3>1, <3>2
  <2>2. ASSUME NEW j \in Keys, table[j] # Null PROVE table[j] \in H /\ e[table[j]].key = j
    <3>1. CASE j = k
      BY <1>4, <1>5, <3>1
    <3>2. CASE j # k
      <4>1. cache[j] \in heap /\ entry[cache[j]].key = j
        BY <1>5, <2>2, <3>2 DEF IInv, Tabled
      <4> QED
        BY <1>4, <1>5, <3>2, <4>1
    <3> QED
      BY <3>1, <3>2
  <2> QED
    BY <2>1, <2>2 DEF Tabled
<1>7. size(table) = Cardinality(H)
  BY <1>3, <1>6, SizeIsNodes
<1>8. Cardinality(H) = Cardinality(heap) + 1
  <2>1. IsFiniteSet(heap)
    BY <1>1, AddrAssumption, FS_Subset
  <2> QED
    BY <2>1, FS_AddElement
<1> QED
  BY <1>2, <1>3, <1>4, <1>6, <1>7, <1>8 DEF l, table, e

\* The order of the nodes after set has added one.
Fitting(u) == IF Len(u) > capacity THEN Without(u, Len(u)) ELSE u

\* set of a key that is not in the table puts a new node in front, and drops
\* the last one if there are too many.
LEMMA SetNewStep ==
  ASSUME IInv, NEW k \in Keys, NEW v \in Values, setNew(k, v)
  PROVE  /\ IInv'
         /\ \E s \in Seq(heap) : \E n \in Addr \ heap :
              /\ Chain(links, s, heap)
              /\ Chain(links', Fitting(<<n>> \o s), heap')
              /\ entry' \in Holdings
              /\ entry'[n] = [key |-> k, value |-> v] /\ \A m \in heap : entry'[m] = entry[m]
<1>1. PICK s \in Seq(heap) : Chain(links, s, heap)
  BY DEF IInv
<1> DEFINE NewEntry(n) == entry' = [entry EXCEPT ![n] = [key |-> k, value |-> v]]
           Ends(n) == IF size([cache EXCEPT ![k] = n]) > capacity
                        THEN Evict(n, k, addNode(links, n), [cache EXCEPT ![k] = n])
                        ELSE Keep(n, k, addNode(links, n), [cache EXCEPT ![k] = n])
<1>2. PICK n \in Addr \ heap : NewEntry(n) /\ Ends(n)
  BY DEF setNew
<1> DEFINE l == addNode(links, n)
           table == [cache EXCEPT ![k] = n]
           H == heap \cup {n}
           u == <<n>> \o s
<1>3. cache[k] = Null
  BY DEF setNew
<1>4. /\ H \in SUBSET Addr /\ l \in Links /\ entry' \in Holdings /\ table \in Tables
      /\ entry'[n] = [key |-> k, value |-> v] /\ \A m \in heap : entry'[m] = entry[m]
      /\ Chain(l, u, H)
      /\ Tabled(H, entry', table)
      /\ size(table) = Cardinality(H)
      /\ Cardinality(H) = Cardinality(heap) + 1
  <2> DEFINE e == [entry EXCEPT ![n] = [key |-> k, value |-> v]]
  <2>1. /\ H \in SUBSET Addr /\ l \in Links /\ e \in Holdings /\ table \in Tables
        /\ e[n] = [key |-> k, value |-> v] /\ \A m \in heap : e[m] = entry[m]
        /\ Chain(l, u, H)
        /\ Tabled(H, e, table)
        /\ size(table) = Cardinality(H)
        /\ Cardinality(H) = Cardinality(heap) + 1
    BY <1>1, <1>3, Inserted
  <2>2. entry' = e
    BY <1>2
  <2> HIDE DEF e, l, table, H, u
  <2> QED
    BY <2>1, <2>2
<1>5. IF size(table) > capacity THEN Evict(n, k, l, table) ELSE Keep(n, k, l, table)
  BY <1>2
<1>6. Cardinality(heap) \in Nat /\ Cardinality(heap) <= capacity /\ capacity \in Nat
  <2>1. IsFiniteSet(heap)
    BY AddrAssumption, FS_Subset DEF IInv, TypeOK
  <2> QED
    BY <2>1, FS_CardinalityType, CapacityAssumption DEF IInv
<1> HIDE DEF l, table, H, u
<1>7. Len(u) = Cardinality(H)
  BY <1>4, ChainLength
<1>8. CASE size(table) > capacity
  <2>1. Len(u) \in 1..Len(u) /\ Len(u) > capacity /\ u \in Seq(H)
    BY <1>4, <1>6, <1>7, <1>8 DEF Chain
  <2> DEFINE last == l.pre[tail]
             w == Without(u, Len(u))
  <2>2. last = u[Len(u)] /\ last \in H
    <3>1. l.pre[At(u, Len(u) + 1)] = At(u, Len(u))
      BY <1>4, <2>1 DEF Chain, Listed
    <3>2. At(u, Len(u) + 1) = tail /\ At(u, Len(u)) = u[Len(u)] /\ u[Len(u)] \in H
      BY <1>4, <2>1, PlacesDiffer DEF Chain
    <3> QED
      BY <3>1, <3>2
  <2> HIDE DEF last
  <2>3. /\ heap' = H \ {last}
        /\ links' = unlinked(l, last)
        /\ cache' = [table EXCEPT ![entry'[last].key] = Null]
    BY <1>5, <1>8 DEF Evict, H, last
  <2>4. links' \in Links /\ Chain(links', w, heap')
    BY <1>4, <2>1, <2>2, <2>3, UnlinkChain
  <2>5. Tabled(heap', entry', cache')
    <3>1. entry'[last] \in Entries /\ entry'[last].key \in Keys /\ table[entry'[last].key] = last
      BY <1>4, <2>2 DEF Tabled, Entries
    <3>2. cache'[entry'[last].key] = Null /\ \A j \in Keys : j # entry'[last].key => cache'[j] = table[j]
      BY <1>4, <2>3, <3>1 DEF Tables
    <3>3. ASSUME NEW m \in heap' PROVE entry'[m] \in Entries /\ cache'[entry'[m].key] = m
      <4>1. m # last /\ entry'[m] \in Entries /\ entry'[m].key \in Keys /\ table[entry'[m].key] = m
        BY <1>4, <2>3, <3>3 DEF Tabled, Entries
      <4> QED
        BY <3>1, <3>2, <4>1
    <3>4. ASSUME NEW j \in Keys, cache'[j] # Null PROVE cache'[j] \in heap' /\ entry'[cache'[j]].key = j
      <4>1. j # entry'[last].key /\ cache'[j] = table[j]
        BY <3>2, <3>4
      <4>2. table[j] \in H /\ entry'[table[j]].key = j
        BY <1>4, <3>4, <4>1 DEF Tabled
      <4> QED
        BY <2>3, <4>1, <4>2
    <3> QED
      BY <3>3, <3>4 DEF Tabled
  <2>6. Cardinality(heap') <= capacity
    <3>1. IsFiniteSet(H)
      BY <1>4, AddrAssumption, FS_Subset
    <3>2. Cardinality(heap') = Cardinality(H) - 1
      BY <2>2, <2>3, <3>1, FS_RemoveElement
    <3> QED
      BY <1>4, <1>6, <3>2
  <2>7. heap' \in SUBSET Addr /\ cache' \in Tables
    BY <1>4, <2>3 DEF Tables
  <2>8. TypeOK'
    BY <1>4, <2>4, <2>7 DEF TypeOK, Holdings, Entries, Tables
  <2>9. w \in Seq(heap')
    BY <2>4 DEF Chain
  <2>10. IInv'
    BY <2>4, <2>5, <2>6, <2>8, <2>9 DEF IInv
  <2>11. Fitting(u) = w
    BY <2>1 DEF Fitting
  <2> QED
    BY <1>1, <1>4, <2>4, <2>10, <2>11 DEF u
<1>9. CASE ~(size(table) > capacity)
  <2>1. heap' = H /\ links' = l /\ cache' = table
    BY <1>5, <1>9 DEF Keep, H
  <2>2. Fitting(u) = u
    BY <1>4, <1>7, <1>9 DEF Fitting
  <2>3. TypeOK'
    BY <1>4, <2>1 DEF TypeOK, Holdings, Entries, Tables
  <2>4. Cardinality(heap') <= capacity
    BY <1>4, <1>6, <1>9, <2>1
  <2>5. u \in Seq(heap') /\ Chain(links', u, heap')
    BY <1>4, <2>1 DEF Chain
  <2>6. IInv'
    BY <1>4, <2>1, <2>3, <2>4, <2>5 DEF IInv
  <2> QED
    BY <1>1, <1>4, <2>2, <2>5, <2>6 DEF u
<1> QED
  BY <1>8, <1>9
-----------------------------------------------------------------------------
(* The invariant.                                                          *)

\* The empty list is a list.
LEMMA InvInit == Init => IInv
<1> SUFFICES ASSUME Init PROVE IInv
  OBVIOUS
<1>1. TypeOK
  BY DEF Init, TypeOK, Links
<1>2. heap = {} /\ Cardinality(heap) <= capacity
  <2>1. heap = {} /\ Cardinality({}) = 0
    BY FS_EmptySet DEF Init
  <2> QED
    BY <2>1, CapacityAssumption
<1>3. Chain(links, <<>>, heap)
  <2>1. <<>> \in Seq(heap) /\ Len(<<>>) = 0
    OBVIOUS
  <2>2. links.next[head] = tail /\ links.pre[tail] = head
    BY DEF Init
  <2>3. Listed(links, <<>>)
    BY <2>1, <2>2 DEF Listed, At
  <2> QED
    BY <1>2, <2>1, <2>3 DEF Chain, Once
<1>4. Tabled(heap, entry, cache)
  BY <1>2 DEF Tabled, Init
<1>5. \E s \in Seq(heap) : Chain(links, s, heap)
  BY <1>3 DEF Chain
<1> QED
  BY <1>1, <1>2, <1>4, <1>5 DEF IInv

\* get and set keep the invariant.
LEMMA InvStep == IInv /\ [Next]_vars => IInv'
<1> SUFFICES ASSUME IInv, [Next]_vars PROVE IInv'
  OBVIOUS
<1>1. ASSUME NEW k \in Keys, get(k) PROVE IInv'
  BY <1>1, GetStep
<1>2. ASSUME NEW k \in Keys, NEW v \in Values, set(k, v) PROVE IInv'
  <2>1. CASE setOld(k, v)
    BY <2>1, SetOldStep
  <2>2. CASE setNew(k, v)
    BY <2>2, SetNewStep
  <2> QED
    BY <1>2, <2>1, <2>2 DEF set
<1>3. CASE UNCHANGED vars
  <2>1. TypeOK'
    BY <1>3 DEF IInv, TypeOK, vars
  <2>2. Tabled(heap, entry, cache)' /\ (Cardinality(heap) <= capacity)'
    BY <1>3 DEF IInv, Tabled, vars
  <2>3. (\E s \in Seq(heap) : Chain(links, s, heap))'
    BY <1>3 DEF IInv, Chain, Listed, At, Once, vars
  <2> QED
    BY <2>1, <2>2, <2>3 DEF IInv
<1> QED
  BY <1>1, <1>2, <1>3 DEF Next

\* The invariant holds for ever.
LEMMA InvHolds == Spec => []IInv
  BY InvInit, InvStep, PTL DEF Spec

\* The links of nodes and sentinels lead to addresses new has returned, or to
\* the sentinels, and never nowhere (LRUCache.h:81-116).
THEOREM TypeCorrect == Spec => []TypeOK
<1>1. IInv => TypeOK
  BY DEF IInv
<1> QED
  BY <1>1, InvHolds, PTL

\* The nodes of a list, in its order, are one of Orders.
LEMMA ChainIsOrder ==
  ASSUME heap \in SUBSET Addr, NEW s, Chain(links, s, heap)
  PROVE  s \in Orders /\ Listed(links, s)
<1>1. s \in [1..Cardinality(heap) -> heap] /\ Len(s) = Cardinality(heap)
  BY ChainLength
<1>2. \A n \in heap : \E i \in DOMAIN s : s[i] = n
  BY <1>1 DEF Chain
<1> QED
  BY <1>1, <1>2 DEF Orders, Chain

\* The list and the table agree: every node that exists is in the list once, in
\* both directions, and is what the table has for its key, whatever was moved,
\* added and dropped before (LRUCache.h:57-116).
THEOREM ListAndTableAgree == Spec => []Consistent
<1>1. IInv => Consistent
  <2> SUFFICES ASSUME IInv PROVE Consistent
    OBVIOUS
  <2>1. PICK s \in Seq(heap) : Chain(links, s, heap)
    BY DEF IInv
  <2>2. s \in Orders /\ Listed(links, s)
    BY <2>1, ChainIsOrder DEF IInv, TypeOK
  <2> QED
    BY <2>2 DEF IInv, Tabled, Consistent
<1> QED
  BY <1>1, InvHolds, PTL

-----------------------------------------------------------------------------
(* The refinement.                                                         *)

\* What the nodes s hold.
Read(e, s) == [i \in 1..Len(s) |-> e[s[i]]]

\* Orders and Order, of any nodes and links.
OrdersOf(H) == {s \in [1..Cardinality(H) -> H] : \A n \in H : \E i \in DOMAIN s : s[i] = n}

OrderOf(H, l) == CHOOSE s \in OrdersOf(H) : Listed(l, s)

\* The order chosen by the refinement mapping is the order of the list.
LEMMA OrderIs ==
  ASSUME NEW H \in SUBSET Addr, NEW l, NEW s, Chain(l, s, H)
  PROVE  OrderOf(H, l) = s
<1> DEFINE C == Cardinality(H)
<1>1. IsFiniteSet(H) /\ Len(s) = C /\ s \in [1..C -> H] /\ C \in Nat
  <2>1. IsFiniteSet(H) /\ Len(s) = C /\ s \in [1..C -> H]
    BY ChainLength
  <2> QED
    BY <2>1, FS_CardinalityType
<1>2. s \in OrdersOf(H) /\ Listed(l, s)
  BY <1>1 DEF Chain, OrdersOf
<1>3. ASSUME NEW x \in OrdersOf(H), Listed(l, x) PROVE x = s
  <2>1. x \in [1..C -> H] /\ \A n \in H : \E i \in 1..C : x[i] = n
    BY DEF OrdersOf
  <2> HIDE DEF C
  <2>2. x \in Surjection(1..C, H)
    BY <2>1 DEF Surjection
  <2>3. IsFiniteSet(1..C) /\ Cardinality(1..C) = C
    <3>1. /\ IsFiniteSet(1..C)
          /\ Cardinality(1..C) = IF 1 > C THEN 0 ELSE C - 1 + 1
      BY <1>1, FS_Interval
    <3> QED
      BY <1>1, <3>1
  <2>4. Cardinality(1..C) = Cardinality(H)
    BY <2>3 DEF C
  <2>5. x \in Injection(1..C, H)
    BY <2>2, <2>3, <2>4, FS_SurjSameCardinalityImpliesInj
  <2>6. \A i, j \in 1..C : x[i] = x[j] => i = j
    BY <2>5 DEF Injection, IsInjective
  <2>7. x \in Seq(H) /\ Len(x) = C
    BY <1>1, <2>1
  <2>8. Chain(l, x, H)
    BY <1>3, <2>1, <2>6, <2>7 DEF Chain, Once
  <2> QED
    BY <2>8, ChainUnique
<1> QED
  BY <1>2, <1>3 DEF OrderOf

\* What nodes hold is a sequence of entries.
LEMMA ReadProperties ==
  ASSUME NEW H, NEW e, \A n \in H : e[n] \in Entries, NEW s \in Seq(H)
  PROVE  /\ Read(e, s) \in Seq(Entries)
         /\ Len(Read(e, s)) = Len(s)
         /\ \A i \in 1..Len(s) : Read(e, s)[i] = e[s[i]] /\ s[i] \in H
<1>1. Len(s) \in Nat /\ \A i \in 1..Len(s) : s[i] \in H
  BY ElementOfSeq
<1> QED
  BY <1>1 DEF Read

\* Of the nodes of H, in the order s, the one at p has a new entry in f.
Changed(H, e, f, s, p) ==
  /\ s \in Seq(H) /\ Once(s) /\ p \in 1..Len(s)
  /\ \A n \in H : e[n] \in Entries /\ f[n] \in Entries
  /\ \A n \in H : n # s[p] => f[n] = e[n]

\* A node moved to the front, its entry changed, is Use.
LEMMA UseMaps ==
  ASSUME NEW H, NEW e, NEW f, NEW s, NEW p, Changed(H, e, f, s, p)
  PROVE  Read(f, <<s[p]>> \o Without(s, p)) = <<f[s[p]]>> \o Without(Read(e, s), p)
<1> DEFINE r == Read(e, s)
           w == Without(s, p)
           t == <<s[p]>> \o w
           a == Read(f, t)
           b == <<f[s[p]]>> \o Without(r, p)
<1>0. /\ s \in Seq(H) /\ Once(s) /\ p \in 1..Len(s)
      /\ \A n \in H : e[n] \in Entries /\ f[n] \in Entries
      /\ \A n \in H : n # s[p] => f[n] = e[n]
  BY DEF Changed
<1> USE <1>0
<1>1. Len(s) \in Nat /\ p \in Nat /\ \A i \in 1..Len(s) : s[i] \in H
  BY ElementOfSeq
<1>2. /\ w \in Seq(H) /\ Len(w) = Len(s) - 1
      /\ \A i \in 1..Len(s) - 1 : w[i] = IF i < p THEN s[i] ELSE s[i + 1]
  BY WithoutProperties
<1> HIDE DEF w
<1>3. /\ t \in Seq(H) /\ Len(t) = Len(w) + 1 /\ t[1] = s[p]
      /\ \A i \in 2..Len(w) + 1 : t[i] = w[i - 1]
  BY <1>1, <1>2, InFrontProperties
<1> HIDE DEF t
<1>4. /\ a \in Seq(Entries) /\ Len(a) = Len(t)
      /\ \A i \in 1..Len(t) : a[i] = f[t[i]]
  BY <1>3, ReadProperties
<1>5. /\ r \in Seq(Entries) /\ Len(r) = Len(s)
      /\ \A i \in 1..Len(s) : r[i] = e[s[i]]
  BY ReadProperties
<1> HIDE DEF r, a
<1>6. /\ Without(r, p) \in Seq(Entries) /\ Len(Without(r, p)) = Len(s) - 1
      /\ \A i \in 1..Len(s) - 1 : Without(r, p)[i] = IF i < p THEN r[i] ELSE r[i + 1]
  BY <1>5, WithoutProperties
<1>7. f[s[p]] \in Entries
  BY <1>1
<1>8. /\ b \in Seq(Entries) /\ Len(b) = Len(s) - 1 + 1 /\ b[1] = f[s[p]]
      /\ \A i \in 2..Len(s) - 1 + 1 : b[i] = Without(r, p)[i - 1]
  BY <1>6, <1>7, InFrontProperties
<1> HIDE DEF b
<1>9. Len(a) = Len(b) /\ Len(b) = Len(s)
  BY <1>1, <1>2, <1>3, <1>4, <1>8
<1>10. ASSUME NEW i \in 1..Len(a) PROVE a[i] = b[i]
  <2>1. CASE i = 1
    BY <2>1, <1>1, <1>3, <1>4, <1>8, <1>9
  <2>2. CASE i # 1
    <3>1. i \in 2..Len(s) /\ i - 1 \in 1..Len(s) - 1 /\ i \in 1..Len(t)
      BY <1>1, <1>4, <1>9, <2>2
    <3> DEFINE j == IF i - 1 < p THEN i - 1 ELSE (i - 1) + 1
    <3>2. j \in 1..Len(s) /\ j # p
      BY <1>1, <3>1
    <3>3. w[i - 1] = s[j] /\ Without(r, p)[i - 1] = r[j]
      BY <1>2, <1>6, <3>1
    <3> HIDE DEF j
    <3>4. s[j] # s[p] /\ s[j] \in H
      BY <1>1, <3>2 DEF Once
    <3>5. a[i] = f[s[j]]
      BY <1>1, <1>2, <1>3, <1>4, <3>1, <3>3
    <3>6. b[i] = e[s[j]]
      BY <1>1, <1>5, <1>8, <3>1, <3>2, <3>3
    <3> QED
      BY <3>4, <3>5, <3>6
  <2> QED
    BY <2>1, <2>2
<1>11. a = b
  BY <1>4, <1>8, <1>9, <1>10, SeqEqual
<1> QED
  BY <1>11 DEF a, b, r, t, w

\* To the nodes of H, in the order s, f adds an entry for n.
Extended(H, e, f, s, n) ==
  /\ s \in Seq(H)
  /\ \A m \in H : e[m] \in Entries /\ f[m] = e[m]
  /\ f[n] \in Entries

\* A node put in front is what Add puts in front.
LEMMA AddMaps ==
  ASSUME NEW H, NEW e, NEW f, NEW s, NEW n, Extended(H, e, f, s, n)
  PROVE  Read(f, <<n>> \o s) = <<f[n]>> \o Read(e, s)
<1> DEFINE r == Read(e, s)
           t == <<n>> \o s
           a == Read(f, t)
           b == <<f[n]>> \o r
<1>0. /\ s \in Seq(H) /\ f[n] \in Entries
      /\ \A m \in H : e[m] \in Entries /\ f[m] = e[m]
  BY DEF Extended
<1> USE <1>0
<1>1. Len(s) \in Nat /\ s \in Seq(H \cup {n}) /\ \A i \in 1..Len(s) : s[i] \in H
  BY ElementOfSeq
<1>2. /\ t \in Seq(H \cup {n}) /\ Len(t) = Len(s) + 1 /\ t[1] = n
      /\ \A i \in 2..Len(s) + 1 : t[i] = s[i - 1]
  BY <1>1, InFrontProperties
<1> HIDE DEF t
<1>3. \A m \in H \cup {n} : f[m] \in Entries
  OBVIOUS
<1>4. /\ a \in Seq(Entries) /\ Len(a) = Len(t)
      /\ \A i \in 1..Len(t) : a[i] = f[t[i]]
  BY <1>2, <1>3, ReadProperties
<1>5. /\ r \in Seq(Entries) /\ Len(r) = Len(s)
      /\ \A i \in 1..Len(s) : r[i] = e[s[i]]
  BY ReadProperties
<1> HIDE DEF r, a
<1>6. /\ b \in Seq(Entries) /\ Len(b) = Len(s) + 1 /\ b[1] = f[n]
      /\ \A i \in 2..Len(s) + 1 : b[i] = r[i - 1]
  BY <1>5, InFrontProperties
<1> HIDE DEF b
<1>7. ASSUME NEW i \in 1..Len(a) PROVE a[i] = b[i]
  <2>1. CASE i = 1
    BY <2>1, <1>2, <1>4, <1>6
  <2>2. CASE i # 1
    <3>1. i \in 2..Len(s) + 1 /\ i - 1 \in 1..Len(s) /\ i \in 1..Len(t)
      BY <1>1, <1>2, <1>4, <2>2
    <3>2. a[i] = f[s[i - 1]]
      BY <1>2, <1>4, <3>1
    <3>3. b[i] = e[s[i - 1]]
      BY <1>5, <1>6, <3>1
    <3>4. f[s[i - 1]] = e[s[i - 1]]
      BY <1>1, <3>1
    <3> QED
      BY <3>2, <3>3, <3>4
  <2> QED
    BY <2>1, <2>2
<1>8. a = b
  BY <1>2, <1>4, <1>6, <1>7, SeqEqual
<1> QED
  BY <1>8 DEF a, b, r, t

\* Dropping the last node is what Shortened does.
LEMMA FittingMaps ==
  ASSUME NEW H, NEW e, \A n \in H : e[n] \in Entries, NEW u \in Seq(H), Len(u) <= capacity + 1
  PROVE  Read(e, Fitting(u)) = Lru!Shortened(Read(e, u))
<1> DEFINE r == Read(e, u)
<1>1. Len(u) \in Nat /\ capacity \in Nat
  BY CapacityAssumption
<1>2. /\ r \in Seq(Entries) /\ Len(r) = Len(u)
      /\ \A i \in 1..Len(u) : r[i] = e[u[i]] /\ r[i] \in Entries
  BY ReadProperties
<1> HIDE DEF r
<1>3. CASE Len(u) > capacity
  <2> DEFINE w == Without(u, Len(u))
             b == SubSeq(r, 1, capacity)
  <2>1. Len(u) = capacity + 1 /\ Len(u) \in 1..Len(u)
    BY <1>1, <1>3
  <2>2. /\ w \in Seq(H) /\ Len(w) = Len(u) - 1
        /\ \A i \in 1..Len(u) - 1 : w[i] = IF i < Len(u) THEN u[i] ELSE u[i + 1]
    BY <2>1, WithoutProperties
  <2> HIDE DEF w
  <2>3. /\ Read(e, w) \in Seq(Entries) /\ Len(Read(e, w)) = Len(w)
        /\ \A i \in 1..Len(w) : Read(e, w)[i] = e[w[i]]
    BY <2>2, ReadProperties
  <2>4. /\ b \in Seq(Entries)
        /\ Len(b) = IF 1 <= capacity THEN capacity - 1 + 1 ELSE 0
        /\ \A i \in 1..capacity - 1 + 1 : b[i] = r[1 + i - 1]
    <3>1. 1 \in Int /\ capacity \in Int /\ \A i \in 1..capacity : r[i] \in Entries
      BY <1>1, <1>2, <2>1
    <3> QED
      BY <3>1, SubSeqProperties
  <2> HIDE DEF b
  <2>5. Len(Read(e, w)) = Len(b) /\ Len(b) = capacity
    BY <1>1, <2>1, <2>2, <2>3, <2>4
  <2>6. ASSUME NEW i \in 1..Len(Read(e, w)) PROVE Read(e, w)[i] = b[i]
    <3>1. i \in 1..capacity /\ i \in 1..Len(u) - 1 /\ i < Len(u) /\ i \in 1..Len(w) /\ i \in 1..Len(u)
      BY <1>1, <2>1, <2>2, <2>5
    <3>2. w[i] = u[i] /\ Read(e, w)[i] = e[u[i]]
      BY <2>2, <2>3, <3>1
    <3>3. b[i] = r[i]
      BY <1>1, <2>4, <3>1
    <3> QED
      BY <1>2, <3>1, <3>2, <3>3
  <2>7. Read(e, w) = b
    BY <2>3, <2>4, <2>5, <2>6, SeqEqual
  <2> QED
    BY <1>1, <1>2, <1>3, <2>7 DEF Fitting, Lru!Shortened, w, b, r
<1>4. CASE ~(Len(u) > capacity)
  <2>1. SubSeq(r, 1, Len(r)) = r
    BY <1>2, SubSeqFull
  <2> QED
    BY <1>1, <1>2, <1>4, <2>1 DEF Fitting, Lru!Shortened, r
<1> QED
  BY <1>3, <1>4

\* The mapping, before a step and after it.
LEMMA Mapping ==
  ASSUME NEW s, NEW t
  PROVE  /\ heap \in SUBSET Addr /\ Chain(links, s, heap) => recent = Read(entry, s)
         /\ heap' \in SUBSET Addr /\ Chain(links', t, heap') => recent' = Read(entry', t)
<1>1. Order = OrderOf(heap, links) /\ Order' = OrderOf(heap', links')
  BY DEF Order, Orders, OrderOf, OrdersOf
<1>2. ASSUME heap \in SUBSET Addr, Chain(links, s, heap) PROVE recent = Read(entry, s)
  <2>1. Order = s /\ Len(s) = Cardinality(heap)
    BY <1>1, <1>2, OrderIs, ChainLength
  <2> QED
    BY <2>1 DEF recent, Read
<1>3. ASSUME heap' \in SUBSET Addr, Chain(links', t, heap') PROVE recent' = Read(entry', t)
  <2>1. Order' = t /\ Len(t) = Cardinality(heap')
    BY <1>1, <1>3, OrderIs, ChainLength
  <2> QED
    BY <2>1 DEF recent, Read
<1> QED
  BY <1>2, <1>3

\* A node moved to the front is a step Use of the sequence.
LEMMA MovesUse ==
  ASSUME IInv, IInv', heap' = heap,
         NEW s, NEW p \in 1..Len(s), Chain(links, s, heap),
         Chain(links', <<s[p]>> \o Without(s, p), heap),
         NEW v \in Values, entry'[s[p]] = [entry[s[p]] EXCEPT !.value = v],
         \A n \in heap : n # s[p] => entry'[n] = entry[n]
  PROVE  Lru!Next
<1>1. s \in Seq(heap) /\ Once(s) /\ heap \in SUBSET Addr
  BY DEF Chain, IInv, TypeOK
<1>2. \A n \in heap : entry[n] \in Entries /\ entry'[n] \in Entries
  BY DEF IInv, Tabled
<1>3. recent = Read(entry, s) /\ recent' = Read(entry', <<s[p]>> \o Without(s, p))
  BY <1>1, Mapping
<1>4. Read(entry', <<s[p]>> \o Without(s, p)) = <<entry'[s[p]]>> \o Without(Read(entry, s), p)
  <2>1. Changed(heap, entry, entry', s, p)
    BY <1>1, <1>2 DEF Changed
  <2> QED
    BY <2>1, UseMaps
<1>5. Len(recent) = Len(s) /\ recent[p] = entry[s[p]]
  BY <1>1, <1>2, <1>3, ReadProperties
<1>6. recent' = <<[recent[p] EXCEPT !.value = v]>> \o Without(recent, p)
  BY <1>3, <1>4, <1>5
<1>7. Lru!Use(p, v)
  BY <1>6 DEF Lru!Use, Lru!RemoveAt, Without
<1> QED
  BY <1>5, <1>7 DEF Lru!Next

\* An empty cache is an empty sequence.
LEMMA RefinesInit == Init => Lru!Init
<1> SUFFICES ASSUME Init PROVE Lru!Init
  OBVIOUS
<1>1. heap = {} /\ Cardinality({}) = 0
  BY FS_EmptySet DEF Init
<1> QED
  BY <1>1 DEF Lru!Init, recent

\* get and the set of a key that is there are Use, any other set is Add.
LEMMA RefinesStep == IInv /\ IInv' /\ [Next]_vars => [Lru!Next]_recent
<1> SUFFICES ASSUME IInv, IInv', [Next]_vars PROVE [Lru!Next]_recent
  OBVIOUS
<1>1. ASSUME NEW k \in Keys, get(k) PROVE Lru!Next
  <2>1. PICK s \in Seq(heap) : \E p \in 1..Len(s) :
          Chain(links, s, heap) /\ Chain(links', <<s[p]>> \o Without(s, p), heap)
    BY <1>1, GetStep
  <2>2. PICK p \in 1..Len(s) :
          Chain(links, s, heap) /\ Chain(links', <<s[p]>> \o Without(s, p), heap)
    BY <2>1
  <2>3. heap' = heap /\ entry' = entry
    BY <1>1 DEF get
  <2>4. entry[s[p]] \in Entries
    BY ElementOfSeq DEF IInv, Tabled
  <2>5. PICK v \in Values : entry[s[p]] = [entry[s[p]] EXCEPT !.value = v]
    <3>1. entry[s[p]].value \in Values /\ entry[s[p]] = [entry[s[p]] EXCEPT !.value = entry[s[p]].value]
      BY <2>4 DEF Entries
    <3> QED
      BY <3>1
  <2> QED
    BY <2>2, <2>3, <2>5, MovesUse
<1>2. ASSUME NEW k \in Keys, NEW v \in Values, setOld(k, v) PROVE Lru!Next
  <2>1. heap' = heap /\ \E s \in Seq(heap) : \E p \in 1..Len(s) :
          /\ Chain(links, s, heap)
          /\ Chain(links', <<s[p]>> \o Without(s, p), heap)
          /\ entry' = [entry EXCEPT ![s[p]].value = v]
    BY <1>2, SetOldStep
  <2>2. PICK s \in Seq(heap) : \E p \in 1..Len(s) :
          /\ Chain(links, s, heap)
          /\ Chain(links', <<s[p]>> \o Without(s, p), heap)
          /\ entry' = [entry EXCEPT ![s[p]].value = v]
    BY <2>1
  <2>3. PICK p \in 1..Len(s) :
          /\ Chain(links, s, heap)
          /\ Chain(links', <<s[p]>> \o Without(s, p), heap)
          /\ entry' = [entry EXCEPT ![s[p]].value = v]
    BY <2>2
  <2>4. heap \in SUBSET Addr /\ entry \in Holdings /\ s[p] \in heap
    BY ElementOfSeq DEF IInv, TypeOK, Holdings, Entries
  <2>5. /\ entry'[s[p]] = [entry[s[p]] EXCEPT !.value = v]
        /\ \A n \in heap : n # s[p] => entry'[n] = entry[n]
    BY <2>3, <2>4 DEF Holdings
  <2>6. /\ Chain(links, s, heap)
        /\ Chain(links', <<s[p]>> \o Without(s, p), heap)
        /\ heap' = heap
    BY <2>1, <2>3
  <2> QED
    BY <2>5, <2>6, MovesUse
<1>3. ASSUME NEW k \in Keys, NEW v \in Values, setNew(k, v) PROVE Lru!Next
  <2>1. PICK s \in Seq(heap) : \E n \in Addr \ heap :
          /\ Chain(links, s, heap)
          /\ Chain(links', Fitting(<<n>> \o s), heap')
          /\ entry' \in Holdings
          /\ entry'[n] = [key |-> k, value |-> v] /\ \A m \in heap : entry'[m] = entry[m]
    BY <1>3, SetNewStep
  <2>2. PICK n \in Addr \ heap :
          /\ Chain(links, s, heap)
          /\ Chain(links', Fitting(<<n>> \o s), heap')
          /\ entry' \in Holdings
          /\ entry'[n] = [key |-> k, value |-> v] /\ \A m \in heap : entry'[m] = entry[m]
    BY <2>1
  <2> DEFINE x == [key |-> k, value |-> v]
  <2>3. heap \in SUBSET Addr /\ heap' \in SUBSET Addr
    BY DEF IInv, TypeOK
  <2>4. /\ \A m \in heap : entry[m] \in Entries /\ entry'[m] = entry[m]
        /\ x \in Entries /\ entry'[n] = x
    BY <2>2 DEF IInv, Tabled, Entries
  <2>5. recent = Read(entry, s) /\ recent' = Read(entry', Fitting(<<n>> \o s))
    BY <2>2, <2>3, Mapping
  <2>6. Read(entry', <<n>> \o s) = <<x>> \o recent
    <3>1. Extended(heap, entry, entry', s, n)
      BY <2>4 DEF Extended
    <3>2. Read(entry', <<n>> \o s) = <<entry'[n]>> \o Read(entry, s)
      BY <3>1, AddMaps
    <3> QED
      BY <2>4, <2>5, <3>2
  <2>7. <<n>> \o s \in Seq(heap \cup {n}) /\ Len(<<n>> \o s) <= capacity + 1
    <3>1. s \in Seq(heap \cup {n})
      OBVIOUS
    <3>2. <<n>> \o s \in Seq(heap \cup {n}) /\ Len(<<n>> \o s) = Len(s) + 1
      BY <3>1, InFrontProperties
    <3>3. Len(s) = Cardinality(heap)
      BY <2>2, <2>3, ChainLength
    <3> QED
      BY <3>2, <3>3, CapacityAssumption DEF IInv
  <2>8. Read(entry', Fitting(<<n>> \o s)) = Lru!Shortened(Read(entry', <<n>> \o s))
    <3>1. \A m \in heap \cup {n} : entry'[m] \in Entries
      BY <2>4
    <3> QED
      BY <2>7, <3>1, FittingMaps
  <2>9. recent' = Lru!Shortened(<<x>> \o recent)
    BY <2>5, <2>6, <2>8
  <2>10. Lru!Absent(k)
    <3>1. Len(recent) = Len(s) /\ \A i \in 1..Len(s) : recent[i] = entry[s[i]] /\ s[i] \in heap
      BY <2>4, <2>5, ReadProperties
    <3>2. \A m \in heap : entry[m].key # k
      <4>1. cache[k] = Null
        BY <1>3 DEF setNew
      <4>2. \A m \in heap : cache[entry[m].key] = m /\ m # Null
        BY <2>3, SentinelsAssumption DEF IInv, Tabled
      <4> QED
        BY <4>1, <4>2
    <3> QED
      BY <3>1, <3>2 DEF Lru!Absent
  <2>11. Lru!Add(x) /\ x \in Lru!Entries
    BY <2>4, <2>9, <2>10 DEF Lru!Add, Lru!Entries, Entries
  <2> QED
    BY <2>11 DEF Lru!Next
<1>4. CASE UNCHANGED vars
  <2>1. recent' = recent
    BY <1>4 DEF vars, recent, Order, Orders, Listed, At
  <2> QED
    BY <2>1
<1> QED
  BY <1>1, <1>2, <1>3, <1>4 DEF Next, set

\* The hash table and the list implement a sequence of distinct keys in which
\* what is used comes to the front and what no longer fits goes from the end:
\* set drops what was used longest ago (LRUCache.h:45-79).
THEOREM ImplementsRecency == Spec => RefinesRecency
<1>1. Init => Lru!Init
  BY RefinesInit
<1>2. IInv /\ IInv' /\ [Next]_vars => [Lru!Next]_recent
  BY RefinesStep
<1> QED
  BY <1>1, <1>2, InvHolds, PTL DEF Spec, RefinesRecency, Lru!Spec

-----------------------------------------------------------------------------
(* The dictionary and its cache.                                           *)

\* The database is two dictionaries for each type, and its lists are lists.
Shaped ==
  /\ type \in D!Types
  /\ \A t \in D!Types : \A k \in Keys : k \in DOMAIN db.dict[t]
  /\ D!Types \subseteq DOMAIN db.dict
  /\ type = "list" => \A k \in Keys : Stored(k) => db.dict[type][k] \in Seq(Texts)

\* Copies of lists are lists.
ListsCopied ==
  type = "list" => \A k \in Keys : cache[k] # Null => entry[cache[k]].value \in Seq(Texts)

IInvWithDatabase == IInv /\ Shaped /\ ListsCopied /\ CopiesKeepUp

-----------------------------------------------------------------------------
(* The dictionary.                                                         *)

\* Putting an object under a key leaves the other keys alone.
LEMMA PutProperties ==
  ASSUME Shaped, NEW k \in Keys, NEW o, NEW d, d.dict = [db.dict EXCEPT ![type][k] = o]
  PROVE  /\ d.dict[type][k] = o
         /\ \A j \in Keys : j # k => d.dict[type][j] = db.dict[type][j]
         /\ \A t \in D!Types : \A j \in Keys : j \in DOMAIN d.dict[t]
         /\ D!Types \subseteq DOMAIN d.dict
<1> QED
  BY DEF Shaped

\* IsPrefix, one by one.
LEMMA PrefixProperties ==
  ASSUME NEW S, NEW s \in Seq(S), NEW t \in Seq(S)
  PROVE  IsPrefix(s, t) <=> Len(s) <= Len(t) /\ \A i \in 1..Len(s) : s[i] = t[i]
<1>1. Len(s) \in Nat /\ Len(t) \in Nat /\ \A i \in 1..Len(s) : s[i] \in S
  BY ElementOfSeq
<1>2. SubSeq(s, 1, Len(s)) = s
  BY SubSeqFull
<1>3. ASSUME Len(s) <= Len(t)
      PROVE  SubSeq(s, 1, Len(s)) = SubSeq(t, 1, Len(s)) <=> \A i \in 1..Len(s) : s[i] = t[i]
  <2> DEFINE b == SubSeq(t, 1, Len(s))
  <2>1. /\ b \in Seq(S)
        /\ Len(b) = IF 1 <= Len(s) THEN Len(s) - 1 + 1 ELSE 0
        /\ \A i \in 1..Len(s) - 1 + 1 : b[i] = t[1 + i - 1]
    <3>1. 1 \in Int /\ Len(s) \in Int /\ \A i \in 1..Len(s) : t[i] \in S
      BY <1>1, <1>3, ElementOfSeq
    <3> QED
      BY <3>1, SubSeqProperties
  <2> HIDE DEF b
  <2>2. Len(b) = Len(s) /\ \A i \in 1..Len(s) : b[i] = t[i]
    BY <1>1, <2>1
  <2>3. s = b <=> \A i \in 1..Len(s) : s[i] = b[i]
    BY <2>1, <2>2, SeqEqual
  <2> QED
    BY <1>2, <2>2, <2>3 DEF b
<1> QED
  BY <1>3 DEF IsPrefix

\* A sequence without its last entry, one by one.
LEMMA FrontProperties ==
  ASSUME NEW S, NEW s \in Seq(S), Len(s) > 0
  PROVE  /\ SubSeq(s, 1, Len(s) - 1) \in Seq(S)
         /\ Len(SubSeq(s, 1, Len(s) - 1)) = Len(s) - 1
         /\ \A i \in 1..Len(s) - 1 : SubSeq(s, 1, Len(s) - 1)[i] = s[i]
<1> DEFINE n == Len(s) - 1
           o == SubSeq(s, 1, n)
<1>1. n \in Nat /\ \A i \in 1..n : s[i] \in S
  BY ElementOfSeq
<1> HIDE DEF n
<1>2. /\ o \in Seq(S)
      /\ Len(o) = IF 1 <= n THEN n - 1 + 1 ELSE 0
      /\ \A i \in 1..n - 1 + 1 : o[i] = s[1 + i - 1]
  BY <1>1, SubSeqProperties
<1> HIDE DEF o
<1>3. Len(o) = n /\ \A i \in 1..n : o[i] = s[i]
  BY <1>1, <1>2
<1> QED
  BY <1>2, <1>3 DEF n, o

-----------------------------------------------------------------------------
(* The cache.                                                              *)

\* set changes what the cache has for its key, and for no other that stays.
LEMMA SetCopies ==
  ASSUME IInv, NEW k \in Keys, NEW v \in Values, set(k, v)
  PROVE  /\ IInv'
         /\ \A j \in Keys :
              cache'[j] # Null =>
                /\ j = k => entry'[cache'[j]].value = v
                /\ j # k => cache[j] # Null /\ entry'[cache'[j]].value = entry[cache[j]].value
<1>1. entry \in Holdings /\ cache \in Tables /\ heap \in SUBSET Addr
  BY DEF IInv, TypeOK, Holdings, Tables, Entries
<1>2. \A j \in Keys : cache[j] # Null => cache[j] \in heap /\ entry[cache[j]].key = j /\ entry[cache[j]] \in Entries
  BY DEF IInv, Tabled
<1>3. CASE setOld(k, v)
  <2>1. cache' = cache /\ entry' = [entry EXCEPT ![cache[k]].value = v] /\ cache[k] # Null
    BY <1>3 DEF setOld
  <2>2. entry'[cache[k]].value = v
    BY <1>1, <1>2, <2>1 DEF Holdings, Entries
  <2>3. \A j \in Keys : j # k /\ cache[j] # Null => cache[j] # cache[k] /\ entry'[cache[j]] = entry[cache[j]]
    BY <1>1, <1>2, <2>1 DEF Holdings
  <2> QED
    BY <1>3, <2>1, <2>2, <2>3, SetOldStep
<1>4. CASE setNew(k, v)
  <2>1. PICK n \in Addr \ heap :
          /\ entry' = [entry EXCEPT ![n] = [key |-> k, value |-> v]]
          /\ \A j \in Keys : cache'[j] # Null => cache'[j] = [cache EXCEPT ![k] = n][j]
    BY <1>1, <1>4 DEF setNew, Evict, Keep, Tables
  <2>2. entry'[n].value = v /\ \A m \in heap : entry'[m] = entry[m]
    BY <1>1, <2>1 DEF Holdings
  <2>3. ASSUME NEW j \in Keys, cache'[j] # Null
        PROVE  /\ j = k => entry'[cache'[j]].value = v
               /\ j # k => cache[j] # Null /\ entry'[cache'[j]].value = entry[cache[j]].value
    <3>1. CASE j = k
      BY <1>1, <2>1, <2>2, <2>3, <3>1 DEF Tables
    <3>2. CASE j # k
      <4>1. cache'[j] = cache[j] /\ cache[j] # Null
        BY <1>1, <2>1, <2>3, <3>2 DEF Tables
      <4> QED
        BY <1>2, <2>2, <3>2, <4>1
    <3> QED
      BY <3>1, <3>2
  <2> QED
    BY <1>4, <2>3, SetNewStep
<1> QED
  BY <1>3, <1>4 DEF set

-----------------------------------------------------------------------------
(* The steps.                                                              *)

\* A copy built beside an object is the object.
LEMMA CopyIsObject ==
  ASSUME Shaped, NEW k \in Keys, NEW objKey \in Texts, NEW objValue,
         NEW o \in D!Grown(type, db.dict[type][k], objKey, objValue), db'.dict[type][k] = o
  PROVE  cached(k, objKey, objValue) = o
<1>1. type \in {"string", "list", "hash", "set", "zset"}
  BY DEF Shaped, D!Types
<1>2. Stored(k) <=> db.dict[type][k] # NoVal
  BY DEF Stored, D!Has
<1>3. CASE type = "string"
  BY <1>3 DEF D!Grown, cached
<1>4. CASE type = "list"
  <2> DEFINE s == IF Stored(k) THEN db.dict["list"][k] ELSE <<>>
  <2>1. o = Append(s, objKey) /\ cached(k, objKey, objValue) = s \o <<objKey>>
    BY <1>2, <1>4 DEF D!Grown, cached
  <2>2. s \in Seq(Texts)
    <3>1. CASE Stored(k)
      BY <1>4, <3>1 DEF Shaped
    <3>2. CASE ~Stored(k)
      BY <3>2
    <3> QED
      BY <3>1, <3>2
  <2> HIDE DEF s
  <2>3. s \o <<objKey>> = Append(s, objKey)
    BY <2>2, AppendIsConcat
  <2> QED
    BY <2>1, <2>3
<1>5. CASE type = "hash"
  <2>1. cached(k, objKey, objValue) = copied(k, objKey, objValue)
    BY <1>5 DEF cached
  <2>2. CASE Stored(k)
    <3>1. o = [f \in {objKey} \cup DOMAIN db.dict["hash"][k] |->
                 IF f = objKey THEN objValue ELSE db.dict["hash"][k][f]]
      BY <1>2, <1>5, <2>2 DEF D!Grown
    <3>2. {objKey} \cup DOMAIN db.dict["hash"][k] = DOMAIN db.dict["hash"][k] \cup {objKey}
      OBVIOUS
    <3> QED
      BY <2>1, <2>2, <3>1, <3>2 DEF copied
  <2>3. CASE ~Stored(k)
    <3>1. o = [f \in {objKey} |-> objValue]
      BY <1>2, <1>5, <2>3 DEF D!Grown
    <3>2. DOMAIN <<>> \cup {objKey} = {objKey}
      OBVIOUS
    <3>3. copied(k, objKey, objValue) =
            [f \in DOMAIN <<>> \cup {objKey} |-> IF f = objKey THEN objValue ELSE <<>>[f]]
      BY <2>3 DEF copied
    <3> QED
      BY <2>1, <3>1, <3>2, <3>3
  <2> QED
    BY <2>2, <2>3
<1>6. CASE type = "set"
  BY <1>2, <1>6 DEF D!Grown, cached
<1>7. CASE type = "zset"
  BY <1>7 DEF cached
<1> QED
  BY <1>1, <1>3, <1>4, <1>5, <1>6, <1>7

\* What addKey puts in both is the same.
LEMMA AddKeyStep ==
  ASSUME IInvWithDatabase, NEW k \in Keys, NEW objKey \in Texts, NEW objValue,
         addKey(k, objKey, objValue), type' = type
  PROVE  IInvWithDatabase'
<1> DEFINE v == cached(k, objKey, objValue)
<1>1. IInv /\ Shaped /\ ListsCopied /\ CopiesKeepUp
  BY DEF IInvWithDatabase
<1>2. v \in Values /\ set(k, v)
  BY DEF addKey
<1> HIDE DEF v
<1>3. IInv' /\ \A j \in Keys :
              cache'[j] # Null =>
                /\ j = k => entry'[cache'[j]].value = v
                /\ j # k => cache[j] # Null /\ entry'[cache'[j]].value = entry[cache[j]].value
  BY <1>1, <1>2, SetCopies
<1>4. PICK o \in D!Grown(type, db.dict[type][k], objKey, objValue) : db' = D!Put(db, type, k, o)
  BY DEF addKey, D!AddKey
<1>5. db'.dict = [db.dict EXCEPT ![type][k] = o]
  BY <1>4 DEF D!Put
<1>6. /\ db'.dict[type][k] = o
      /\ \A j \in Keys : j # k => db'.dict[type][j] = db.dict[type][j]
      /\ \A t \in D!Types : \A j \in Keys : j \in DOMAIN db'.dict[t]
      /\ D!Types \subseteq DOMAIN db'.dict
  BY <1>1, <1>5, PutProperties
<1>7. v = o
  BY <1>1, <1>4, <1>6, CopyIsObject DEF v
<1>8. type = "list" => o \in Seq(Texts)
  <2> SUFFICES ASSUME type = "list" PROVE o \in Seq(Texts)
    OBVIOUS
  <2>1. o = Append(IF db.dict[type][k] = NoVal THEN <<>> ELSE db.dict[type][k], objKey)
    BY <1>4 DEF D!Grown
  <2>2. db.dict[type][k] # NoVal => db.dict[type][k] \in Seq(Texts)
    BY <1>1 DEF Shaped, Stored, D!Has
  <2>3. CASE db.dict[type][k] = NoVal
    BY <2>1, <2>3
  <2>4. CASE db.dict[type][k] # NoVal
    BY <2>1, <2>2, <2>4
  <2> QED
    BY <2>3, <2>4
<1>9. Shaped'
  BY <1>1, <1>6, <1>8 DEF Shaped, Stored, D!Has
<1>10. ListsCopied'
  BY <1>1, <1>3, <1>8, <1>7 DEF ListsCopied
<1>11. CopiesKeepUp'
  <2> SUFFICES ASSUME NEW j \in Keys, Stored(j)', cache'[j] # Null
               PROVE  IF type = "list" THEN IsPrefix(db'.dict[type][j], entry'[cache'[j]].value)
                                       ELSE entry'[cache'[j]].value = db'.dict[type][j]
    BY DEF CopiesKeepUp
  <2>1. CASE j = k
    <3>1. entry'[cache'[j]].value = o /\ db'.dict[type][j] = o
      BY <1>3, <1>6, <1>7, <2>1
    <3>2. type = "list" => IsPrefix(o, o)
      BY <1>8, PrefixProperties
    <3> QED
      BY <3>1, <3>2
  <2>2. CASE j # k
    <3>1. /\ cache[j] # Null /\ entry'[cache'[j]].value = entry[cache[j]].value
          /\ db'.dict[type][j] = db.dict[type][j]
      BY <1>3, <1>6, <2>2
    <3>2. Stored(j)
      BY <3>1 DEF Stored, D!Has
    <3> QED
      BY <1>1, <3>1, <3>2 DEF CopiesKeepUp
  <2> QED
    BY <2>1, <2>2
<1> QED
  BY <1>3, <1>9, <1>10, <1>11 DEF IInvWithDatabase

\* The copy of a key that is deleted is nobody's, until the key is set again.
LEMMA DelKeyStep ==
  ASSUME IInvWithDatabase, NEW k \in Keys, delKey(k), type' = type
  PROVE  IInvWithDatabase'
<1>1. IInv /\ Shaped /\ ListsCopied /\ CopiesKeepUp
  BY DEF IInvWithDatabase
<1>2. type = "string" /\ Stored(k) /\ db' = D!DelKey(db, type, k) /\ UNCHANGED vars
  BY DEF delKey
<1>3. db'.dict = [db.dict EXCEPT ![type][k] = NoVal]
  BY <1>2 DEF D!DelKey, D!PutDue, D!Put, Stored
<1>4. /\ db'.dict[type][k] = NoVal
      /\ \A j \in Keys : j # k => db'.dict[type][j] = db.dict[type][j]
      /\ \A t \in D!Types : \A j \in Keys : j \in DOMAIN db'.dict[t]
      /\ D!Types \subseteq DOMAIN db'.dict
  <2> DEFINE d == db'
  <2>1. Shaped /\ d.dict = [db.dict EXCEPT ![type][k] = NoVal]
    BY <1>1, <1>3
  <2> HIDE DEF d
  <2>2. /\ d.dict[type][k] = NoVal
        /\ \A j \in Keys : j # k => d.dict[type][j] = db.dict[type][j]
        /\ \A t \in D!Types : \A j \in Keys : j \in DOMAIN d.dict[t]
        /\ D!Types \subseteq DOMAIN d.dict
    BY <2>1, PutProperties, ZenonT(30)
  <2> QED
    BY <2>2 DEF d
<1>5. UNCHANGED <<heap, entry, links, cache>>
  BY <1>2 DEF vars
<1>6. IInv'
  BY <1>1, <1>2, InvStep
<1>7. Shaped' /\ ListsCopied'
  BY <1>1, <1>2, <1>4 DEF Shaped, ListsCopied
<1>8. CopiesKeepUp'
  <2>1. \A j \in Keys : Stored(j)' => j # k /\ Stored(j) /\ db'.dict[type][j] = db.dict[type][j]
    BY <1>4 DEF Stored, D!Has
  <2> QED
    BY <1>1, <1>2, <1>5, <2>1 DEF CopiesKeepUp
<1> QED
  BY <1>6, <1>7, <1>8 DEF IInvWithDatabase

\* A list that is popped is still a prefix of its copy.
LEMMA RpopStep ==
  ASSUME IInvWithDatabase, NEW k \in Keys, rpop(k), type' = type
  PROVE  IInvWithDatabase'
<1>1. IInv /\ Shaped /\ ListsCopied /\ CopiesKeepUp
  BY DEF IInvWithDatabase
<1>2. type = "list" /\ Stored(k) /\ db.dict[type][k] # <<>> /\ db' = D!RpopList(db, k) /\ UNCHANGED vars
  BY DEF rpop
<1> DEFINE s == db.dict[type][k]
           o == SubSeq(s, 1, Len(s) - 1)
<1>3. db'.dict = [db.dict EXCEPT ![type][k] = o]
  BY <1>2 DEF D!RpopList, D!Put, D!Front
<1> HIDE DEF s, o
<1>4. /\ db'.dict[type][k] = o
      /\ \A j \in Keys : j # k => db'.dict[type][j] = db.dict[type][j]
      /\ \A t \in D!Types : \A j \in Keys : j \in DOMAIN db'.dict[t]
      /\ D!Types \subseteq DOMAIN db'.dict
  <2> DEFINE d == db'
  <2>1. Shaped /\ d.dict = [db.dict EXCEPT ![type][k] = o]
    BY <1>1, <1>3
  <2> HIDE DEF d
  <2>2. /\ d.dict[type][k] = o
        /\ \A j \in Keys : j # k => d.dict[type][j] = db.dict[type][j]
        /\ \A t \in D!Types : \A j \in Keys : j \in DOMAIN d.dict[t]
        /\ D!Types \subseteq DOMAIN d.dict
    BY <2>1, PutProperties, ZenonT(30)
  <2> QED
    BY <2>2 DEF d
<1>5. UNCHANGED <<heap, entry, links, cache>>
  BY <1>2 DEF vars
<1>6. IInv'
  BY <1>1, <1>5, InvStep DEF vars
<1>7. s \in Seq(Texts) /\ Len(s) \in Nat /\ Len(s) > 0
  <2>1. s \in Seq(Texts)
    BY <1>1, <1>2 DEF Shaped, s
  <2>2. s # <<>>
    BY <1>2 DEF s
  <2> QED
    BY <2>1, <2>2
<1>8. /\ o \in Seq(Texts)
      /\ Len(o) = Len(s) - 1
      /\ \A i \in 1..Len(s) - 1 : o[i] = s[i]
  BY <1>7, FrontProperties DEF o
<1>9. Shaped' /\ ListsCopied'
  BY <1>1, <1>2, <1>4, <1>5, <1>8 DEF Shaped, ListsCopied, Stored, D!Has
<1>10. CopiesKeepUp'
  <2> SUFFICES ASSUME NEW j \in Keys, Stored(j)', cache[j] # Null
               PROVE  IsPrefix(db'.dict[type][j], entry[cache[j]].value)
    BY <1>2, <1>5 DEF CopiesKeepUp
  <2>1. CASE j = k
    <3> DEFINE copy == entry[cache[j]].value
    <3>1. IsPrefix(s, copy) /\ copy \in Seq(Texts)
      BY <1>1, <1>2, <2>1 DEF CopiesKeepUp, ListsCopied, s
    <3> HIDE DEF copy
    <3>2. Len(s) <= Len(copy) /\ \A i \in 1..Len(s) : s[i] = copy[i]
      BY <1>7, <3>1, PrefixProperties
    <3>3. Len(o) <= Len(copy) /\ \A i \in 1..Len(o) : o[i] = copy[i]
      BY <1>7, <1>8, <3>1, <3>2
    <3>4. IsPrefix(o, copy)
      BY <1>8, <3>1, <3>3, PrefixProperties
    <3> QED
      BY <1>4, <2>1, <3>4 DEF copy
  <2>2. CASE j # k
    <3>1. db'.dict[type][j] = db.dict[type][j] /\ Stored(j)
      BY <1>4, <2>2 DEF Stored, D!Has
    <3> QED
      BY <1>1, <1>2, <3>1 DEF CopiesKeepUp
  <2> QED
    BY <2>1, <2>2
<1> QED
  BY <1>6, <1>9, <1>10 DEF IInvWithDatabase

\* get only moves a node.
LEMMA UseStep ==
  ASSUME IInvWithDatabase, NEW k \in Keys, get(k), UNCHANGED db, type' = type
  PROVE  IInvWithDatabase'
<1>1. IInv /\ Shaped /\ ListsCopied /\ CopiesKeepUp
  BY DEF IInvWithDatabase
<1>2. entry' = entry /\ cache' = cache /\ db' = db /\ type' = type
  BY DEF get
<1>3. IInv'
  BY <1>1, GetStep
<1>4. Shaped' /\ ListsCopied'
  BY <1>1, <1>2 DEF Shaped, ListsCopied, Stored
<1>5. CopiesKeepUp'
  BY <1>1, <1>2 DEF CopiesKeepUp, Stored
<1> QED
  BY <1>3, <1>4, <1>5 DEF IInvWithDatabase

\* Nothing changes.
LEMMA Stutter ==
  ASSUME IInvWithDatabase, UNCHANGED <<vars, type, db>>
  PROVE  IInvWithDatabase'
<1>1. IInv /\ Shaped /\ ListsCopied /\ CopiesKeepUp
  BY DEF IInvWithDatabase
<1>2. UNCHANGED vars /\ entry' = entry /\ cache' = cache /\ db' = db /\ type' = type
  BY DEF vars
<1>3. IInv'
  BY <1>1, <1>2, InvStep
<1>4. Shaped' /\ ListsCopied' /\ CopiesKeepUp'
  BY <1>1, <1>2 DEF Shaped, ListsCopied, CopiesKeepUp, Stored
<1> QED
  BY <1>3, <1>4 DEF IInvWithDatabase

\* The dictionary and the cache begin empty.
LEMMA InvInitWithDatabase == InitWithDatabase => IInvWithDatabase
<1> SUFFICES ASSUME InitWithDatabase PROVE IInvWithDatabase
  OBVIOUS
<1>1. IInv
  BY InvInit DEF InitWithDatabase
<1>2. type \in D!Types /\ db.dict = [t \in D!Types |-> [k \in Keys |-> NoVal]]
  BY KindsAssumption DEF InitWithDatabase, D!EmptyDb
<1>3. \A k \in Keys : ~Stored(k) /\ cache[k] = Null
  BY <1>2 DEF Stored, D!Has, InitWithDatabase, Init
<1>4. Shaped /\ ListsCopied /\ CopiesKeepUp
  BY <1>2, <1>3 DEF Shaped, ListsCopied, CopiesKeepUp
<1> QED
  BY <1>1, <1>4 DEF IInvWithDatabase

\* Every step of the dictionary keeps the invariant.
LEMMA InvStepWithDatabase ==
  IInvWithDatabase /\ [NextWithDatabase]_<<vars, type, db>> => IInvWithDatabase'
<1> SUFFICES ASSUME IInvWithDatabase, [NextWithDatabase]_<<vars, type, db>>
             PROVE  IInvWithDatabase'
  OBVIOUS
<1>1. CASE NextWithDatabase
  <2>0. type' = type
    BY <1>1 DEF NextWithDatabase
  <2>1. ASSUME NEW k \in Keys, NEW objKey \in Texts, NEW objValue \in Seconds,
               addKey(k, objKey, objValue)
        PROVE  IInvWithDatabase'
    BY <2>0, <2>1, AddKeyStep
  <2>2. ASSUME NEW k \in Keys, delKey(k) PROVE IInvWithDatabase'
    BY <2>0, <2>2, DelKeyStep
  <2>3. ASSUME NEW k \in Keys, rpop(k) PROVE IInvWithDatabase'
    BY <2>0, <2>3, RpopStep
  <2>4. ASSUME NEW k \in Keys, get(k), UNCHANGED db PROVE IInvWithDatabase'
    BY <2>0, <2>4, UseStep
  <2> QED
    BY <1>1, <2>1, <2>2, <2>3, <2>4 DEF NextWithDatabase
<1>2. CASE UNCHANGED <<vars, type, db>>
  BY <1>2, Stutter
<1> QED
  BY <1>1, <1>2

-----------------------------------------------------------------------------
(* What follows.                                                           *)

\* Beside a dictionary the cache does what an LRUCache does: addKey is a set,
\* and deleting and popping leave it alone.
LEMMA CacheBesideDictionary == SpecWithDatabase => Spec
<1>1. InitWithDatabase => Init
  BY DEF InitWithDatabase
<1>2. [NextWithDatabase]_<<vars, type, db>> => [Next]_vars
  BY DEF NextWithDatabase, addKey, delKey, rpop, Next
<1> QED
  BY <1>1, <1>2, PTL DEF SpecWithDatabase, Spec

\* So table and list agree, and what is dropped was used longest ago, whatever
\* is stored, deleted and popped beside them (Database.cc:13-122).
THEOREM CacheKeepsItsPromise ==
  SpecWithDatabase => []TypeOK /\ []Consistent /\ RefinesRecency
<1> QED
  BY CacheBesideDictionary, TypeCorrect, ListAndTableAgree, ImplementsRecency, PTL

\* Of all five types: what addKey builds for the cache, beside the object and
\* by itself, fields overwritten and members in their places included, is the
\* object, and a cached copy never falls behind the dictionary, but for the
\* elements a list has since been popped of (Database.cc:13-122).
THEOREM CopiesAlwaysKeepUp == SpecWithDatabase => []CopiesKeepUp
<1>1. IInvWithDatabase => CopiesKeepUp
  BY DEF IInvWithDatabase
<1> QED
  BY <1>1, InvInitWithDatabase, InvStepWithDatabase, PTL DEF SpecWithDatabase
=============================================================================
