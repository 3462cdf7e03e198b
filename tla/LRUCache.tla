------------------------------ MODULE LRUCache ------------------------------
(***************************************************************************)
(* The class LRUCache (server/base/LRUCache.h): a hash table from keys to  *)
(* nodes, and the nodes in a doubly linked list between two sentinels,     *)
(* newest first.  The pre of the head and the next of the tail are never   *)
(* set by the constructor, and are not part of the state.                  *)
(***************************************************************************)
EXTENDS Naturals, Sequences, FiniteSets

CONSTANTS
  Keys,
  Values,
  Addr,         \* addresses new can return
  head, tail,   \* the sentinels
  Null,         \* what the table holds for an absent key
  capacity

ASSUME CapacityAssumption == capacity \in Nat
ASSUME AddrAssumption == IsFiniteSet(Addr) /\ Cardinality(Addr) > capacity
ASSUME SentinelsAssumption == head # tail /\ head \notin Addr /\ tail \notin Addr /\ Null \notin Addr

VARIABLES
  heap,      \* the nodes that exist
  entry,     \* key and value of each
  links,     \* their fields pre and next, and those of the sentinels
  cache      \* the hash table

vars == <<heap, entry, links, cache>>

Links == [next : [Addr \cup {head} -> Addr \cup {tail}],
          pre  : [Addr \cup {tail} -> Addr \cup {head}]]

TypeOK ==
  /\ heap \in SUBSET Addr
  /\ entry \in [Addr -> [key : Keys, value : Values] \cup {Null}]
  /\ links \in Links
  /\ cache \in [Keys -> Addr \cup {Null}]

\* What an address holds before new has returned it is never read.
Init ==
  /\ heap = {}
  /\ entry = [n \in Addr |-> Null]
  /\ links = [next |-> [n \in Addr \cup {head} |-> tail],
              pre  |-> [n \in Addr \cup {tail} |-> head]]
  /\ cache = [k \in Keys |-> Null]

size(table) == Cardinality({k \in Keys : table[k] # Null})

-----------------------------------------------------------------------------
(* The list.                                                               *)

addNode(l, n) ==
  [next |-> [l.next EXCEPT ![n] = l.next[head], ![head] = n],
   pre  |-> [l.pre EXCEPT ![n] = head, ![l.next[head]] = n]]

\* Mutant of unlinked: the two neighbours change places.
unlinkedSwapped(l, n) ==
  [next |-> [l.next EXCEPT ![l.pre[n]] = l.pre[n]],
   pre  |-> [l.pre EXCEPT ![l.next[n]] = l.next[n]]]

unlinked(l, n) ==
  [next |-> [l.next EXCEPT ![l.pre[n]] = l.next[n]],
   pre  |-> [l.pre EXCEPT ![l.next[n]] = l.pre[n]]]

\* Mutant of moveToHead: a node that is used stays where it is.
moveToHeadNot(l, n) == l

moveToHead(l, n) == addNode(unlinked(l, n), n)

-----------------------------------------------------------------------------
(* get and set.                                                            *)

get(k) ==
  /\ cache[k] # Null
  /\ links' = moveToHead(links, cache[k])
  /\ UNCHANGED <<heap, entry, cache>>

\* The two ends of set for a new key: with popTail, and without.  popTail
\* erases the key of the last node a second time, which changes nothing.
Keep(n, k, l, table) ==
  /\ heap' = heap \cup {n}
  /\ links' = l
  /\ cache' = table

\* Mutant of Evict: the table keeps the key of the node that was deleted.
EvictFromList(n, k, l, table) ==
  LET last == l.pre[tail]
  IN /\ heap' = (heap \cup {n}) \ {last}
     /\ links' = unlinked(l, last)
     /\ cache' = table

Evict(n, k, l, table) ==
  LET last == l.pre[tail]
  IN /\ heap' = (heap \cup {n}) \ {last}
     /\ links' = unlinked(l, last)
     /\ cache' = [table EXCEPT ![entry'[last].key] = Null]

setNew(k, v) ==
  /\ cache[k] = Null
  /\ \E n \in Addr \ heap :
       LET l == addNode(links, n)
           table == [cache EXCEPT ![k] = n]
       IN /\ entry' = [entry EXCEPT ![n] = [key |-> k, value |-> v]]
          /\ IF size(table) > capacity THEN Evict(n, k, l, table) ELSE Keep(n, k, l, table)

setOld(k, v) ==
  /\ cache[k] # Null
  /\ entry' = [entry EXCEPT ![cache[k]].value = v]
  /\ links' = moveToHead(links, cache[k])
  /\ UNCHANGED <<heap, cache>>

set(k, v) == setNew(k, v) \/ setOld(k, v)

Next ==
  \/ \E k \in Keys : get(k)
  \/ \E k \in Keys, v \in Values : set(k, v)

Spec == Init /\ [][Next]_vars

-----------------------------------------------------------------------------
(* Properties.                                                             *)

\* The nodes s, and no others, are the list l: forwards from the head, and
\* backwards from the tail.
At(s, i) == IF i = 0 THEN head ELSE IF i = Len(s) + 1 THEN tail ELSE s[i]

Listed(l, s) ==
  \A i \in 0..Len(s) :
    l.next[At(s, i)] = At(s, i + 1) /\ l.pre[At(s, i + 1)] = At(s, i)

Orders == {s \in [1..Cardinality(heap) -> heap] : \A n \in heap : \E i \in DOMAIN s : s[i] = n}

\* The list and the table agree whatever was moved, added and dropped: every
\* node that exists is in the list once, in both directions, and is what the
\* table has for its key; the table leads to no other node.  A node of which
\* one is true and not the other is lost, or used after it was deleted
\* (LRUCache.h:57-116).
Consistent ==
  /\ \E s \in Orders : Listed(links, s)
  /\ \A n \in heap : cache[entry[n].key] = n
  /\ \A k \in Keys : cache[k] # Null => cache[k] \in heap /\ entry[cache[k]].key = k

Order == CHOOSE s \in Orders : Listed(links, s)

recent == [i \in 1..Cardinality(heap) |-> entry[Order[i]]]

Lru == INSTANCE Recency

\* What is dropped is what was used longest ago, and get and set find what was
\* set last (LRUCache.h:45-79).
RefinesRecency == Lru!Spec
=============================================================================
