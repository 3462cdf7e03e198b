------------------------------ MODULE Recency ------------------------------
(***************************************************************************)
(* What a least-recently-used cache promises: it holds the entries used    *)
(* last, no key twice, and never more than its capacity.  LRUCache         *)
(* implements it with a hash table and a doubly linked list.               *)
(***************************************************************************)
EXTENDS Naturals, Sequences, SequencesExt

CONSTANTS Keys, Values, capacity

VARIABLE recent   \* entries [key, value], the one used last in front

Entries == [key : Keys, value : Values]

Init == recent = <<>>

Absent(k) == \A i \in 1..Len(recent) : recent[i].key # k

Shortened(s) == SubSeq(s, 1, IF Len(s) > capacity THEN capacity ELSE Len(s))

\* A new entry goes to the front, and what no longer fits goes from the end.
Add(e) == Absent(e.key) /\ recent' = Shortened(<<e>> \o recent)

\* An entry is used again, with its old value or a new one.
Use(i, v) == recent' = <<[recent[i] EXCEPT !.value = v]>> \o RemoveAt(recent, i)

Next ==
  \/ \E e \in Entries : Add(e)
  \/ \E i \in 1..Len(recent), v \in Values : Use(i, v)

Spec == Init /\ [][Next]_recent
=============================================================================
