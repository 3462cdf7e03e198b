----------------------------- MODULE SortedList -----------------------------
(***************************************************************************)
(* What a zset is to Database: a list of members, sorted by score, in      *)
(* which zadd inserts at one of InsertPositions.  Skiplist implements it.  *)
(***************************************************************************)
EXTENDS Database

CONSTANT Ranges   \* that members may be deleted by, each the set of its scores

VARIABLE list

Init == list = <<>>

Insert(m) == \E p \in InsertPositions(list, m.obj, m.score) : list' = InsertAt(list, p, m)

Delete(p) == list' = RemoveAt(list, p)

\* The members with a score of R lie side by side.
DeleteRange(R) ==
  \E a \in 0..Len(list), b \in 0..Len(list) :
    /\ a <= b
    /\ \A p \in 1..Len(list) : list[p].score \in R <=> p \in a + 1..b
    /\ list' = SubSeq(list, 1, a) \o SubSeq(list, b + 1, Len(list))

Next ==
  \/ \E m \in Members : Insert(m)
  \/ \E p \in 1..Len(list) : Delete(p)
  \/ \E R \in Ranges : DeleteRange(R)

Spec == Init /\ [][Next]_list
=============================================================================
