------------------------------ MODULE Skiplist ------------------------------
(***************************************************************************)
(* The skip list of a zset (server/db/Skiplist.{h,cc}).  A list is a       *)
(* record [node, tail, len, level]; node maps the head and the addresses   *)
(* of the nodes to records                                                 *)
(*   [obj, score, backward, level]                                         *)
(* whose level is the array of [zforward, zspan], from 1 here.  Null is    *)
(* the null pointer.  The commands only insert and list a range; the other *)
(* members of the class are modelled as a caller could use them.           *)
(***************************************************************************)
EXTENDS Database

CONSTANTS
  Addr,        \* addresses new can return; bounds the length of the list
  head,        \* the header node
  Null,
  MaxLevel,    \* SKIPLIST_MAXLEVEL
  Ranges       \* the rangespecs a caller may give, [zmin, zmax, zminex, zmaxex]

ASSUME AddrAssumption == IsFiniteSet(Addr) /\ head \notin Addr /\ Null \notin Addr \cup {head}
ASSUME MaxLevelAssumption == MaxLevel \in Nat \ {0}
ASSUME RangesAssumption ==
  Ranges \subseteq [zmin : Int, zmax : Int, zminex : BOOLEAN, zmaxex : BOOLEAN]

VARIABLES
  z,        \* the list
  usable    \* FALSE once a node that is still linked has been deleted

vars == <<z, usable>>

heap == DOMAIN z.node \ {head}

Nowhere == [zforward |-> Null, zspan |-> 0]

TypeOK ==
  /\ usable \in BOOLEAN
  /\ z.tail \in heap \cup {Null}
  /\ z.len \in Nat
  /\ z.level \in 1..MaxLevel
  /\ heap \subseteq Addr
  /\ \A x \in heap \cup {head} :
       /\ x # head => z.node[x].obj \in Texts /\ z.node[x].score \in Scores
       /\ z.node[x].backward \in heap \cup {Null}
       /\ \A i \in 1..Len(z.node[x].level) :
            z.node[x].level[i] \in [zforward : heap \cup {Null}, zspan : Nat]

Init ==
  /\ z = [node |-> [x \in {head} |-> [obj |-> Null, score |-> 0, backward |-> Null,
                                      level |-> [i \in 1..MaxLevel |-> Nowhere]]],
          tail |-> Null, len |-> 0, level |-> 1]
  /\ usable = TRUE

forward(x, i) == z.node[x].level[i].zforward

-----------------------------------------------------------------------------
(* Searching.  From the top level down, a search goes forward as long as   *)
(* the next node is one it is to pass, and goes on below from there.       *)

\* The nodes whose array reaches up to level i.
Tall(i) == {x \in DOMAIN z.node : i \in DOMAIN z.node[x].level}

\* Where level i leads from x on over the nodes of passed.
Walk(i, x, passed) ==
  LET walk[y \in Tall(i)] == IF forward(y, i) \in passed THEN walk[forward(y, i)] ELSE y
  IN walk[x]

\* Where a search that passes the nodes of passed stops on each level.
Stops(passed) ==
  LET stop[i \in 1..z.level] == Walk(i, IF i = z.level THEN head ELSE stop[i + 1], passed)
  IN stop

\* The spans of level i that lead from x to last.
Spans(i, x, last) ==
  LET spans[y \in Tall(i) \cup {Null}] ==
        IF y \in {last, Null} THEN 0 ELSE z.node[y].level[i].zspan + spans[forward(y, i)]
  IN spans[x]

\* rank[i] of insertNode: the nodes passed down to level i.
Ranks(stop) ==
  LET rank[i \in 1..z.level] ==
        IF i = z.level THEN Spans(i, head, stop[i]) ELSE rank[i + 1] + Spans(i, stop[i + 1], stop[i])
  IN rank

\* Mutant of Precedes: equal scores are not passed.
PrecedesStrictly(n, obj, score) == z.node[n].score < score

\* Mutant of Precedes: the node looked for is passed, too.
PrecedesOrIs(n, obj, score) == z.node[n].score <= score

\* What insertNode and deleteNode pass on their way to (obj, score).
Precedes(n, obj, score) ==
  \/ z.node[n].score < score
  \/ z.node[n].score = score /\ z.node[n].obj # obj

Preceding(obj, score) == {n \in heap : Precedes(n, obj, score)}

-----------------------------------------------------------------------------
(* Inserting.  update[i] is where the search stopped on level i, the head  *)
(* for a level that is new; passed[i] is rank[0] - rank[i].                *)

\* The levels above the highest so far begin with the whole list in one span.
Raised(zlevel) ==
  [z.node EXCEPT ![head].level =
     [i \in 1..MaxLevel |-> IF i \in z.level + 1..zlevel THEN [@[i] EXCEPT !.zspan = z.len] ELSE @[i]]]

\* The levels of the new node, as many as the list has.
NewLevels(node, update, passed, zlevel) ==
  [i \in DOMAIN update |->
     IF i <= zlevel THEN [node[update[i]].level[i] EXCEPT !.zspan = @ - passed[i]] ELSE Nowhere]

\* Mutant of Spliced: the spans that lead over the new node stay.
SplicedUnder(node, y, x, update, passed, zlevel) ==
  [i \in DOMAIN node[y].level |->
     IF i <= zlevel /\ update[i] = y THEN [zforward |-> x, zspan |-> passed[i] + 1]
     ELSE node[y].level[i]]

\* The levels of the node y, with x inserted.
Spliced(node, y, x, update, passed, zlevel) ==
  [i \in DOMAIN node[y].level |->
     IF i \notin DOMAIN update \/ update[i] # y THEN node[y].level[i]
     ELSE IF i <= zlevel THEN [zforward |-> x, zspan |-> passed[i] + 1]
     ELSE [node[y].level[i] EXCEPT !.zspan = @ + 1]]

\* The list with the levels up to zlevel.
Raise(zlevel) ==
  [node |-> Raised(zlevel), tail |-> z.tail, len |-> z.len,
   level |-> IF zlevel > z.level THEN zlevel ELSE z.level]

\* The list l with the new node x.
Inserted(l, x, obj, score, update, passed, zlevel) ==
  LET new == [obj |-> obj, score |-> score,
              backward |-> IF update[1] = head THEN Null ELSE update[1],
              level |-> NewLevels(l.node, update, passed, zlevel)]
      next == new.level[1].zforward
  IN [node |-> [y \in DOMAIN l.node \cup {x} |->
                  IF y = x THEN new
                  ELSE [l.node[y] EXCEPT
                          !.level = Spliced(l.node, y, x, update, passed, zlevel),
                          !.backward = IF y = next THEN x ELSE @]],
      tail |-> IF next = Null THEN x ELSE l.tail,
      len |-> l.len + 1,
      level |-> l.level]

insertNode(obj, score) ==
  LET stop == Stops(Preceding(obj, score))
      rank == Ranks(stop)
  IN \E zlevel \in 1..MaxLevel, x \in Addr \ heap :
       LET l == Raise(zlevel)
           update == [i \in 1..l.level |-> IF i <= z.level THEN stop[i] ELSE head]
           passed == [i \in 1..l.level |-> IF i <= z.level THEN rank[1] - rank[i] ELSE rank[1]]
       IN z' = Inserted(l, x, obj, score, update, passed, zlevel)

-----------------------------------------------------------------------------
(* Deleting.  deleteNode and deleteRange take a node out in the same way.  *)

\* Mutant of Lowered: the list keeps its height.
LoweredNot(node, level) == level

\* Levels that have become empty go.
Lowered(node, level) ==
  CHOOSE i \in 1..level :
    /\ i = 1 \/ node[head].level[i].zforward # Null
    /\ \A j \in i + 1..level : node[head].level[j].zforward = Null

\* Mutant of TailWithout: it stays.
TailWithoutNot(l, gone) == l.tail

\* The tail, once the node gone has been taken out.
TailWithout(l, gone) == IF gone.level[1].zforward = Null THEN gone.backward ELSE l.tail

\* The levels of the node y, without x.
Bypassed(l, y, x, update) ==
  [i \in DOMAIN l.node[y].level |->
     LET at == l.node[y].level[i]
         gone == l.node[x].level[i]
     IN IF i > l.level \/ update[i] # y THEN at
        ELSE IF at.zforward = x
          THEN [zforward |-> gone.zforward, zspan |-> at.zspan + gone.zspan - 1]
        ELSE [at EXCEPT !.zspan = @ - 1]]

\* The list l without its node x.
Unlinked(l, x, update) ==
  LET gone == l.node[x]
      next == gone.level[1].zforward
      node == [y \in DOMAIN l.node \ {x} |->
                 [l.node[y] EXCEPT !.level = Bypassed(l, y, x, update),
                                   !.backward = IF y = next THEN gone.backward ELSE @]]
  IN [node |-> node,
      tail |-> TailWithout(l, gone),
      len |-> l.len - 1,
      level |-> Lowered(node, l.level)]

\* The node a search for (obj, score) ends in front of.
Found(stop) == forward(stop[1], 1)

\* The node found is deleted even if it is not the one that was asked for, and
\* then it is still linked.
deleteNode(obj, score) ==
  LET stop == Stops(Preceding(obj, score))
      x == Found(stop)
  IN IF x = Null
       THEN UNCHANGED vars
     ELSE IF z.node[x].score = score /\ z.node[x].obj = obj
       THEN z' = Unlinked(z, x, stop) /\ UNCHANGED usable
     ELSE usable' = FALSE /\ UNCHANGED z

-----------------------------------------------------------------------------
(* Ranges.                                                                 *)

\* Mutant of valueGteMin: an excluded minimum is let in.
valueGteMinAlways(score, r) == score >= r.zmin

valueGteMin(score, r) == IF r.zminex THEN score > r.zmin ELSE score >= r.zmin

valueLteMax(score, r) == IF r.zmaxex THEN score < r.zmax ELSE score <= r.zmax

\* The nodes of S from x on, on level i, up to the first that is not of S.
From(x, i, S) ==
  LET run[n \in Tall(i) \cup {Null}] ==
        IF n \in S THEN <<n>> \o run[forward(n, i)] ELSE <<>>
  IN run[x]

BelowMin(r) == Stops({n \in heap : ~valueGteMin(z.node[n].score, r)})

getNodeInRange(r) ==
  From(Found(BelowMin(r)), 1, {n \in heap : valueLteMax(z.node[n].score, r)})

getCountInRange(r) == Len(getNodeInRange(r))

isInRange(r) ==
  /\ ~(r.zmin > r.zmax \/ (r.zmin = r.zmax /\ (r.zminex \/ r.zmaxex)))
  /\ z.tail # Null /\ valueGteMin(z.node[z.tail].score, r)
  /\ forward(head, 1) # Null /\ valueLteMax(z.node[forward(head, 1)].score, r)

getFirstInRange(r) ==
  LET x == Found(BelowMin(r))
  IN IF isInRange(r) /\ valueLteMax(z.node[x].score, r) THEN x ELSE Null

deleteRange(r) ==
  LET update == BelowMin(r)
      nodes == getNodeInRange(r)
      after[n \in 0..Len(nodes)] ==
        IF n = 0 THEN z ELSE Unlinked(after[n - 1], nodes[n], update)
  IN /\ z' = after[Len(nodes)]
     /\ UNCHANGED usable

-----------------------------------------------------------------------------
Next ==
  /\ usable
  /\ \/ \E m \in Members : insertNode(m.obj, m.score) /\ UNCHANGED usable
     \/ \E m \in Members : deleteNode(m.obj, m.score)
     \/ \E r \in Ranges : deleteRange(r)

Spec == Init /\ [][Next]_vars

-----------------------------------------------------------------------------
(* Properties.                                                             *)

\* The nodes of level i, in their order.
OnLevel(i) == From(forward(head, i), i, heap)

Order == OnLevel(1)

Place(x) == IF x = head THEN 0 ELSE CHOOSE p \in 1..Len(Order) : Order[p] = x

\* Every level leads through a part of the lowest in the same order, and every
\* span is the number of nodes it leads over, after the last node of a level
\* the number of those that follow; no level but the lowest is empty
\* (Skiplist.cc:72-96, 129-147, 290-307).
SpansCount ==
  /\ z.len = Len(Order)
  /\ z.level > 1 => OnLevel(z.level) # <<>>
  /\ \A i \in 1..z.level : \A x \in {head} \cup Range(OnLevel(i)) :
       LET n == forward(x, i)
       IN /\ z.node[x].level[i].zspan = (IF n = Null THEN z.len ELSE Place(n)) - Place(x)
          /\ n # Null => Place(n) > Place(x)

\* Backwards from the tail the list is the same as forwards: the destructor,
\* which goes that way, deletes every node once (Skiplist.cc:21-31, 100-105).
BackwardMirrors ==
  /\ Range(Order) = heap
  /\ z.tail = IF Order = <<>> THEN Null ELSE Last(Order)
  /\ \A p \in 1..Len(Order) : z.node[Order[p]].backward = IF p = 1 THEN Null ELSE Order[p - 1]

\* A range query finds the members whose score is in the range, and no others,
\* in their order, although it gets to the first of them on the upper levels
\* (Skiplist.cc:152-186, 206-248).
RangesFound ==
  \A r \in Ranges :
    LET found == getNodeInRange(r)
    IN /\ Range(found) = {n \in heap : valueGteMin(z.node[n].score, r) /\ valueLteMax(z.node[n].score, r)}
       /\ \A p, q \in 1..Len(found) : p < q => Place(found[p]) < Place(found[q])
       /\ getFirstInRange(r) = IF found = <<>> THEN Null ELSE found[1]

\* A member that shares its score with no other is found (Skiplist.cc:114-126).
\* Among equal scores an upper level may lead past it.
SoleScoresFound ==
  \A n \in heap :
    (\A m \in heap \ {n} : z.node[m].score # z.node[n].score)
      => Found(Stops(Preceding(z.node[n].obj, z.node[n].score))) = n

\* The zset of Database that the list is.
zset == [p \in 1..Len(Order) |-> [obj |-> z.node[Order[p]].obj, score |-> z.node[Order[p]].score]]

List == INSTANCE SortedList WITH
          list <- zset,
          Ranges <- {{s \in Scores : valueGteMin(s, r) /\ valueLteMax(s, r)} : r \in Ranges}

\* Whatever the heights of its nodes, the skip list is the sorted list that
\* Database takes a zset for (Skiplist.cc:48-150, 271-313).
RefinesSortedList == List!Spec
=============================================================================
