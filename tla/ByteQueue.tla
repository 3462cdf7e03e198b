----------------------------- MODULE ByteQueue -----------------------------
(***************************************************************************)
(* What a Buffer promises to its two users, the input and the output side  *)
(* of Acceptor: a queue of bytes without a bound.  What is put in comes    *)
(* out once, in order, and nothing else does.  Buffer implements it.       *)
(***************************************************************************)
EXTENDS Naturals, Sequences

CONSTANT Chunks   \* what is put in at once

VARIABLES
  queue,
  taken     \* what the last operation handed out

vars == <<queue, taken>>

Init == queue = <<>> /\ taken = <<>>

Put(data) == queue' = queue \o data /\ taken' = <<>>

PutFront(data) == queue' = data \o queue /\ taken' = <<>>

Skip(n) == queue' = SubSeq(queue, n + 1, Len(queue)) /\ taken' = <<>>

Take(n) == queue' = SubSeq(queue, n + 1, Len(queue)) /\ taken' = SubSeq(queue, 1, n)

Next ==
  \/ \E data \in Chunks : Put(data) \/ PutFront(data)
  \/ \E n \in 0..Len(queue) : Skip(n) \/ Take(n)

Spec == Init /\ [][Next]_vars
=============================================================================
