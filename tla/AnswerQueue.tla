---------------------------- MODULE AnswerQueue ----------------------------
(***************************************************************************)
(* What the server's side of a connection promises of the answers it       *)
(* computes: they are handed to the kernel in the order they were computed *)
(* in, every unit of them once, in portions of any size.  Unlike ByteQueue *)
(* nothing is put in front and nothing is dropped.  Connection implements  *)
(* it.                                                                     *)
(***************************************************************************)
EXTENDS Naturals, Sequences

CONSTANT Answers   \* the answers there may be, each a sequence of units

VARIABLES
  queue,    \* computed, and not yet with the kernel
  taken     \* what the kernel took last

vars == <<queue, taken>>

Init == queue = <<>> /\ taken = <<>>

Put(answer) == queue' = queue \o answer /\ UNCHANGED taken

Take(n) == queue' = SubSeq(queue, n + 1, Len(queue)) /\ taken' = SubSeq(queue, 1, n)

Next ==
  \/ \E answer \in Answers : Put(answer)
  \/ \E n \in 1..Len(queue) : Take(n)

Spec == Init /\ [][Next]_vars
=============================================================================
