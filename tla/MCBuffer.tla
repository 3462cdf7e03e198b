------------------------------ MODULE MCBuffer ------------------------------
(* A small instance of Buffer for TLC: two bytes, chunks of up to three of  *)
(* them, and sizes so small that the vector is moved, grows, and overflows  *)
(* to the stack within a few operations.                                    *)
EXTENDS Buffer

MCBytes == {0, 1}
MCChunks == UNION {[1..n -> MCBytes] : n \in 0..3}
=============================================================================
