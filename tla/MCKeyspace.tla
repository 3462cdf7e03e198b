----------------------------- MODULE MCKeyspace -----------------------------
(* A small instance of Keyspace for TLC: two keys, two texts of which one   *)
(* is blank, two scores.  The deadlines pexpire can set lie ahead of the    *)
(* clock, behind it, and so far behind that they are negative, which the    *)
(* code takes for no deadline.                                              *)
EXTENDS Keyspace, TLC

CONSTANTS k1, k2, v

MCKeys == {k1, k2}
MCTexts == {v, Blank}
MCScores == {1, 2}
MCTtls == {-1, 1}
MCSymmetry == Permutations(MCKeys)
=============================================================================
