----------------------------- MODULE MCCaching -----------------------------
(* A small instance of Caching, and of the LRUCache in it, for TLC: three   *)
(* keys for a cache of two entries, so that one of them is always dropped,  *)
(* and one address more than there are nodes.  Two texts replace each other *)
(* in a string, and two scores order a zset.  Hashes and sets are left to   *)
(* the proof: TLC cannot compare a hash with a sequence, and both would be  *)
(* among the values.                                                        *)
EXTENDS Caching, TLC

CONSTANTS k1, k2, k3, a1, a2, a3, a4, x

MCKeys == {k1, k2, k3}
MCTexts == {x, Blank}
MCAddr == {a1, a2, a3, a4}
MCKinds == {"string", "list", "zset"}
MCValues ==
  MCTexts \cup UNION {[1..n -> {x}] : n \in 0..2}
          \cup UNION {[1..n -> [obj : {x}, score : Scores]] : n \in 1..2}
MCSymmetry == Permutations(MCAddr)
=============================================================================
