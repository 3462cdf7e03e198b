--------------------------- MODULE MCPersistence ---------------------------
(* Small instances of Persistence for TLC: two databases, one or two keys, *)
(* one or two texts that clients send, the blank one and one that stands   *)
(* for any other cut from the wrong bytes, and a clock that starts at 4,   *)
(* the first number that does not fit an int.  A deadline of 4 + 7 ends in *)
(* the bits of 3, a deadline of 4 + 1 in those of a negative int.          *)
EXTENDS Persistence, TLC

CONSTANTS k1, k2, v, w, Junk

MCKeys == {k1, k2}
MCTexts == {v, w, Blank, Junk}
MCArgs == {v, w}
MCCuts == {Blank, Junk}
MCOneScore == {1}
MCScores == {0, 1}
MCZero == {0}
MCTtls == {1}
MCFar == {7}
MCStrings == {"string"}
MCZsets == {"zset"}
MCObjects == {"list", "hash", "set", "zset"}
MCOneKey == {k1}
MCOneArg == {v}
MCKeySymmetry == Permutations(MCKeys)
=============================================================================
