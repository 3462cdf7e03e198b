----------------------------- MODULE MCSkiplist -----------------------------
(* A small instance of Skiplist for TLC.  With two members and two scores   *)
(* there are ties, and the same member twice; ranges are open and closed,   *)
(* and one is empty.                                                        *)
EXTENDS Skiplist

CONSTANTS k, m1, m2, a1, a2, a3, a4

MCTexts == {m1, m2}
MCAddr == {a1, a2, a3, a4}
MCRanges ==
  {[zmin |-> a, zmax |-> b, zminex |-> x, zmaxex |-> y] :
     a \in {0, 1}, b \in {1, 2}, x \in BOOLEAN, y \in BOOLEAN}
MCSymmetry == Permutations(MCAddr)
=============================================================================
