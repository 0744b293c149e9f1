---------------------------- MODULE MCStorefront ----------------------------
(* Two branches, the first one nearer; a week of two days of four moments.  *)
EXTENDS Storefront, TLC

CONSTANTS j1, j2, p1

\* Hours of the day, and of the night.
MCSchedules == {[start |-> 1, end |-> 2], [start |-> 3, end |-> 0]}
MCDistance == [b \in Branches |-> b]
MCSymmetry == Permutations({j1, j2})
=============================================================================
