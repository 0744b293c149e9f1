---------------------------- MODULE MCCatalogue ----------------------------
(* One institution: a second and a third product, branch and category may   *)
(* come; the menu of r_keeper has one item.                                 *)
EXTENDS Catalogue, TLC

CONSTANTS j1, j2, j3, i1

MCWorkers  == {j1, j2, j3}
MCSymmetry == Permutations(MCWorkers)

=============================================================================
