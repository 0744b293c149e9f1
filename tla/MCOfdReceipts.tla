--------------------------- MODULE MCOfdReceipts ---------------------------
(***************************************************************************)
(* OfdReceipts with two workers, two payments and two certificates.        *)
(***************************************************************************)
EXTENDS OfdReceipts, TLC

CONSTANTS p1, p2, c1, c2, w1, w2

Symmetry == Permutations(Workers) \cup Permutations(Payments) \cup Permutations(Certs)

=============================================================================
