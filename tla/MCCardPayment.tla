--------------------------- MODULE MCCardPayment ---------------------------
(***************************************************************************)
(* CardPayment on one order with two totals and three receipts.            *)
(***************************************************************************)
EXTENDS CardPayment, TLC

CONSTANTS o1, h1, h2

Symmetry == Permutations(Handlers)

=============================================================================
