------------------------------ MODULE MCSettlement ------------------------------
(***************************************************************************)
(* Settlement on an order paid by card and one paid in cash whose products *)
(* the courier pays for, both of one institution.                          *)
(***************************************************************************)
EXTENDS Settlement, TLC

CONSTANTS card, cash, c1, c2, i1, h1, h2

MCTerms ==
    card :> [method |-> "payme", hold |-> FALSE, place |-> i1, products |-> 5,
             delivering |-> 2, discount |-> 0, commission |-> 1, total |-> 7]
    @@
    cash :> [method |-> "cash", hold |-> TRUE, place |-> i1, products |-> 3,
             delivering |-> 1, discount |-> 1, commission |-> 1, total |-> 3]

Symmetry == Permutations(Handlers) \cup Permutations(Couriers)

=============================================================================
