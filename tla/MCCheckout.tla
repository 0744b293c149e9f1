---------------------------- MODULE MCCheckout ----------------------------
(***************************************************************************)
(* Checkout and OrderViews with two requests of one customer, two requests *)
(* of operators, two products and one promo code.                          *)
(***************************************************************************)
EXTENDS OrderViews, TLC

CONSTANTS u1, p1, p2, c1, s1, s2, h1, h2

\* A small order from nearby; a larger one with a package from further away.
Small == [basket   |-> <<[product |-> p1, count |-> 1]>>,
          package  |-> [amount |-> 0, quantity |-> 0],
          distance |-> 1]
Large == [basket   |-> <<[product |-> p1, count |-> 1], [product |-> p2, count |-> 2]>>,
          package  |-> [amount |-> 2, quantity |-> 2],
          distance |-> 3]
MCOffers == {Small, Large}

\* An institution the platform delivers for; one that delivers by itself, for free,
\* and has no percentage of its own.
MCInstitutions == {[own |-> FALSE, tax |-> 15, taxOwn |-> 0, free |-> FALSE],
                   [own |-> TRUE, tax |-> NoTax, taxOwn |-> 5, free |-> TRUE]}
MCDelivery     == [minDistance |-> 2, minPrice |-> 100, perKm |-> 35]
MCStartName    == [c \in Codes |-> c]
MCPromoSum     == [c \in Codes |-> 35]
MCPromoMin     == [c \in Codes |-> 120]

Symmetry == Permutations(Shoppers) \cup Permutations(Staff)
===========================================================================
