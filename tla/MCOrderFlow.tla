---------------------------- MODULE MCOrderFlow ----------------------------
(***************************************************************************)
(* OrderFlow on one order, two couriers and two handlers: c1 drives a car, *)
(* c2 rides a bicycle, the transport no message can name.                  *)
(***************************************************************************)
EXTENDS OrderBoards, TLC

CONSTANTS o1, o2, c1, c2, h1, h2

Symmetry == Permutations(Handlers)

MCTransport == [c \in Couriers |-> IF c = c2 THEN "bicycle" ELSE "car"]

\* An order paid by card and two paid in cash, one of an institution where every
\* branch offers pickup.
MCTerms == {[method |-> "payme", platform |-> TRUE, listed |-> TRUE]}
           \cup [method : {"cash"}, platform : {TRUE}, listed : BOOLEAN]

\* One of them is enough for the runs on the assignment.
MCCash == [method : {"cash"}, platform : {TRUE}, listed : {TRUE}]

\* The statuses an operator sets; "ready" stands for the plain ones.
MCCrmStatuses == {"accepted", "ready", "shipped", "closed", "rejected"}

=============================================================================
