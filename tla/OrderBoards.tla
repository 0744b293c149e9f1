------------------------------ MODULE OrderBoards ------------------------------
(***************************************************************************)
(* The lists of orders that the apps, the panel and the CRM show, as sets  *)
(* of orders of OrderFlow.  Each is a query of its own; whoever does not   *)
(* find an order on his list does nothing about it.                        *)
(***************************************************************************)
EXTENDS OrderFlow

With(statuses) == {o \in Orders : order[o].status \in statuses}

\* What couriers who are looking for work see: the query asks for the institution
\* to have a branch without pickup, the validator of an assignment does not.
AvailableOrders == {o \in With({"accepted"}) : terms[o].listed /\ order[o].courier = NoCourier}

\* (Mutant: an order that left the restaurant is on nobody's list.)
CourierOrdersHere(c) ==
    {o \in With({"pending", "accepted", "ready"}) : order[o].courier = c}

\* What a courier has to do; an order in "cooking" or "incident" is not there.
CourierOrders(c) ==
    {o \in With({"pending", "accepted", "ready", "shipped"}) : order[o].courier = c}

\* What the restaurant works on; an order on its way is on neither of its lists.
ActiveList == With({"created", "cooking", "incident", "pending", "accepted", "ready"})

-----------------------------------------------------------------------------
Takes(o, status) == ~Refuses(order[o].status, order[o].courier, status)

\* The restaurant finds the order and has a button that brings it nearer to the
\* customer and is not refused; "accept" saves nothing on an order in process.
RestaurantCan(o) ==
    /\ o \in ActiveList
    /\ \/ order[o].status \in {"created", "pending"} /\ Takes(o, "accepted") /\ ~order[o].process
       \/ order[o].status = "accepted" /\ Takes(o, "cooking")
       \/ order[o].status \in {"accepted", "cooking"} /\ Takes(o, "ready")

\* A courier finds it, to take it or to bring it.
CourierCan(o) ==
    \/ o \in AvailableOrders
    \/ \E c \in Couriers : o \in CourierOrders(c) /\ (Takes(o, "shipped") \/ Takes(o, "closed"))

Tended(o) == order[o].status \in Completed \/ RestaurantCan(o) \/ CourierCan(o)

\* The steps that leave an order to nobody but an operator: the operator's own, the
\* restaurant's report that it is still processing the order or cannot make it,
\* and its accept of an order without courier that no courier is shown.
SetsAside(h, o) ==
    /\ Steps(h, o)
    /\ \/ job[h].via \in {"crm", "replace", "process", "incident"}
       \/ job[h].via = "accept" /\ ~terms[o].listed /\ order'[o].courier = NoCourier

\* Whatever the restaurant, the couriers and the customer do, and whatever
\* fails, an order that a courier of the platform may deliver goes on: it is
\* completed, or it is on the list of somebody whose request towards the customer
\* the code does not refuse.  Only one of the steps above, or a save over a row
\* that somebody else has changed since, leaves it with nobody.
NeverStranded ==
    [][\A o \in Orders :
         terms[o].platform /\ Tended(o) =>
            \/ Tended(o)'
            \/ o \in lost'
            \/ \E h \in Handlers : SetsAside(h, o)]_vars
=============================================================================
