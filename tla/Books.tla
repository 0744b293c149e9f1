--------------------------------- MODULE Books ---------------------------------
(***************************************************************************)
(* What the settlement of deliveries promises, whoever overlaps with whom: *)
(* an order is paid out only by a closing that began while the order was   *)
(* open, each such closing pays at most once, it pays all that is owed or   *)
(* nothing, and paying and closing the order are one step.                 *)
(*                                                                         *)
(* It does not promise that an order is paid once: two closings may begin  *)
(* before either finishes, and a closed order may be opened again.         *)
(***************************************************************************)
EXTENDS Integers

CONSTANTS
    Orders,   \* orders
    Closers,  \* whoever can be closing an order
    Owed      \* what the courier is owed for each order

VARIABLES
    state,    \* "open" or "closed"
    closing,  \* the closings that have begun and not finished
    paid      \* what has been paid out for the order

bookVars == <<state, closing, paid>>

Init ==
    /\ state = [o \in Orders |-> "open"]
    /\ closing = [o \in Orders |-> {}]
    /\ paid = [o \in Orders |-> 0]

Begin(o, h) ==
    /\ state[o] = "open"
    /\ h \notin closing[o]
    /\ closing' = [closing EXCEPT ![o] = @ \cup {h}]
    /\ UNCHANGED <<state, paid>>

Finish(o, h) ==
    /\ h \in closing[o]
    /\ closing' = [closing EXCEPT ![o] = @ \ {h}]
    /\ state' = [state EXCEPT ![o] = "closed"]
    /\ paid' = [paid EXCEPT ![o] = @ + Owed[o]]

GiveUp(o, h) ==
    /\ h \in closing[o]
    /\ closing' = [closing EXCEPT ![o] = @ \ {h}]
    /\ UNCHANGED <<state, paid>>

Reopen(o) ==
    /\ state[o] = "closed"
    /\ state' = [state EXCEPT ![o] = "open"]
    /\ UNCHANGED <<closing, paid>>

Next ==
    \E o \in Orders :
        \/ Reopen(o)
        \/ \E h \in Closers : Begin(o, h) \/ Finish(o, h) \/ GiveUp(o, h)

Spec == Init /\ [][Next]_bookVars

=============================================================================
