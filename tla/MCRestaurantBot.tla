-------------------------- MODULE MCRestaurantBot --------------------------
(* Small instances of RestaurantBot.                                       *)
EXTENDS RestaurantBot

R(via, want, prep) == [via |-> via, want |-> want, prep |-> prep]
MCRequests == {R("update", "accepted", TRUE), R("update", "created", FALSE), R("assign", "accepted", FALSE),
               R("replace", "accepted", FALSE), R("process", "incident", FALSE)}

T(card, own, buttons, chats) == [card |-> card, own |-> own, buttons |-> buttons, chats |-> chats]
MCTerms    == {T(TRUE, TRUE, TRUE, 1), T(FALSE, FALSE, TRUE, 2)}

S(status, courier, messages, id, sent) ==
    [order |-> [status |-> status, courier |-> courier, process |-> FALSE],
     chat |-> messages, mid |-> id, announced |-> sent]
\* A new order; one whose message has arrived; one with a courier, to be cooked;
\* one on its way.
MCFound    == {S("created", FALSE, <<>>, 0, FALSE), S("created", FALSE, <<"accept">>, 1, TRUE),
               S("accepted", TRUE, <<"none", "ready">>, 1, TRUE), S("ready", TRUE, <<"none", "shipping">>, 1, TRUE)}
=============================================================================
