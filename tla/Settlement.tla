------------------------------- MODULE Settlement -------------------------------
(***************************************************************************)
(* The money of a delivery: the couriers' balances and their Transaction   *)
(* rows (courier/models.py), the institutions' balances, and the handlers  *)
(* that write those rows: the closing of an order                          *)
(* (order/status_controller.py), the assignment, the courier app, and the  *)
(* CRM's couriers and institutions.                                        *)
(*                                                                         *)
(* A closing adds to the courier's balance with an F() update, which the   *)
(* database applies to the committed value; everything else that touches a *)
(* courier loads the object and saves EVERY column, balance included, and  *)
(* the institution's balance is read, changed in memory and saved.         *)
(* "raced" records the rows that were changed while another request held   *)
(* them in memory.                                                         *)
(*                                                                         *)
(* Orders start accepted and without a courier; how they get there, their  *)
(* payments and their timeline are in OrderFlow.  The orders here are ones *)
(* a courier of the platform delivers, of one item group each.             *)
(***************************************************************************)
EXTENDS Integers, FiniteSets

CONSTANTS
    Orders,        \* orders
    Couriers,      \* couriers
    Institutions,  \* institutions
    Handlers,      \* requests that can be in flight at once
    NoCourier,     \* order.courier is None
    NoJob,         \* a handler that serves no request
    Terms,         \* what each order was created with
    ActiveLimit,   \* active orders a courier may hold (3 in the code)
    MoveStatuses,  \* statuses other handlers give an order
    OwnStatuses,   \* statuses given to a courier by himself or an operator
    Balances,      \* balances an operator gives a courier
    TopupAmounts,  \* amounts a courier tops up by
    MaxRequests    \* bound: requests served in a behaviour

Statuses        == {"accepted", "ready", "shipped", "incident", "closed", "rejected"}
Active          == {"accepted", "shipped"}
Completed       == {"closed", "rejected"}
CourierStatuses == {"free", "in_institution", "delivering", "inactive"}

\* hold: a cash order whose products the courier pays for (uuid or is_holding).
Term == [method : {"cash", "payme", "terminal"}, hold : BOOLEAN, place : Institutions,
         products : Nat, delivering : Nat, discount : Nat, commission : Nat, total : Nat]

OrderRow   == [status : Statuses, courier : Couriers \cup {NoCourier}]
CourierRow == [balance : Int, status : CourierStatuses, deleted : BOOLEAN]

\* Requests in flight, with the rows they loaded.
CloseJob   == [kind : {"close"}, stage : {"loaded", "read", "locked"}, order : Orders,
               row : OrderRow, payee : Couriers \cup {NoCourier}, seen : Int]
AssignJob  == [kind : {"assign"}, order : Orders, id : Couriers, own : CourierRow]
RowJob     == [kind : {"row"}, id : Couriers, own : CourierRow, to : CourierRow]
ReplaceJob == [kind : {"replace"}, stage : {"loaded", "freed", "named"}, order : Orders,
               row : OrderRow, own : CourierRow \cup {NoCourier}, new : Couriers \cup {NoCourier}]
MoveJob    == [kind : {"move"}, order : Orders, row : OrderRow]
PlaceJob   == [kind : {"place"}, place : Institutions, seen : Int]
Job        == CloseJob \cup AssignJob \cup RowJob \cup ReplaceJob \cup MoveJob \cup PlaceJob

ASSUME TermsAssumption == Terms \in [Orders -> Term]
ASSUME InputAssumption == /\ MoveStatuses \subseteq Statuses \ {"accepted", "closed"}
                          /\ OwnStatuses \subseteq CourierStatuses
                          /\ Balances \subseteq Int /\ TopupAmounts \subseteq Int
ASSUME BoundAssumption == ActiveLimit \in Nat /\ MaxRequests \in Nat
ASSUME SentinelAssumption == NoCourier \notin Couriers /\ NoJob \notin Job

VARIABLES
    order,        \* the committed row of each order
    courier,      \* the committed row of each courier
    ledger,       \* sum of a courier's Transaction rows that name an order
    topups,       \* sum of a courier's Transaction rows that name none
    paid,         \* sum of the Transaction rows that name an order, by order
    institution,  \* the committed balance of each institution
    job,          \* what each handler is doing
    requests,     \* requests served so far (bounded by MaxRequests)
    opening,      \* history: the balance an operator gave, less the ledger then
    accrued,      \* history: what closings have owed an institution
    held,         \* history: the couriers an order has had
    raced,        \* history: rows changed while another request held them
    again         \* history: orders opened again, or closed by two closings at once

rowVars  == <<order, courier, ledger, topups, paid, institution>>
histVars == <<opening, accrued, held, raced, again>>
vars     == <<rowVars, job, requests, histVars>>

-----------------------------------------------------------------------------
(* The two sums of a closing.                                              *)

\* What the courier's account gets: the delivery if the customer paid by
\* card; the discount, less the products he paid for, if he took cash.
Owed == [o \in Orders |->
    LET t == Terms[o] IN
    IF t.method = "payme" THEN t.delivering
    ELSE IF t.method = "cash" THEN t.discount - (IF t.hold THEN t.products ELSE 0)
    ELSE 0]

\* What the institution's balance gets: the commission taken off, and the
\* products if the customer paid by card.
Due == [o \in Orders |->
    LET t == Terms[o] IN
    IF t.method = "payme" THEN t.products - t.commission ELSE 0 - t.commission]

-----------------------------------------------------------------------------
(* Rows held in memory.                                                    *)

Kind(h)     == IF job[h] = NoJob THEN "none" ELSE job[h].kind
Closing(o)  == {h \in Handlers : Kind(h) = "close" /\ job[h].order = o}

\* The handler has the courier's row in memory and is going to save all of it.
HoldsCourier(h, c) ==
    \/ Kind(h) \in {"assign", "row"} /\ job[h].id = c
    \/ Kind(h) = "replace" /\ job[h].stage = "loaded" /\ job[h].row.courier = c

\* The handler has the institution's balance in memory and is going to save it.
HoldsPlace(h, i) ==
    \/ Kind(h) = "place" /\ job[h].place = i
    \/ Kind(h) = "close" /\ job[h].stage # "loaded" /\ Terms[job[h].order].place = i

\* A balance changes under another request that holds the row.
Race(h) ==
    raced' = raced
      \cup {c \in Couriers : /\ courier'[c].balance # courier[c].balance
                             /\ \E g \in Handlers \ {h} : HoldsCourier(g, c)}
      \cup {i \in Institutions : /\ institution'[i] # institution[i]
                                 /\ \E g \in Handlers \ {h} : HoldsPlace(g, i)}

\* The order is opened again, or closed while another closing of it is going on.
Repeat(h, o) ==
    again' = IF \/ order[o].status = "closed" /\ order'[o].status # "closed"
                \/ order'[o].status = "closed" /\ Closing(o) \ {h} # {}
             THEN again \cup {o} ELSE again

Init ==
    /\ order = [o \in Orders |-> [status |-> "accepted", courier |-> NoCourier]]
    /\ courier = [c \in Couriers |-> [balance |-> 0, status |-> "inactive", deleted |-> FALSE]]
    /\ ledger = [c \in Couriers |-> 0]
    /\ topups = [c \in Couriers |-> 0]
    /\ paid = [o \in Orders |-> 0]
    /\ institution = [i \in Institutions |-> 0]
    /\ job = [h \in Handlers |-> NoJob]
    /\ requests = 0
    /\ opening = [c \in Couriers |-> 0]
    /\ accrued = [i \in Institutions |-> 0]
    /\ held = [o \in Orders |-> {}]
    /\ raced = {}
    /\ again = {}

-----------------------------------------------------------------------------
(* Loading.                                                                *)

Start(h, j) ==
    /\ job[h] = NoJob
    /\ requests < MaxRequests
    /\ requests' = requests + 1
    /\ job' = [job EXCEPT ![h] = j]
    /\ UNCHANGED <<rowVars, histVars>>

\* (Mutant: the check for the same status is missing.)
RefusesOnlyWithoutCourier(row, s) == row.courier = NoCourier

\* update_order_status gives up on the object it is given.
Refuses(row, s) == row.courier = NoCourier \/ row.status = s

\* CloseOrderView puts the caller on the object; the CRM closes it as loaded.
CloseOrder(h, o, row) ==
    /\ ~Refuses(row, "closed")
    /\ Start(h, [kind |-> "close", stage |-> "loaded", order |-> o, row |-> row,
                 payee |-> NoCourier, seen |-> 0])

\* AssignOrderView.post: the order's status and the courier's row.
AssignOrder(h, o, c) ==
    /\ order[o].status = "accepted"
    /\ Start(h, [kind |-> "assign", order |-> o, id |-> c, own |-> courier[c]])

\* A request that changes the courier's row as loaded and saves it whole.
SaveCourier(h, c, to) ==
    Start(h, [kind |-> "row", id |-> c, own |-> courier[c], to |-> to])

\* ChangeStatusView.post: the courier says that he is at the institution.
Arrive(h, o, c) ==
    /\ order[o].status = "accepted" /\ order[o].courier \in {NoCourier, c}
    /\ SaveCourier(h, c, [courier[c] EXCEPT !.status = "in_institution"])

\* ChangeCourierStatus.post, and an operator's edit of the status.
ChangeCourierStatus(h, c, s) ==
    SaveCourier(h, c, [courier[c] EXCEPT !.status = s])

\* CourierViewSet.partial_update with a balance.
EditBalance(h, c, b) ==
    /\ ~courier[c].deleted
    /\ SaveCourier(h, c, [courier[c] EXCEPT !.balance = b])

\* CourierViewSet.destroy
DeleteCourier(h, c) ==
    /\ ~courier[c].deleted
    /\ courier[c].status # "delivering"
    /\ SaveCourier(h, c, [courier[c] EXCEPT !.deleted = TRUE])

\* OrderViewSet.change_courier: the order and, with it, its current courier.
ChangeCourier(h, o, c) ==
    /\ order[o].status \notin Completed
    /\ Start(h, [kind |-> "replace", stage |-> "loaded", order |-> o, row |-> order[o],
                 own |-> IF order[o].courier = NoCourier THEN NoCourier
                         ELSE courier[order[o].courier],
                 new |-> c])

\* Another handler loads the order to give it a status.
MoveOrder(h, o, s) ==
    /\ ~Refuses(order[o], s)
    /\ Start(h, [kind |-> "move", order |-> o, row |-> [order[o] EXCEPT !.status = s]])

\* InstitutionViewSet: an edit that leaves the balance alone.
EditInstitution(h, i) ==
    Start(h, [kind |-> "place", place |-> i, seen |-> institution[i]])

\* Topup.post writes a Transaction row and leaves the balance.
Topup(c, amount) ==
    /\ requests < MaxRequests
    /\ requests' = requests + 1
    /\ topups' = [topups EXCEPT ![c] = @ + amount]
    /\ UNCHANGED <<order, courier, ledger, paid, institution, job, histVars>>

-----------------------------------------------------------------------------
(* The closing of an order, from update_order_status on.                   *)

Finish(h) == job' = [job EXCEPT ![h] = NoJob] /\ UNCHANGED requests

\* The institution's balance is read, to be saved at the end.
CloseRead(h) ==
    /\ Kind(h) = "close" /\ job[h].stage = "loaded"
    /\ job' = [job EXCEPT ![h].stage = "read",
                          ![h].seen = institution[Terms[job[h].order].place]]
    /\ UNCHANGED <<rowVars, requests, histVars>>

\* The courier paid is the one of the order in the table.
Payee(h) == order[job[h].order].courier

\* group.save() takes the row lock of the item group, which keeps other
\* closings of the order out until the commit; then the courier is looked up.
\* Without a courier the code raises, and Abort is all that is left.
CloseLock(h) ==
    /\ Kind(h) = "close" /\ job[h].stage = "read"
    /\ \A g \in Closing(job[h].order) : job[g].stage # "locked"
    /\ Payee(h) # NoCourier
    /\ job' = [job EXCEPT ![h].stage = "locked", ![h].payee = Payee(h)]
    /\ UNCHANGED <<rowVars, requests, histVars>>

\* (Mutant: the closing writes the row of the Transaction, not the balance.)
CreditedNot(c, o) == courier

\* update_balance: an F() update of the committed row.
Credited(c, o) == [courier EXCEPT ![c].balance = @ + Owed[o]]

\* (Mutant: the commission is not taken off.)
PlaceSavedAsRead(h) == [institution EXCEPT ![Terms[job[h].order].place] = job[h].seen]

\* institution.save() with the balance read before.
PlaceSaved(h) ==
    LET o == job[h].order IN
    [institution EXCEPT ![Terms[o].place] = job[h].seen + Due[o]]

\* Everything the transaction wrote becomes visible: the payout, the
\* institution's balance as read plus what is due, the order as loaded.
CloseCommit(h) ==
    LET o == job[h].order
        c == job[h].payee
        m == job[h].row.courier IN
    /\ Kind(h) = "close" /\ job[h].stage = "locked"
    /\ courier' = Credited(c, o)
    /\ ledger' = [ledger EXCEPT ![c] = @ + Owed[o]]
    /\ paid' = [paid EXCEPT ![o] = @ + Owed[o]]
    /\ institution' = PlaceSaved(h)
    /\ accrued' = [accrued EXCEPT ![Terms[o].place] = @ + Due[o]]
    /\ order' = [order EXCEPT ![o] = [status |-> "closed", courier |-> m]]
    /\ held' = [held EXCEPT ![o] = @ \cup {m}]
    /\ Finish(h)
    /\ UNCHANGED <<topups, opening>>
    /\ Race(h)
    /\ Repeat(h, o)

-----------------------------------------------------------------------------
(* The other commits.                                                      *)

ActiveOrders(c) == {o \in Orders : order[o].courier = c /\ order[o].status \in Active}

\* OrderAssignmentValidator, on the locked order and the courier as loaded.
MayAssign(o, c, own) ==
    /\ order[o].courier = NoCourier
    /\ Cardinality(ActiveOrders(c)) < ActiveLimit
    /\ Terms[o].method = "cash" /\ Terms[o].hold => own.balance >= Terms[o].total

\* The row lock of the order makes the check and the two saves one step; the
\* courier's row is saved as loaded before it.
AssignCommit(h) ==
    LET o == job[h].order
        c == job[h].id IN
    /\ Kind(h) = "assign"
    /\ MayAssign(o, c, job[h].own)
    /\ order' = [order EXCEPT ![o].courier = c]
    /\ held' = [held EXCEPT ![o] = @ \cup {c}]
    /\ courier' = [courier EXCEPT ![c] = [job[h].own EXCEPT !.status = "delivering"]]
    /\ Finish(h)
    /\ UNCHANGED <<ledger, topups, paid, institution, opening, accrued, again>>
    /\ Race(h)

\* courier.save(): all columns.  A balance that differs from the one loaded is
\* what an operator gave, and the account starts anew from it.
RowCommit(h) ==
    LET c == job[h].id IN
    /\ Kind(h) = "row"
    /\ courier' = [courier EXCEPT ![c] = job[h].to]
    /\ opening' = IF job[h].to.balance = job[h].own.balance THEN opening
                  ELSE [opening EXCEPT ![c] = job[h].to.balance - ledger[c]]
    /\ Finish(h)
    /\ UNCHANGED <<order, ledger, topups, paid, institution, accrued, held, again>>
    /\ Race(h)

\* change_order_courier, first step: the current courier, if he has no active
\* order left, is set free and saved as loaded with the order.
ReplaceFree(h) ==
    LET c == job[h].row.courier IN
    /\ Kind(h) = "replace" /\ job[h].stage = "loaded"
    /\ courier' = IF c # NoCourier /\ ActiveOrders(c) = {}
                  THEN [courier EXCEPT ![c] = [job[h].own EXCEPT !.status = "free"]]
                  ELSE courier
    /\ job' = [job EXCEPT ![h].stage = "freed"]
    /\ UNCHANGED <<order, ledger, topups, paid, institution, requests, opening, accrued, held, again>>
    /\ Race(h)

\* Second step: the new courier's status, and that column only.
ReplaceName(h) ==
    LET c == job[h].new IN
    /\ Kind(h) = "replace" /\ job[h].stage = "freed"
    /\ courier' = IF c = NoCourier THEN courier
                  ELSE [courier EXCEPT ![c].status = "delivering"]
    /\ job' = [job EXCEPT ![h].stage = "named"]
    /\ UNCHANGED <<order, ledger, topups, paid, institution, requests, histVars>>

\* Third step: order.save().
ReplaceSave(h) ==
    LET o == job[h].order
        c == job[h].new IN
    /\ Kind(h) = "replace" /\ job[h].stage = "named"
    /\ order' = [order EXCEPT ![o] = [job[h].row EXCEPT !.courier = c]]
    /\ held' = [held EXCEPT ![o] = @ \cup ({c} \ {NoCourier})]
    /\ Repeat(h, o)
    /\ Finish(h)
    /\ UNCHANGED <<courier, ledger, topups, paid, institution, opening, accrued, raced>>

MoveCommit(h) ==
    LET o == job[h].order IN
    /\ Kind(h) = "move"
    /\ order' = [order EXCEPT ![o] = job[h].row]
    /\ held' = [held EXCEPT ![o] = @ \cup {job[h].row.courier}]
    /\ Repeat(h, o)
    /\ Finish(h)
    /\ UNCHANGED <<courier, ledger, topups, paid, institution, opening, accrued, raced>>

PlaceCommit(h) ==
    /\ Kind(h) = "place"
    /\ institution' = [institution EXCEPT ![job[h].place] = job[h].seen]
    /\ Finish(h)
    /\ UNCHANGED <<order, courier, ledger, topups, paid, opening, accrued, held, again>>
    /\ Race(h)

\* The request raises, is refused, or its process dies: a transaction that was
\* open is rolled back, what had been committed stays.
Abort(h) ==
    /\ job[h] # NoJob
    /\ Finish(h)
    /\ UNCHANGED <<rowVars, histVars>>

-----------------------------------------------------------------------------

Begin(h) ==
    \/ \E o \in Orders :
         \/ CloseOrder(h, o, order[o])
         \/ \E c \in Couriers : \/ CloseOrder(h, o, [order[o] EXCEPT !.courier = c])
                                \/ AssignOrder(h, o, c)
                                \/ Arrive(h, o, c)
         \/ \E c \in Couriers \cup {NoCourier} : ChangeCourier(h, o, c)
         \/ \E s \in MoveStatuses : MoveOrder(h, o, s)
    \/ \E c \in Couriers :
         \/ \E s \in OwnStatuses : ChangeCourierStatus(h, c, s)
         \/ \E b \in Balances : EditBalance(h, c, b)
         \/ DeleteCourier(h, c)
    \/ \E i \in Institutions : EditInstitution(h, i)

Step(h) ==
    \/ CloseRead(h) \/ CloseLock(h) \/ CloseCommit(h)
    \/ AssignCommit(h) \/ RowCommit(h)
    \/ ReplaceFree(h) \/ ReplaceName(h) \/ ReplaceSave(h)
    \/ MoveCommit(h) \/ PlaceCommit(h) \/ Abort(h)

Next ==
    \/ \E h \in Handlers : Begin(h) \/ Step(h)
    \/ \E c \in Couriers, amount \in TopupAmounts : Topup(c, amount)

Spec == Init /\ [][Next]_vars

-----------------------------------------------------------------------------
(* Properties.                                                             *)

\* What a request in flight has in memory fits the tables.
JobOK(h) ==
    /\ Kind(h) = "close" => job[h].row.courier # NoCourier
    /\ Kind(h) = "close" /\ job[h].stage = "locked" => job[h].payee \in Couriers
    /\ Kind(h) = "replace" /\ job[h].row.courier # NoCourier => job[h].own \in CourierRow
    /\ Kind(h) = "replace" => job[h].row.status \notin Completed
    /\ Kind(h) = "move" => /\ job[h].row.courier # NoCourier
                           /\ job[h].row.status \in MoveStatuses

\* Every variable has its type, an order being closed is known to have somebody
\* to pay before money moves, and only completed orders are kept from the
\* operator's change of courier.
TypeOK ==
    /\ order \in [Orders -> OrderRow]
    /\ courier \in [Couriers -> CourierRow]
    /\ ledger \in [Couriers -> Int] /\ topups \in [Couriers -> Int]
    /\ paid \in [Orders -> Int]
    /\ institution \in [Institutions -> Int]
    /\ job \in [Handlers -> Job \cup {NoJob}]
    /\ requests \in Nat
    /\ opening \in [Couriers -> Int]
    /\ accrued \in [Institutions -> Int]
    /\ held \in [Orders -> SUBSET Couriers]
    /\ raced \subseteq Couriers \cup Institutions
    /\ again \subseteq Orders
    /\ \A h \in Handlers : JobOK(h)

\* A courier's balance is what an operator gave him plus his Transaction rows
\* of orders since, unless a balance changed under a request that had the row
\* in memory: F() updates keep the two together, full-row saves do not.
LedgerKept ==
    \A c \in Couriers \ raced : courier[c].balance = opening[c] + ledger[c]

\* An institution's balance is the sum of what closings owed it, with the same
\* exception: no request in the middle loses or repeats a commission.
InstitutionKept ==
    \A i \in Institutions \ raced : institution[i] = accrued[i]

\* An order is paid out at most once, unless it was opened again after a closing
\* or two closings of it overlapped (a second tap, an operator and the courier).
PaidOnce ==
    \A o \in Orders \ again : paid[o] \in {0, Owed[o]}

\* Money of an order moves only on the account of a courier that the order has
\* had, whoever asks for the closing: the caller of CloseOrderView is put on
\* the object, but the courier paid is read from the table.
OnlyHoldersPaid ==
    [][\A c \in Couriers : ledger'[c] # ledger[c]
         => \E o \in Orders : c \in held[o] /\ order'[o].status = "closed"]_vars

\* The closings, as the books see them.
BooksState == [o \in Orders |-> IF order[o].status = "closed" THEN "closed" ELSE "open"]

Books == INSTANCE Books WITH Closers <- Handlers, state <- BooksState,
                             closing <- [o \in Orders |-> Closing(o)]

\* Settlement implements Books: an order is paid out only by a closing that
\* began while it was open, once, in full, and together with its closing.
PaysByTheBooks == Books!Spec

=============================================================================
