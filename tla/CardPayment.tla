---------------------------- MODULE CardPayment ----------------------------
(***************************************************************************)
(* Paying an order by card: payme (order/services.py), make_payment and    *)
(* cancel_payment (payme/utils.py), called by update_order_status when the *)
(* order is accepted and when it is rejected.                              *)
(*                                                                         *)
(* The handlers talk to Payme in the middle of a database transaction.     *)
(* What Payme did stays done when the transaction rolls back, because an   *)
(* answer is lost, a later call raises or the worker is killed; so one     *)
(* accept is a sequence of steps here, each of which may be the last.      *)
(*                                                                         *)
(* Every order of this module is to be paid by a card the customer has     *)
(* given (payment_method "payme", cdt set).                                *)
(***************************************************************************)
EXTENDS Naturals, FiniteSets

CONSTANTS
    Orders,      \* orders
    Handlers,    \* request handlers that can be in flight at once
    NoJob,       \* a handler that serves no request
    NoOrder,     \* the order of a receipt not yet made
    Totals,      \* values of total_sum
    MaxReceipts, \* bound: receipts Payme makes
    MaxRequests  \* bound: requests served

Receipts  == 1..MaxReceipts
NoReceipt == 0

\* "later" stands for every other status, which only saves the order.
Statuses == {"created", "accepted", "rejected", "later"}

Row == [status  : Statuses,
        paid    : BOOLEAN,                     \* is_paid
        receipt : Receipts \cup {NoReceipt},   \* receipt_id
        total   : Totals]                      \* total_sum

\* A receipt of Payme: made; its payment answered with a state that is not "paid"
\* (being written off, held, paused); the money taken all the same; paid from the
\* card, and answered so; cancelled (and paid back).
Receipt == [state : {"none", "open", "waiting", "taken", "paid", "cancelled"},
            order : Orders \cup {NoOrder}]

\* A PaymePayment row; "id" is the first receipt it was saved with.
PaymePayment == [id : Receipts, order : Orders, total : Totals, receipt : Receipts,
                 state : {"open", "paid", "cancelled"}]

Kinds  == {"accept", "reject", "move", "edit"}
Stages == {"loaded",                          \* object loaded
           "exists",                          \* PaymePayment found paid: "Transaction exists"
           "created", "locked",               \* receipt made; receipt saved, order row locked
           "charged", "declined", "pending",  \* what receipts.pay came to
           "cancelled", "refused"}            \* what receipts.cancel came to

\* A request in flight: the object as loaded, the receipt it works on, the
\* PaymePayment it found (NoReceipt when there is none) and the total it sets.
Job == [kind    : Kinds,
        order   : Orders,
        stage   : Stages,
        row     : Row,
        receipt : Receipts \cup {NoReceipt},
        found   : Receipts \cup {NoReceipt},
        total   : Totals]

ASSUME BoundAssumption    == MaxReceipts \in Nat /\ MaxRequests \in Nat
ASSUME SentinelAssumption == NoJob \notin Job

VARIABLES
    order,     \* the committed row of each order
    pays,      \* PaymePayment rows
    payments,  \* number of Payment rows of each order
    payme,     \* Payme's receipts
    job,       \* what each handler is doing
    requests,  \* requests served so far
    charged,   \* history: receipts whose payment Payme ever carried out at once
    trouble    \* history: orders on which handlers overlapped, a transaction
               \* that had reached Payme rolled back, or Payme refused a refund

dbVars == <<order, pays, payments>>
vars   == <<dbVars, payme, job, requests, charged, trouble>>

Init ==
    /\ order \in [Orders -> [status : {"created"}, paid : {FALSE}, receipt : {NoReceipt}, total : Totals]]
    /\ pays = {}
    /\ payments = [o \in Orders |-> 0]
    /\ payme = [r \in Receipts |-> [state |-> "none", order |-> NoOrder]]
    /\ job = [h \in Handlers |-> NoJob]
    /\ requests = 0
    /\ charged = {}
    /\ trouble = {}

-----------------------------------------------------------------------------
(* Entry points.                                                           *)

Busy(o) == \E h \in Handlers : job[h] # NoJob /\ job[h].order = o

Load(h, o, kind, t) ==
    /\ job[h] = NoJob
    /\ requests < MaxRequests
    /\ requests' = requests + 1
    /\ job' = [job EXCEPT ![h] =
                  [kind |-> kind, order |-> o, stage |-> "loaded", row |-> order[o],
                   receipt |-> NoReceipt, found |-> NoReceipt, total |-> t]]
    /\ trouble' = IF Busy(o) THEN trouble \cup {o} ELSE trouble
    /\ UNCHANGED <<dbVars, payme, charged>>

\* update_order_status with "accepted"
Accept(h, o) ==
    /\ order[o].status # "accepted"
    /\ Load(h, o, "accept", order[o].total)

\* update_order_status with "rejected"
Reject(h, o) ==
    /\ order[o].status # "rejected"
    /\ Load(h, o, "reject", order[o].total)

\* update_order_status with any other status
Move(h, o) ==
    /\ order[o].status # "later"
    /\ Load(h, o, "move", order[o].total)

\* recalculate_order_products, after an edit of the items
EditItems(h, o, t) ==
    /\ t # order[o].total
    /\ Load(h, o, "edit", t)

-----------------------------------------------------------------------------
(* Steps of a request.                                                     *)

Done(h) == job' = [job EXCEPT ![h] = NoJob]

At(h, kind, stages) == job[h] # NoJob /\ job[h].kind = kind /\ job[h].stage \in stages

\* A transaction that has saved the order holds its row to the end.
Unlocked(o) ==
    \A h \in Handlers : ~(At(h, "accept", {"locked", "charged", "declined", "pending"})
                          /\ job[h].order = o)

Save(o, row) == order' = [order EXCEPT ![o] = row]

Matches(j) == {p \in pays : p.order = j.order /\ p.total = j.row.total}

\* (Mutant: the check of is_paid before payme is missing.)
PayableAgain(row) == row.paid \in BOOLEAN

\* payme charges an order that is not paid.
Payable(row) == ~row.paid

\* An order paid before is accepted without Payme.
AcceptPaid(h) ==
    LET j == job[h] IN
    /\ At(h, "accept", {"loaded"}) /\ ~Payable(j.row)
    /\ Unlocked(j.order)
    /\ Save(j.order, [j.row EXCEPT !.status = "accepted"])
    /\ Done(h)
    /\ UNCHANGED <<pays, payments, payme, requests, charged, trouble>>

\* _create_receipt stops when the PaymePayment it found is paid.
AlreadyPaid(found) == \E p \in found : p.state = "paid"

FindPaid(h) ==
    /\ At(h, "accept", {"loaded"}) /\ Payable(job[h].row)
    /\ Cardinality(Matches(job[h])) = 1 /\ AlreadyPaid(Matches(job[h]))
    /\ job' = [job EXCEPT ![h].stage = "exists"]
    /\ UNCHANGED <<dbVars, payme, requests, charged, trouble>>

\* The lowest receipt Payme has not made.
FirstUnmade(r) == payme[r].state = "none" /\ \A q \in 1..(r - 1) : payme[q].state # "none"

\* get_or_create of the PaymePayment (two rows raise MultipleObjectsReturned),
\* then receipts.create.
CreateReceipt(h) ==
    LET j == job[h] IN
    /\ At(h, "accept", {"loaded"}) /\ Payable(j.row)
    /\ Cardinality(Matches(j)) <= 1 /\ ~AlreadyPaid(Matches(j))
    /\ \E r \in Receipts :
         /\ FirstUnmade(r)
         /\ payme' = [payme EXCEPT ![r] = [state |-> "open", order |-> j.order]]
         /\ \E id \in IF Matches(j) = {} THEN {NoReceipt} ELSE {p.id : p \in Matches(j)} :
              job' = [job EXCEPT ![h] = [j EXCEPT !.stage = "created", !.receipt = r, !.found = id]]
    /\ UNCHANGED <<dbVars, requests, charged, trouble>>

\* payment.save() and order.save(): the order row is locked from here on.
SaveReceipt(h) ==
    /\ At(h, "accept", {"created"})
    /\ Unlocked(job[h].order)
    /\ job' = [job EXCEPT ![h].stage = "locked"]
    /\ UNCHANGED <<dbVars, payme, requests, charged, trouble>>

\* receipts.pay: charged (state 4), declined (an error), or answered with another
\* state of the receipt, in which Payme may have the money or take it later.
Pay(h) ==
    LET r == job[h].receipt IN
    /\ At(h, "accept", {"locked"})
    /\ \/ /\ payme' = [payme EXCEPT ![r].state = "paid"]
          /\ charged' = charged \cup {r}
          /\ job' = [job EXCEPT ![h].stage = "charged"]
       \/ /\ payme' = [payme EXCEPT ![r].state = "waiting"]
          /\ job' = [job EXCEPT ![h].stage = "pending"]
          /\ UNCHANGED charged
       \/ /\ job' = [job EXCEPT ![h].stage = "declined"]
          /\ UNCHANGED <<payme, charged>>
    /\ UNCHANGED <<dbVars, requests, trouble>>

\* Payme has the money of a receipt it has answered with another state: nobody in
\* the code asks for the state again.
PaymeTakes(r) ==
    /\ payme[r].state = "waiting"
    /\ payme' = [payme EXCEPT ![r].state = "taken"]
    /\ UNCHANGED <<dbVars, job, requests, charged, trouble>>

\* (Mutant: any answer without an error makes the order paid.)
AcceptedTrusting(j) ==
    [j.row EXCEPT !.status = IF j.stage = "declined" THEN "created" ELSE "accepted",
                  !.paid = j.stage # "declined",
                  !.receipt = IF j.stage = "exists" THEN @ ELSE j.receipt]

\* The order as accepted, or put back to "created" when the card was declined.
Accepted(j) ==
    [j.row EXCEPT !.status = IF j.stage = "declined" THEN "created" ELSE "accepted",
                  !.paid = j.stage = "charged",
                  !.receipt = IF j.stage = "exists" THEN @ ELSE j.receipt]

\* The PaymePayment of a receipt as the transaction leaves it.
Recorded(j) ==
    [id |-> IF j.found = NoReceipt THEN j.receipt ELSE j.found, order |-> j.order,
     total |-> j.row.total, receipt |-> j.receipt,
     state |-> IF j.stage = "charged" THEN "paid" ELSE "open"]

\* (Mutant: a Payment row for every accepted receipt.)
BooksTrusting(stage) == stage \in {"charged", "pending"}

\* Only a receipt in state 4 gets a Payment row.
Books(stage) == stage = "charged"

AcceptCommit(h) ==
    LET j == job[h] IN
    /\ At(h, "accept", {"charged", "declined", "pending"})
    /\ Save(j.order, Accepted(j))
    /\ pays' = {p \in pays : p.id # j.found} \cup {Recorded(j)}
    /\ payments' = [payments EXCEPT ![j.order] = IF Books(j.stage) THEN @ + 1 ELSE @]
    /\ Done(h)
    /\ UNCHANGED <<payme, requests, charged, trouble>>

\* "Transaction exists" counts as success: accepted, but is_paid stays as it is.
ExistsCommit(h) ==
    LET j == job[h] IN
    /\ At(h, "accept", {"exists"})
    /\ Unlocked(j.order)
    /\ Save(j.order, Accepted(j))
    /\ Done(h)
    /\ UNCHANGED <<pays, payments, payme, requests, charged, trouble>>

\* The PaymePayment that cancel_payment finds with this receipt.
Found(r) == LET ids == {p.id : p \in {q \in pays : q.receipt = r}}
            IN IF ids = {} THEN {NoReceipt} ELSE ids

\* receipts.cancel of the receipt of the loaded object; Payme may refuse, and
\* has nothing to cancel when the object has no receipt.
CancelReceipt(h) ==
    LET j == job[h] IN
    /\ At(h, "reject", {"loaded"})
    /\ \/ /\ j.row.receipt # NoReceipt
          /\ payme' = [payme EXCEPT ![j.row.receipt].state = "cancelled"]
          /\ \E id \in Found(j.row.receipt) :
               job' = [job EXCEPT ![h] = [j EXCEPT !.stage = "cancelled", !.found = id]]
          /\ UNCHANGED trouble
       \/ /\ job' = [job EXCEPT ![h].stage = "refused"]
          /\ trouble' = IF j.row.receipt = NoReceipt THEN trouble ELSE trouble \cup {j.order}
          /\ UNCHANGED payme
    /\ UNCHANGED <<dbVars, requests, charged>>

\* (Mutant: is_paid is not reset.)
RejectedStillPaid(j) == [j.row EXCEPT !.status = "rejected"]

Rejected(j) == [j.row EXCEPT !.status = "rejected", !.paid = FALSE]

\* The PaymePayment found is saved whole, as it was when it was found.
RejectCommit(h) ==
    LET j == job[h] IN
    /\ At(h, "reject", {"cancelled", "refused"})
    /\ Unlocked(j.order)
    /\ Save(j.order, Rejected(j))
    /\ pays' = {IF p.id = j.found THEN [p EXCEPT !.receipt = j.row.receipt, !.state = "cancelled"]
                ELSE p : p \in pays}
    /\ Done(h)
    /\ UNCHANGED <<payments, payme, requests, charged, trouble>>

SaveCommit(h) ==
    LET j == job[h] IN
    /\ \/ At(h, "move", {"loaded"}) /\ Save(j.order, [j.row EXCEPT !.status = "later"])
       \/ At(h, "edit", {"loaded"}) /\ Save(j.order, [j.row EXCEPT !.total = j.total])
    /\ Unlocked(j.order)
    /\ Done(h)
    /\ UNCHANGED <<pays, payments, payme, requests, charged, trouble>>

\* The transaction ends without a commit.
Rollback(h) ==
    /\ job[h] # NoJob
    /\ Done(h)
    /\ trouble' = IF job[h].stage \in {"loaded", "exists"} THEN trouble
                  ELSE trouble \cup {job[h].order}
    /\ UNCHANGED <<dbVars, payme, requests, charged>>

Serve(h) ==
    \/ \E o \in Orders : \/ Accept(h, o) \/ Reject(h, o) \/ Move(h, o)
                        \/ \E t \in Totals : EditItems(h, o, t)
    \/ AcceptPaid(h) \/ FindPaid(h) \/ CreateReceipt(h) \/ SaveReceipt(h) \/ Pay(h)
    \/ AcceptCommit(h) \/ ExistsCommit(h)
    \/ CancelReceipt(h) \/ RejectCommit(h)
    \/ SaveCommit(h)
    \/ Rollback(h)

Next == (\E h \in Handlers : Serve(h)) \/ (\E r \in Receipts : PaymeTakes(r))

Spec == Init /\ [][Next]_vars

-----------------------------------------------------------------------------
(* Properties.                                                             *)

\* The stages a request of each kind goes through.
StagesOf(kind) ==
    CASE kind = "accept" -> Stages \ {"cancelled", "refused"}
      [] kind = "reject" -> {"loaded", "cancelled", "refused"}
      [] OTHER           -> {"loaded"}

\* A request that works on a receipt has one that Payme made for its own order,
\* and an object that is not paid; a request that has found no PaymePayment, or
\* looked for none, writes none.
RequestOK(j) ==
    /\ j.stage \in StagesOf(j.kind)
    /\ j.stage \in {"created", "locked", "charged", "declined", "pending"} =>
         /\ j.receipt # NoReceipt /\ ~j.row.paid
         /\ payme[j.receipt].order = j.order /\ payme[j.receipt].state # "none"
    /\ j.stage = "exists" => ~j.row.paid
    /\ j.stage = "cancelled" => j.row.receipt # NoReceipt
    /\ j.stage \in {"loaded", "refused"} => j.found = NoReceipt

\* The type invariant; requests in flight are as RequestOK says.
TypeOK ==
    /\ order \in [Orders -> Row]
    /\ pays \subseteq PaymePayment
    /\ payments \in [Orders -> Nat]
    /\ payme \in [Receipts -> Receipt]
    /\ job \in [Handlers -> Job \cup {NoJob}]
    /\ requests \in 0..MaxRequests
    /\ charged \subseteq Receipts
    /\ trouble \subseteq Orders
    /\ \A h \in Handlers : job[h] # NoJob => RequestOK(job[h])

\* The receipts of an order that Payme holds money for.
Held(o) == {r \in Receipts : payme[r].order = o /\ payme[r].state \in {"paid", "taken"}}

\* Those of them whose payment Payme had answered with another state, which the
\* code takes for a success without booking it: the money the books do not know.
Late(o) == {r \in Held(o) : payme[r].state = "taken"}

\* An order is marked paid only with a receipt that was paid from a card for this
\* very order, whatever was rolled back, lost or overwritten.
PaidWasCharged ==
    \A o \in Orders : order[o].paid =>
        order[o].receipt \in charged /\ payme[order[o].receipt].order = o

\* A PaymePayment in state 4 is of a receipt that was paid: "Transaction exists"
\* is never said of a payment that did not take place.
RecordedWasCharged == \A p \in pays : p.state = "paid" => p.receipt \in charged

\* A row marked paid names a receipt charged for its order.
Honest(o, row) == row.paid => row.receipt \in charged /\ payme[row.receipt].order = o

\* The inductive invariant behind the two above: the rows in the memory of the
\* handlers are as honest as the committed ones, and a request is at "charged"
\* only with a receipt that was.
Honesty ==
    /\ \A o \in Orders : Honest(o, order[o])
    /\ \A h \in Handlers : job[h] # NoJob =>
         /\ Honest(job[h].order, job[h].row)
         /\ job[h].stage = "charged" => job[h].receipt \in charged
    /\ RecordedWasCharged
    /\ \A r \in charged : payme[r].state # "none"

\* There is never a Payment row more than receipts paid: the books do not run
\* ahead of Payme, though they may stay behind.
BooksNotAhead ==
    \A o \in Orders : payments[o] <= Cardinality({r \in charged : payme[r].order = o})

\* An order without trouble is never charged for twice, however often it was
\* declined, edited, rejected and accepted again, but for payments that Payme had
\* answered with another state and carried out all the same.
HeldOnce == \A o \in Orders \ trouble : Cardinality(Held(o) \ Late(o)) <= 1

\* At rest and without trouble, the books and Payme differ by exactly those payments:
\* what else Payme holds for an order is the order's own receipt, when the order is
\* marked paid, and nothing when it is not.
BooksAgree ==
    \A o \in Orders \ trouble : ~Busy(o) =>
        Held(o) \ Late(o) = IF order[o].paid THEN {order[o].receipt} ELSE {}

\* No order is charged for again while Payme holds its money: the PaymePayment
\* row found paid stops make_payment with "Transaction exists" (payme/utils.py).
NeverChargedTwice == \A o \in Orders : Cardinality(Held(o)) <= 1

=============================================================================
