------------------------------ MODULE OrderFlow ------------------------------
(***************************************************************************)
(* The life of an order row under the request handlers that change it: the *)
(* courier app (courier/views.py), the CRM (crm/api/order), the restaurant *)
(* app (restaurant/views.py), the customer (order/views.py) and the        *)
(* delayed r_keeper task (order/tasks.py), most of them through            *)
(* update_order_status (order/status_controller.py).                       *)
(*                                                                         *)
(* A handler runs in steps.  The first loads the Order object and evaluates *)
(* the conditions the code evaluates on that object; the last is the       *)
(* commit.  Django's order.save() writes EVERY column of the object, so a  *)
(* commit overwrites whatever another handler wrote in between: "lost"     *)
(* records the orders to which this has happened.  Only the assignment of  *)
(* a courier reads the row again, under SELECT FOR UPDATE.  Two handlers   *)
(* have a step in the middle: the assignment validates under its row lock  *)
(* before it commits, and a closing pays a courier it reads from the table *)
(* before it saves the order.                                              *)
(*                                                                         *)
(* Courier rows and money are in Settlement; this module keeps the columns *)
(* of the order, its timeline, its promo-code usage and its Payment rows.  *)
(***************************************************************************)
EXTENDS Naturals, FiniteSets

CONSTANTS
    Orders,       \* orders
    Couriers,     \* couriers
    Handlers,     \* request handlers and tasks that can be in flight at once
    NoCourier,    \* order.courier is None
    NoJob,        \* a handler that serves no request
    Transport,    \* Courier.transport of each courier
    TermsOffered, \* what an order can be created with
    CrmStatuses,  \* statuses an operator sets from the CRM
    CrmCouriers,  \* couriers an operator puts on orders, NoCourier to take one off
    ActiveLimit,  \* active orders a courier may hold (3 in the code)
    MaxRequests   \* bound: requests served in a behaviour

Transports == {"car", "scooter", "bicycle", "foot"}
Methods    == {"cash", "payme", "terminal"}
Statuses   == {"pre-order", "created", "pending", "accepted", "cooking",
               "rejected", "ready", "shipped", "closed", "incident"}
Completed  == {"closed", "rejected"}
Active     == {"accepted", "shipped"}

Row == [status  : Statuses,
        courier : Couriers \cup {NoCourier},
        paid    : BOOLEAN,      \* is_paid
        process : BOOLEAN]      \* is_process

\* What is fixed with the order: how it is paid, whether a courier of the platform
\* may deliver it (neither self_pickup nor delivery_by_own), and whether couriers
\* are shown it: the institution does not deliver by itself and has a branch where
\* customers cannot pick their orders up.
Terms == [method : Methods, platform : BOOLEAN, listed : BOOLEAN]

\* Entry points that end in update_order_status, and the ones that write by themselves.
Updates == {"crm", "take", "close", "accept", "cooking", "ready", "cancel", "customer"}
Writes  == {"assign", "replace", "process", "incident", "save"}

\* How far a request is: object loaded; order row locked by the assignment;
\* courier of a closing paid; order of a replacement committed.
Stages == {"loaded", "locked", "settling", "saved"}

\* A request in flight.  "row" is the row as loaded; "courier" is the courier
\* of the object in memory; "to" is the status asked for; "zero" says that the
\* request gives preparing_time 0; "began" is the timeline as loaded.
Job == [via     : Updates \cup Writes,
        stage   : Stages,
        order   : Orders,
        row     : Row,
        courier : Couriers \cup {NoCourier},
        to      : Statuses,
        zero    : BOOLEAN,
        began   : BOOLEAN]

ASSUME TransportAssumption == Transport \in [Couriers -> Transports]
ASSUME InputAssumption     == /\ CrmStatuses \subseteq Statuses
                              /\ CrmCouriers \subseteq Couriers \cup {NoCourier}
                              /\ TermsOffered \subseteq Terms
ASSUME BoundAssumption     == ActiveLimit \in Nat /\ MaxRequests \in Nat
ASSUME SentinelAssumption  == NoCourier \notin Couriers /\ NoJob \notin Job

VARIABLES
    terms,     \* what each order was created with
    order,     \* the committed row of each order
    began,     \* timeline.preparing_start_at is set
    payments,  \* number of Payment rows of type INCOME
    usage,     \* orders with a PromoCodeUsage row
    job,       \* what each handler is doing
    requests,  \* requests served so far (bounded by MaxRequests)
    settled,   \* history: times the "closed" settlement was committed
    assigned,  \* history: orders that ever had a courier
    lost       \* history: orders with an update overwritten by a later save

dbVars   == <<order, began, payments, usage>>
histVars == <<settled, assigned, lost>>
vars     == <<terms, dbVars, job, requests, histVars>>

-----------------------------------------------------------------------------
(* OrderService.create leaves an order created, without courier, unpaid.   *)

NewRow == [status |-> "created", courier |-> NoCourier, paid |-> FALSE, process |-> FALSE]

Init ==
    /\ terms \in [Orders -> TermsOffered]
    /\ order = [o \in Orders |-> NewRow]
    /\ began = [o \in Orders |-> FALSE]
    /\ payments = [o \in Orders |-> 0]
    /\ usage = Orders
    /\ job = [h \in Handlers |-> NoJob]
    /\ requests = 0
    /\ settled = [o \in Orders |-> 0]
    /\ assigned = {}
    /\ lost = {}

-----------------------------------------------------------------------------
(* Loading: the object in memory and the conditions checked on it.         *)

Memory(j) == [j.row EXCEPT !.courier = j.courier]

Load(h, o, via, c, s, z) ==
    /\ job[h] = NoJob
    /\ requests < MaxRequests
    /\ requests' = requests + 1
    /\ job' = [job EXCEPT ![h] =
                  [via |-> via, stage |-> "loaded", order |-> o, row |-> order[o], courier |-> c,
                   to |-> s, zero |-> z, began |-> began[o]]]
    /\ UNCHANGED <<terms, dbVars, histVars>>

\* (Mutant: the check for the same status is missing.)
RefusesOnlyWithoutCourier(status, c, s) == status # "created" /\ c = NoCourier

\* update_order_status gives up without a write: no courier on an order past
\* "created", or the status is already the one asked for.
Refuses(status, c, s) ==
    \/ status # "created" /\ c = NoCourier
    \/ status = s

CallUpdate(h, o, via, c, s, z) ==
    /\ ~Refuses(order[o].status, c, s)
    /\ Load(h, o, via, c, s, z)

\* A handler that saves the object without asking for a status.
CallWrite(h, o, via, c) == Load(h, o, via, c, order[o].status, FALSE)

-----------------------------------------------------------------------------
(* Entry points: what each view checks before the work starts.             *)

\* AssignOrderView.post
AssignOrder(h, o, c) ==
    /\ order[o].status = "accepted"
    /\ CallWrite(h, o, "assign", c)

\* (Mutant: like CloseOrderView, it puts the calling courier in the object.)
TakeOrderAsCaller(h, o) ==
    /\ order[o].courier # NoCourier
    /\ \E c \in Couriers : CallUpdate(h, o, "take", c, "shipped", FALSE)

\* TakeOrderView.post
TakeOrder(h, o) ==
    /\ order[o].courier # NoCourier
    /\ CallUpdate(h, o, "take", order[o].courier, "shipped", FALSE)

\* CloseOrderView.post puts the calling courier in the object before the update.
CloseOrder(h, o, c) == CallUpdate(h, o, "close", c, "closed", FALSE)

\* OrderViewSet.update_status of the CRM, OrderDetailView.post and the buttons
\* of the Telegram bot
CrmUpdateStatus(h, o, s) == CallUpdate(h, o, "crm", order[o].courier, s, FALSE)

\* OrderViewSet.change_courier of the CRM; it may also take the courier off.
ChangeCourier(h, o, c) ==
    /\ order[o].status \notin Completed
    /\ CallWrite(h, o, "replace", c)

\* (Mutant: the check of the current status is missing.)
RestaurantAcceptUnchecked(h, o, z) ==
    CallUpdate(h, o, "accept", order[o].courier, "accepted", z)

\* OrderActionViewSet.accept; preparing_time is 0 when the request has none.
RestaurantAccept(h, o, z) ==
    /\ order[o].status \in {"created", "pending"}
    /\ CallUpdate(h, o, "accept", order[o].courier, "accepted", z)

\* OrderActionViewSet.process, with and without is_process
RestaurantProcess(h, o, via) == CallWrite(h, o, via, order[o].courier)

\* OrderActionViewSet.cancel
RestaurantCancel(h, o) ==
    CallUpdate(h, o, "cancel", order[o].courier, "rejected", FALSE)

\* OrderActionViewSet.cooking
RestaurantCooking(h, o) ==
    /\ order[o].status = "accepted"
    /\ CallUpdate(h, o, "cooking", order[o].courier, "cooking", FALSE)

\* OrderActionViewSet.ready
RestaurantReady(h, o) ==
    /\ order[o].status \in {"accepted", "cooking"}
    /\ CallUpdate(h, o, "ready", order[o].courier, "ready", FALSE)

\* OrderViewSet.destroy: the customer cancels an order nobody delivers yet.
CustomerCancel(h, o) ==
    /\ order[o].courier = NoCourier
    /\ CallUpdate(h, o, "customer", NoCourier, "rejected", FALSE)

\* The saves of a whole Order that change none of the columns kept here:
\* change_preparing_time, recalculate_order_products after an edit of the
\* items, and rkeeperAPI.make_order after its HTTP call.
SaveOrder(h, o) == CallWrite(h, o, "save", order[o].courier)

-----------------------------------------------------------------------------
(* The rest of a request.                                                  *)

Done(h) == job' = [job EXCEPT ![h] = NoJob]

\* The request of h entered by one of vias and has come to this stage.
At(h, vias, stage) ==
    /\ job[h] # NoJob
    /\ job[h].via \in vias
    /\ job[h].stage = stage

\* update_order_status works on status s in handler h.
Updating(h, s) == At(h, Updates, "loaded") /\ job[h].to = s

Advance(h, stage) == job' = [job EXCEPT ![h].stage = stage]

\* No transaction holds the row lock of order o.
Unlocked(o) == \A h \in Handlers : ~(At(h, {"assign"}, "locked") /\ job[h].order = o)

\* order.save(): every column from memory, once the row is free.
Save(j, row) ==
    /\ Unlocked(j.order)
    /\ order' = [order EXCEPT ![j.order] = row]
    /\ lost' = IF order[j.order] = j.row THEN lost ELSE lost \cup {j.order}

\* The timeline is loaded at its first use, somewhere between load and commit.
TimelineRead(j) == {j.began, began[j.order]}

\* send_message looks the transport up in a table that has no bicycle (KeyError).
Unnameable(c) == c # NoCourier /\ Transport[c] = "bicycle"

\* An "accepted" message with preparing_time 0 runs on to the courier's part of
\* send_message, which sets preparing_start_at and saves the timeline.
Messaged(j) == j.zero /\ j.courier # NoCourier

ActiveOrders(c) == {o \in Orders : order[o].courier = c /\ order[o].status \in Active}

\* (Mutant: the validator sees the row the view loaded, before the lock.)
MayAssignUnlocked(j) ==
    /\ terms[j.order].platform
    /\ j.row.courier = NoCourier
    /\ Cardinality(ActiveOrders(j.courier)) < ActiveLimit

\* OrderAssignmentValidator.validate, on the row under the lock.  The balance
\* check of prepaid cash orders refuses more, as Abort may.
MayAssign(j) ==
    /\ terms[j.order].platform
    /\ order[j.order].courier = NoCourier
    /\ Cardinality(ActiveOrders(j.courier)) < ActiveLimit

\* What assign_order_to_courier saves: the row it has locked, with the courier.
AssignedRow(j) == [order[j.order] EXCEPT !.courier = j.courier]

AssignLock(h) ==
    /\ At(h, {"assign"}, "loaded")
    /\ Unlocked(job[h].order)
    /\ MayAssign(job[h]) /\ ~Unnameable(job[h].courier)
    /\ Advance(h, "locked")
    /\ UNCHANGED <<terms, dbVars, requests, histVars>>

AssignCommit(h) ==
    LET j == job[h] IN
    /\ At(h, {"assign"}, "locked")
    /\ order' = [order EXCEPT ![j.order] = AssignedRow(j)]
    /\ began' = [began EXCEPT ![j.order] = TRUE]
    /\ assigned' = assigned \cup {j.order}
    /\ Done(h)
    /\ UNCHANGED <<terms, payments, usage, requests, settled, lost>>

\* change_order_courier runs outside a transaction: it commits the order ...
ReplaceCommit(h) ==
    LET j == job[h] IN
    /\ At(h, {"replace"}, "loaded")
    /\ Save(j, Memory(j))
    /\ assigned' = IF j.courier = NoCourier THEN assigned ELSE assigned \cup {j.order}
    /\ Advance(h, "saved")
    /\ UNCHANGED <<terms, began, payments, usage, requests, settled>>

\* ... and then the timeline, unless there is no courier or the message raises.
ReplaceMessage(h) ==
    LET j == job[h] IN
    /\ At(h, {"replace"}, "saved")
    /\ began' = IF j.courier = NoCourier \/ Unnameable(j.courier)
                THEN began ELSE [began EXCEPT ![j.order] = TRUE]
    /\ Done(h)
    /\ UNCHANGED <<terms, order, payments, usage, requests, histVars>>

WrittenRow(j) ==
    CASE j.via = "process"  -> [Memory(j) EXCEPT !.process = TRUE]
      [] j.via = "incident" -> [Memory(j) EXCEPT !.process = FALSE, !.status = "incident"]
      [] OTHER              -> Memory(j)

WriteCommit(h) ==
    LET j == job[h] IN
    /\ At(h, {"process", "incident", "save"}, "loaded")
    /\ Save(j, WrittenRow(j))
    /\ Done(h)
    /\ UNCHANGED <<terms, began, payments, usage, requests, settled, assigned>>

\* "accepted" on an order the restaurant is still processing: nothing is saved
\* but what the message had saved before.
AcceptRefused(h) ==
    LET j == job[h] IN
    /\ Updating(h, "accepted") /\ j.row.process /\ ~(Messaged(j) /\ Unnameable(j.courier))
    /\ began' = [began EXCEPT ![j.order] = @ \/ Messaged(j)]
    /\ Done(h)
    /\ UNCHANGED <<terms, order, payments, usage, requests, histVars>>

\* What payme(order) can come to: nothing when there is nothing to charge;
\* otherwise the charge is paid, accepted by Payme without being paid (another
\* receipt state, or a receipt recorded as paid before), or fails.
Charges(j) ==
    IF terms[j.order].method = "payme" /\ ~j.row.paid
    THEN {"paid", "unpaid", "failed"} ELSE {"none"}

\* (Mutant: every answer of Payme without an error counts as paid.)
AcceptedRowTrusting(j, charge) ==
    [Memory(j) EXCEPT !.status = IF charge = "failed" THEN "created" ELSE "accepted",
                      !.paid   = @ \/ charge \in {"paid", "unpaid"}]

AcceptedRow(j, charge) ==
    [Memory(j) EXCEPT !.status = IF charge = "failed" THEN "created" ELSE "accepted",
                      !.paid   = @ \/ charge = "paid"]

AcceptCommit(h) ==
    LET j == job[h] IN
    /\ Updating(h, "accepted") /\ ~j.row.process /\ ~(Messaged(j) /\ Unnameable(j.courier))
    /\ \E charge \in Charges(j) :
         /\ Save(j, AcceptedRow(j, charge))
         /\ payments' = IF charge = "paid"
                        THEN [payments EXCEPT ![j.order] = @ + 1] ELSE payments
    /\ began' = [began EXCEPT ![j.order] = @ \/ Messaged(j)]
    /\ Done(h)
    /\ UNCHANGED <<terms, usage, requests, settled, assigned>>

\* (Mutant: is_paid is not reset.)
RejectedRowStillPaid(j) == [Memory(j) EXCEPT !.status = "rejected"]

RejectedRow(j) == [Memory(j) EXCEPT !.status = "rejected", !.paid = FALSE]

\* The "cancel" message comes first; with a courier it also sets preparing_start_at.
RejectCommit(h) ==
    LET j == job[h] IN
    /\ Updating(h, "rejected") /\ ~Unnameable(j.courier)
    /\ Save(j, RejectedRow(j))
    /\ \E t \in TimelineRead(j) :
         began' = [began EXCEPT ![j.order] = t \/ j.courier # NoCourier]
    /\ usage' = usage \ {j.order}
    /\ Done(h)
    /\ UNCHANGED <<terms, payments, requests, settled, assigned>>

\* The settlement pays the courier the table has for the order, and raises
\* without one ...
CloseSettle(h) ==
    /\ Updating(h, "closed")
    /\ order[job[h].order].courier # NoCourier
    /\ Advance(h, "settling")
    /\ UNCHANGED <<terms, dbVars, requests, histVars>>

\* ... and the order is saved, with its Payment when the object is not paid.
CloseCommit(h) ==
    LET j == job[h] IN
    /\ At(h, Updates, "settling")
    /\ Save(j, [Memory(j) EXCEPT !.status = "closed"])
    /\ payments' = IF j.row.paid THEN payments
                   ELSE [payments EXCEPT ![j.order] = @ + 1]
    /\ settled' = [settled EXCEPT ![j.order] = @ + 1]
    /\ \E t \in TimelineRead(j) : began' = [began EXCEPT ![j.order] = t]
    /\ Done(h)
    /\ UNCHANGED <<terms, usage, requests, assigned>>

\* (Mutant: an order leaves whether or not its preparation began.)
HasBegunOrNot(t) == t \in BOOLEAN

\* Leaving needs preparing_start_at: the subtraction raises on None.
HasBegun(t) == t

ShipCommit(h) ==
    LET j == job[h] IN
    /\ Updating(h, "shipped")
    /\ \E t \in TimelineRead(j) :
         /\ HasBegun(t)
         /\ began' = [began EXCEPT ![j.order] = t]
    /\ Save(j, [Memory(j) EXCEPT !.status = "shipped"])
    /\ Done(h)
    /\ UNCHANGED <<terms, payments, usage, requests, settled, assigned>>

\* (Mutant: closing has no step of its own.)
HandledWithoutClose == {"accepted", "rejected", "shipped"}

\* The statuses update_order_status does more for than saving.
Handled == {"accepted", "rejected", "closed", "shipped"}

\* Every other status only saves; "ready" has the timeline loaded before.
PlainCommit(h) ==
    LET j == job[h] IN
    /\ At(h, Updates, "loaded") /\ j.to \notin Handled
    /\ Save(j, [Memory(j) EXCEPT !.status = j.to])
    /\ \E t \in IF j.to = "ready" THEN TimelineRead(j) ELSE {began[j.order]} :
         began' = [began EXCEPT ![j.order] = t]
    /\ Done(h)
    /\ UNCHANGED <<terms, payments, usage, requests, settled, assigned>>

\* A request that ends with no further write: the validator refuses the courier,
\* a message or a subtraction raises and the transaction rolls back, Payme's
\* answer is lost, the worker is killed.
Abort(h) ==
    /\ job[h] # NoJob
    /\ Done(h)
    /\ UNCHANGED <<terms, dbVars, requests, histVars>>

-----------------------------------------------------------------------------

Begin(h) == \E o \in Orders :
    \/ \E c \in Couriers : AssignOrder(h, o, c) \/ CloseOrder(h, o, c)
    \/ TakeOrder(h, o)
    \/ \E s \in CrmStatuses : CrmUpdateStatus(h, o, s)
    \/ \E c \in CrmCouriers : ChangeCourier(h, o, c)
    \/ \E z \in BOOLEAN : RestaurantAccept(h, o, z)
    \/ \E via \in {"process", "incident"} : RestaurantProcess(h, o, via)
    \/ RestaurantCancel(h, o) \/ RestaurantCooking(h, o) \/ RestaurantReady(h, o)
    \/ CustomerCancel(h, o)
    \/ SaveOrder(h, o)

Finish(h) ==
    \/ AssignLock(h) \/ AssignCommit(h)
    \/ ReplaceCommit(h) \/ ReplaceMessage(h)
    \/ WriteCommit(h)
    \/ AcceptRefused(h) \/ AcceptCommit(h)
    \/ RejectCommit(h) \/ CloseSettle(h) \/ CloseCommit(h)
    \/ ShipCommit(h) \/ PlainCommit(h)
    \/ Abort(h)

Next == \E h \in Handlers : Begin(h) \/ Finish(h)

Spec == Init /\ [][Next]_vars

-----------------------------------------------------------------------------
(* Properties.                                                             *)

\* The statuses at which each entry point takes up an order.
WorksOn(via) ==
    CASE via = "assign"   -> {"accepted"}
      [] via = "accept"   -> {"created", "pending"}
      [] via = "cooking"  -> {"accepted"}
      [] via = "ready"    -> {"accepted", "cooking"}
      [] via = "customer" -> {"created"}
      [] via = "replace"  -> Statuses \ Completed
      [] OTHER            -> Statuses

\* What is known of a request in flight: an update never asks for the status
\* its object already has; only the assignment, change_courier and
\* CloseOrderView work with another courier than the loaded one; and each
\* middle stage belongs to its own kind of request.
RequestOK(j) ==
    /\ j.row.status \in WorksOn(j.via)
    /\ j.via \in Updates => j.to # j.row.status
    /\ j.via \notin {"assign", "replace", "close"} => j.courier = j.row.courier
    /\ j.via = "close" => j.to = "closed"
    /\ j.stage = "locked" => j.via = "assign"
    /\ j.stage = "saved" => j.via = "replace"
    /\ j.stage = "settling" => j.via \in Updates /\ j.to = "closed"

\* The type invariant; requests in flight are as RequestOK says.
TypeOK ==
    /\ terms \in [Orders -> Terms]
    /\ order \in [Orders -> Row]
    /\ began \in [Orders -> BOOLEAN]
    /\ payments \in [Orders -> Nat]
    /\ usage \subseteq Orders
    /\ job \in [Handlers -> Job \cup {NoJob}]
    /\ requests \in 0..MaxRequests
    /\ settled \in [Orders -> Nat]
    /\ assigned \subseteq Orders
    /\ lost \subseteq Orders
    /\ \A h \in Handlers : job[h] # NoJob => RequestOK(job[h])

\* An order marked paid has a Payment row, whatever handlers overlap: is_paid
\* and the Payment are written by one transaction of make_payment, and a stale
\* save can only bring back a flag whose Payment is still there.
PaidHasPayment == \A o \in Orders : order[o].paid => payments[o] > 0

\* A closed order has been settled and has an income Payment, by whatever road
\* it was closed (courier, CRM, stale save of a closed object).
ClosedIsSettled ==
    \A o \in Orders : order[o].status = "closed" => settled[o] > 0 /\ payments[o] > 0

\* No order is on its way that never had a courier, although no guard of
\* update_order_status says so when an operator sets "shipped" on a created
\* order: the subtraction of preparing_start_at raises.
ShippedHadCourier ==
    \A o \in Orders : order[o].status = "shipped" => o \in assigned

\* A rejected order is not paid and its promo code can be used again, even when
\* a stale save brings the rejected row back.
RejectedIsReleased ==
    \A o \in Orders : order[o].status = "rejected" => ~order[o].paid /\ o \notin usage

\* What a row says of an order is backed by the other tables and by what
\* happened.  It stays so as assigned, settled and payments grow and usage shrinks.
Backed(o, row) ==
    /\ row.courier # NoCourier => o \in assigned
    /\ row.status = "shipped" => o \in assigned
    /\ row.status = "closed" => settled[o] > 0 /\ payments[o] > 0
    /\ row.status = "rejected" => ~row.paid /\ o \notin usage
    /\ row.paid => payments[o] > 0

\* A request in flight carries a row that may come back, and past its first
\* step works on an order that had a courier.
JobBacked(j) ==
    /\ Backed(j.order, j.row)
    /\ j.began => j.order \in assigned
    /\ j.stage = "settling" => j.order \in assigned
    /\ j.stage = "saved" /\ j.courier # NoCourier => j.order \in assigned

\* The inductive invariant behind the four above: not only the committed rows
\* but every row in the memory of a handler is backed, so that no stale save can
\* bring an unbacked one back.
Backing ==
    /\ \A o \in Orders : Backed(o, order[o]) /\ (began[o] => o \in assigned)
    /\ \A h \in Handlers : job[h] # NoJob => JobBacked(job[h])

\* One assignment at a time holds the lock of an order, and the order it has
\* validated keeps having no courier until it commits.
LockHeld ==
    \A h \in Handlers : At(h, {"assign"}, "locked") =>
        /\ order[job[h].order].courier = NoCourier
        /\ \A g \in Handlers :
             At(g, {"assign"}, "locked") /\ job[g].order = job[h].order => g = h

\* Handler h, working on o, takes a step.
Steps(h, o) == job[h] # NoJob /\ job[h].order = o /\ job'[h] # job[h]

\* Two couriers pressing the button at once: the assignment replaces no courier
\* and touches no other column of the row it finds when it gets the lock.
AssignNeverSteals ==
    [][\A h \in Handlers, o \in Orders :
         Steps(h, o) /\ job[h].via = "assign" =>
             \/ order'[o] = order[o]
             \/ /\ order[o].courier = NoCourier
                /\ order'[o] = [order[o] EXCEPT !.courier = job[h].courier]]_vars

\* A courier loses an order only to an operator, to another courier who closes
\* it, or to a handler that overwrites an update it has not seen.
CourierKept ==
    [][\A o \in Orders :
         order[o].courier # NoCourier /\ order'[o].courier # order[o].courier =>
             \/ o \in lost'
             \/ \E h \in Handlers : Steps(h, o) /\ job[h].via \in {"replace", "close"}]_vars

\* The courier and an operator both close the order: it is settled a second
\* time only by a handler that has not seen the first closing.
SettledOnce ==
    [][\A o \in Orders :
         order[o].status = "closed" /\ settled'[o] > settled[o] => o \in lost']_vars

\* The handlers that look at the status do not move a completed order, unless
\* the order was completed behind their back.
CompletedKept ==
    [][\A h \in Handlers, o \in Orders :
         /\ Steps(h, o)
         /\ job[h].via \in {"assign", "replace", "accept", "cooking", "ready", "customer"}
         /\ order[o].status \in Completed
         => order'[o].status = order[o].status \/ o \in lost']_vars

\* A courier is given an order only within the "allowed limit" of active orders
\* that OrderAssignmentValidator checks; an operator may exceed it.
AssignWithinLimit ==
    [][\A h \in Handlers, o \in Orders, c \in Couriers :
         /\ Steps(h, o) /\ job[h].via = "assign" /\ job[h].courier = c
         /\ order'[o] # order[o]
         => Cardinality(ActiveOrders(c)') <= ActiveLimit]_vars

=============================================================================
