--------------------------- MODULE Notifications ---------------------------
(***************************************************************************)
(* The screens of restaurant, operator, customer and couriers, and the     *)
(* websocket groups that keep them up to date (order/utils.py,             *)
(* order/notifiers.py, order/consumers.py, courier/consumers.py).          *)
(*                                                                         *)
(* update_order_status and assign_order_to_courier send while their        *)
(* transaction is open.  order.save() takes the row lock, so the group     *)
(* messages that follow it are sent in the order of the commits.  Those of *)
(* the restaurant's views, sent once more after the commit, those of       *)
(* change_order_courier and process, which have no transaction, and those  *)
(* of notify() after an order is created are not.                          *)
(*                                                                         *)
(* One order.  The entry points of OrderFlow appear as Requests, by how    *)
(* they notify.                                                            *)
(***************************************************************************)
EXTENDS Naturals, Sequences

CONSTANTS
    Handlers,    \* requests that can be in flight
    NoTask,      \* a handler that serves nothing
    NoOne,       \* nobody holds the row lock
    Watched,     \* groups with a connected screen
    Requests,    \* what the handlers may be asked
    FoundRows,   \* rows in which a behaviour may find the order
    ByCard,      \* order.payment_method is "payme"
    ByOwn,       \* institution.delivery_by_own
    Capacity,    \* capacity of a channel of the channel layer (100 in channels_redis)
    MaxServed    \* bound: requests in a behaviour

Groups   == {"institution", "operator", "client", "courier", "ready_orders"}
Parties  == Groups \ {"ready_orders"}
Statuses == {"created", "pending", "accepted", "cooking", "rejected", "ready",
             "shipped", "closed", "incident"}
Row      == [status : Statuses, courier : BOOLEAN, process : BOOLEAN]

\* "view" are the restaurant's handlers, "crm" all others that only call
\* update_order_status: CRM, courier app, customer, bot, polling task.
Vias   == {"view", "crm", "process", "assign", "replace"}
Input  == [via : Vias, want : Statuses]
TaskStages == {"loaded", "handled", "saved", "done", "refused", "same", "failed"}
Task   == [via   : Vias,
           want  : Statuses,
           row   : Row,      \* the object as loaded
           mem   : Row,      \* the object in memory now
           stage : TaskStages]

ASSUME ScreensAssumption ==
    /\ Requests \subseteq Input
    /\ Watched \subseteq Groups
    /\ FoundRows \subseteq Row
    /\ ByCard \in BOOLEAN /\ ByOwn \in BOOLEAN
ASSUME ScreensBounds == Capacity \in Nat /\ MaxServed \in Nat
ASSUME TaskSentinels == NoTask \notin Task /\ NoOne \notin Handlers

VARIABLES
    order,
    row_lock,  \* the handler whose transaction has written the row
    task,
    inbox,     \* channel of each connected websocket
    screen,    \* what each screen shows
    announced, \* how far notify() is for the new order
    served,    \* bound: requests so far
    trouble    \* history: a message was sent that no commit stands behind, or one was dropped

screenVars == <<order, row_lock, task, inbox, screen, announced, served, trouble>>

Of(row) == [status |-> row.status, courier |-> row.courier]
NewRow  == [status |-> "created", courier |-> FALSE, process |-> FALSE]
Blank == [live |-> FALSE, status |-> "created", courier |-> FALSE]

InitScreens ==
    /\ order \in FoundRows
    /\ announced = IF order = NewRow THEN 0 ELSE 2
    /\ row_lock = NoOne
    /\ task = [h \in Handlers |-> NoTask]
    /\ inbox = [g \in Watched |-> <<>>]
    /\ screen = [g \in Watched |-> Blank]
    /\ served = 0 /\ trouble = FALSE

-----------------------------------------------------------------------------
(* group_send: a message to every channel of the group, dropped where the  *)
(* channel is full.                                                        *)

Full(gs) == \E g \in gs \cap Watched : Len(inbox[g]) >= Capacity

\* (Mutant: while a message waits, later ones are taken for repetitions.)
group_sendOnce(gs, view) ==
    inbox' = [g \in Watched |-> IF g \in gs /\ inbox[g] = <<>>
                                THEN <<view>> ELSE inbox[g]]

group_send(gs, view) ==
    inbox' = [g \in Watched |-> IF g \in gs /\ Len(inbox[g]) < Capacity
                                THEN Append(inbox[g], view) ELSE inbox[g]]

\* What a message says is not what is committed, or not what is about to be.
Stale(view) == view # Of(order) \/ row_lock # NoOne

-----------------------------------------------------------------------------
(* notify(): the new order, to the restaurant's screen and, a second later,*)
(* to operator and customer, after the commit of the creation.             *)

ToNew(n) == IF n = 0 THEN {"institution"} ELSE {"operator", "client"}

Announce ==
    /\ announced < 2
    /\ announced' = announced + 1
    /\ group_send(ToNew(announced), Of(NewRow))
    /\ trouble' = (trouble \/ Full(ToNew(announced)) \/ Stale(Of(NewRow)))
    /\ UNCHANGED <<order, row_lock, task, screen, served>>

\* TelegramOrderNotifier, between the two, raises: the rest is not sent.
AnnounceFails ==
    /\ announced = 1
    /\ announced' = 2
    /\ UNCHANGED <<order, row_lock, task, inbox, screen, served, trouble>>

-----------------------------------------------------------------------------
(* A request: the order is loaded and checked in the view.                 *)

Admits(r) ==
    CASE r.via = "view" /\ r.want = "accepted" -> order.status \in {"created", "pending"}
      [] r.via = "view" /\ r.want = "cooking"  -> order.status = "accepted"
      [] r.via = "view" /\ r.want = "ready"    -> order.status \in {"accepted", "cooking"}
      [] r.via = "assign"                      -> order.status = "accepted"
      [] r.via = "replace"                     -> order.status \notin {"closed", "rejected"}
      [] OTHER                                 -> TRUE

Load(h, r) ==
    /\ task[h] = NoTask /\ served < MaxServed
    /\ Admits(r)
    /\ served' = served + 1
    /\ task' = [task EXCEPT ![h] = [via |-> r.via, want |-> r.want, row |-> order,
                                  mem |-> order, stage |-> "loaded"]]
    /\ UNCHANGED <<order, row_lock, inbox, screen, announced, trouble>>

-----------------------------------------------------------------------------
(* update_order_status, up to order.save().                                *)

In(h, stages) == task[h] # NoTask /\ task[h].stage \in stages

Asks(h)      == In(h, {"loaded"}) /\ task[h].via \in {"view", "crm"}
NoCourier(h) == task[h].row.status # "created" /\ ~task[h].row.courier
Status(h, s) == [task[h].row EXCEPT !.status = s]

Go(h, mem, stage) == task' = [task EXCEPT ![h].mem = mem, ![h].stage = stage]
Silent             == UNCHANGED <<order, row_lock, screen, announced, served, trouble>>

Refuse(h) ==
    /\ Asks(h) /\ NoCourier(h)
    /\ Go(h, task[h].row, "refused")
    /\ Silent /\ UNCHANGED inbox

Same(h) ==
    /\ Asks(h) /\ ~NoCourier(h) /\ task[h].row.status = task[h].want
    /\ Go(h, task[h].row, "same")
    /\ Silent /\ UNCHANGED inbox

Ready(h) == Asks(h) /\ ~NoCourier(h) /\ task[h].row.status # task[h].want

\* is_process: the object in memory is accepted, the row is not.
InProcess(h) ==
    /\ Ready(h) /\ task[h].want = "accepted" /\ task[h].row.process
    /\ Go(h, Status(h, "accepted"), "refused")
    /\ Silent /\ UNCHANGED inbox

\* payme() fails: the order goes back to created, and is saved so.
PaymentFails(h) ==
    /\ Ready(h) /\ task[h].want = "accepted" /\ ~task[h].row.process /\ ByCard
    /\ Go(h, Status(h, "created"), "handled")
    /\ Silent /\ UNCHANGED inbox

\* notify_ready_order is called before the save.
ToCouriers(h) == task[h].want \in {"incident", "rejected"} \/ (task[h].want = "accepted" /\ ~ByOwn)

Handle(h) ==
    /\ Ready(h) /\ ~(task[h].want = "accepted" /\ task[h].row.process)
    /\ task[h].want = "closed" => task[h].row.courier
    /\ Go(h, Status(h, task[h].want), "handled")
    /\ IF ToCouriers(h)
       THEN group_send({"ready_orders"}, Of(Status(h, task[h].want)))
       ELSE UNCHANGED inbox
    /\ Silent

-----------------------------------------------------------------------------
(* order.save(), the notifications under its row lock, the commit.         *)

\* The save or the assignment of this request told the screens; an update that goes
\* back to created is announced to nobody.
Sent(jb) == jb.via = "assign" \/ jb.mem.status # "created"

\* (Mutant: two saves of one row notify before they wait for each other.)
SaveOrderUnlocked(h) ==
    /\ In(h, {"handled"})
    /\ row_lock' = h
    /\ task' = [task EXCEPT ![h].stage = "saved"]
    /\ group_send(Parties, Of(task[h].mem))
    /\ trouble' = (trouble \/ Full(Parties))
    /\ UNCHANGED <<order, screen, announced, served>>

SaveOrder(h) ==
    /\ In(h, {"handled"})
    /\ row_lock = NoOne
    /\ row_lock' = h
    /\ task' = [task EXCEPT ![h].stage = "saved"]
    /\ IF Sent(task[h])
       THEN /\ group_send(Parties, Of(task[h].mem))
            /\ trouble' = (trouble \/ Full(Parties))
       ELSE UNCHANGED <<inbox, trouble>>
    /\ UNCHANGED <<order, screen, announced, served>>

Commit(h) ==
    /\ In(h, {"saved"})
    /\ order' = task[h].mem
    /\ row_lock' = NoOne
    /\ task' = [task EXCEPT ![h].stage = "done"]
    /\ trouble' = (trouble \/ (~Sent(task[h]) /\ task[h].mem # order))
    /\ UNCHANGED <<inbox, screen, announced, served>>

\* An exception (a full channel, a closing without courier, a lost answer) or a
\* killed worker: the transaction rolls back, the messages are out.
Abort(h) ==
    /\ In(h, {"loaded", "handled", "saved"})
    /\ task' = [task EXCEPT ![h].stage = "failed"]
    /\ row_lock' = IF row_lock = h THEN NoOne ELSE row_lock
    /\ trouble' = (trouble \/ (task[h].stage = "saved" /\ Sent(task[h])))
    /\ UNCHANGED <<order, inbox, screen, announced, served>>

\* assign_order_to_courier: the row is locked and read again; messages; commit.
Assign(h) ==
    LET mem == [order EXCEPT !.courier = TRUE] IN
    /\ In(h, {"loaded"}) /\ task[h].via = "assign"
    /\ row_lock = NoOne
    /\ ~order.courier
    /\ task' = [task EXCEPT ![h] = [via |-> "assign", want |-> task[h].want, row |-> order,
                                  mem |-> mem, stage |-> "saved"]]
    /\ row_lock' = h
    /\ group_send(Groups, Of(mem))
    /\ trouble' = (trouble \/ Full(Parties))
    /\ UNCHANGED <<order, screen, announced, served>>

\* The validator finds a courier on the order.
AssignTaken(h) ==
    /\ In(h, {"loaded"}) /\ task[h].via = "assign"
    /\ row_lock = NoOne
    /\ order.courier
    /\ Go(h, order, "refused")
    /\ Silent /\ UNCHANGED inbox

\* process and change_order_courier: order.save() in a transaction of its own.
Rewritten(h) ==
    IF task[h].via = "process"
    THEN {[task[h].row EXCEPT !.process = TRUE],
          [task[h].row EXCEPT !.process = FALSE, !.status = "incident"]}
    ELSE {[task[h].row EXCEPT !.courier = on] : on \in BOOLEAN}

Write(h) ==
    /\ In(h, {"loaded"}) /\ task[h].via \in {"process", "replace"}
    /\ row_lock = NoOne
    /\ \E mem \in Rewritten(h) : order' = mem /\ Go(h, mem, "done")
    /\ UNCHANGED <<row_lock, inbox, screen, announced, served, trouble>>

-----------------------------------------------------------------------------
(* After the transaction.                                                  *)

\* The restaurant's views, "cooking" excepted, notify with the object they have,
\* whatever became of it; process notifies what it saved.
Again(h) == \/ task[h].via = "view" /\ task[h].want # "cooking"
            \/ task[h].via = "process"

\* change_order_courier notifies everybody; a message to the chat between its
\* notifications may raise, and the restaurant is not told.
Told(h) == IF task[h].via = "replace" THEN {Parties, Parties \ {"institution"}}
           ELSE IF Again(h) THEN {Parties} ELSE {{}}

Answer(h) ==
    /\ In(h, {"done", "refused", "same"})
    /\ task' = [task EXCEPT ![h] = NoTask]
    /\ \E gs \in Told(h) :
          /\ group_send(gs, Of(task[h].mem))
          /\ trouble' = (\/ trouble
                         \/ gs # {} /\ (gs # Parties \/ Full(gs) \/ Stale(Of(task[h].mem))))
    /\ UNCHANGED <<order, row_lock, screen, announced, served>>

Fail(h) ==
    /\ In(h, {"failed"})
    /\ task' = [task EXCEPT ![h] = NoTask]
    /\ UNCHANGED <<order, row_lock, inbox, screen, announced, served, trouble>>

-----------------------------------------------------------------------------
(* WebsocketConsumer.                                                      *)

\* order_data, order, send_order_status: the message goes to the browser.
Deliver(g) ==
    /\ inbox[g] # <<>>
    /\ inbox' = [inbox EXCEPT ![g] = Tail(@)]
    /\ screen' = [screen EXCEPT ![g] = [live |-> TRUE, status |-> Head(inbox[g]).status,
                                        courier |-> Head(inbox[g]).courier]]
    /\ UNCHANGED <<order, row_lock, task, announced, served, trouble>>

\* The socket breaks and the client connects again: the group is joined, nothing
\* is sent, and what was under way is lost.
Reconnect(g) ==
    /\ screen[g] # Blank \/ inbox[g] # <<>>
    /\ screen' = [screen EXCEPT ![g] = Blank]
    /\ inbox' = [inbox EXCEPT ![g] = <<>>]
    /\ UNCHANGED <<order, row_lock, task, announced, served, trouble>>

-----------------------------------------------------------------------------
Update(h) == Refuse(h) \/ Same(h) \/ InProcess(h) \/ PaymentFails(h) \/ Handle(h)
Step(h)   == \/ Update(h) \/ SaveOrder(h) \/ Commit(h) \/ Abort(h) \/ Assign(h) \/ AssignTaken(h)
             \/ Write(h) \/ Answer(h) \/ Fail(h)

NextScreens ==
    \/ Announce \/ AnnounceFails
    \/ \E h \in Handlers : Step(h) \/ \E r \in Requests : Load(h, r)
    \/ \E g \in Watched : Deliver(g) \/ Reconnect(g)

\* A worker goes on with the request it has (gunicorn kills and replaces one that
\* hangs, which is Abort), a consumer with the messages of its channel.  Nothing
\* says that a transaction commits, that anybody asks or that a client connects.
Fairness == /\ \A h \in Handlers : WF_screenVars(Step(h))
            /\ \A g \in Watched : WF_screenVars(Deliver(g))

SpecScreens == InitScreens /\ [][NextScreens]_screenVars /\ Fairness

-----------------------------------------------------------------------------
(* Properties                                                              *)

\* A screen that got a message since it connected and has none waiting shows the
\* committed order, whichever handlers crossed: messages sent between the save
\* and the commit arrive in the order of the commits.  Not so after a message
\* that no commit stands behind (a rollback, a view that notifies again with what
\* it has in memory) or one that was not sent.
ScreensAgree ==
    \A g \in Watched \cap Parties :
       screen[g].live /\ inbox[g] = <<>> /\ ~trouble
       /\ (\A h \in Handlers : ~In(h, {"saved", "done"}))
       => /\ screen[g].status = order.status
          /\ screen[g].courier = order.courier

\* The statuses that are asked for.
Asked == {r.want : r \in Requests}

\* Such a screen catches up with every status that stays: no message is held back.
ScreensCatchUp ==
    \A g \in Watched \cap Parties, s \in Asked :
       (screen[g].live /\ order.status = s)
       ~> (screen[g].status = s \/ order.status # s \/ ~screen[g].live \/ trouble)
=============================================================================
