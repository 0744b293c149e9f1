--------------------------- MODULE RestaurantBot ---------------------------
(***************************************************************************)
(* The restaurant's Telegram chat: the messages update_order_status and    *)
(* the assignment send to it (order/helpers.py, order/notifiers.py), the   *)
(* consumer that delivers them and their keyboards (order/consumers.py),   *)
(* and the bot that serves the buttons (bot/services.py).                  *)
(*                                                                         *)
(* The bot is one process.  accept, reject and ready share an asyncio lock *)
(* per order; all database work runs in the single thread of sync_to_async. *)
(* Neither excludes the web workers.                                       *)
(*                                                                         *)
(* One order; web handlers as in OrderFlow, by what they send to the chat. *)
(***************************************************************************)
EXTENDS Naturals, Sequences

CONSTANTS
    Web,          \* requests to the web workers that can be in flight
    Presses,      \* presses the bot can be serving
    NoJob,        \* an agent that serves nothing
    NoOne,        \* nobody holds the row lock
    Requests,     \* what the web handlers may be asked
    TermsOffered, \* how the order is paid, its institution and its branch
    Found,        \* situations in which a behaviour may start
    Capacity,     \* capacity of the channel telegram-notify (100 in channels_redis)
    MaxRequests,  \* bound: requests to the web workers in a behaviour
    MaxPresses    \* bound: presses in a behaviour

Agents   == Web \cup Presses
Statuses == {"created", "pending", "accepted", "cooking", "rejected", "ready",
             "shipped", "closed", "incident"}
Terms    == [card : BOOLEAN,      \* payment_method is "payme"
             own : BOOLEAN,       \* delivery_by_own
             buttons : BOOLEAN,   \* is_telegram_orders_enabled
             chats : 1 .. 2]      \* ids in telegram_id_str
Row      == [status : Statuses, courier : BOOLEAN, process : BOOLEAN]

\* "update" calls update_order_status, with a preparing_time or without.
Vias    == {"update", "process", "assign", "replace"}
Input   == [via : Vias, want : Statuses, prep : BOOLEAN]
Keys    == {"accept", "ready", "shipping", "close", "status", "none"}
Buttons == {"accept", "reject", "ready", "shipping", "close", "status"}
Locked  == {"accept", "reject", "ready"}
Stages  == {"waiting", "pressed", "loaded", "handled", "saved", "done", "refused", "same", "failed"}

Job  == [via   : Vias,
         want  : Statuses,
         prep  : BOOLEAN,
         row   : Row,        \* the object as loaded
         mem   : Row,        \* the object in memory now
         stage : Stages,
         key   : Buttons,    \* the button pressed
         msg   : Nat]        \* the message it is under, 0 for a web handler
Note == [kind : {"new", "text", "edit"}, keys : Keys, mid : Nat]

ASSUME InputAssumption    == /\ Requests \subseteq Input
                             /\ TermsOffered \subseteq Terms
                             /\ \A f \in Found : f.order \in Row /\ f.announced \in BOOLEAN
                                                 /\ f.chat \in Seq(Keys) /\ f.mid \in 0 .. Len(f.chat)
ASSUME BoundAssumption    == Capacity \in Nat /\ MaxRequests \in Nat /\ MaxPresses \in Nat
ASSUME SentinelAssumption == NoJob \notin Job /\ NoOne \notin Agents /\ Web \cap Presses = {}

VARIABLES
    terms, order,
    row_lock,  \* the agent whose transaction has written the row
    job,
    queue,     \* presses at locks[order_id], the holder first
    tele,      \* channel telegram-notify
    chat,      \* keyboard under each message of the chat
    mid,       \* TelegramMessage.message_id, 0 when None
    announced, \* notify() has sent the new order
    requests, presses, \* bounds
    overtaken  \* history: agents during whose work someone outside the lock wrote the order

netVars  == <<tele, chat, mid>>
vars     == <<terms, order, row_lock, job, queue, netVars, announced, requests, presses, overtaken>>

Init ==
    /\ terms \in TermsOffered
    /\ \E f \in Found : order = f.order /\ chat = f.chat /\ mid = f.mid /\ announced = f.announced
    /\ row_lock = NoOne
    /\ job = [a \in Agents |-> NoJob]
    /\ queue = <<>> /\ tele = <<>>
    /\ requests = 0 /\ presses = 0
    /\ overtaken = {}

In(a, stages) == job[a] # NoJob /\ job[a].stage \in stages

-----------------------------------------------------------------------------
(* The channel.  channel_layer.send raises ChannelFull.                    *)

Fits(notes) == Len(tele) + Len(notes) <= Capacity
send(notes) == tele' = IF Fits(notes) THEN tele \o notes ELSE SubSeq(tele \o notes, 1, Capacity)

\* send_msg, edit_msg: an edit needs the id of the message in the order's row.
send_msg(keys) == <<[kind |-> "text", keys |-> keys, mid |-> 0]>>
edit_msg       == IF mid = 0 THEN <<>> ELSE <<[kind |-> "edit", keys |-> "none", mid |-> mid]>>

\* send_message, by what it is told.
Accepted(prep)    == IF prep THEN edit_msg ELSE <<>>
Courier(on)       == send_msg(IF on THEN "ready" ELSE "none")
send_message(want) ==
    CASE want = "rejected" -> edit_msg \o send_msg("none")
      [] want = "incident" -> edit_msg
      [] OTHER             -> <<>>

\* notify(): the new order, a second after its creation was committed.
Announce ==
    /\ ~announced
    /\ announced' = TRUE
    /\ send(<<[kind |-> "new", keys |-> "accept", mid |-> 0]>>)
    /\ UNCHANGED <<terms, order, row_lock, job, queue, chat, mid, requests, presses, overtaken>>

-----------------------------------------------------------------------------
(* Requests to the web workers.                                            *)

Admits(r) ==
    CASE r.want = "accepted" /\ r.prep -> order.status \in {"created", "pending"}
      [] r.via = "assign"              -> order.status = "accepted"
      [] r.via = "replace"             -> order.status \notin {"closed", "rejected"}
      [] OTHER                         -> TRUE

Load(a, r) ==
    /\ job[a] = NoJob /\ requests < MaxRequests
    /\ Admits(r)
    /\ requests' = requests + 1
    /\ job' = [job EXCEPT ![a] = [via |-> r.via, want |-> r.want, prep |-> r.prep, row |-> order,
                                  mem |-> order, stage |-> "loaded", key |-> "status", msg |-> 0]]
    /\ UNCHANGED <<terms, order, row_lock, queue, netVars, announced, presses, overtaken>>

\* (Mutant: the lock is kept when a press ends early or raises.)
ReleaseIfDone(a) == IF a \in Presses /\ job[a].key \in Locked /\ job[a].stage = "done" THEN Tail(queue) ELSE queue

\* The request ends; a lock it holds is given back.
Release(a) == IF a \in Presses /\ job[a].key \in Locked THEN Tail(queue) ELSE queue
Done(a) ==
    /\ job' = [job EXCEPT ![a] = NoJob]
    /\ queue' = Release(a)
    /\ overtaken' = overtaken \ {a}

Answer(a) ==
    /\ In(a, {"done", "refused", "same", "failed"})
    /\ ~(job[a].via = "replace" /\ job[a].stage = "done")
    /\ Done(a)
    /\ UNCHANGED <<terms, order, row_lock, netVars, announced, requests, presses>>

-----------------------------------------------------------------------------
(* update_order_status, up to order.save().                                *)

\* The bot's own database work runs in one thread.
Thread(a) == a \in Presses => \A p \in Presses \ {a} : ~In(p, {"handled", "saved"})

\* Sends "notes", leaves the object as "mem" and goes on to "stage"; a full
\* channel raises, and the transaction rolls back.
Go(a, mem, notes, stage) ==
    /\ send(notes)
    /\ job' = [job EXCEPT ![a] = [@ EXCEPT !.mem = mem,
                                          !.stage = IF Fits(notes) THEN stage ELSE "failed"]]
    /\ UNCHANGED <<terms, order, row_lock, queue, chat, mid, announced, requests, presses, overtaken>>

Asks(a)      == In(a, {"loaded"}) /\ job[a].via = "update" /\ Thread(a)
NoCourier(a) == job[a].row.status # "created" /\ ~job[a].row.courier
Status(a, s) == [job[a].row EXCEPT !.status = s]

\* "Курьер не назначен": a tuple, which is truthy.
Refuse(a) == Asks(a) /\ NoCourier(a) /\ Go(a, job[a].row, <<>>, "refused")

\* The status is the one asked for: False.
Same(a) ==
    /\ Asks(a) /\ ~NoCourier(a) /\ job[a].row.status = job[a].want
    /\ Go(a, job[a].row, <<>>, "same")

Ready(a) == Asks(a) /\ ~NoCourier(a) /\ job[a].row.status # job[a].want

\* is_process: the chat has been told, nothing is saved, the answer is a tuple.
Busy(a) ==
    /\ Ready(a) /\ job[a].want = "accepted" /\ job[a].row.process
    /\ Go(a, Status(a, "accepted"), Accepted(job[a].prep), "refused")

\* payme() fails: the order goes back to created and is saved so.
PaymentFails(a) ==
    /\ Ready(a) /\ job[a].want = "accepted" /\ ~job[a].row.process /\ terms.card
    /\ Go(a, Status(a, "created"), Accepted(job[a].prep) \o edit_msg, "handled")

\* A closing without courier raises: there is nobody to settle with.
Handle(a) ==
    /\ Ready(a) /\ ~(job[a].want = "accepted" /\ job[a].row.process)
    /\ Go(a, Status(a, job[a].want), Accepted(job[a].prep) \o send_message(job[a].want),
          IF job[a].want = "closed" /\ ~job[a].row.courier THEN "failed" ELSE "handled")

-----------------------------------------------------------------------------
(* order.save() and the commit.                                            *)

Save(a) ==
    /\ In(a, {"handled"})
    /\ row_lock = NoOne
    /\ row_lock' = a
    /\ job' = [job EXCEPT ![a].stage = "saved"]
    /\ UNCHANGED <<terms, order, queue, netVars, announced, requests, presses, overtaken>>

Overtakes(a) == IF a \in Presses /\ job[a].key \in Locked THEN {} ELSE {b \in Agents : job[b] # NoJob}

Commit(a) ==
    /\ In(a, {"saved"})
    /\ order' = job[a].mem
    /\ row_lock' = NoOne
    /\ job' = [job EXCEPT ![a].stage = "done"]
    /\ overtaken' = overtaken \cup Overtakes(a)
    /\ UNCHANGED <<terms, queue, netVars, announced, requests, presses>>

\* An exception or a killed worker: the transaction rolls back, the messages are out.
Abort(a) ==
    /\ In(a, {"handled", "saved"})
    /\ job' = [job EXCEPT ![a].stage = "failed"]
    /\ row_lock' = IF row_lock = a THEN NoOne ELSE row_lock
    /\ UNCHANGED <<terms, order, queue, netVars, announced, requests, presses, overtaken>>

\* assign_order_to_courier: the row is locked and read again, the chat told,
\* the row saved.  With a courier on the order it is refused.
Assign(a) ==
    /\ In(a, {"loaded"}) /\ job[a].via = "assign"
    /\ row_lock = NoOne
    /\ send(IF order.courier THEN <<>> ELSE Courier(TRUE))
    /\ LET ok == ~order.courier /\ Fits(Courier(TRUE)) IN
       /\ job' = [job EXCEPT ![a] = [@ EXCEPT !.row = order, !.mem = [order EXCEPT !.courier = TRUE],
                                             !.stage = IF ok THEN "saved" ELSE "failed"]]
       /\ row_lock' = IF ok THEN a ELSE NoOne
    /\ UNCHANGED <<terms, order, queue, chat, mid, announced, requests, presses, overtaken>>

\* process and change_order_courier: order.save() in a transaction of its own.
Rewritten(a) ==
    IF job[a].via = "process"
    THEN {[job[a].row EXCEPT !.process = TRUE],
          [job[a].row EXCEPT !.process = FALSE, !.status = "incident"]}
    ELSE {[job[a].row EXCEPT !.courier = on] : on \in BOOLEAN}

Write(a) ==
    /\ In(a, {"loaded"}) /\ job[a].via \in {"process", "replace"}
    /\ row_lock = NoOne
    /\ \E mem \in Rewritten(a) :
          /\ order' = mem
          /\ job' = [job EXCEPT ![a] = [@ EXCEPT !.mem = mem, !.stage = "done"]]
    /\ overtaken' = overtaken \cup Overtakes(a)
    /\ UNCHANGED <<terms, row_lock, queue, netVars, announced, requests, presses>>

Replaced(a) ==
    /\ In(a, {"done"}) /\ job[a].via = "replace"
    /\ send(Courier(job[a].mem.courier))
    /\ Done(a)
    /\ UNCHANGED <<terms, order, row_lock, chat, mid, announced, requests, presses>>

-----------------------------------------------------------------------------
(* The bot: button_pressed and the handler of each button.                 *)

Offered(keys) == CASE keys = "accept" -> {"accept", "reject"}
                   [] keys = "none"   -> {}
                   [] keys = "close"  -> {"close", "status"}
                   [] OTHER           -> {keys}
Wanted(key) == CASE key = "accept"   -> "accepted"
                 [] key = "reject"   -> "rejected"
                 [] key = "shipping" -> "shipped"
                 [] key = "close"    -> "closed"
                 [] OTHER            -> "ready"

\* async with locks[order_id]: presses wait in the order in which they came.
Press(p, i, key) ==
    /\ job[p] = NoJob /\ presses < MaxPresses
    /\ key \in Offered(chat[i])
    /\ presses' = presses + 1
    /\ queue' = IF key \in Locked THEN Append(queue, p) ELSE queue
    /\ job' = [job EXCEPT ![p] = [via |-> "update", want |-> Wanted(key), prep |-> key = "accept",
                                  row |-> order, mem |-> order, key |-> key, msg |-> i,
                                  stage |-> IF key \in Locked THEN "waiting" ELSE "pressed"]]
    /\ UNCHANGED <<terms, order, row_lock, netVars, announced, requests, overtaken>>

Holds(p) == queue # <<>> /\ Head(queue) = p

\* (Mutant: the press does not wait for the lock.)
TurnUnlocked(p) == Thread(p) /\ In(p, {"pressed", "waiting"})

Turn(p) == Thread(p) /\ (In(p, {"pressed"}) \/ (In(p, {"waiting"}) /\ Holds(p)))

\* The order has the status the button asks for (looked at by three of them).
Already(p) == job[p].key \in {"ready", "shipping", "close"} /\ order.status = job[p].want

\* ready before the preparing time is over (not "due"), the status button, and
\* buttons for what has happened already end the press at once.
AnswerAtOnce(p, due) ==
    /\ Turn(p)
    /\ job[p].key = "status" \/ (job[p].key = "ready" /\ ~due) \/ Already(p)
    /\ chat' = IF Already(p) /\ (job[p].key = "ready" => due)
               THEN [chat EXCEPT ![job[p].msg] = "none"] ELSE chat
    /\ Done(p)
    /\ UNCHANGED <<terms, order, row_lock, tele, mid, announced, requests, presses>>

LoadPress(p) ==
    /\ Turn(p) /\ job[p].key # "status" /\ ~Already(p)
    /\ job' = [job EXCEPT ![p] = [@ EXCEPT !.row = order, !.mem = order, !.stage = "loaded"]]
    /\ overtaken' = overtaken \ {p}
    /\ UNCHANGED <<terms, order, row_lock, queue, netVars, announced, requests, presses>>

\* The keyboard a press leaves; "if success" holds of the tuple of a refusal, too.
Left(p) == CASE job[p].key = "ready"    -> IF terms.own THEN "shipping" ELSE "none"
             [] job[p].key = "shipping" -> IF terms.own THEN "close" ELSE "status"
             [] job[p].key = "close"    -> "status"
             [] OTHER                   -> chat[job[p].msg]

FinishPress(p) ==
    /\ In(p, {"done", "refused", "same", "failed"})
    /\ chat' = IF job[p].stage \in {"done", "refused"}
               THEN [chat EXCEPT ![job[p].msg] = Left(p)] ELSE chat
    /\ Done(p)
    /\ UNCHANGED <<terms, order, row_lock, tele, mid, announced, requests, presses>>

-----------------------------------------------------------------------------
(* TelegramBotConsumer.                                                    *)

Deliver ==
    /\ tele # <<>> /\ Head(tele).kind # "edit"
    /\ tele' = Tail(tele)
    /\ chat' = Append(chat, IF terms.buttons THEN Head(tele).keys ELSE "none")
    /\ mid' = IF Head(tele).kind = "new" THEN Len(chat) + 1 ELSE mid
    /\ UNCHANGED <<terms, order, row_lock, job, queue, announced, requests, presses, overtaken>>

\* The id in the row is that of the last chat; with two chats the edit of the
\* first fails and ends the loop.
EditDelivered ==
    /\ tele # <<>> /\ Head(tele).kind = "edit"
    /\ tele' = Tail(tele)
    /\ chat' = IF terms.chats = 1 THEN [chat EXCEPT ![Head(tele).mid] = "none"] ELSE chat
    /\ UNCHANGED <<terms, order, row_lock, job, queue, mid, announced, requests, presses, overtaken>>

\* Telegram refuses, or the message is older than the layer keeps it.
Lose ==
    /\ tele # <<>>
    /\ tele' = Tail(tele)
    /\ UNCHANGED <<terms, order, row_lock, job, queue, chat, mid, announced, requests, presses, overtaken>>

-----------------------------------------------------------------------------
Update(a)  == Refuse(a) \/ Same(a) \/ Busy(a) \/ PaymentFails(a) \/ Handle(a)
Store(a)   == Save(a) \/ Commit(a) \/ Abort(a)
WebStep(a) == Update(a) \/ Store(a) \/ Assign(a) \/ Write(a) \/ Replaced(a) \/ Answer(a)
BotStep(p) == \/ \E due \in BOOLEAN : AnswerAtOnce(p, due)
              \/ LoadPress(p) \/ Update(p) \/ Store(p) \/ FinishPress(p)

Next ==
    \/ Announce
    \/ \E a \in Web : WebStep(a) \/ \E r \in Requests : Load(a, r)
    \/ \E p \in Presses : BotStep(p) \/ \E i \in DOMAIN chat, key \in Buttons : Press(p, i, key)
    \/ Deliver \/ EditDelivered \/ Lose

\* A web worker goes on with its request (one that hangs is killed by gunicorn,
\* which is Abort), the bot's loop with a press whose turn it is.  Nobody has to
\* press or to ask, no message has to arrive, no transaction to commit.
Fairness == /\ \A a \in Web : WF_vars(WebStep(a))
            /\ \A p \in Presses : WF_vars(BotStep(p))

Spec == Init /\ [][Next]_vars /\ Fairness

-----------------------------------------------------------------------------
(* Properties                                                              *)

\* Every variable has its type.
TypeOK ==
    /\ terms \in Terms /\ order \in Row
    /\ row_lock \in Agents \cup {NoOne}
    /\ job \in [Agents -> Job \cup {NoJob}]
    /\ queue \in Seq(Presses) /\ tele \in Seq(Note) /\ chat \in Seq(Keys)
    /\ mid \in Nat /\ announced \in BOOLEAN /\ requests \in Nat /\ presses \in Nat
    /\ overtaken \subseteq Agents

\* Presses of accept, reject and ready never work on the same row: what such a
\* press writes replaces the row it loaded, unless a web worker or a button
\* without the lock wrote in between.  The load and the update are two jobs of
\* the bot's thread; it is the lock that keeps a second press out between them.
LockedPresses ==
    [][\A p \in Presses :
          (Commit(p) /\ job[p].key \in Locked /\ p \notin overtaken) => order = job[p].row]_vars

\* Every press is answered in the end: none waits for a lock that nobody gives
\* back, whatever is refused, raised or returned early before it.
PressAnswered == \A p \in Presses : (job[p] # NoJob) ~> (job[p] = NoJob)

=============================================================================
