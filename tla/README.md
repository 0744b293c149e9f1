# Verification of yesexpress

TLA+ models of the food-delivery backend in this repository, the TLC runs that
check them on small instances, and theorems about them checked by TLAPS.

The program is a Django application over PostgreSQL. Requests run in gunicorn
workers, daphne, a channel-layer worker, a Telegram bot process and Celery
tasks, so handlers interleave at every database statement and every call to
another service. The database runs at READ COMMITTED; most handlers have no
transaction or a short one; `order.save()` writes every column of the object it
was given. Nearly everything here follows from those three facts.

## The system

| part | state | operations | what is hard |
|---|---|---|---|
| order status flow (`order/status_controller.py`, views of courier, restaurant, CRM, customer) | `Order` row, its timeline, `PromoCodeUsage`, `Payment` | assign, take, close, accept, process, cooking, ready, cancel, change courier, set any status | stale full-row saves, a lock that only one handler takes, messages that raise inside the transaction |
| card payments (`payme/utils.py`) | `PaymePayment`, `order.receipt_id`, Payme's receipts | receipts.create, pay, cancel | external effects inside a transaction that may roll back; refusals; retries |
| courier settlement (`courier/`, `status_controller`) | `Courier` rows, `Transaction` ledger, `institution.balance` | settle a closed order, top up, change status, delete | `F()` updates against full-row saves, read-modify-write |
| fiscal receipts (`ofd/`) | `OFDReceipt`, `OFDCertificate`, the OFD's own register | sale, prepayment, credit, refund | numbering under concurrency, rollback after the OFD has registered |
| order creation and pricing (`order/services.py`, `crm/api/order/services.py`) | sums of the order, its groups and items | create, edit items, recalculate, the lines of a card receipt | integer arithmetic, discounts, incidents, a recalculation without a transaction |
| promo codes (`order/promo_codes/`) | `PromoCode`, `PromoCodeUsage` | check, use, release | check and use are separate steps |
| websockets (`order/notifiers.py`, `order/consumers.py`) | channel groups, the screens behind them | send to courier, institution, operators | messages before the commit, second messages after it, full channels, reconnects |
| Telegram bot (`bot/`, `order/helpers.py`) | keyboards, per-process locks, message ids | the restaurant's buttons | locks that exclude only the same process, exceptions inside the transaction |
| opening hours (`institution/`) | switches, addresses and weekly hours of the branches | switch, edit, delete; list, search, banner, page, choice of branch | hours past midnight, five queries for one question, overlapping saves |
| catalogue (`product/`, `crm/`, import from r_keeper) | categories, products, `ProductToBranch` | create, edit, delete, availability, import | rows made by whoever comes later, imports in threads, half-failed imports |
| accounts (`user/`, `crm/api/user/`, `restaurant/`) | users, posts of an institution, workers, couriers | sign in, change number, edit, appoint, delete | deletion by renaming the number, several saves without a transaction |
| r_keeper (`rkeeper/`, `order/tasks.py`) | `order.uuid`, `restaurant_status`, cached token | create an order after 60 s, poll statuses, import | retries, saves after slow calls |
| addresses, banners, stories, feedback | rows | CRUD | nothing that depends on another actor's step |

How they meet: every status change goes through `update_order_status`. Accepting
calls `payme()` when the order is paid by card, rejecting calls
`cancel_payment()`, closing settles with courier and institution and asks the
OFD for a receipt, and all of them send a Telegram message and channel-layer
notifications. The courier app, the restaurant app, the CRM, the bot and the
Celery tasks load an order and hand the object to it.

## Modules

| module | models | proofs |
|---|---|---|
| `OrderFlow` | the order row under all handlers | `OrderFlow_proofs` |
| `OrderBoards` | the lists on which restaurant and couriers find an order | |
| `CardPayment` | one order's payment by card, against Payme | `CardPayment_proofs` |
| `Settlement` | couriers' balances and ledger, institutions' balances | `Settlement_proofs` |
| `Books` | abstract: what settling deliveries promises | `Settlement_proofs` |
| `OfdReceipts` | fiscal receipts: numbers, rows, and what the OFD has | `OfdReceipts_proofs` |
| `OrderPricing` | delivery price, commission, package, discount lines (operators) | |
| `Checkout` | placing orders, promo codes, item edits, receipts | `Checkout_proofs` |
| `OrderViews` | what apps, panel and reports say an order costs (operators) | `Checkout_proofs` |
| `Notifications` | websocket messages and the screens they keep up to date | `Notifications_proofs` |
| `RestaurantBot` | the restaurant's Telegram chat, its keyboards and the bot that serves them | `RestaurantBot_proofs` |
| `Catalogue` | the menu of an institution and the import from r_keeper | `Institution_proofs` |
| `Storefront` | when an institution is open: switches, branches, weekly hours, and the views that show it | `Institution_proofs` |
| `Accounts` | accounts of customers and staff, the posts of an institution, deletion | |
| `Devices` | `Accounts` with the devices signed up for push notifications | `Notifications_proofs` |

`MC*` modules give the constants values for TLC.

### OrderFlow

A handler is a value of `job[h]`: the object it loaded (`row`), the courier of
the object in memory, the status it asks for, and the stage it is at. An entry
point (`AssignOrder`, `TakeOrder`, `CloseOrder`, `CrmUpdateStatus`,
`ChangeCourier`, `RestaurantAccept`, ...) is the first step: it evaluates what
the view and `update_order_status` check on the loaded object. The last step is
the commit and writes the whole row (`Save`); when the row is not the one that
was loaded the order goes into `lost`, a history variable that the action
properties use to say "unless a handler overwrote an update it had not seen".
The assignment has a step of its own between its row lock and its commit, the
closing one between paying the courier and saving the order, and
`change_order_courier`, which has no transaction, one between order and timeline.

`update_order_status` has no transition table. What the model shows is how much
holds nevertheless: no order is shipped that never had a courier
(`ShippedHadCourier`), because the subtraction of `preparing_start_at` raises; a
closed order was settled and has its payment (`ClosedIsSettled`); a paid one has
its payment (`PaidHasPayment`); a rejected one is unpaid and free of its promo
code (`RejectedIsReleased`), whatever saves overlap. `AssignNeverSteals`,
`CourierKept`, `SettledOnce` and `CompletedKept` are action properties.

Inputs: what an operator may set is a constant (`CrmStatuses`, `CrmCouriers`),
how an order was created too (`TermsOffered`). The answers of Payme are the
nondeterministic `Charges`. A courier's transport matters: `send_message` looks
it up in a table that lacks `"bicycle"` and raises.

`OrderBoards` adds the three querysets (`AvailableOrders`, `CourierOrders`,
`ActiveList`) and what the code lets those who see an order do with it.
The list of available orders is narrower than the check of an assignment: its query
asks for a branch without pickup (`terms[o].listed`), so the accepted order of an
institution all of whose branches offer pickup is on no courier's list. An order is
tended when it is completed, or on the list of somebody who has a request about it
that the code does not refuse. `NeverStranded` says which steps may end that: those
of an operator; the restaurant's `process` and `incident`, after which its own accept
saves nothing or is not there; its accept of an order without courier that couriers
are not shown; and a save over a row changed since it was loaded. It is about orders
that a courier of the platform brings; one the institution delivers itself stays
accepted, because `update_order_status` wants a courier.

### CardPayment

The steps of one accept: find or create the `PaymePayment`, `receipts.create`,
save the receipt (from here on the order row is locked), `receipts.pay`, commit.
`Rollback` may take the place of every one of them: it undoes the database and
not Payme. A rejection cancels the receipt of the object it loaded and Payme may
refuse. `receipts.pay` may also answer with another state of those in
`payme/models.py`: the accept commits as a success without `is_paid`, the receipt is
`"waiting"`, and Payme may take the money any time after (`PaymeTakes`), which
nothing in the code asks about. So an order can be charged for one receipt late and
for another when it is accepted again, with no rollback and no overlap: a second way
to what `card_charge` shows.

`trouble` collects the orders on which handlers overlapped, a
transaction that had reached Payme rolled back, or Payme refused a cancellation.
Outside it books and Payme differ by exactly the receipts that were charged after
such an answer (`Late`): everything else that Payme holds is what the books say
(`BooksAgree`), and at most one receipt of an order (`HeldOnce`). In and out of it no
order is marked paid without a charge (`PaidWasCharged`), and the books never run
ahead of Payme (`BooksNotAhead`).

### Settlement and Books

A closing reads the institution's balance (`CloseRead`), takes the row lock of
the item group and looks the courier up in the table (`CloseLock`), and commits
(`CloseCommit`): the courier's balance by an `F()` update, one or two
`Transaction` rows, the institution's balance as it was read plus what is due,
the order as it was loaded. Every other handler that touches a courier loads the
row and saves all of it: the assignment, the courier's arrival and change of
status, and the operator's edit and deletion; `change_order_courier` saves the
old courier whole, the new one's status only, and the order, in three
transactions. `Topup` writes a ledger row and no balance.

`raced` holds the couriers and institutions whose balance changed while another
request had their row in memory. Outside it, balance and ledger agree exactly
(`LedgerKept`) and no commission is lost or repeated (`InstitutionKept`): the
only way to part them is an overlap, and the `F()` updates by themselves never
do. `again` holds the orders that were opened again after a closing, or closed by
two closings at once; outside it an order is paid out once (`PaidOnce`).
`CloseOrderView` lets any courier close any order, and puts him in the object;
the money still reaches only a courier whom the order has had
(`OnlyHoldersPaid`), because the payee is read from the table.

`Books` says what is promised with no such exception: an order is paid out only
by a closing that began while it was open, each closing pays at most once, all
or nothing, in one step with closing the order. `Settlement` implements it with
`state`, `closing` and `paid` read off the order rows, the jobs and the ledger
(`PaysByTheBooks`).


### OfdReceipts

A call of `OFDReceiptService` is a value of `job[w]`: the certificate it took
when it was constructed (`Call`), the check of its method (`SaleCheck`,
`RefundCheck`, `PrepaymentCheck`, `CreditCheck`), the query for the last number
(`Look`), the row lock and the insert (`Insert`), the request to the OFD
(`Answer`, `LoseAnswer`, `RefuseReceipt`) and the save of the answer, which
commits unless the method runs inside a closing or a credit receipt
(`SaveInClosing`, `SaveInCredit`). `Look` and `Insert` are two steps because
`SELECT ... ORDER BY ... FOR UPDATE` at READ COMMITTED waits for the row it has
already chosen: the second of two waiting receipts gets the same number as the
first, and nothing is locked when the certificate has no receipts yet.

`ofd` is what the OFD registered; it never rolls back. The OFD may keep the
number it was given or use its own next one, may refuse, and its answer may be
lost. Every row has, as history, the receipts that were committed when it looked
(`after`). A receipt's number is above all of those, with every mixture of
numbers given and answered (`NumbersGrow`); only receipts in flight together can
share one. `OfdAgrees` relates rows and register in both directions and names the
only ways to lose a registered receipt: a lost answer, a killed worker or a
caller that rolled back, and the sale undone with its credit receipt.
`SoldOnce`, `RefundsLinked` and `OneContract` speak of payments whose calls did
not overlap: the checks read without a lock and the refund check reads the object
it was handed.


### OrderPricing and Checkout

A customer's request is a value of `cart[s]` between the serializer's validation
(`Validate`: the code is usable and not used, prices are loaded) and
`OrderService.create` (`Place`, one transaction; `TurnAway` stands for every
exception, which the view answers with "organization closed"). An operator's edit
is a value of `job[h]`: the item is changed (`AddItem`, `ReplaceItem`,
`ChangeItem`, `RemoveItem`), items and prices are read (`Recalculate`), then item
rows, group and order are written (`SaveSums`), with no transaction around them;
`Die` ends a request between. Changes of status hold the whole order row and
write it back, which can undo a recalculation and the other way round; `lost`
names those orders, and `SumsAgree` speaks of the rest. Where the institution has no
percentage of its own (`tax_percentage_ordinary` is NULL) the recalculation raises a
`TypeError` at its commission, after the items were saved: every edit of such an
order is stored, answered with an error, and never reaches group and order, which keep
the sums of the placement. `SumsAgree` says both: the sums are those of the items, or,
for an edited order of such an institution, those of the placement.

`OrderPricing` has the arithmetic: `round(x, -1)` and `round(x, -2)` to even, the
delivery price, the commission, the package that counts once when its quantity is
zero, and the discounts that `payme()` gives to the lines of a receipt.
`ReceiptAdds` is what Payme checks: the lines add up to the amount. It needs
five conditions, each a way in which the code's receipts do not add up: no item
is an incident (its share of the discount is dropped with its line), prices are
those of the last calculation (the receipt takes today's), the discount is not
above the price of the items, an edited order has no package (the
recalculation forgets it, the receipt does not), and its institution has a percentage.

`OncePerCustomer` is about codes that could be used: `PromoCodeService.use` writes the
usage row only if some active code is equal to the *name* of this one, so a code with
another name is never used up (`matched`).

`OrderViews` reads what `Checkout` writes and changes nothing. Courier and
restaurant are shown a total of their own, from the delivery, the products and
the sum that the code of the usage row has at that moment; `ShownIsOwed` says it is the
`total_sum` the customer owes, lost updates included. It is not after a
rejection, which deletes the usage row and leaves the discount in the sums, nor for
a code that was never used up or whose sum was edited since. `ReportsAgree` compares six
reports, which take the money of an order from four places: today's prices, the
group, the items, the order row.


### Notifications

The handlers of OrderFlow, by when they notify. `SaveOrder` sends to all groups under
the row lock that `order.save()` took, so those messages arrive in the order of
the commits; `Answer` is the second round of the restaurant's views, sent after
the commit with the object in memory, whatever the update answered; `Told` is
`change_order_courier`, which has no transaction. A screen is what the last
message said; a connection that breaks loses what was under way (`Reconnect`).
`trouble` remembers a message without a commit behind it (`Sent`: an assignment
tells whatever the status is, an update that goes back to `created` tells nobody), and `ScreensAgree`
says that without one a screen with nothing under way shows the committed order:
it fails as soon as two saves could notify before they wait for each other.
`ScreensCatchUp` is liveness: a connected screen shows every status that stays.

### RestaurantBot

A press is a value of `job[p]`, like a web request, with a queue at the order's
asyncio lock in front of it (`queue`, the holder first). The bot's database work
runs in one thread (`Thread`), but the load and the update are two jobs of it:
`LockedPresses` says that the lock keeps another locked press from getting
between them, and `overtaken` names the presses for which a web worker, or a
button without a lock, did. `PressAnswered` is liveness: every early return and
every exception gives the lock back. The channel to the chat is bounded
(`Capacity`); a full one raises inside the transaction, and what was sent before
stays sent. The chat is the sequence of keyboards under its messages; an edit
removes that of the message whose id is in the row, which with two chats is the
id of the last one only.

### Catalogue

`category`, `product`, `branches` and `rows` (the `ProductToBranch` rows of every
pair, as a sequence, because nothing forbids two) are the tables; a request or an
import thread is a value of `work[j]`. A PATCH loads a product and saves the whole
row; the serializer of a new product reads the branches and gives it a row for
each (`ReadBranches`, `LinkProduct`), that of a new branch does the same for the
products inside a transaction (`CreateBranch`, `LinkBranch`). The restaurant's viewset
deletes a branch at any moment, and its rows go with it (`DeleteBranch`): who had
read the branch before then breaks a foreign key. The import is one
step per query, because every look and every insert is a statement of its own.
`contested` names the pairs that two requests were making a row for at one time and
`parallel` says that two imports overlapped: `OneRowEach` and `ImportedOnce` say what
holds of all other pairs and histories, deletions and half-failed imports included;
`ImportDelivers` holds of overlapping imports too: an item that came was put on the
menu of a branch of the place (`put`), and is on it unless that branch was deleted
since. `InstitutionBranch.objects.get` raises when the place has no branch any more, or
two: it fails the item when its product is new, inside the `try`, and else ends the
thread (`Fails`).

### Storefront

`institution`, `branch` and `schedule` are the three tables whose columns decide
whether an institution is open, `sold` what each branch sells, and `clock` the day
and moment the queries compare with. A change is a load and a save of a whole row
(the weekly hours are several rows of one transaction, `update_schedule` a row at a
time). The views are operators: `ListShowsOpen`, `SearchShowsOpen` and
`BannerShowsOpen` go through `Represent`, the `to_representation` that replaces the
flags of the query by those of one branch; `MenuBranch` is the branch of the page,
`OrderBranch` the one an order goes to. `HoursAgree` compares the query on the hours
with a reference that knows what hours past midnight mean; `OneAnswer` relates the
five views to each other; `KeptAsAsked` uses `asked`, what the last request for a row
wanted, and `crossed`, the rows two requests were changing at one time.

### Accounts

`user` is the table of accounts (type, number or none, alive or not), `institution`
the row with its `admin` and `owner`, `worker` and `courier` the accounts with such a
row, `codes` those that were sent a code for a new number. A request begins with an
action named for its view, which loads the rows and makes its checks, and goes on by
the statements it executes (`Insert`, `Save`, `Link`, `Close`, ...), in the order of
the code: `delete_institution_admin` saves the account twice and then the
institution, `handle_institution_delete` the institution, the administrator, the
owner. Only `add_institution_admin` and `add_institution_owner` are transactions
(`Appoint`); every other request may be cut between two statements (`Die`). `gone`,
`loose` and `raced` are history: the accounts whose deletion was saved, those the code
itself leaves without a post, half made or in a post that is not theirs, and the rows another request changed while
one held them in memory. Nothing is claimed of the last two: an account brought back
by a stale full save is a hazard of this code, and `GoneForGood` says that only a
stale save does it. That `DeleteCategory` deletes institutions and leaves the accounts
of their staff live, that the panel of a deleted institution can appoint an
administrator, that a PATCH of an institution puts any account in a post, of another
type or deleted, or nobody (`EditInstitution`: `admin` and `owner` are writable,
`crm/api/institution/serializers.py:325`), and that users change their own type or
switch themselves off (`EditOwn`) is what `loose` lets through: the accounts concerned,
and no others.

`Devices` composes `Accounts` with the table of registration ids. A request about a
device reads a row, deletes it by its primary key (`Wipe`) or saves it (`Mark`), then
adds one (`Add`), each a statement of its own; Django's `save()` inserts a row that was
deleted in between, so a phone that was signed out may be signed up again by a late
PATCH: that id is then in `crossed`. `phone` is whom the app itself is signed in as.
`PushesArrive` says that otherwise the row is that account's, and that who is told of
a restaurant's orders works there unless his account was deleted or dropped, which
leaves its devices in the table. FCM is external: an id of a removed app (`dead`) is
refused, and the consumer deletes its row. Two consumers, for cancelled orders and for
a courier's acceptance, look for the worker whose row has the number of the branch
(`order/push_notifications/consumers.py:114`): whom they reach instead is not modelled.

## Runs

| run | instance | states | result |
|---|---|---|---|
| `order_flow` | 1 order, 2 couriers (car, bicycle), 2 handlers, 4 requests | 441,018 | all properties hold |
| `assign_limit` | 2 orders, 1 courier, limit 1 | | `AssignWithinLimit` violated |
| `card_payment` | 1 order, 2 totals, 3 receipts, 2 handlers, 5 requests | 983,102 | all properties hold |
| `card_charge` | 1 handler | | `NeverChargedTwice` violated |
| `settlement` | 2 orders (card; cash whose products the courier pays for), 2 couriers, 1 institution, 2 handlers, 4 requests | 202,862 | all properties hold |
| `ofd_receipts` | 2 payments, 2 certificates, 2 workers, 3 rows, 4 calls | 1,539,231 | all properties hold |
| `checkout` | 1 customer, 2 requests of customers, 2 operators, 2 orders, 3 items, 2 edits | 803,424 | all properties hold |
| `screens` | 1 order, 1 watched group, 2 handlers, 2 requests, channels of 2 | 47,303 | all properties hold |
| `bot` | 1 order, 1 web worker, 2 presses, channel of 3 | 125,486 | all properties hold |
| `catalogue` | 3 products, 3 branches, 3 categories, 1 item, 3 requests or imports | 241,381 | all properties hold |
| `storefront` | 2 branches, 2 days of 4 moments, 1 product, 2 requests | 350,792 | all properties hold |
| `accounts` | 5 accounts (2 to be made), 4 numbers, 1 phone, 2 requests on accounts and 2 on devices at a time, 3 in all | 924,125 | all properties hold |

Bounds. Two handlers are enough for every race between two saves; four requests
let one order be accepted, assigned, shipped and closed, or two handlers cross
twice. The order properties speak of one order at a time and orders share only
the count of active orders, which has a run with two of its own. Three receipts
allow a decline, an edit of the total and a third attempt. Three rows of fiscal
receipts are a sale, its refund and a second sale; two versions are a change of
certificate. Two orders of one customer are what one promo code can be in dispute
between; the prices, counts and discounts are chosen so that rounding to tens goes
both ways and the discount reaches beyond the first line. A day of four moments has
every order of start, end and now, and two days a midnight; two branches are the
one an order could go to and another. In Catalogue three requests are an import or a
creation beside a deletion and a second import; the init state has one product at
one branch, so that a row exists that nobody made here. The accounts are a customer,
an owner, an administrator and two to be made, with three requests, two of them at a
time: an appointment over a deletion, and one after; one phone is enough for two
accounts to pass it on, because requests about two registration ids never meet. Counters are bounded by the constants `MaxRequests`,
`MaxReceipts`, `MaxRows`, `MaxVersion`, `MaxCalls`, `MaxOrders`, `MaxItems` and
`MaxPresses` only; in Catalogue a request of `Workers` and in
Storefront one of `Jobs` is served once.
`CHECK_DEADLOCK` is off where a behaviour ends when its requests are used up;
Storefront, whose clock never stops, is checked for deadlock.

Fairness. Safety needs none. Two specifications assume weak fairness, because they
claim liveness: in Notifications that a handler that has begun goes on and that a
consumer delivers what is in its channel; in RestaurantBot that a web request and
the bot's work on a press go on. A worker that is killed or raises also goes on: its
transaction is rolled back (`Abort`, `GiveUp` and the like) and nothing says it
commits. Nothing is assumed of people: nobody has to press, ask or reconnect. The
lock queue of the bot is that of `asyncio.Lock`, first come first served. No other
liveness is claimed: the code has no scheduler or retry that would finish a request
after its worker died.

## What the violated runs say

* `assign_limit`: two assignments to one courier lock two different rows, count
  the same active orders and both commit. The courier exceeds the "allowed
  limit" of `order/serializers.py`.
* `card_charge`: the `PaymePayment` row that should prevent a second charge rolls
  back with the transaction that charged. An answer of `receipts.pay` with another
  state than 4 leads there too, by a receipt that Payme charges afterwards.
## Theorems

The proof modules prove their theorems for any sets of
orders, couriers, handlers and receipts, and any bounds. The assumptions are the
named ones of the modules: constants have their types, sentinels are not
elements.

* Type correctness (`TypeCorrect` in each module) carries `RequestOK`, what is known of a request in flight: which
  stage belongs to which kind, which status its view has seen. The other proofs
  need it.
* `Backing` is the inductive invariant of OrderFlow. The properties of the
  committed row are not inductive, because a handler can write back a row it
  loaded long ago. So the invariant says of *every* row, committed or in a
  handler's memory, that the other tables and the history back it. It is stable
  because payments, settlements and the set of orders that had a courier only
  grow and promo usages only go.
* From it follow `PaidHasPayment`, `ClosedIsSettled`, `ShippedHadCourier`,
  `RejectedIsReleased`. `LockHeld`, that one assignment at a time holds an order, is
  inductive by itself; `AssignNeverSteals`,
  `SettledOnce`, `CourierKept` and `CompletedKept` are proved per action.
* `NeverStranded` speaks of queries and guards; `TendedIsHeld` says what of an order's
  row they come to (`Held`). It is proved per action from `AllAsked`, which is
  inductive: an update in flight asks for what its entry point asks for, and was not
  refused on the row it saves. So a courier who takes an order has one, and cooking or
  ready is set on an order with a courier. `SetsAside` names the steps that are excepted.
* `Honesty` is the inductive invariant of CardPayment, of the same form: every
  row marked paid, in memory or committed, names a receipt that was charged for
  its order. `PaidWasCharged` follows, and `RecordedWasCharged`, the same of a
  `PaymePayment` in state 4.
* `Accounts` of `CardPayment_proofs` is inductive beside it: outside `trouble` at most
  one request serves an order, it holds the row as it is, and what Payme holds for the
  order (`Held`), less what it took late (`Late`), is what that row, or the stage of
  that request, stands for. The step
  from Payme's answer to the commit is why the stage has to be part of it.
  `HeldOnce` and `BooksAgree` follow. `Booking` counts: payments, and a charge not
  yet booked, are no more than the receipts that were paid. A charge belongs to
  one pending booking only because its handler has the row lock (`OneHolder`).
* `Accounts` is the inductive invariant of the balances in Settlement:
  `LedgerKept`, `InstitutionKept`, and that every copy of a balance in a
  handler's memory is current unless the row is in `raced`. The last part is what
  makes full-row saves harmless; `OthersLoaded` shows that a step of one handler
  keeps the others' copies current or marks the row.
* `Payouts` is the inductive invariant of the payouts: a courier about to be paid
  has had the order, and an order that is open or being closed and is not in
  `again` has not been paid. `PaidOnce` and `OnlyHoldersPaid` follow.
* `ImplementsBooks` maps every step of Settlement to a step of Books or a
  stutter.
* `IInv` of `OfdReceipts_proofs` is inductive: the rows of a call are open and,
  but for the one being made, settled (the OFD's answer is in the row); the rows
  of two calls are disjoint; and the number of every row, or of the call that has
  just looked, is above those *the OFD* gave to the rows seen before. Stating it
  of the register instead of the table is what makes it inductive, since the
  register only grows. `ReceiptsAgree` and `NumbersAreFresh` follow.
* `Ledger` is inductive beside it and is about payments whose calls did not overlap.
  Rows are taken back when a call gives up, so it speaks of two tables at once, the
  rows and the register: in both a payment has at most one sale standing, a
  refund is linked from the receipt it is for, prepayments share a contract
  (`TablesOK`), and what a call found when it checked is still so while it waits for
  its number and for the OFD (`FreshCalls`, which needs `Alone`: no second call).
  `OneSale`, `RefundsAreLinked` and `ContractsAgree` follow.
* `IInv` of `Checkout_proofs` says that an order which took a usable code owns the
  usage row of its customer and code until it is rejected (`UsageKept`), that
  these rows are unique (`UsageUnique`), and that requests hold rows whose
  customer and code are those of the table (`Jobs`), so that no late save changes
  them. `CodeIsHeldOnce` follows without any assumption on when checks and
  placements interleave. `Money` says that the sums add up in every order row, in every
  row a request holds and in every request to come, that a recalculation under way
  has the delivery of its order's group, and that a usage row is that of the order it
  names; `TheTotalShownIsOwed` follows. Products are kept abstract in it, so it needs
  no fact about `Sum`.
* `Bookkeeping` adds what the columns are sums of. `Typed` says they are integers;
  `AsPlaced`, that an order nobody edited is what its basket came to, in the table and
  in every request; `AsEdited`, that an edited one which lost no update and is not
  being recalculated is what its items came to when they were last read; `Readings`,
  that an id is one order's, whoever holds its row, so that a late save cannot put an
  item into another order. `SumsAreOfItems`, `ReceiptsAdd` and
  `ReportsTellTheSame` follow from it and from lemmas about `Sum` and
  `LineDiscounts` that hold for any number of terms: a sum of sums, of a block of
  ids, of equal terms, of terms within a bound of each other (the roundings of the
  commission, `CommissionWithin`), and of discounts spread over lines
  (`DiscountsSpread`). `Unreached` is the case of an institution without a percentage:
  the sums of the placement stay in every order and in the hands of every request.
* Both operators are defined by recursive functions. The library's induction
  theorems take an operator as parameter, which the provers cannot instantiate, so
  the lemmas go by `NatSetInduction`, which speaks of a set of numbers and is proved from
  the well-foundedness of the naturals (`WFMin`, `NatLessThanWellFounded`).
* `SettingsAssumption` says that percentages and delivery settings are whole
  numbers: `IntegerField`s in `common/models.py` and `courier/models.py`.
* `ScreensInv` of `Notifications_proofs`: whoever has saved and not committed holds the row
  lock (`LockOK`), and what a screen will show once its channel is empty is what
  the holder has told, or with no holder the committed order, or a request that
  wrote without telling is about to tell (`ScreensCurrent`). Without the middle case the
  messages sent under the lock would contradict it; with it `Commit` hands the
  one over to the other. The names of Notifications are its
  own, so that the module of the proofs can extend it and Devices: websockets and
  pushes are the two ways in which news of an order are sent.
* `IInv` of `RestaurantBot_proofs`: whoever works under the bot's lock is at the
  head of its queue (`OneHolder`), and unless somebody outside the lock wrote, the
  row it loaded is the order's (`RowKept`). Two holders would both be the head.
* `OneRowForEach`, `ItemsImportedOnce` and `ImportsDeliver` rest on `MenuInv`, which
  says what every kind of job has read and still owes. A product that is waiting for
  its rows (`ProductToCome`) has none but contested ones, and a branch it did not read
  contests it; a branch being created (`BranchToCome`) is not there yet, and a product
  it did not read contests it: the two cases are why the later serializer always
  finds the earlier row, or knows of the crossing. `NothingSince` is what an import
  that is alone still knows between its look and its insert; `ImportSoFar` says that
  what is neither in the list nor among the failures is on the menu where it was put, or
  in hand, or its branch was deleted. Each
  action is shown to be a `StepOfWork`: it makes only the rows, products and branches
  its own job may make. That much is enough for all other jobs (`StepKeepsMenu`), so
  no action is ever compared with the state of another.
* `HoursAreRight` and `ViewsAgree` need no more of a state than its types: they are
  about queries, for any number of branches, days and moments. `RowsStay` rests on
  `Kept`: of a row outside `crossed` at most one request is a writer, the row is as
  was asked last unless there is one, and what that one will write is what was asked
  last. The days of a week are the hard case, since a request writes them one by one.
* `IInv` of `Notifications_proofs` says of every request, at each place it can be, what it
  holds in memory: a row as live, and an institution the same, as the table's unless
  another request raced it (`JobOK`, `RequestsOK`); and of every account what is out of
  order about it, which is what some request is about to set right (`InOrder`): a
  newcomer without its post is that of one request about to link it, whoever holds a post and
  does not fit it is loose, an account that is closed and still in its post that of one about to clear it. `GoneForGood` is a
  conjunct, `PostsAgree` follows where no such request is left. `DInv` says that a
  request about a registration id holds the row there is while it is alone with it
  (`RowsKnown`); `PushesArrive` needs both.
* Input bounds: `OwnRows` changes one column of the user's own row at a time, and
  `CrmEdit` gives no type of the institution's staff.
* `SentinelAssumption` and `DeviceSentinels` say that "no request", "no call" and "no
  device" are none; the ids of accounts are naturals because the next one made is the least.

Only model-checked: `ScreensCatchUp`, `PressAnswered`, the two liveness properties: they need fairness,
which is out of the prover's reach. Every other property of a passing run is stated by
a theorem.

## Plan

In this order:

1. RkeeperSync: the delayed order creation and the cached token, once the polling task can run.
2. The signing step of the fiscal receipts, with the content of the files it shares.

## Not modelled

* Passwords, tokens and the values of one-time codes; permissions, beyond
  the checks a view makes on the rows themselves.
* The Celery tasks of r_keeper: `bulk_check_order_statuses` raises on its first
  order, because `rkeeperAPI` is built without its `endpoint_url`, and
  `delayed_notification_task` changes only the uuid of the order; its full-row save
  is `SaveOrder` of OrderFlow. `delayed_send_notification` sends a push and changes
  nothing.
* The contents of push notifications, and the location of couriers: output only.
* Orders of several institutions: every order here has one group, so that the order's
  `products_sum` taken from the last group (`crm/api/order/services.py:77`) is not seen.
* Options of products, images, texts, ratings, likes and the sorting of lists: data
  that no property here tells apart.
* The signing of fiscal receipts: the fixed names of its files need the contents of
  a receipt, which are left out.
* Addresses, banners, stories, feedback and the dashboard's counts: no step depends
  on another actor. Migrations and deployment.

About a fifth of the repository's lines stand behind a definition here. More than a
quarter are migrations; most of the rest lists the fields of serializers, forms, filters
and admin pages, routes, settings, exports to spreadsheets and code that is commented
out, in which nothing changes state.
