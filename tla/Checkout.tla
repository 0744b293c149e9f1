------------------------------ MODULE Checkout ------------------------------
(***************************************************************************)
(* What an order costs: OrderService.create (order/services.py) with its   *)
(* promo code, the edits of its items in the CRM and the recalculation     *)
(* that follows (crm/api/order/services.py), and the receipt payme()       *)
(* builds when the order is accepted.                                      *)
(*                                                                         *)
(* A customer's request is validated against prices and codes as they are, *)
(* and placed later in one transaction.  An edit commits the item, then    *)
(* recalculates without a transaction and saves every column of the order, *)
(* also those a status change wrote meanwhile; "lost" records the orders   *)
(* for which a save overwrote what it had not read.                        *)
(*                                                                         *)
(* Orders here have one group of items, an institution with delivery       *)
(* settings, and are paid by card; an option's price is part of its        *)
(* product's.                                                              *)
(***************************************************************************)
EXTENDS OrderPricing, FiniteSets, Sequences

CONSTANTS
    Customers, Products, Codes,
    NoCode,        \* an order without a promo code, a name that is no code
    Shoppers,      \* customers' requests in flight
    Staff,         \* requests of operators in flight
    NoCart, NoJob, NoItem, NoReceipt,
    Prices,        \* prices a product can have
    StartPrice,    \* the price of all products at first
    Offers,        \* what customers ask for, see Offer
    Counts,        \* counts an operator gives an item
    Institutions,  \* kinds of institution, see Institution
    NoTax,         \* tax_percentage_ordinary is NULL
    CommonTax,     \* Settings.common_percentage_ordinary
    Delivery,      \* the institution's delivery settings
    PromoSum, PromoMin,  \* sum of each code at first, and its min_order_sum
    PromoSums,     \* sums a code can have
    StartName,     \* the code that the name of each code equals at first
    MaxOrders, MaxItems, MaxRequests  \* bounds

Orders  == 1..MaxOrders
ItemIds == 1..MaxItems

\* own: delivery_by_own, with the percentage of that; tax: tax_percentage_ordinary
Institution == [own : BOOLEAN, tax : Nat \cup {NoTax}, taxOwn : Nat, free : BOOLEAN]

\* A request: what is in the basket, the package, and the distance from the
\* customer to the branch that find_suitable_branch finds.
Offer == [basket   : Seq([product : Products, count : Nat]),
          package  : [amount : Nat, quantity : Nat],
          distance : Nat]

Statuses == {"created", "accepted", "rejected", "closed"}
Targets  == Statuses \ {"created"}

\* A PromoCode row.  "dated": now is between its dates.  "named": the code its
\* name equals.
PromoRow == [active : BOOLEAN, dated : BOOLEAN, named : Codes \cup {NoCode}, sum : PromoSums]

\* Columns of an order; "code" and "matched" are history: the code it was placed
\* with, and whether PromoCodeService.use found an active code to use.
Row == [status   : Statuses,
        paid     : BOOLEAN,
        customer : Customers,
        code     : Codes \cup {NoCode},
        matched  : BOOLEAN]

Item == [order : Orders, product : Products, count : Int, total : Int, incident : BOOLEAN]

Usage == [user : Customers, code : Codes, order : Orders]

\* The columns of an order that Row does not have.
Sums == [products : Int, delivering : Int, discount : Nat, total : Int, package : Nat,
         quantity : Nat]

\* What an operator's request holds: how far it is, the order and the items as loaded.
Job == [kind  : {"add", "change", "remove", "status"},
        order : Orders,
        stage : {"edited", "computed", "loaded"},
        to    : Statuses,
        row   : Row,
        sums  : Sums,
        read  : [ItemIds -> Item \cup {NoItem}]]

\* A validated request: the code and the prices as loaded.
Cart == [customer : Customers, offer : Offers, code : Codes \cup {NoCode},
         named : Codes \cup {NoCode}, sum : PromoSums \cup {0}, price : [Products -> Prices]]

ASSUME BoundAssumption ==
    /\ MaxOrders \in Nat /\ MaxItems \in Nat /\ MaxRequests \in Nat
ASSUME InputAssumption ==
    /\ Customers # {} /\ Prices \subseteq Nat /\ Counts \subseteq Nat
    /\ Institutions \subseteq Institution /\ StartPrice \in Prices
    /\ \A f \in Offers : f \in Offer
    /\ PromoSums \subseteq Nat /\ PromoSum \in [Codes -> PromoSums] /\ PromoMin \in [Codes -> Nat]
    /\ StartName \in [Codes -> Codes \cup {NoCode}]
ASSUME SettingsAssumption ==
    /\ CommonTax \in Nat /\ Delivery \in [minDistance : Int, minPrice : Int, perKm : Int]
ASSUME SentinelAssumption ==
    /\ NoCode \notin Codes /\ NoCart \notin Cart /\ NoItem \notin Item /\ NoJob \notin Job

VARIABLES
    institution, \* the kind of institution all orders are for
    price,       \* Product.price
    available,   \* ProductToBranch.is_available at the branch
    promo,       \* PromoCode rows
    usage,       \* PromoCodeUsage rows
    placed,      \* number of orders placed
    order, sums, \* the order rows
    group,       \* their groups
    item,        \* OrderItem rows by id
    nextItem,
    receipt,     \* the last receipt payme() built for each order
    cart,        \* customers' requests
    job,         \* operators' requests
    requests,
    cost,        \* history: the prices each order was placed at
    edited,      \* history: orders with an edited item
    released,    \* history: orders that were ever rejected
    lost         \* history: orders with an update overwritten by a later save

catalogue == <<institution, price, available>>
promos    == <<promo, usage>>
rows      == <<placed, order, sums, group, item, nextItem>>
history   == <<cost, edited, released, lost>>
vars      == <<catalogue, promos, rows, receipt, cart, job, requests, history>>

NoRow   == [status |-> "rejected", paid |-> FALSE, customer |-> CHOOSE u \in Customers : TRUE,
            code |-> NoCode, matched |-> FALSE]
NoSums  == [products |-> 0, delivering |-> 0, discount |-> 0, total |-> 0, package |-> 0,
            quantity |-> 0]
NoGroup == [products |-> 0, delivering |-> 0, total |-> 0, commission |-> 0]

Init ==
    /\ institution \in Institutions
    /\ price = [p \in Products |-> StartPrice]
    /\ available = [p \in Products |-> TRUE]
    /\ promo = [c \in Codes |-> [active |-> TRUE, dated |-> TRUE, named |-> StartName[c],
                                 sum |-> PromoSum[c]]]
    /\ usage = {}
    /\ placed = 0
    /\ order = [o \in Orders |-> NoRow]
    /\ sums = [o \in Orders |-> NoSums]
    /\ group = [o \in Orders |-> NoGroup]
    /\ item = [i \in ItemIds |-> NoItem]
    /\ nextItem = 1
    /\ receipt = [o \in Orders |-> NoReceipt]
    /\ cart = [s \in Shoppers |-> NoCart]
    /\ job = [h \in Staff |-> NoJob]
    /\ requests = 0
    /\ cost = [o \in Orders |-> price]
    /\ edited = {}
    /\ released = {}
    /\ lost = {}

Placed == 1..placed

-----------------------------------------------------------------------------
(* The catalogue and the promo codes, edited in the CRM.                   *)

Request == requests < MaxRequests /\ requests' = requests + 1

SetPrice(p, n) ==
    /\ Request
    /\ price[p] # n
    /\ price' = [price EXCEPT ![p] = n]
    /\ UNCHANGED <<institution, available, promos, rows, receipt, cart, job, history>>

\* Name, sum and dates of a code that was not deleted.
EditPromo(c, r) ==
    /\ Request
    /\ promo[c].active /\ r.active /\ r # promo[c]
    /\ promo' = [promo EXCEPT ![c] = r]
    /\ UNCHANGED <<catalogue, usage, rows, receipt, cart, job, history>>

DeletePromo(c) ==
    /\ Request
    /\ promo[c].active
    /\ promo' = [promo EXCEPT ![c].active = FALSE]
    /\ UNCHANGED <<catalogue, usage, rows, receipt, cart, job, history>>

-----------------------------------------------------------------------------
(* Placing an order.                                                       *)

Used(u, c) == \E r \in usage : r.user = u /\ r.code = c

\* filter_usable and PromoCodeNotUsedByUserValidator
Usable(u, c) == promo[c].dated /\ promo[c].active /\ ~Used(u, c)

\* OrderSerializer.is_valid
Validate(s, u, f, c) ==
    /\ cart[s] = NoCart /\ placed < MaxOrders
    /\ c # NoCode => Usable(u, c)
    /\ cart' = [cart EXCEPT ![s] =
                   [customer |-> u, offer |-> f, code |-> c,
                    named |-> IF c = NoCode THEN NoCode ELSE promo[c].named,
                    sum |-> IF c = NoCode THEN 0 ELSE promo[c].sum, price |-> price]]
    /\ UNCHANGED <<catalogue, promos, rows, receipt, job, requests, history>>

Amounts(v) == [k \in 1..Len(v.offer.basket) |-> v.price[v.offer.basket[k].product] * v.offer.basket[k].count]
Products_(v) == Sum(Amounts(v), Len(v.offer.basket))

\* The percentage at creation; an ordinary one that is not set is the common one.
Percentage ==
    CASE institution.own -> institution.taxOwn
      [] ~institution.own /\ institution.tax = NoTax -> CommonTax
      [] OTHER -> institution.tax

\* (Mutant: the package is not in the sum of the order.)
NewSumsUnpacked(v) ==
    LET products   == Products_(v)
        delivering == DeliveringSum(institution.free, Delivery, v.offer.distance)
    IN  [products |-> products, delivering |-> delivering, discount |-> v.sum,
         total |-> (delivering + products) - v.sum,
         package |-> v.offer.package.amount, quantity |-> v.offer.package.quantity]

NewSums(v) ==
    LET products   == Products_(v) + PackageSum(v.offer.package.amount, v.offer.package.quantity)
        delivering == DeliveringSum(institution.free, Delivery, v.offer.distance)
    IN  [products |-> products, delivering |-> delivering, discount |-> v.sum,
         total |-> (delivering + products) - v.sum,
         package |-> v.offer.package.amount, quantity |-> v.offer.package.quantity]

\* (Mutant: the package belongs to the group, too.)
NewGroupPacked(v, delivering) ==
    LET products == Products_(v) + PackageSum(v.offer.package.amount, v.offer.package.quantity)
    IN  [products |-> products, delivering |-> delivering, total |-> products + delivering,
         commission |-> Commission(products, Percentage)]

\* OrderItemGroupService.create; the package belongs to the order only.
NewGroup(v, delivering) ==
    LET products == Products_(v)
    IN  [products |-> products, delivering |-> delivering, total |-> products + delivering,
         commission |-> Commission(products, Percentage)]

NewItem(v, o, k) ==
    [order |-> o, product |-> v.offer.basket[k].product, count |-> v.offer.basket[k].count,
     total |-> Amounts(v)[k], incident |-> FALSE]

NewItems(v, o) ==
    [i \in ItemIds |-> IF i \in nextItem..(nextItem + Len(v.offer.basket) - 1)
                       THEN NewItem(v, o, i - nextItem + 1) ELSE item[i]]

\* _calculate_discount_sum refuses a total below the code's minimum or sum.
DiscountAllowed(v, t) ==
    v.code # NoCode => t.total + t.discount >= PromoMin[v.code] /\ t.discount <= t.total + t.discount

\* PromoCodeService.use looks for a code equal to the NAME of the code as loaded.
Matched(v) == v.named # NoCode /\ promo[v.named].active

\* (Mutant: unique_together of PromoCodeUsage is missing.)
UseUnchecked(v, o) ==
    usage' = IF Matched(v) THEN usage \cup {[user |-> v.customer, code |-> v.code, order |-> o]}
             ELSE usage

\* A second row of a customer and a code violates unique_together.
Use(v, o) ==
    \/ ~Matched(v) /\ usage' = usage
    \/ /\ Matched(v) /\ ~Used(v.customer, v.code)
       /\ usage' = usage \cup {[user |-> v.customer, code |-> v.code, order |-> o]}

\* OrderService.create, with a branch open.
Place(s) ==
    LET v == cart[s]
        o == placed + 1
    IN  /\ v # NoCart
        /\ o \in Orders /\ nextItem + Len(v.offer.basket) - 1 <= MaxItems
        /\ DiscountAllowed(v, NewSums(v))
        /\ sums' = [sums EXCEPT ![o] = NewSums(v)]
        /\ group' = [group EXCEPT ![o] = NewGroup(v, NewSums(v).delivering)]
        /\ Use(v, o)
        /\ placed' = o
        /\ order' = [order EXCEPT ![o] =
                       [status |-> "created", paid |-> FALSE, customer |-> v.customer,
                        code |-> v.code, matched |-> Matched(v)]]
        /\ item' = NewItems(v, o)
        /\ nextItem' = nextItem + Len(v.offer.basket)
        /\ cart' = [cart EXCEPT ![s] = NoCart]
        /\ cost' = [cost EXCEPT ![o] = v.price]
        /\ UNCHANGED <<catalogue, promo, receipt, job, requests, edited, released, lost>>

\* No branch is open, no operator exists, the total is too small, the code was
\* used meanwhile, or the worker dies: the transaction leaves nothing.
TurnAway(s) ==
    /\ cart[s] # NoCart
    /\ cart' = [cart EXCEPT ![s] = NoCart]
    /\ UNCHANGED <<catalogue, promos, rows, receipt, job, requests, history>>

-----------------------------------------------------------------------------
(* Edits of items.                                                         *)

ItemsOf(o) == {i \in ItemIds : item[i] # NoItem /\ item[i].order = o}

Begin(h, kind, o) ==
    /\ job[h] = NoJob /\ Request
    /\ job' = [job EXCEPT ![h] =
                  [kind |-> kind, order |-> o, stage |-> "edited", to |-> "created",
                   row |-> order[o], sums |-> sums[o], read |-> [i \in ItemIds |-> NoItem]]]

Of(o, p) == {i \in ItemsOf(o) : item[i].product = p}

\* The first item of a product: a queryset without an order.
First(o, p) == CHOOSE i \in Of(o, p) : \A k \in Of(o, p) : i <= k

Added(o, p, n) == [order |-> o, product |-> p, count |-> n, total |-> price[p] * n, incident |-> FALSE]

Append_(table, r) == [table EXCEPT ![nextItem] = r]

\* add_order_item for a product the order does not have; with an incident, the
\* product it replaces is marked in the order and at the branch.
Replaced(o, q) == IF Of(o, q) = {} THEN item ELSE [item EXCEPT ![First(o, q)].incident = TRUE]

AddItem(h, o, p, n) ==
    /\ o \in Placed /\ order[o].status \in {"created", "accepted"}
    /\ Of(o, p) = {} /\ nextItem <= MaxItems
    /\ Begin(h, "add", o)
    /\ item' = Append_(item, Added(o, p, n))
    /\ nextItem' = nextItem + 1
    /\ edited' = edited \cup {o}
    /\ UNCHANGED <<catalogue, promos, placed, order, sums, group, receipt, cart, cost, released, lost>>

ReplaceItem(h, o, q, p, n, newOptions) ==
    /\ o \in Placed /\ order[o].status \in {"created", "accepted"}
    /\ nextItem <= MaxItems
    /\ Begin(h, "add", o)
    /\ available' = [available EXCEPT ![q] = FALSE]
    /\ edited' = edited \cup {o}
    /\ IF Of(o, p) = {} \/ newOptions
       THEN /\ item' = Append_(Replaced(o, q), Added(o, p, n))
            /\ nextItem' = nextItem + 1
       ELSE /\ item' = [Replaced(o, q) EXCEPT ![First(o, p)] =
                           [@ EXCEPT !.count = item[First(o, p)].count + n,
                                     !.total = item[First(o, p)].total + price[p] * n,
                                     !.incident = FALSE]]
            /\ nextItem' = nextItem
    /\ UNCHANGED <<institution, price, promos, placed, order, sums, group, receipt, cart, cost,
                   released, lost>>

\* OrderItemViewSet.partial_update; no status forbids it.
ChangeItem(h, i, n, incident) ==
    /\ item[i] # NoItem
    /\ Begin(h, "change", item[i].order)
    /\ item' = [item EXCEPT ![i] = [@ EXCEPT !.count = n, !.incident = incident]]
    /\ edited' = edited \cup {item[i].order}
    /\ UNCHANGED <<catalogue, promos, placed, order, sums, group, nextItem, receipt, cart, cost,
                   released, lost>>

RemoveItem(h, i) ==
    /\ item[i] # NoItem
    /\ Begin(h, "remove", item[i].order)
    /\ item' = [item EXCEPT ![i] = NoItem]
    /\ edited' = edited \cup {item[i].order}
    /\ UNCHANGED <<catalogue, promos, placed, order, sums, group, nextItem, receipt, cart, cost,
                   released, lost>>

\* recalculate_order_products reads items and prices; an item counts with what
\* its product costs now.  After an addition the order is the one loaded before.
Recalculate(h) ==
    LET j == job[h]
        o == j.order
        fresh == [i \in ItemIds |->
                    IF i \in ItemsOf(o)
                    THEN [item[i] EXCEPT !.total = price[item[i].product] * item[i].count]
                    ELSE NoItem]
    IN  /\ j # NoJob /\ j.stage = "edited"
        /\ job' = [job EXCEPT ![h] =
                      [kind |-> j.kind, order |-> o, stage |-> "computed", to |-> j.to,
                       row  |-> IF j.kind = "add" THEN j.row ELSE order[o],
                       sums |-> IF j.kind = "add" THEN j.sums ELSE sums[o],
                       read |-> fresh]]
        /\ UNCHANGED <<catalogue, promos, rows, receipt, cart, requests, history>>

\* What the items of a table come to, those that are incidents left out.
Counted(table) ==
    [i \in ItemIds |-> IF table[i] = NoItem THEN 0
                       ELSE IF table[i].incident THEN 0 ELSE table[i].total]

\* The package is not added again; the group keeps its products_sum.
NewTotal(g, table) == g.delivering + Sum(Counted(table), MaxItems)

\* An item as it was read, whatever its sum.
Facts(r) == IF r = NoItem THEN NoItem ELSE [r EXCEPT !.total = 0]

\* Nothing a save writes back was written by others since it was read.
Current(j) ==
    /\ order[j.order] = j.row /\ sums[j.order] = j.sums
    /\ j.kind # "status" =>
         \A i \in ItemIds : i \in ItemsOf(j.order) \/ j.read[i] # NoItem =>
            Facts(item[i]) = Facts(j.read[i])

Lost(j) == lost' = IF Current(j) THEN lost ELSE lost \cup {j.order}

\* Items are saved one by one, also one that was deleted meanwhile.  Without a
\* percentage of the institution's own the division raises: group and order are
\* not reached, at every edit of such an order.
SaveSums(h) ==
    LET j == job[h]
        o == j.order
        goods == Sum(Counted(j.read), MaxItems)
    IN  /\ j # NoJob /\ j.stage = "computed"
        /\ item' = [i \in ItemIds |-> IF j.read[i] # NoItem THEN j.read[i] ELSE item[i]]
        /\ job' = [job EXCEPT ![h] = NoJob]
        /\ IF institution.tax = NoTax
           THEN UNCHANGED <<group, order, sums, lost>>
           ELSE /\ group' = [group EXCEPT ![o] =
                               [@ EXCEPT !.total = NewTotal(group[o], j.read),
                                         !.commission = Commission(goods, institution.tax)]]
                /\ order' = [order EXCEPT ![o] = j.row]
                /\ sums' = [sums EXCEPT ![o] =
                              [j.sums EXCEPT !.products = goods,
                                             !.total = NewTotal(group[o], j.read) - j.sums.discount]]
                /\ Lost(j)
        /\ UNCHANGED <<catalogue, promos, placed, nextItem, receipt, cart, requests, cost, edited,
                       released>>

\* The worker dies between the steps of an edit.
Die(h) ==
    /\ job[h] # NoJob
    /\ job' = [job EXCEPT ![h] = NoJob]
    /\ lost' = IF job[h].kind = "status" THEN lost ELSE lost \cup {job[h].order}
    /\ UNCHANGED <<catalogue, promos, rows, receipt, cart, requests, cost, edited, released>>

-----------------------------------------------------------------------------
(* Changes of status: an order is loaded and saved, with everything in it. *)

UpdateStatus(h, o, to) ==
    /\ o \in Placed /\ order[o].status # to
    /\ job[h] = NoJob /\ Request
    /\ job' = [job EXCEPT ![h] =
                  [kind |-> "status", order |-> o, stage |-> "loaded", to |-> to, row |-> order[o],
                   sums |-> sums[o], read |-> [i \in ItemIds |-> NoItem]]]
    /\ UNCHANGED <<catalogue, promos, rows, receipt, cart, history>>

At(h, to) == job[h] # NoJob /\ job[h].stage = "loaded" /\ job[h].to = to

CommitStatus(h, s, paid) ==
    /\ order' = [order EXCEPT ![job[h].order] = [job[h].row EXCEPT !.status = s, !.paid = paid]]
    /\ sums' = [sums EXCEPT ![job[h].order] = job[h].sums]
    /\ job' = [job EXCEPT ![h] = NoJob]
    /\ Lost(job[h])
    /\ UNCHANGED <<catalogue, promo, placed, group, item, nextItem, cart, requests, cost, edited>>

\* What the items of an order cost now.
Gross(o) == [i \in ItemIds |-> IF i \in ItemsOf(o) THEN price[item[i].product] * item[i].count ELSE 0]

Sold(o, i) == i \in ItemsOf(o) /\ ~item[i].incident

\* The lines payme() sends: items but for incidents, each less its discount, the
\* package and the delivery of the group; the amount is that of the order.
\* "fair": nothing has come between the sums of the order and its items.
Receipt(o, t) ==
    LET gross == Gross(o)
        less  == LineDiscounts(gross, MaxItems, t.discount)
    IN  [amount   |-> t.total,
         goods    |-> Sum([i \in ItemIds |-> IF Sold(o, i) THEN gross[i] - less[i] ELSE 0], MaxItems),
         package  |-> PackageSum(t.package, t.quantity),
         delivery |-> group[o].delivering,
         gross    |-> Sum(gross, MaxItems),
         discount |-> t.discount,
         fair     |-> /\ o \notin lost /\ t = sums[o]
                      /\ \A h \in Staff : job[h] # NoJob /\ job[h].order = o => job[h].kind = "status"
                      /\ \A i \in ItemsOf(o) : Sold(o, i) /\ item[i].total = gross[i]
                      /\ o \in edited => t.package = 0 /\ institution.tax # NoTax]

\* The charge is declined or the order paid; a paid order is not charged again.
Accept(h) ==
    LET j == job[h]
    IN  /\ At(h, "accepted")
        /\ \/ j.row.paid /\ CommitStatus(h, "accepted", TRUE) /\ receipt' = receipt
           \/ /\ ~j.row.paid
              /\ receipt' = [receipt EXCEPT ![j.order] = Receipt(j.order, j.sums)]
              /\ CommitStatus(h, "accepted", TRUE) \/ CommitStatus(h, "created", FALSE)
        /\ UNCHANGED <<usage, released>>

\* The code may be used again.
Reject(h) ==
    LET j == job[h]
    IN  /\ At(h, "rejected")
        /\ CommitStatus(h, "rejected", FALSE)
        /\ usage' = {r \in usage : ~(r.order = j.order /\ r.user = j.row.customer)}
        /\ released' = released \cup {j.order}
        /\ UNCHANGED receipt

Close(h) ==
    /\ At(h, "closed")
    /\ CommitStatus(h, "closed", job[h].row.paid)
    /\ UNCHANGED <<usage, receipt, released>>

-----------------------------------------------------------------------------
Order(s) ==
    \/ \E u \in Customers, f \in Offers, c \in Codes \cup {NoCode} : Validate(s, u, f, c)
    \/ Place(s) \/ TurnAway(s)

Edit(h) ==
    \/ \E o \in Orders, p \in Products, n \in Counts :
         \/ AddItem(h, o, p, n)
         \/ \E q \in Products, newOptions \in BOOLEAN : ReplaceItem(h, o, q, p, n, newOptions)
    \/ \E i \in ItemIds :
         \/ \E n \in Counts, incident \in BOOLEAN : ChangeItem(h, i, n, incident)
         \/ RemoveItem(h, i)
    \/ Recalculate(h) \/ SaveSums(h) \/ Die(h)

Status(h) ==
    \/ \E o \in Orders, to \in Targets : UpdateStatus(h, o, to)
    \/ Accept(h) \/ Reject(h) \/ Close(h)

Next ==
    \/ \E p \in Products, n \in Prices : SetPrice(p, n)
    \/ \E c \in Codes : DeletePromo(c) \/ \E r \in PromoRow : EditPromo(c, r)
    \/ \E s \in Shoppers : Order(s)
    \/ \E h \in Staff : Edit(h) \/ Status(h)

Spec == Init /\ [][Next]_vars

-----------------------------------------------------------------------------
(* Properties.                                                             *)

TypeOK ==
    /\ institution \in Institutions
    /\ price \in [Products -> Prices]
    /\ available \in [Products -> BOOLEAN]
    /\ promo \in [Codes -> PromoRow]
    /\ usage \subseteq Usage
    /\ placed \in 0..MaxOrders
    /\ order \in [Orders -> Row]
    /\ nextItem \in 1..(MaxItems + 1)
    /\ item \in [ItemIds -> Item \cup {NoItem}]
    /\ \A i \in ItemIds : item[i] # NoItem => i < nextItem /\ item[i].order <= placed
    /\ cart \in [Shoppers -> Cart \cup {NoCart}]
    /\ edited \subseteq Placed /\ released \subseteq Placed /\ lost \subseteq Placed

\* No recalculation of the order is under way.
Quiet(o) == \A h \in Staff : job[h] # NoJob /\ job[h].order = o => job[h].kind = "status"

\* The last calculation of the order that got through is an edit's, not the one it was
\* placed with: without a percentage of the institution's own an edit never does.
Recounted(o) == o \in edited /\ institution.tax # NoTax

\* What the items of an order come to, as they are stored.
StoredGoods(o) ==
    Sum(Counted([i \in ItemIds |-> IF i \in ItemsOf(o) THEN item[i] ELSE NoItem]), MaxItems)

\* The sums of an order are those of its items (OrderService.create,
\* recalculate_order_products): order, group and items agree whatever edits and
\* status changes came before, unless one overwrote the other or a worker died.
\* The package is part of the sums until the first edit, and only until then.
\* Where the institution has no percentage of its own no edit reaches the sums: items
\* are stored as edited, while order and group go on asking for what was ordered.
SumsAgree ==
    \A o \in Placed \ lost : Quiet(o) =>
        LET goods   == IF o \in edited /\ ~Recounted(o) THEN group[o].products ELSE StoredGoods(o)
            package == IF Recounted(o) THEN 0 ELSE PackageSum(sums[o].package, sums[o].quantity)
        IN  /\ sums[o].products = goods + package
            /\ sums[o].total = goods + package + group[o].delivering - sums[o].discount
            /\ group[o].total = goods + group[o].delivering
            /\ group[o].delivering = sums[o].delivering
            /\ group[o].commission =
                 Commission(goods, IF Recounted(o) THEN institution.tax ELSE Percentage)

\* The lines of a Payme receipt add up to its amount (payme(), discount_remainder)
\* but for the part of a discount that exceeds the price of the items; so it is
\* when the items cost what they did at the last calculation, none is an incident,
\* and an edited order has no package and an institution with a percentage.
ReceiptAdds ==
    \A o \in Orders : receipt[o] # NoReceipt /\ receipt[o].fair =>
        LET r == receipt[o]
        IN  /\ r.goods >= 0
            /\ r.goods + r.package + r.delivery = r.amount + Larger(0, r.discount - r.gross)

\* A customer has one order at a time with a code that could be used
\* (PromoCodeNotUsedByUserValidator, unique_together of PromoCodeUsage, the
\* deletion by a rejection), though the check and the use are two steps.
OncePerCustomer ==
    \A o, q \in Placed \ released :
        /\ order[o].code # NoCode /\ order[o].code = order[q].code
        /\ order[o].customer = order[q].customer
        /\ order[o].matched /\ order[q].matched
        => o = q
=============================================================================
