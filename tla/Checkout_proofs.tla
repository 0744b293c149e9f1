--------------------------- MODULE Checkout_proofs ---------------------------
(***************************************************************************)
(* Theorems about Checkout, for any customers, codes, prices and requests. *)
(***************************************************************************)
EXTENDS OrderViews, WellFoundedInduction, TLAPS

\* A table of items whose rows exist: of orders that were placed, with ids used.
Table(t) ==
    /\ t \in [ItemIds -> Item \cup {NoItem}]
    /\ \A i \in ItemIds : t[i] # NoItem => i < nextItem /\ t[i].order <= placed

\* What an operator's request holds: a placed order, its row with the columns that
\* no edit changes, and rows of items.
JobOK(j) ==
    /\ j = [kind |-> j.kind, order |-> j.order, stage |-> j.stage, to |-> j.to, row |-> j.row,
            sums |-> j.sums, read |-> j.read]
    /\ j.order \in Placed
    /\ j.row \in Row
    /\ j.row.customer = order[j.order].customer
    /\ j.row.code = order[j.order].code
    /\ j.row.matched = order[j.order].matched
    /\ Table(j.read)

Jobs == DOMAIN job = Staff /\ \A h \in Staff : job[h] # NoJob => JobOK(job[h])

\* A code that was used has its row until the order is rejected, and a customer
\* has one row of a code.
UsageKept ==
    \A o \in Placed \ released :
        order[o].code # NoCode /\ order[o].matched =>
            [user |-> order[o].customer, code |-> order[o].code, order |-> o] \in usage

UsageUnique == \A r, q \in usage : r.user = q.user /\ r.code = q.code => r = q

\* A request without a code has no name of a code.
Carts == \A s \in Shoppers : cart[s] # NoCart /\ cart[s].code = NoCode => cart[s].named = NoCode

Types == TypeOK /\ Jobs /\ Carts

\* The inductive invariant.
IInv == Types /\ UsageKept /\ UsageUnique

-----------------------------------------------------------------------------
(* Lemmas.                                                                 *)

\* A non-empty set of item ids has a least one, so First is the first.
LEMMA FirstItem ==
    ASSUME NEW o, NEW p, Of(o, p) # {}
    PROVE  First(o, p) \in Of(o, p)
<1> DEFINE R == OpToRel(<, Nat)
<1>1. Of(o, p) \subseteq Nat BY BoundAssumption DEF Of, ItemsOf, ItemIds
<1>2. IsWellFoundedOn(R, Nat) BY NatLessThanWellFounded
<1>3. \A i, k \in Nat : k < i => <<k, i>> \in R BY DEF OpToRel
<1> HIDE DEF R
<1>4. \E i \in Of(o, p) : \A k \in Of(o, p) : ~(<<k, i>> \in R) BY <1>1, <1>2, WFMin
<1>5. \E i \in Of(o, p) : \A k \in Of(o, p) : i <= k
  <2>1. PICK i \in Of(o, p) : \A k \in Of(o, p) : ~(<<k, i>> \in R) BY <1>4
  <2>2. \A k \in Of(o, p) : ~(k < i) BY <1>1, <1>3, <2>1
  <2> QED BY <1>1, <2>1, <2>2
<1> QED BY <1>5 DEF First

\* A row with another sum or mark is a row.
LEMMA ItemChanges ==
    ASSUME NEW r \in Item, NEW n \in Int, NEW t \in Int, NEW b \in BOOLEAN
    PROVE  /\ [r EXCEPT !.incident = b] \in Item
           /\ [r EXCEPT !.total = t] \in Item
           /\ [r EXCEPT !.count = n, !.incident = b] \in Item
           /\ [r EXCEPT !.count = n, !.total = t, !.incident = b] \in Item
           /\ [r EXCEPT !.incident = b].order = r.order
           /\ [r EXCEPT !.total = t].order = r.order
           /\ [r EXCEPT !.count = n, !.incident = b].order = r.order
           /\ [r EXCEPT !.count = n, !.total = t, !.incident = b].order = r.order
BY DEF Item

LEMMA Initially == Init => IInv
<1> SUFFICES ASSUME Init PROVE IInv OBVIOUS
<1> USE BoundAssumption, InputAssumption, SentinelAssumption
<1>1. NoRow \in Row BY DEF NoRow, Row, Statuses
<1>2. promo \in [Codes -> PromoRow] BY DEF Init, PromoRow
<1>3. TypeOK BY <1>1, <1>2 DEF Init, TypeOK, Placed, Orders, ItemIds
<1>4. Jobs /\ Carts BY DEF Init, Jobs, Carts
<1>5. UsageKept /\ UsageUnique BY DEF Init, UsageKept, UsageUnique, Placed
<1> QED BY <1>3, <1>4, <1>5 DEF IInv, Types

-----------------------------------------------------------------------------
(* What a step leaves alone.                                               *)

\* Orders and ids of items only grow, and three columns of an order never change.
Grows ==
    /\ placed' \in 0..MaxOrders /\ placed <= placed'
    /\ nextItem' \in 1..(MaxItems + 1) /\ nextItem <= nextItem'
    /\ \A o \in Placed : /\ order'[o].customer = order[o].customer
                         /\ order'[o].code = order[o].code
                         /\ order'[o].matched = order[o].matched

LEMMA TableKept ==
    ASSUME TypeOK, Grows, NEW t, Table(t)
    PROVE  /\ t \in [ItemIds -> Item \cup {NoItem}]
           /\ \A i \in ItemIds : t[i] # NoItem => i < nextItem' /\ t[i].order <= placed'
<1> USE BoundAssumption
<1>1. placed \in Int /\ nextItem \in Int /\ placed' \in Int /\ nextItem' \in Int BY DEF TypeOK, Grows
<1>2. ASSUME NEW i \in ItemIds, t[i] # NoItem PROVE i < nextItem' /\ t[i].order <= placed'
  <2>1. t[i] \in Item BY <1>2 DEF Table
  <2>2. t[i].order \in Int BY <2>1 DEF Item, Orders
  <2>3. i \in Int BY DEF ItemIds
  <2>4. i < nextItem /\ t[i].order <= placed BY <1>2 DEF Table
  <2> QED BY <1>1, <2>2, <2>3, <2>4 DEF Grows
<1> QED BY <1>2 DEF Table

LEMMA JobKept ==
    ASSUME Types, Grows, NEW h \in Staff, job'[h] = job[h], job[h] # NoJob
    PROVE  JobOK(job[h])'
<1> USE BoundAssumption
<1>1. JobOK(job[h]) BY DEF Types, Jobs
<1>2. job[h].order \in Placed BY <1>1 DEF JobOK
<1>3. job[h].order \in Placed' BY <1>2 DEF Types, TypeOK, Grows, Placed
<1>4. Table(job[h].read)
  BY <1>1 DEF JobOK
<1>5. Table(job[h].read)'
  <2> DEFINE t == job[h].read
  <2>1. TypeOK /\ Table(t) BY <1>4 DEF Types
  <2>2. job'[h].read = t OBVIOUS
  <2> HIDE DEF t
  <2>3. /\ t \in [ItemIds -> Item \cup {NoItem}]
        /\ \A i \in ItemIds : t[i] # NoItem => i < nextItem' /\ t[i].order <= placed'
    BY <2>1, TableKept
  <2> QED BY <2>2, <2>3 DEF Table
<1> QED BY <1>1, <1>2, <1>3, <1>5 DEF JobOK, Grows

\* If a step leaves all requests but one alone, only that one is to be looked at.
LEMMA JobsKept ==
    ASSUME Types, Grows, NEW h \in Staff, NEW j, job' = [job EXCEPT ![h] = j],
           j # NoJob => JobOK(job[h])'
    PROVE  Jobs'
<1>0. job'[h] = j /\ DOMAIN job' = Staff /\ \A k \in Staff \ {h} : job'[k] = job[k]
  BY DEF Types, Jobs
<1>1. ASSUME NEW k \in Staff, job'[k] # NoJob PROVE JobOK(job[k])'
  <2>1. CASE k = h BY <2>1, <1>0, <1>1
  <2>2. CASE k # h BY <2>2, <1>0, <1>1, JobKept
  <2> QED BY <2>1, <2>2
<1> QED BY <1>0, <1>1 DEF Jobs

LEMMA AllJobsKept ==
    ASSUME Types, Grows, job' = job
    PROVE  Jobs'
<1>1. ASSUME NEW k \in Staff, job'[k] # NoJob PROVE JobOK(job[k])'
  BY <1>1, JobKept
<1> QED BY <1>1 DEF Jobs, Types

LEMMA CartsKept ==
    ASSUME Carts, cart' = cart
    PROVE  Carts'
BY DEF Carts

\* Usage rows and the columns they copy stay; orders may become rejected.
LEMMA UsageStays ==
    ASSUME IInv, Grows, placed' = placed, usage' = usage, released \subseteq released'
    PROVE  UsageKept' /\ UsageUnique'
BY DEF IInv, UsageKept, UsageUnique, Grows, Placed

LEMMA SameGrows ==
    ASSUME TypeOK, UNCHANGED <<placed, order>>, nextItem' \in 1..(MaxItems + 1), nextItem <= nextItem'
    PROVE  Grows
BY BoundAssumption DEF TypeOK, Grows

-----------------------------------------------------------------------------
(* The steps.                                                              *)

LEMMA CatalogueStep ==
    ASSUME IInv, NEW p \in Products, NEW n \in Prices, SetPrice(p, n)
    PROVE  IInv'
<1>1. TypeOK' BY DEF IInv, Types, TypeOK, SetPrice, promos, rows, history, Placed
<1>2. Grows BY SameGrows DEF IInv, Types, TypeOK, SetPrice, rows
<1>3. Jobs' /\ Carts' BY <1>2, AllJobsKept, CartsKept DEF IInv, Types, SetPrice
<1>4. UsageKept' /\ UsageUnique' BY <1>2, UsageStays DEF SetPrice, promos, rows, history
<1> QED BY <1>1, <1>3, <1>4 DEF IInv, Types

LEMMA PromoStep ==
    ASSUME IInv, NEW c \in Codes, DeletePromo(c) \/ \E r \in PromoRow : EditPromo(c, r)
    PROVE  IInv'
<1>0. UNCHANGED <<catalogue, usage, rows, receipt, cart, job, history>> BY DEF DeletePromo, EditPromo
<1>1. promo' \in [Codes -> PromoRow]
  <2>1. promo \in [Codes -> PromoRow] BY DEF IInv, Types, TypeOK
  <2>2. CASE DeletePromo(c)
    <3>1. [promo[c] EXCEPT !.active = FALSE] \in PromoRow BY <2>1 DEF PromoRow
    <3>2. promo' = [promo EXCEPT ![c] = [promo[c] EXCEPT !.active = FALSE]] BY <2>2 DEF DeletePromo
    <3> QED BY <2>1, <3>1, <3>2
  <2>3. CASE \E r \in PromoRow : EditPromo(c, r) BY <2>1, <2>3 DEF EditPromo
  <2> QED BY <2>2, <2>3
<1>2. TypeOK' BY <1>0, <1>1 DEF IInv, Types, TypeOK, catalogue, rows, history, Placed
<1>3. Grows BY <1>0, SameGrows DEF IInv, Types, TypeOK, rows
<1>4. Jobs' /\ Carts' BY <1>0, <1>3, AllJobsKept, CartsKept DEF IInv, Types
<1>5. UsageKept' /\ UsageUnique' BY <1>0, <1>3, UsageStays DEF rows, history
<1> QED BY <1>2, <1>4, <1>5 DEF IInv, Types

LEMMA ValidateStep ==
    ASSUME IInv, NEW s \in Shoppers, NEW u \in Customers, NEW f \in Offers,
           NEW c \in Codes \cup {NoCode}, Validate(s, u, f, c)
    PROVE  IInv'
<1> DEFINE named == IF c = NoCode THEN NoCode ELSE promo[c].named
           off == IF c = NoCode THEN 0 ELSE promo[c].sum
           v == [customer |-> u, offer |-> f, code |-> c, named |-> named, sum |-> off,
                 price |-> price]
<1>0. /\ UNCHANGED <<catalogue, promos, rows, receipt, job, history>>
      /\ cart' = [cart EXCEPT ![s] = v]
  BY DEF Validate
<1>1. /\ named \in Codes \cup {NoCode}
      /\ off \in PromoSums \cup {0}
  BY DEF IInv, Types, TypeOK, PromoRow
<1>2. v \in Cart
  <2> HIDE DEF named, off
  <2> QED BY <1>1 DEF IInv, Types, TypeOK, Cart
<1>3. v.code = NoCode => v.named = NoCode OBVIOUS
<1> HIDE DEF v, named, off
<1>4. cart' \in [Shoppers -> Cart \cup {NoCart}] BY <1>0, <1>2 DEF IInv, Types, TypeOK
<1>5. Carts' BY <1>0, <1>3 DEF IInv, Types, TypeOK, Carts
<1>6. TypeOK' BY <1>0, <1>4 DEF IInv, Types, TypeOK, catalogue, promos, rows, history, Placed
<1>7. Grows BY <1>0, SameGrows DEF IInv, Types, TypeOK, rows
<1>8. Jobs' BY <1>0, <1>7, AllJobsKept DEF IInv, Types
<1>9. UsageKept' /\ UsageUnique' BY <1>0, <1>7, UsageStays DEF promos, rows, history
<1> QED BY <1>5, <1>6, <1>8, <1>9 DEF IInv, Types

LEMMA TurnAwayStep ==
    ASSUME IInv, NEW s \in Shoppers, TurnAway(s)
    PROVE  IInv'
<1>0. /\ UNCHANGED <<catalogue, promos, rows, receipt, job, history>>
      /\ cart' = [cart EXCEPT ![s] = NoCart]
  BY DEF TurnAway
<1>1. cart' \in [Shoppers -> Cart \cup {NoCart}] /\ Carts'
  BY <1>0 DEF IInv, Types, TypeOK, Carts
<1>2. TypeOK' BY <1>0, <1>1 DEF IInv, Types, TypeOK, catalogue, promos, rows, history, Placed
<1>3. Grows BY <1>0, SameGrows DEF IInv, Types, TypeOK, rows
<1>4. Jobs' BY <1>0, <1>3, AllJobsKept DEF IInv, Types
<1>5. UsageKept' /\ UsageUnique' BY <1>0, <1>3, UsageStays DEF promos, rows, history
<1> QED BY <1>1, <1>2, <1>4, <1>5 DEF IInv, Types

LEMMA ElementOf ==
    ASSUME NEW T, NEW s \in Seq(T), NEW k \in 1..Len(s)
    PROVE  s[k] \in T
OBVIOUS

\* The rows a placement adds.
LEMMA NewItemsTyped ==
    ASSUME TypeOK, NEW v \in Cart, NEW o \in Orders, o = placed + 1,
           nextItem + Len(v.offer.basket) - 1 <= MaxItems
    PROVE  /\ NewItems(v, o) \in [ItemIds -> Item \cup {NoItem}]
           /\ nextItem + Len(v.offer.basket) \in 1..(MaxItems + 1)
           /\ nextItem <= nextItem + Len(v.offer.basket)
           /\ \A i \in ItemIds : NewItems(v, o)[i] # NoItem =>
                 i < nextItem + Len(v.offer.basket) /\ NewItems(v, o)[i].order <= o
<1> USE BoundAssumption, InputAssumption
<1> DEFINE b == v.offer.basket
           n == Len(b)
<1>1. v.offer \in Offer /\ v.price \in [Products -> Prices] BY DEF Cart
<1>2. b \in Seq([product : Products, count : Nat]) BY <1>1 DEF Offer
<1>3. n \in Nat /\ nextItem + n - 1 <= MaxItems BY <1>2
<1>4. ASSUME NEW k \in 1..n PROVE NewItem(v, o, k) \in Item /\ NewItem(v, o, k).order = o
  <2>1. b[k] \in [product : Products, count : Nat]
    <3> DEFINE T == [product : Products, count : Nat]
    <3>1. b \in Seq(T) /\ k \in 1..Len(b) BY <1>2
    <3>2. b[k] \in T
      <4> HIDE DEF b, T
      <4> QED BY <3>1, ElementOf
    <3> QED BY <3>2
  <2>2. b[k].product \in Products /\ b[k].count \in Nat BY <2>1
  <2>3. v.price[b[k].product] \in Nat BY <1>1, <2>2
  <2>4. v.price[b[k].product] * b[k].count \in Int BY <2>2, <2>3
  <2>5. Amounts(v)[k] = v.price[b[k].product] * b[k].count BY DEF Amounts
  <2> QED BY <2>2, <2>4, <2>5 DEF NewItem, Item
<1>5. nextItem \in 1..(MaxItems + 1) /\ placed \in 0..MaxOrders BY DEF TypeOK
<1>6. ASSUME NEW i \in ItemIds
      PROVE  /\ NewItems(v, o)[i] \in Item \cup {NoItem}
             /\ NewItems(v, o)[i] # NoItem => i < nextItem + n /\ NewItems(v, o)[i].order <= o
  <2>0. i \in Int BY DEF ItemIds
  <2>1. CASE i \in nextItem..(nextItem + n - 1)
    <3>1. i - nextItem + 1 \in 1..n BY <1>3, <1>5, <2>0, <2>1
    <3>2. NewItems(v, o)[i] = NewItem(v, o, i - nextItem + 1) BY <2>1 DEF NewItems
    <3> HIDE DEF n
    <3> QED BY <1>3, <1>4, <1>5, <2>0, <2>1, <3>1, <3>2 DEF Orders
  <2>2. CASE i \notin nextItem..(nextItem + n - 1)
    <3>1. NewItems(v, o)[i] = item[i] BY <2>2 DEF NewItems
    <3>2. item[i] \in Item \cup {NoItem} /\ (item[i] # NoItem => i < nextItem /\ item[i].order <= placed)
      BY DEF TypeOK
    <3>3. item[i] \in Item => item[i].order \in Int BY DEF Item, Orders
    <3> HIDE DEF n
    <3> QED BY <1>3, <1>5, <2>0, <3>1, <3>2, <3>3
  <2> QED BY <2>1, <2>2
<1>7. NewItems(v, o) = [i \in ItemIds |-> NewItems(v, o)[i]] BY DEF NewItems
<1>8. nextItem + n \in 1..(MaxItems + 1) /\ nextItem <= nextItem + n
  <2> HIDE DEF n
  <2> QED BY <1>3, <1>5
<1> QED BY <1>6, <1>7, <1>8

LEMMA PlaceStep ==
    ASSUME IInv, NEW s \in Shoppers, Place(s)
    PROVE  IInv'
<1> USE BoundAssumption
<1> DEFINE v == cart[s]
           o == placed + 1
           row == [status |-> "created", paid |-> FALSE, customer |-> v.customer,
                   code |-> v.code, matched |-> Matched(v)]
           use == [user |-> v.customer, code |-> v.code, order |-> o]
<1>0. TypeOK BY DEF IInv, Types
<1>1. v \in Cart /\ o \in Orders /\ placed \in 0..MaxOrders BY <1>0 DEF Place, TypeOK
<1>2. v.customer \in Customers /\ v.code \in Codes \cup {NoCode} BY <1>1 DEF Cart
<1>3. Matched(v) \in BOOLEAN
  <2>1. v.named \in Codes \cup {NoCode} BY <1>1 DEF Cart
  <2> HIDE DEF v
  <2> QED BY <1>0, <2>1 DEF Matched, TypeOK, PromoRow
<1>4. Matched(v) => v.code \in Codes
  <2>1. v.code = NoCode => v.named = NoCode BY DEF Place, IInv, Types, Carts
  <2> QED BY <1>2, <2>1 DEF Matched
<1>5. row \in Row
  <2> HIDE DEF v
  <2> QED BY <1>2, <1>3 DEF Row, Statuses
<1>6. /\ placed' = o /\ order' = [order EXCEPT ![o] = row]
      /\ item' = NewItems(v, o) /\ nextItem' = nextItem + Len(v.offer.basket)
      /\ cart' = [cart EXCEPT ![s] = NoCart]
      /\ Use(v, o)
      /\ UNCHANGED <<catalogue, promo, receipt, job, requests, edited, released, lost>>
      /\ nextItem + Len(v.offer.basket) - 1 <= MaxItems
  BY DEF Place
<1>7. \/ usage' = usage /\ ~Matched(v)
      \/ /\ use \in Usage
         /\ ~Used(v.customer, v.code) /\ usage' = usage \cup {use}
  <2>1. CASE Matched(v)
    <3>1. use \in Usage BY <1>1, <1>2, <1>4, <2>1 DEF Usage
    <3>2. ~Used(v.customer, v.code) /\ usage' = usage \cup {use} BY <1>6, <2>1 DEF Use
    <3> HIDE DEF use
    <3> QED BY <3>1, <3>2
  <2>2. CASE ~Matched(v) BY <1>6, <2>2 DEF Use
  <2> QED BY <2>1, <2>2
<1>8. row.customer = v.customer /\ row.code = v.code /\ row.matched = Matched(v) OBVIOUS
<1>9. /\ item' \in [ItemIds -> Item \cup {NoItem}]
      /\ nextItem' \in 1..(MaxItems + 1) /\ nextItem <= nextItem'
      /\ \A i \in ItemIds : item'[i] # NoItem => i < nextItem' /\ item'[i].order <= placed'
  <2> HIDE DEF v, o
  <2> QED BY <1>0, <1>1, <1>6, NewItemsTyped DEF o
<1> HIDE DEF row
<1>10. TypeOK'
  <2>1. /\ order' \in [Orders -> Row] /\ placed' \in 0..MaxOrders
    BY <1>0, <1>1, <1>5, <1>6 DEF TypeOK, Orders
  <2>2. usage' \subseteq Usage BY <1>0, <1>7 DEF TypeOK
  <2>3. cart' \in [Shoppers -> Cart \cup {NoCart}] BY <1>0, <1>6 DEF TypeOK
  <2>4. edited' \subseteq 1..placed' /\ released' \subseteq 1..placed' /\ lost' \subseteq 1..placed'
    <3>1. 1..placed \subseteq 1..placed' BY <1>1, <1>6
    <3>2. edited \subseteq 1..placed /\ released \subseteq 1..placed /\ lost \subseteq 1..placed
      BY <1>0 DEF TypeOK, Placed
    <3> HIDE DEF v, o
    <3> QED BY <1>6, <3>1, <3>2
  <2> QED BY <1>0, <1>6, <1>9, <2>1, <2>2, <2>3, <2>4 DEF TypeOK, catalogue, Placed
<1>11. Grows
  <2>1. \A q \in Placed : q \in Orders /\ q # o BY <1>1 DEF Placed, Orders
  <2> QED BY <1>0, <1>1, <1>6, <1>9, <2>1 DEF Grows, TypeOK, Orders
<1>12. Jobs' /\ Carts'
  <2>1. Carts' BY <1>0, <1>6 DEF IInv, Types, Carts, TypeOK
  <2> QED BY <1>6, <1>11, <2>1, AllJobsKept DEF IInv
<1>13. UsageUnique'
  <2>1. CASE usage' = usage BY <2>1 DEF IInv, UsageUnique
  <2>2. CASE ~Used(v.customer, v.code) /\ usage' = usage \cup {use}
    <3>1. \A r \in usage : ~(r.user = use.user /\ r.code = use.code) BY <2>2 DEF Used
    <3> HIDE DEF use
    <3> QED BY <2>2, <3>1 DEF IInv, UsageUnique
  <2> QED BY <1>7, <2>1, <2>2
<1>14. UsageKept'
  <2> SUFFICES ASSUME NEW q \in 1..placed', q \notin released',
                      order'[q].code # NoCode, order'[q].matched
               PROVE  [user |-> order'[q].customer, code |-> order'[q].code, order |-> q] \in usage'
    BY DEF UsageKept, Placed
  <2>1. CASE q = o
    <3>1. order'[q] = row BY <1>0, <1>1, <1>6, <2>1 DEF TypeOK
    <3>2. Matched(v) BY <1>8, <3>1
    <3> QED BY <1>7, <1>8, <2>1, <3>1, <3>2
  <2>2. CASE q # o
    <3>1. q \in Placed BY <1>1, <1>6, <2>2 DEF Placed
    <3>2. order'[q] = order[q] BY <1>6, <2>2, <1>0, <3>1 DEF TypeOK, Orders, Placed
    <3>3. [user |-> order[q].customer, code |-> order[q].code, order |-> q] \in usage
      BY <1>6, <3>1, <3>2 DEF IInv, UsageKept
    <3> QED BY <1>7, <3>2, <3>3
  <2> QED BY <2>1, <2>2
<1> QED BY <1>10, <1>12, <1>13, <1>14 DEF IInv, Types

\* An edit of an order's items, whatever it makes of them.
LEMMA EditStep ==
    ASSUME IInv, NEW h \in Staff, NEW kind, NEW o \in Placed, Begin(h, kind, o),
           UNCHANGED <<institution, price, promos, placed, order, sums, group, receipt, cart, cost,
                       released, lost>>,
           available' \in [Products -> BOOLEAN],
           edited' = edited \cup {o},
           nextItem' \in 1..(MaxItems + 1), nextItem <= nextItem',
           item' \in [ItemIds -> Item \cup {NoItem}],
           \A i \in ItemIds : item'[i] # NoItem => i < nextItem' /\ item'[i].order <= placed
    PROVE  IInv'
<1> USE BoundAssumption
<1>0. TypeOK BY DEF IInv, Types
<1>1. Grows BY <1>0, SameGrows
<1>2. TypeOK' BY <1>0 DEF TypeOK, promos, Placed
<1>3. \E j : job' = [job EXCEPT ![h] = j] /\ JobOK(job[h])'
  <2> DEFINE none == [i \in ItemIds |-> NoItem]
             j == [kind |-> kind, order |-> o, stage |-> "edited", to |-> "created",
                   row |-> order[o], sums |-> sums[o], read |-> none]
  <2>1. job' = [job EXCEPT ![h] = j] /\ job'[h] = j BY DEF Begin, IInv, Types, Jobs
  <2>2. Table(none)' BY DEF Table
  <2>3. o \in Orders /\ order[o] \in Row BY <1>0 DEF TypeOK, Placed, Orders
  <2>4. /\ j = [kind |-> j.kind, order |-> j.order, stage |-> j.stage, to |-> j.to, row |-> j.row,
                sums |-> j.sums, read |-> j.read]
        /\ j.order = o /\ j.row = order[o] /\ j.read = none
    OBVIOUS
  <2> HIDE DEF j, none
  <2>5. JobOK(job[h])' BY <2>1, <2>2, <2>3, <2>4 DEF JobOK, Placed
  <2> QED BY <2>1, <2>5
<1>4. Jobs' BY <1>1, <1>3, JobsKept DEF IInv
<1>5. Carts' BY CartsKept DEF IInv, Types
<1>6. UsageKept' /\ UsageUnique' BY <1>1, UsageStays DEF promos
<1> QED BY <1>2, <1>4, <1>5, <1>6 DEF IInv, Types

LEMMA AddedTyped ==
    ASSUME TypeOK, NEW o \in Placed, NEW p \in Products, NEW n \in Counts
    PROVE  Added(o, p, n) \in Item /\ Added(o, p, n).order = o
<1>1. price[p] \in Nat /\ n \in Nat BY InputAssumption DEF TypeOK
<1>2. price[p] * n \in Int BY <1>1
<1>3. o \in Orders BY BoundAssumption DEF TypeOK, Placed, Orders
<1> QED BY <1>1, <1>2, <1>3 DEF Added, Item

\* A row appended to a table of items.
LEMMA AppendedTyped ==
    ASSUME TypeOK, NEW t, Table(t), nextItem <= MaxItems, NEW r \in Item, r.order \in Placed
    PROVE  /\ Append_(t, r) \in [ItemIds -> Item \cup {NoItem}]
           /\ nextItem + 1 \in 1..(MaxItems + 1) /\ nextItem <= nextItem + 1
           /\ \A i \in ItemIds : Append_(t, r)[i] # NoItem =>
                 i < nextItem + 1 /\ Append_(t, r)[i].order <= placed
<1> USE BoundAssumption
<1>1. nextItem \in ItemIds /\ nextItem \in Int /\ placed \in Int BY DEF TypeOK, ItemIds
<1>2. r.order <= placed BY <1>1 DEF Placed
<1>3. ItemIds \subseteq Int BY DEF ItemIds
<1>4. Append_(t, r) \in [ItemIds -> Item \cup {NoItem}] BY <1>1 DEF Append_, Table
<1>5. nextItem + 1 \in 1..(MaxItems + 1) /\ nextItem <= nextItem + 1 BY <1>1 DEF TypeOK
<1>6. ASSUME NEW i \in ItemIds, Append_(t, r)[i] # NoItem
      PROVE  i < nextItem + 1 /\ Append_(t, r)[i].order <= placed
  <2>1. CASE i = nextItem BY <1>1, <1>2, <2>1 DEF Append_, Table
  <2>2. CASE i # nextItem
    <3>1. Append_(t, r)[i] = t[i] BY <2>2 DEF Append_, Table
    <3>2. i < nextItem /\ t[i].order <= placed BY <1>6, <3>1 DEF Table
    <3> QED BY <1>1, <1>3, <3>1, <3>2
  <2> QED BY <2>1, <2>2
<1> QED BY <1>4, <1>5, <1>6

\* A row of a table replaced by one of the same order.
LEMMA ReplacedTyped ==
    ASSUME NEW t, Table(t), NEW i \in ItemIds, t[i] # NoItem, NEW r \in Item, r.order = t[i].order
    PROVE  Table([t EXCEPT ![i] = r])
BY DEF Table

LEMMA OwnTable == ASSUME TypeOK PROVE Table(item) BY DEF TypeOK, Table

LEMMA AddStep ==
    ASSUME IInv, NEW h \in Staff, NEW o \in Orders, NEW p \in Products, NEW n \in Counts,
           AddItem(h, o, p, n)
    PROVE  IInv'
<1>0. TypeOK /\ o \in Placed BY DEF IInv, Types, AddItem
<1>1. Table(item) BY <1>0, OwnTable
<1> DEFINE r == Added(o, p, n)
<1>2. r \in Item /\ r.order = o BY <1>0, AddedTyped
<1> HIDE DEF r
<1>3. item' = Append_(item, r) /\ nextItem' = nextItem + 1 /\ nextItem <= MaxItems
  BY DEF AddItem, r
<1>4. /\ item' \in [ItemIds -> Item \cup {NoItem}]
      /\ nextItem' \in 1..(MaxItems + 1) /\ nextItem <= nextItem'
      /\ \A i \in ItemIds : item'[i] # NoItem => i < nextItem' /\ item'[i].order <= placed
  BY <1>0, <1>1, <1>2, <1>3, AppendedTyped
<1>5. available' \in [Products -> BOOLEAN] BY <1>0 DEF AddItem, catalogue, TypeOK
<1>6. /\ UNCHANGED <<institution, price, promos, placed, order, sums, group, receipt, cart, cost,
                     released, lost>>
      /\ Begin(h, "add", o) /\ edited' = edited \cup {o}
  BY DEF AddItem, catalogue
<1> QED BY <1>0, <1>4, <1>5, <1>6, EditStep

LEMMA ChangeStep ==
    ASSUME IInv, NEW h \in Staff, NEW i \in ItemIds, NEW n \in Counts, NEW b \in BOOLEAN,
           ChangeItem(h, i, n, b)
    PROVE  IInv'
<1>0. TypeOK BY DEF IInv, Types
<1>1. item[i] \in Item /\ item[i] # NoItem BY <1>0 DEF ChangeItem, TypeOK
<1>2. item[i].order \in Placed
  BY <1>0, <1>1, BoundAssumption DEF TypeOK, Placed, Item, Orders
<1> DEFINE r == [item[i] EXCEPT !.count = n, !.incident = b]
<1>3. r \in Item /\ r.order = item[i].order
  <2>1. n \in Int BY InputAssumption
  <2> QED BY <1>1, <2>1 DEF Item
<1> HIDE DEF r
<1>4. item' = [item EXCEPT ![i] = r] /\ nextItem' = nextItem BY DEF ChangeItem, r
<1>5. Table([item EXCEPT ![i] = r]) BY <1>0, <1>1, <1>3, OwnTable, ReplacedTyped
<1>6. /\ item' \in [ItemIds -> Item \cup {NoItem}]
      /\ nextItem' \in 1..(MaxItems + 1) /\ nextItem <= nextItem'
      /\ \A k \in ItemIds : item'[k] # NoItem => k < nextItem' /\ item'[k].order <= placed
  BY <1>0, <1>4, <1>5, BoundAssumption DEF Table, TypeOK
<1>7. available' \in [Products -> BOOLEAN] BY <1>0 DEF ChangeItem, catalogue, TypeOK
<1>8. /\ UNCHANGED <<institution, price, promos, placed, order, sums, group, receipt, cart, cost,
                     released, lost>>
      /\ Begin(h, "change", item[i].order) /\ edited' = edited \cup {item[i].order}
  BY DEF ChangeItem, catalogue
<1> QED BY <1>2, <1>6, <1>7, <1>8, EditStep

LEMMA RemoveStep ==
    ASSUME IInv, NEW h \in Staff, NEW i \in ItemIds, RemoveItem(h, i)
    PROVE  IInv'
<1>0. TypeOK BY DEF IInv, Types
<1>1. item[i] \in Item /\ item[i] # NoItem BY <1>0 DEF RemoveItem, TypeOK
<1>2. item[i].order \in Placed
  BY <1>0, <1>1, BoundAssumption DEF TypeOK, Placed, Item, Orders
<1>3. item' = [item EXCEPT ![i] = NoItem] /\ nextItem' = nextItem BY DEF RemoveItem
<1>4. /\ item' \in [ItemIds -> Item \cup {NoItem}]
      /\ nextItem' \in 1..(MaxItems + 1) /\ nextItem <= nextItem'
      /\ \A k \in ItemIds : item'[k] # NoItem => k < nextItem' /\ item'[k].order <= placed
  BY <1>0, <1>3, BoundAssumption DEF TypeOK
<1>5. available' \in [Products -> BOOLEAN] BY <1>0 DEF RemoveItem, catalogue, TypeOK
<1>6. /\ UNCHANGED <<institution, price, promos, placed, order, sums, group, receipt, cart, cost,
                     released, lost>>
      /\ Begin(h, "remove", item[i].order) /\ edited' = edited \cup {item[i].order}
  BY DEF RemoveItem, catalogue
<1> QED BY <1>2, <1>4, <1>5, <1>6, EditStep

LEMMA ReplaceStep ==
    ASSUME IInv, NEW h \in Staff, NEW o \in Orders, NEW q \in Products, NEW p \in Products,
           NEW n \in Counts, NEW new \in BOOLEAN, ReplaceItem(h, o, q, p, n, new)
    PROVE  IInv'
<1>0. TypeOK /\ o \in Placed /\ nextItem <= MaxItems BY DEF IInv, Types, ReplaceItem
<1>1. Table(item) BY <1>0, OwnTable
<1>2. ASSUME NEW x, Of(o, x) # {}
      PROVE  First(o, x) \in ItemIds /\ item[First(o, x)] \in Item /\ item[First(o, x)] # NoItem
  <2>1. First(o, x) \in Of(o, x) BY <1>2, FirstItem
  <2> QED BY <1>0, <2>1 DEF Of, ItemsOf, TypeOK
<1> DEFINE t == Replaced(o, q)
<1>3. Table(t) /\ \A i \in ItemIds : t[i] = NoItem <=> item[i] = NoItem
  <2>1. CASE Of(o, q) = {} BY <1>1, <2>1 DEF Replaced
  <2>2. CASE Of(o, q) # {}
    <3> DEFINE i == First(o, q)
               r == [item[i] EXCEPT !.incident = TRUE]
    <3>1. i \in ItemIds /\ item[i] \in Item /\ item[i] # NoItem BY <1>2, <2>2
    <3>2. r \in Item /\ r.order = item[i].order BY <3>1 DEF Item
    <3>3. t = [item EXCEPT ![i] = r] BY <2>2 DEF Replaced
    <3> HIDE DEF r, t, i
    <3> QED BY <1>1, <3>1, <3>2, <3>3, ReplacedTyped, SentinelAssumption DEF Table
  <2> QED BY <2>1, <2>2
<1>4. /\ item' \in [ItemIds -> Item \cup {NoItem}]
      /\ nextItem' \in 1..(MaxItems + 1) /\ nextItem <= nextItem'
      /\ \A i \in ItemIds : item'[i] # NoItem => i < nextItem' /\ item'[i].order <= placed
  <2>1. CASE Of(o, p) = {} \/ new
    <3> DEFINE r == Added(o, p, n)
    <3>1. r \in Item /\ r.order = o BY <1>0, AddedTyped
    <3>2. item' = Append_(t, r) /\ nextItem' = nextItem + 1 BY <2>1 DEF ReplaceItem
    <3> HIDE DEF r, t
    <3> QED BY <1>0, <1>3, <3>1, <3>2, AppendedTyped
  <2>2. CASE ~(Of(o, p) = {} \/ new)
    <3> DEFINE i == First(o, p)
               r == [t[i] EXCEPT !.count = item[i].count + n,
                                 !.total = item[i].total + price[p] * n,
                                 !.incident = FALSE]
    <3>1. i \in ItemIds /\ item[i] \in Item /\ item[i] # NoItem BY <1>2, <2>2
    <3>2. t[i] \in Item /\ t[i] # NoItem BY <1>3, <3>1 DEF Table
    <3>3. price[p] \in Nat /\ n \in Nat BY <1>0, InputAssumption DEF TypeOK
    <3>4. item[i].count + n \in Int /\ item[i].total + price[p] * n \in Int
      <4>1. price[p] * n \in Int BY <3>3
      <4>2. item[i].count \in Int /\ item[i].total \in Int BY <3>1 DEF Item
      <4> QED BY <3>3, <4>1, <4>2
    <3>5. item' = [t EXCEPT ![i] = r] /\ nextItem' = nextItem BY <2>2 DEF ReplaceItem
    <3>6. r \in Item /\ r.order = t[i].order
      <4> HIDE DEF t, i
      <4> QED BY <3>2, <3>4 DEF Item
    <3> HIDE DEF r, t, i
    <3>7. Table([t EXCEPT ![i] = r]) BY <1>3, <3>1, <3>2, <3>6, ReplacedTyped
    <3> QED BY <1>0, <3>5, <3>7, BoundAssumption DEF Table, TypeOK
  <2> QED BY <2>1, <2>2
<1>5. available' \in [Products -> BOOLEAN] BY <1>0 DEF ReplaceItem, TypeOK
<1>6. /\ UNCHANGED <<institution, price, promos, placed, order, sums, group, receipt, cart, cost,
                     released, lost>>
      /\ Begin(h, "add", o) /\ edited' = edited \cup {o}
  BY DEF ReplaceItem
<1> QED BY <1>0, <1>4, <1>5, <1>6, EditStep

LEMMA RecalculateStep ==
    ASSUME IInv, NEW h \in Staff, Recalculate(h)
    PROVE  IInv'
<1> DEFINE j == job[h]
           o == j.order
           fresh == [i \in ItemIds |->
                       IF i \in ItemsOf(o)
                       THEN [item[i] EXCEPT !.total = price[item[i].product] * item[i].count]
                       ELSE NoItem]
           row == IF j.kind = "add" THEN j.row ELSE order[o]
           s   == IF j.kind = "add" THEN j.sums ELSE sums[o]
           k   == [kind |-> j.kind, order |-> o, stage |-> "computed", to |-> j.to, row |-> row,
                   sums |-> s, read |-> fresh]
<1>0. TypeOK BY DEF IInv, Types
<1>1. JobOK(j) BY DEF Recalculate, IInv, Types, Jobs
<1>2. job' = [job EXCEPT ![h] = k] /\ UNCHANGED <<catalogue, promos, rows, receipt, cart, requests, history>>
  BY DEF Recalculate
<1>3. Table(fresh)
  <2>1. ASSUME NEW i \in ItemIds
        PROVE  /\ fresh[i] \in Item \cup {NoItem}
               /\ fresh[i] # NoItem => i < nextItem /\ fresh[i].order <= placed
    <3>1. CASE i \notin ItemsOf(o) BY <3>1
    <3>2. CASE i \in ItemsOf(o)
      <4>1. item[i] \in Item /\ item[i] # NoItem BY <1>0, <3>2 DEF ItemsOf, TypeOK
      <4>2. price[item[i].product] \in Nat /\ item[i].count \in Int
        BY <1>0, <4>1, InputAssumption DEF TypeOK, Item
      <4>3. price[item[i].product] * item[i].count \in Int BY <4>2
      <4>4. fresh[i] \in Item /\ fresh[i].order = item[i].order
        BY <3>2, <4>1, <4>3, ItemChanges
      <4> QED BY <1>0, <4>1, <4>4 DEF TypeOK
    <3> QED BY <3>1, <3>2
  <2> HIDE DEF j
  <2> QED BY <2>1 DEF Table
<1>4. o \in Placed /\ o \in Orders /\ order[o] \in Row
  BY <1>0, <1>1, BoundAssumption DEF JobOK, TypeOK, Placed, Orders
<1>5. row \in Row /\ row.customer = order[o].customer /\ row.code = order[o].code
      /\ row.matched = order[o].matched
  BY <1>1, <1>4 DEF JobOK
<1>6. /\ k = [kind |-> k.kind, order |-> k.order, stage |-> k.stage, to |-> k.to, row |-> k.row,
              sums |-> k.sums, read |-> k.read]
      /\ k.order = o /\ k.row = row /\ k.read = fresh
  <2> HIDE DEF fresh, row, s, j
  <2> QED OBVIOUS
<1>7. Grows BY <1>0, <1>2, SameGrows DEF TypeOK, rows
<1>8. Jobs'
  <2>1. job'[h] = k BY <1>2 DEF IInv, Types, Jobs
  <2>2. UNCHANGED <<placed, nextItem, order>> BY <1>2 DEF rows
  <2> HIDE DEF k, fresh, row, j
  <2>3. Table(job[h].read)' BY <1>3, <1>6, <2>1, <2>2 DEF Table
  <2>4. JobOK(job[h])' BY <1>3, <1>4, <1>5, <1>6, <2>1, <2>2, <2>3 DEF JobOK, Placed, Table
  <2> QED BY <1>2, <1>7, <2>4, JobsKept DEF IInv
<1>9. TypeOK' BY <1>0, <1>2 DEF TypeOK, catalogue, promos, rows, history, Placed
<1>10. Carts' BY <1>2, CartsKept DEF IInv, Types
<1>11. UsageKept' /\ UsageUnique' BY <1>2, <1>7, UsageStays DEF promos, rows, history
<1> QED BY <1>8, <1>9, <1>10, <1>11 DEF IInv, Types

\* A request ends: it saves the row it holds, or nothing.
LEMMA RowSaved ==
    ASSUME TypeOK, NEW j, JobOK(j), NEW r \in Row, r.customer = j.row.customer, r.code = j.row.code,
           r.matched = j.row.matched,
           order' = [order EXCEPT ![j.order] = r] \/ order' = order,
           UNCHANGED <<placed, nextItem>>
    PROVE  Grows /\ order' \in [Orders -> Row] /\ j.order \in Orders
<1> USE BoundAssumption
<1>1. j.order \in Placed /\ Placed \subseteq Orders BY DEF JobOK, Placed, Orders, TypeOK
<1>2. order \in [Orders -> Row] BY DEF TypeOK
<1>3. \A o \in Placed : /\ order'[o].customer = order[o].customer
                       /\ order'[o].code = order[o].code
                       /\ order'[o].matched = order[o].matched
  BY <1>1, <1>2 DEF JobOK
<1> QED BY <1>1, <1>2, <1>3 DEF Grows, TypeOK

LEMMA SaveStep ==
    ASSUME IInv, NEW h \in Staff, SaveSums(h)
    PROVE  IInv'
<1> DEFINE j == job[h]
<1>0. TypeOK BY DEF IInv, Types
<1>1. JobOK(j) BY DEF SaveSums, IInv, Types, Jobs
<1>2. /\ job' = [job EXCEPT ![h] = NoJob]
      /\ item' = [i \in ItemIds |-> IF j.read[i] # NoItem THEN j.read[i] ELSE item[i]]
      /\ UNCHANGED <<catalogue, promos, placed, nextItem, receipt, cart, requests, cost, edited,
                     released>>
      /\ order' = [order EXCEPT ![j.order] = j.row] \/ order' = order
      /\ lost' = lost \/ lost' = lost \cup {j.order}
  BY DEF SaveSums, Lost
<1>3. Grows /\ order' \in [Orders -> Row] BY <1>0, <1>1, <1>2, RowSaved DEF JobOK
<1>4. TypeOK'
  <2>1. Table(j.read) /\ j.order \in Placed BY <1>1 DEF JobOK
  <2> HIDE DEF j
  <2>2. /\ item' \in [ItemIds -> Item \cup {NoItem}]
        /\ \A i \in ItemIds : item'[i] # NoItem => i < nextItem /\ item'[i].order <= placed
    BY <1>0, <1>2, <2>1 DEF Table, TypeOK
  <2>3. lost' \subseteq Placed BY <1>0, <1>2, <2>1 DEF TypeOK
  <2> QED BY <1>0, <1>2, <1>3, <2>2, <2>3 DEF TypeOK, catalogue, promos, Placed
<1>5. Jobs' BY <1>2, <1>3, JobsKept DEF IInv
<1>6. Carts' BY <1>2, CartsKept DEF IInv, Types
<1>7. UsageKept' /\ UsageUnique' BY <1>2, <1>3, UsageStays DEF promos
<1> QED BY <1>4, <1>5, <1>6, <1>7 DEF IInv, Types

LEMMA DieStep ==
    ASSUME IInv, NEW h \in Staff, Die(h)
    PROVE  IInv'
<1>0. TypeOK BY DEF IInv, Types
<1>1. job[h].order \in Placed BY DEF Die, IInv, Types, Jobs, JobOK
<1>2. /\ job' = [job EXCEPT ![h] = NoJob]
      /\ UNCHANGED <<catalogue, promos, rows, receipt, cart, requests, cost, edited, released>>
      /\ lost' = lost \/ lost' = lost \cup {job[h].order}
  BY DEF Die
<1>3. Grows BY <1>0, <1>2, SameGrows DEF TypeOK, rows
<1>4. TypeOK'
  BY <1>0, <1>1, <1>2 DEF TypeOK, catalogue, promos, rows, Placed
<1>5. Jobs' BY <1>2, <1>3, JobsKept DEF IInv
<1>6. Carts' BY <1>2, CartsKept DEF IInv, Types
<1>7. UsageKept' /\ UsageUnique' BY <1>2, <1>3, UsageStays DEF promos, rows
<1> QED BY <1>4, <1>5, <1>6, <1>7 DEF IInv, Types

LEMMA LoadStep ==
    ASSUME IInv, NEW h \in Staff, NEW o \in Orders, NEW to \in Targets, UpdateStatus(h, o, to)
    PROVE  IInv'
<1> DEFINE none == [i \in ItemIds |-> NoItem]
           j == [kind |-> "status", order |-> o, stage |-> "loaded", to |-> to, row |-> order[o],
                 sums |-> sums[o], read |-> none]
<1>0. TypeOK /\ o \in Placed BY DEF IInv, Types, UpdateStatus
<1>1. /\ job' = [job EXCEPT ![h] = j]
      /\ UNCHANGED <<catalogue, promos, rows, receipt, cart, history>>
  BY DEF UpdateStatus
<1>2. Grows BY <1>0, <1>1, SameGrows DEF TypeOK, rows
<1>3. JobOK(job[h])'
  <2>1. job'[h] = j BY <1>1 DEF IInv, Types, Jobs
  <2>2. Table(none)' BY DEF Table
  <2>3. order[o] \in Row BY <1>0 DEF TypeOK
  <2>4. /\ j = [kind |-> j.kind, order |-> j.order, stage |-> j.stage, to |-> j.to, row |-> j.row,
                sums |-> j.sums, read |-> j.read]
        /\ j.order = o /\ j.row = order[o] /\ j.read = none
    OBVIOUS
  <2> HIDE DEF j, none
  <2> QED BY <1>0, <1>1, <2>1, <2>2, <2>3, <2>4 DEF JobOK, Placed, rows
<1> HIDE DEF j
<1>4. Jobs' BY <1>1, <1>2, <1>3, JobsKept DEF IInv
<1>5. TypeOK' BY <1>0, <1>1 DEF TypeOK, catalogue, promos, rows, history, Placed
<1>6. Carts' BY <1>1, CartsKept DEF IInv, Types
<1>7. UsageKept' /\ UsageUnique' BY <1>1, <1>2, UsageStays DEF promos, rows, history
<1> QED BY <1>4, <1>5, <1>6, <1>7 DEF IInv, Types

\* What the three commits share.
LEMMA StatusStep ==
    ASSUME IInv, NEW h \in Staff, job[h] # NoJob, NEW st \in Statuses, NEW paid \in BOOLEAN,
           CommitStatus(h, st, paid),
           usage' \subseteq usage,
           released' = released \/ released' = released \cup {job[h].order}
    PROVE  Grows /\ TypeOK' /\ Jobs' /\ Carts' /\ UsageUnique'
<1> DEFINE j == job[h]
           r == [j.row EXCEPT !.status = st, !.paid = paid]
<1>0. TypeOK BY DEF IInv, Types
<1>1. JobOK(j) BY DEF IInv, Types, Jobs
<1>2. /\ order' = [order EXCEPT ![j.order] = r]
      /\ job' = [job EXCEPT ![h] = NoJob]
      /\ lost' = lost \/ lost' = lost \cup {j.order}
      /\ UNCHANGED <<catalogue, promo, placed, group, item, nextItem, cart, requests, cost, edited>>
  BY DEF CommitStatus, Lost
<1>3. r \in Row /\ r.customer = j.row.customer /\ r.code = j.row.code /\ r.matched = j.row.matched
  BY <1>1 DEF JobOK, Row
<1> HIDE DEF r
<1>4. Grows /\ order' \in [Orders -> Row] BY <1>0, <1>1, <1>2, <1>3, RowSaved
<1>5. TypeOK'
  <2>1. j.order \in Placed BY <1>1 DEF JobOK
  <2>2. lost' \subseteq Placed /\ released' \subseteq Placed BY <1>0, <1>2, <2>1 DEF TypeOK
  <2> HIDE DEF j
  <2> QED BY <1>0, <1>2, <1>4, <2>2 DEF TypeOK, catalogue, Placed
<1>6. Jobs' BY <1>2, <1>4, JobsKept DEF IInv
<1>7. Carts' BY <1>2, CartsKept DEF IInv, Types
<1>8. UsageUnique' BY DEF IInv, UsageUnique
<1> QED BY <1>4, <1>5, <1>6, <1>7, <1>8

LEMMA AcceptStep ==
    ASSUME IInv, NEW h \in Staff, Accept(h) \/ Close(h)
    PROVE  IInv'
<1>1. job[h] # NoJob BY DEF Accept, Close, At
<1>2. \E st \in Statuses, paid \in BOOLEAN : CommitStatus(h, st, paid)
  <2>1. job[h].row.paid \in BOOLEAN BY <1>1 DEF IInv, Types, Jobs, JobOK, Row
  <2> QED BY <2>1 DEF Accept, Close, Statuses
<1>3. usage' = usage /\ released' = released /\ placed' = placed
  BY <1>2 DEF Accept, Close, CommitStatus
<1>4. Grows /\ TypeOK' /\ Jobs' /\ Carts' /\ UsageUnique' BY <1>1, <1>2, <1>3, StatusStep
<1>5. UsageKept' BY <1>3, <1>4, UsageStays
<1> QED BY <1>4, <1>5 DEF IInv, Types

LEMMA RejectStep ==
    ASSUME IInv, NEW h \in Staff, Reject(h)
    PROVE  IInv'
<1> DEFINE j == job[h]
<1>1. j # NoJob BY DEF Reject, At
<1>2. CommitStatus(h, "rejected", FALSE) /\ "rejected" \in Statuses BY DEF Reject, Statuses
<1>3. /\ usage' = {r \in usage : ~(r.order = j.order /\ r.user = j.row.customer)}
      /\ released' = released \cup {j.order}
      /\ placed' = placed
  BY <1>2 DEF Reject, CommitStatus
<1>4. Grows /\ TypeOK' /\ Jobs' /\ Carts' /\ UsageUnique' BY <1>1, <1>2, <1>3, StatusStep
<1>5. UsageKept'
  BY <1>3, <1>4 DEF UsageKept, IInv, Grows, Placed
<1> QED BY <1>4, <1>5 DEF IInv, Types

-----------------------------------------------------------------------------
(* The theorems.                                                           *)

LEMMA Inductive == IInv /\ [Next]_vars => IInv'
<1> SUFFICES ASSUME IInv, [Next]_vars PROVE IInv' OBVIOUS
<1>1. CASE UNCHANGED vars
  <2>1. TypeOK' BY <1>1 DEF IInv, Types, TypeOK, vars, catalogue, promos, rows, history, Placed
  <2>2. Grows BY <1>1, SameGrows DEF IInv, Types, TypeOK, vars, rows
  <2>3. Jobs' /\ Carts' BY <1>1, <2>2, AllJobsKept, CartsKept DEF IInv, Types, vars
  <2>4. UsageKept' /\ UsageUnique' BY <1>1, <2>2, UsageStays DEF vars, promos, rows, history
  <2> QED BY <2>1, <2>3, <2>4 DEF IInv, Types
<1>2. ASSUME NEW p \in Products, NEW n \in Prices, SetPrice(p, n) PROVE IInv'
  BY <1>2, CatalogueStep
<1>3. ASSUME NEW c \in Codes, DeletePromo(c) \/ \E r \in PromoRow : EditPromo(c, r) PROVE IInv'
  BY <1>3, PromoStep
<1>4. ASSUME NEW s \in Shoppers, Order(s) PROVE IInv'
  BY <1>4, ValidateStep, PlaceStep, TurnAwayStep DEF Order
<1>5. ASSUME NEW h \in Staff, Edit(h) PROVE IInv'
  BY <1>5, AddStep, ReplaceStep, ChangeStep, RemoveStep, RecalculateStep, SaveStep, DieStep DEF Edit
<1>6. ASSUME NEW h \in Staff, Status(h) PROVE IInv'
  BY <1>6, LoadStep, AcceptStep, RejectStep DEF Status
<1> QED BY <1>1, <1>2, <1>3, <1>4, <1>5, <1>6 DEF Next

\* IInv is an invariant.
THEOREM Invariance == Spec => []IInv
BY Initially, Inductive, PTL DEF Spec

\* Every reachable state is well typed (Checkout!TypeOK): items, carts, orders and
\* usage rows are what the models declare, whatever is edited and placed.
THEOREM TypeCorrect == Spec => []TypeOK
<1>1. IInv => TypeOK BY DEF IInv, Types
<1> QED BY <1>1, Invariance, PTL

\* A customer has one order at a time with a code that could be used
\* (Checkout!OncePerCustomer): both orders would own the usage row of the code.
THEOREM CodeIsHeldOnce == Spec => []OncePerCustomer
<1>1. IInv => OncePerCustomer
  <2> SUFFICES ASSUME IInv, NEW o \in Placed \ released, NEW q \in Placed \ released,
                      order[o].code # NoCode, order[o].code = order[q].code,
                      order[o].customer = order[q].customer, order[o].matched, order[q].matched
               PROVE  o = q
    BY DEF OncePerCustomer
  <2> DEFINE r == [user |-> order[o].customer, code |-> order[o].code, order |-> o]
             t == [user |-> order[q].customer, code |-> order[q].code, order |-> q]
  <2>1. r \in usage /\ t \in usage BY DEF IInv, UsageKept
  <2>2. r.user = t.user /\ r.code = t.code OBVIOUS
  <2>3. r = t BY <2>1, <2>2 DEF IInv, UsageUnique
  <2>4. r.order = o /\ t.order = q OBVIOUS
  <2> QED BY <2>3, <2>4
<1> QED BY <1>1, Invariance, PTL
-----------------------------------------------------------------------------
(* The money of an order.                                                  *)

\* Sums that add up, with the delivery of the group and a discount for a code only.
Agrees(t, o) ==
    /\ t = [products |-> t.products, delivering |-> t.delivering, discount |-> t.discount,
            total |-> t.total, package |-> t.package, quantity |-> t.quantity]
    /\ t.total = (t.delivering + t.products) - t.discount
    /\ t.delivering = group[o].delivering
    /\ order[o].code = NoCode => t.discount = 0

IsGroup(g) == g = [products |-> g.products, delivering |-> g.delivering, total |-> g.total,
                   commission |-> g.commission]

RowSums   == /\ DOMAIN sums = Orders /\ DOMAIN group = Orders
             /\ \A o \in Placed : Agrees(sums[o], o) /\ IsGroup(group[o])
JobSums   == \A h \in Staff : job[h] # NoJob => Agrees(job[h].sums, job[h].order)
CartSums  == \A s \in Shoppers : cart[s] # NoCart /\ cart[s].code = NoCode => cart[s].sum = 0
UsageRows == \A r \in usage : /\ r.order \in Placed
                              /\ r.user = order[r.order].customer
                              /\ r.code = order[r.order].code

Money == RowSums /\ JobSums /\ CartSums /\ UsageRows

LEMMA InitialMoney == Init => Money
BY DEF Init, Money, RowSums, JobSums, CartSums, UsageRows, Placed

\* A step that writes no order: what it loads are the sums of an order or of a request.
LEMMA MoneyLoaded ==
    ASSUME Money, UNCHANGED <<placed, order, sums, group, usage>>,
           cart' = cart \/ CartSums',
           \A k \in Staff : job'[k] # NoJob =>
              \/ job'[k] = job[k]
              \/ job'[k].order \in Placed /\ job'[k].sums = sums[job'[k].order]
              \/ job[k] # NoJob /\ job'[k].order = job[k].order /\ job'[k].sums = job[k].sums
    PROVE  Money'
<1>1. RowSums' BY DEF Money, RowSums, Agrees, IsGroup, Placed
<1>2. JobSums'
  <2> SUFFICES ASSUME NEW k \in Staff, job'[k] # NoJob PROVE Agrees(job[k].sums, job[k].order)'
    BY DEF JobSums
  <2> DEFINE o == job'[k].order
             t == job'[k].sums
  <2>1. Agrees(t, o) BY DEF Money, RowSums, JobSums
  <2> HIDE DEF o, t
  <2>2. /\ t = [products |-> t.products, delivering |-> t.delivering, discount |-> t.discount,
                total |-> t.total, package |-> t.package, quantity |-> t.quantity]
        /\ t.total = (t.delivering + t.products) - t.discount
        /\ t.delivering = group'[o].delivering
        /\ order'[o].code = NoCode => t.discount = 0
    BY <2>1 DEF Agrees
  <2> QED BY <2>2 DEF Agrees, o, t
<1>3. CartSums' BY DEF Money, CartSums
<1>4. UsageRows' BY DEF Money, UsageRows, Placed
<1> QED BY <1>1, <1>2, <1>3, <1>4 DEF Money
\* A step that writes one order and ends a request.
LEMMA MoneyWritten ==
    ASSUME IInv, Money, NEW o \in Placed, NEW h \in Staff, NEW t, NEW g, NEW r,
           UNCHANGED <<placed, cart>>, usage' \subseteq usage,
           job' = [job EXCEPT ![h] = NoJob],
           sums' = sums \/ (sums' = [sums EXCEPT ![o] = t] /\ Agrees(t, o)),
           group' = group \/ group' = [group EXCEPT ![o] = g],
           IsGroup(g), g.delivering = group[o].delivering,
           order' = order \/ order' = [order EXCEPT ![o] = r],
           r.customer = order[o].customer, r.code = order[o].code
    PROVE  Money'
<1> USE BoundAssumption
<1>1. order \in [Orders -> Row] /\ Placed \subseteq Orders /\ Placed' = Placed
  BY DEF IInv, Types, TypeOK, Placed, Orders
<1>2. /\ \A q \in Placed : order'[q].code = order[q].code /\ order'[q].customer = order[q].customer
      /\ \A q \in Placed : group'[q].delivering = group[q].delivering /\ IsGroup(group'[q])
      /\ DOMAIN sums' = Orders /\ DOMAIN group' = Orders
  BY <1>1 DEF Money, RowSums
<1>3. ASSUME NEW q \in Placed, NEW x, Agrees(x, q)
      PROVE  /\ x = [products |-> x.products, delivering |-> x.delivering, discount |-> x.discount,
                     total |-> x.total, package |-> x.package, quantity |-> x.quantity]
             /\ x.total = (x.delivering + x.products) - x.discount
             /\ x.delivering = group'[q].delivering
             /\ order'[q].code = NoCode => x.discount = 0
  BY <1>2, <1>3 DEF Agrees
<1>4. RowSums'
  <2>1. ASSUME NEW q \in Placed PROVE Agrees(sums'[q], q)
    BY <1>1, <2>1 DEF Money, RowSums
  <2>2. ASSUME NEW q \in Placed PROVE Agrees(sums[q], q)'
    BY <1>3, <2>1 DEF Agrees
  <2> QED BY <1>1, <1>2, <2>2 DEF RowSums, IsGroup
<1>5. JobSums'
  <2>1. ASSUME NEW k \in Staff, job'[k] # NoJob
        PROVE  Agrees(job'[k].sums, job'[k].order) /\ job'[k].order \in Placed
    BY <2>1 DEF Money, JobSums, IInv, Types, Jobs, JobOK
  <2> QED BY <1>3, <2>1 DEF JobSums, Agrees
<1>6. CartSums' BY DEF Money, CartSums
<1>7. UsageRows' BY <1>1, <1>2 DEF Money, UsageRows
<1> QED BY <1>4, <1>5, <1>6, <1>7 DEF Money
\* What a recalculation makes of a group and of sums.
LEMMA GroupRecalculated ==
    ASSUME NEW x, IsGroup(x), NEW a, NEW b
    PROVE  /\ IsGroup([x EXCEPT !.total = a, !.commission = b])
           /\ [x EXCEPT !.total = a, !.commission = b].delivering = x.delivering
<1> DEFINE S == [products : {x.products}, delivering : {x.delivering}, total : {x.total, a},
                 commission : {x.commission, b}]
           y == [x EXCEPT !.total = a, !.commission = b]
<1>1. x \in S BY DEF IsGroup
<1>2. y \in S BY <1>1
<1>3. y.delivering = x.delivering BY <1>1
<1> HIDE DEF y
<1>4. IsGroup(y) BY <1>2 DEF IsGroup
<1> QED BY <1>3, <1>4 DEF y

LEMMA RecordOfSums ==
    ASSUME NEW P, NEW V, NEW D, NEW T, NEW K, NEW Q,
           NEW x \in [products : P, delivering : V, discount : D, total : T, package : K, quantity : Q]
    PROVE  x = [products |-> x.products, delivering |-> x.delivering, discount |-> x.discount,
                total |-> x.total, package |-> x.package, quantity |-> x.quantity]
OBVIOUS

LEMMA SumsRecalculated ==
    ASSUME NEW o, NEW x, Agrees(x, o), NEW a
    PROVE  Agrees([x EXCEPT !.products = a, !.total = (group[o].delivering + a) - x.discount], o)
<1> DEFINE m == (group[o].delivering + a) - x.discount
           S == [products : {x.products, a}, delivering : {x.delivering}, discount : {x.discount},
                 total : {x.total, m}, package : {x.package}, quantity : {x.quantity}]
           y == [x EXCEPT !.products = a, !.total = m]
<1>0. m = (x.delivering + a) - x.discount BY DEF Agrees
<1> HIDE DEF m
<1>1. x \in S BY DEF Agrees
<1>2. y \in S BY <1>1
<1>3. y.delivering = x.delivering /\ y.discount = x.discount /\ y.products = a /\ y.total = m
  BY <1>1
<1> HIDE DEF y
<1>4. y = [products |-> y.products, delivering |-> y.delivering, discount |-> y.discount,
           total |-> y.total, package |-> y.package, quantity |-> y.quantity]
  BY <1>2, RecordOfSums
<1>5. /\ y.total = (y.delivering + y.products) - y.discount
      /\ y.delivering = group[o].delivering
      /\ order[o].code = NoCode => y.discount = 0
  <2>1. x.delivering = group[o].delivering /\ (order[o].code = NoCode => x.discount = 0) BY DEF Agrees
  <2> QED BY <1>0, <1>3, <2>1
<1>6. Agrees(y, o) BY <1>4, <1>5 DEF Agrees
<1> QED BY <1>6 DEF y, m

LEMMA SaveMoney ==
    ASSUME IInv, Money, NEW h \in Staff, SaveSums(h)
    PROVE  Money'
<1> DEFINE j == job[h]
           o == j.order
           goods == Sum(Counted(j.read), MaxItems)
           g == [group[o] EXCEPT !.total = NewTotal(group[o], j.read),
                                 !.commission = Commission(goods, institution.tax)]
           t == [j.sums EXCEPT !.products = goods,
                               !.total = NewTotal(group[o], j.read) - j.sums.discount]
<1>1. JobOK(j) /\ o \in Placed BY DEF SaveSums, IInv, Types, Jobs, JobOK
<1>2. Agrees(j.sums, o) /\ IsGroup(group[o]) BY <1>1 DEF SaveSums, Money, JobSums, RowSums
<1>3. IsGroup(g) /\ g.delivering = group[o].delivering
  <2> HIDE DEF j, goods
  <2> QED BY <1>2, GroupRecalculated
<1>4. Agrees(t, o)
  <2>1. NewTotal(group[o], j.read) = group[o].delivering + goods BY DEF NewTotal
  <2>2. t = [j.sums EXCEPT !.products = goods, !.total = (group[o].delivering + goods) - j.sums.discount]
    BY <2>1
  <2> HIDE DEF j, goods, t
  <2> QED BY <1>2, <2>2, SumsRecalculated
<1>5. /\ UNCHANGED <<placed, cart, usage>>
      /\ job' = [job EXCEPT ![h] = NoJob]
      /\ \/ UNCHANGED <<group, order, sums>>
         \/ /\ group' = [group EXCEPT ![o] = g]
            /\ order' = [order EXCEPT ![o] = j.row]
            /\ sums' = [sums EXCEPT ![o] = t]
  BY DEF SaveSums, promos
<1>6. j.row.customer = order[o].customer /\ j.row.code = order[o].code BY <1>1 DEF JobOK
<1> HIDE DEF g, t, j
<1> QED BY <1>1, <1>3, <1>4, <1>5, <1>6, MoneyWritten

LEMMA StatusMoney ==
    ASSUME IInv, Money, NEW h \in Staff, Accept(h) \/ Reject(h) \/ Close(h)
    PROVE  Money'
<1> DEFINE j == job[h]
           o == j.order
<1>1. j # NoJob BY DEF Accept, Reject, Close, At
<1>2. PICK st \in Statuses, paid \in {TRUE, FALSE, j.row.paid} : CommitStatus(h, st, paid)
  BY DEF Accept, Reject, Close, Statuses
<1>3. JobOK(j) /\ o \in Placed BY <1>1 DEF IInv, Types, Jobs, JobOK
<1>4. Agrees(j.sums, o) /\ IsGroup(group[o]) BY <1>1, <1>3 DEF Money, JobSums, RowSums
<1> DEFINE r == [j.row EXCEPT !.status = st, !.paid = paid]
<1>5. /\ UNCHANGED <<placed, cart, group>>
      /\ order' = [order EXCEPT ![o] = r]
      /\ sums' = [sums EXCEPT ![o] = j.sums]
      /\ job' = [job EXCEPT ![h] = NoJob]
  BY <1>2 DEF CommitStatus
<1>6. usage' \subseteq usage BY DEF Accept, Reject, Close
<1>7. r.customer = order[o].customer /\ r.code = order[o].code BY <1>3 DEF JobOK, Row
<1> HIDE DEF r, j
<1> QED BY <1>3, <1>4, <1>5, <1>6, <1>7, MoneyWritten

LEMMA PlaceMoney ==
    ASSUME IInv, Money, NEW s \in Shoppers, Place(s)
    PROVE  Money'
<1> USE BoundAssumption
<1> DEFINE v == cart[s]
           o == placed + 1
           t == NewSums(v)
           g == NewGroup(v, t.delivering)
           use == [user |-> v.customer, code |-> v.code, order |-> o]
<1>1. order \in [Orders -> Row] /\ o \in Orders /\ Placed \subseteq Orders
      /\ Placed' = Placed \cup {o} /\ o \notin Placed
  BY DEF IInv, Types, TypeOK, Placed, Orders, Place
<1>2. /\ sums' = [sums EXCEPT ![o] = t] /\ group' = [group EXCEPT ![o] = g]
      /\ order'[o].customer = v.customer /\ order'[o].code = v.code
      /\ \A q \in Placed : order'[q] = order[q]
      /\ usage' \subseteq usage \cup {use}
      /\ cart' = [cart EXCEPT ![s] = NoCart] /\ job' = job
  BY <1>1 DEF Place, Use
<1>3. /\ t = [products |-> t.products, delivering |-> t.delivering, discount |-> t.discount,
              total |-> t.total, package |-> t.package, quantity |-> t.quantity]
      /\ t.total = (t.delivering + t.products) - t.discount
      /\ t.discount = v.sum
  BY DEF NewSums
<1>4. IsGroup(g) /\ g.delivering = t.delivering BY DEF NewGroup, IsGroup
<1>5. v.code = NoCode => v.sum = 0 BY DEF Place, Money, CartSums
<1>6. use.order = o /\ use.user = v.customer /\ use.code = v.code OBVIOUS
<1> HIDE DEF t, g, use
<1>7. \A q \in Placed : group'[q] = group[q] /\ sums'[q] = sums[q]
  BY <1>1, <1>2 DEF Money, RowSums
<1>8. group'[o] = g /\ sums'[o] = t /\ DOMAIN sums' = Orders /\ DOMAIN group' = Orders
  BY <1>1, <1>2 DEF Money, RowSums
<1>9. ASSUME NEW q \in Placed, NEW x, Agrees(x, q)
      PROVE  /\ x = [products |-> x.products, delivering |-> x.delivering, discount |-> x.discount,
                     total |-> x.total, package |-> x.package, quantity |-> x.quantity]
             /\ x.total = (x.delivering + x.products) - x.discount
             /\ x.delivering = group'[q].delivering
             /\ order'[q].code = NoCode => x.discount = 0
  BY <1>2, <1>7, <1>9 DEF Agrees
<1>10. RowSums'
  <2>1. ASSUME NEW q \in Placed PROVE Agrees(sums[q], q)' /\ IsGroup(group[q])'
    <3>1. Agrees(sums'[q], q) BY <1>7, <2>1 DEF Money, RowSums
    <3> QED BY <1>7, <1>9, <3>1 DEF Agrees, Money, RowSums, IsGroup
  <2>2. ASSUME NEW q, q = o PROVE Agrees(sums[q], q)' /\ IsGroup(group[q])'
    <3>1. sums'[q] = t /\ group'[q] = g /\ order'[q].code = v.code BY <1>2, <1>8, <2>2
    <3> HIDE DEF o, v
    <3> QED BY <1>3, <1>4, <1>5, <3>1 DEF Agrees, IsGroup
  <2>3. \A q \in Placed' : Agrees(sums[q], q)' /\ IsGroup(group[q])'
    <3> SUFFICES ASSUME NEW q \in Placed' PROVE Agrees(sums[q], q)' /\ IsGroup(group[q])'
      OBVIOUS
    <3>1. q \in Placed \/ q = o BY <1>1
    <3> QED BY <2>1, <2>2, <3>1
  <2> QED BY <1>8, <2>3 DEF RowSums
<1>11. JobSums'
  <2>1. ASSUME NEW k \in Staff, job'[k] # NoJob
        PROVE  Agrees(job'[k].sums, job'[k].order) /\ job'[k].order \in Placed
    BY <1>2, <2>1 DEF Money, JobSums, IInv, Types, Jobs, JobOK
  <2> QED BY <1>9, <2>1 DEF JobSums, Agrees
<1>12. CartSums'
  <2>1. cart \in [Shoppers -> Cart \cup {NoCart}] BY DEF IInv, Types, TypeOK
  <2> QED BY <1>2, <2>1 DEF Money, CartSums
<1>13. UsageRows'
  <2> HIDE DEF o, v
  <2> QED BY <1>1, <1>2, <1>6 DEF Money, UsageRows
<1> QED BY <1>10, <1>11, <1>12, <1>13 DEF Money
LEMMA InductiveMoney == IInv /\ Money /\ [Next]_vars => Money'
<1> SUFFICES ASSUME IInv, Money, [Next]_vars PROVE Money' OBVIOUS
<1>1. CASE UNCHANGED vars BY <1>1, MoneyLoaded DEF vars, rows, promos
<1>2. ASSUME NEW p \in Products, NEW n \in Prices, SetPrice(p, n) PROVE Money'
  BY <1>2, MoneyLoaded DEF SetPrice, promos, rows
<1>3. ASSUME NEW c \in Codes, DeletePromo(c) \/ \E r \in PromoRow : EditPromo(c, r) PROVE Money'
  BY <1>3, MoneyLoaded DEF DeletePromo, EditPromo, rows
<1>4. ASSUME NEW s \in Shoppers, NEW u \in Customers, NEW f \in Offers, NEW c \in Codes \cup {NoCode},
             Validate(s, u, f, c)
      PROVE  Money'
  <2>1. CartSums'
    <3> DEFINE n == IF c = NoCode THEN 0 ELSE promo[c].sum
    <3>1. cart' = [cart EXCEPT ![s] =
                     [customer |-> u, offer |-> f, code |-> c,
                      named |-> IF c = NoCode THEN NoCode ELSE promo[c].named, sum |-> n,
                      price |-> price]]
      BY <1>4 DEF Validate
    <3>2. cart \in [Shoppers -> Cart \cup {NoCart}] BY DEF IInv, Types, TypeOK
    <3>3. c = NoCode => n = 0 OBVIOUS
    <3> HIDE DEF n
    <3> QED BY <3>1, <3>2, <3>3 DEF Money, CartSums
  <2> QED BY <1>4, <2>1, MoneyLoaded DEF Validate, promos, rows
<1>5. ASSUME NEW s \in Shoppers, TurnAway(s) PROVE Money'
  <2>1. CartSums'
    <3>1. cart \in [Shoppers -> Cart \cup {NoCart}] BY DEF IInv, Types, TypeOK
    <3> QED BY <1>5, <3>1 DEF TurnAway, Money, CartSums
  <2> QED BY <1>5, <2>1, MoneyLoaded DEF TurnAway, promos, rows
<1>6. ASSUME NEW h \in Staff, NEW kind, NEW o \in Placed, Begin(h, kind, o),
             UNCHANGED <<placed, order, sums, group, usage, cart>>
      PROVE  Money'
  <2>1. DOMAIN job = Staff BY DEF IInv, Types, Jobs
  <2>2. \A k \in Staff : job'[k] = job[k] \/ (job'[k].order = o /\ job'[k].sums = sums[o])
    BY <1>6, <2>1 DEF Begin
  <2> QED BY <1>6, <2>2, MoneyLoaded
<1>7. ASSUME NEW h \in Staff, Recalculate(h) PROVE Money'
  <2>1. DOMAIN job = Staff /\ job[h] # NoJob /\ job[h].order \in Placed
    BY <1>7 DEF Recalculate, IInv, Types, Jobs, JobOK
  <2>2. \A k \in Staff : k # h => job'[k] = job[k] BY <1>7, <2>1 DEF Recalculate
  <2>3. /\ job'[h].order = job[h].order
        /\ job'[h].sums = IF job[h].kind = "add" THEN job[h].sums ELSE sums[job[h].order]
    BY <1>7, <2>1 DEF Recalculate
  <2>4. UNCHANGED <<placed, order, sums, group, usage, cart>> BY <1>7 DEF Recalculate, rows, promos
  <2>5. \/ job'[h].sums = job[h].sums
        \/ job'[h].sums = sums[job'[h].order]
    BY <2>3
  <2> QED BY <2>1, <2>2, <2>3, <2>4, <2>5, MoneyLoaded
<1>8. ASSUME NEW h \in Staff, Die(h) PROVE Money'
  <2>1. DOMAIN job = Staff BY DEF IInv, Types, Jobs
  <2> QED BY <1>8, <2>1, MoneyLoaded DEF Die, rows, promos
<1>9. ASSUME NEW h \in Staff, NEW o \in Orders, NEW to \in Targets, UpdateStatus(h, o, to)
      PROVE  Money'
  <2>1. DOMAIN job = Staff BY DEF IInv, Types, Jobs
  <2>2. \A k \in Staff : job'[k] = job[k] \/ (job'[k].order = o /\ job'[k].sums = sums[o])
    BY <1>9, <2>1 DEF UpdateStatus
  <2> QED BY <1>9, <2>2, MoneyLoaded DEF UpdateStatus, rows, promos
<1>10. ASSUME NEW s \in Shoppers, Order(s) PROVE Money'
  BY <1>4, <1>5, <1>10, PlaceMoney DEF Order
<1>11. ASSUME NEW h \in Staff, Edit(h) PROVE Money'
  <2>1. ASSUME NEW o \in Orders, NEW p \in Products, NEW n \in Counts, AddItem(h, o, p, n)
        PROVE  Money'
    BY <1>6, <2>1 DEF AddItem, promos
  <2>2. ASSUME NEW o \in Orders, NEW p \in Products, NEW n \in Counts, NEW q \in Products,
               NEW new \in BOOLEAN, ReplaceItem(h, o, q, p, n, new)
        PROVE  Money'
    BY <1>6, <2>2 DEF ReplaceItem, promos
  <2>3. ASSUME NEW i \in ItemIds, item[i] # NoItem PROVE item[i].order \in Placed
    <3>1. item[i] \in Item /\ item[i].order <= placed BY <2>3, SentinelAssumption DEF IInv, Types, TypeOK
    <3> QED BY <3>1, BoundAssumption DEF Placed, Item, Orders, IInv, Types, TypeOK
  <2>4. ASSUME NEW i \in ItemIds, NEW n \in Counts, NEW b \in BOOLEAN, ChangeItem(h, i, n, b)
        PROVE  Money'
    BY <1>6, <2>3, <2>4 DEF ChangeItem, promos
  <2>5. ASSUME NEW i \in ItemIds, RemoveItem(h, i) PROVE Money'
    BY <1>6, <2>3, <2>5 DEF RemoveItem, promos
  <2> QED BY <1>7, <1>8, <1>11, <2>1, <2>2, <2>4, <2>5, SaveMoney DEF Edit
<1>12. ASSUME NEW h \in Staff, Status(h) PROVE Money'
  BY <1>9, <1>12, StatusMoney DEF Status
<1> QED BY <1>1, <1>2, <1>3, <1>10, <1>11, <1>12 DEF Next

\* Whoever carries or cooks an order is told the total the customer owes
\* (OrderViews!ShownIsOwed): every save of an order writes sums that add up, lost
\* updates included, and a usage row is that of its order.
THEOREM TheTotalShownIsOwed == Spec => []ShownIsOwed
<1>1. IInv /\ Money => ShownIsOwed
  <2> SUFFICES ASSUME IInv, Money, NEW o \in Placed \ released,
                      order[o].code # NoCode =>
                         order[o].matched /\ promo[order[o].code].sum = sums[o].discount
               PROVE  get_prices(o) = [discount |-> sums[o].discount, total |-> sums[o].total]
    BY DEF ShownIsOwed
  <2>1. /\ sums[o].total = (sums[o].delivering + sums[o].products) - sums[o].discount
        /\ order[o].code = NoCode => sums[o].discount = 0
    BY DEF Money, RowSums, Agrees
  <2>2. \A r \in Usages(o) : r.code = order[o].code /\ r.code \in Codes
    BY DEF Usages, Money, UsageRows, IInv, Types, TypeOK, Usage
  <2>3. get_discount_sum(o) = sums[o].discount
    <3>1. CASE order[o].code = NoCode
      <4>1. Usages(o) = {} BY <2>2, <3>1, SentinelAssumption
      <4> QED BY <2>1, <3>1, <4>1 DEF get_discount_sum
    <3>2. CASE order[o].code # NoCode
      <4> DEFINE r == [user |-> order[o].customer, code |-> order[o].code, order |-> o]
      <4>1. r \in usage BY <3>2 DEF IInv, UsageKept
      <4>2. r \in Usages(o) BY <4>1 DEF Usages
      <4>3. (CHOOSE q \in Usages(o) : TRUE) \in Usages(o) BY <4>2
      <4>4. (CHOOSE q \in Usages(o) : TRUE).code = order[o].code BY <2>2, <4>3
      <4> QED BY <3>2, <4>2, <4>4 DEF get_discount_sum
    <3> QED BY <3>1, <3>2
  <2> QED BY <2>1, <2>3 DEF get_prices
<1>2. Spec => []Money BY InitialMoney, InductiveMoney, Invariance, PTL DEF Spec
<1> QED BY <1>1, <1>2, Invariance, PTL

-----------------------------------------------------------------------------
(* Sums of any length, by induction over the naturals.                     *)

\* Induction over the naturals, from their well-foundedness.
LEMMA NatSetInduction ==
    ASSUME NEW S, 0 \in S, \A n \in Nat : n \in S => n + 1 \in S
    PROVE  Nat \subseteq S
<1> DEFINE T == Nat \ S
           R == OpToRel(<, Nat)
<1>1. ASSUME T # {} PROVE FALSE
  <2>1. IsWellFoundedOn(R, Nat) BY NatLessThanWellFounded
  <2>2. \E x \in T : \A y \in T : ~(<<y, x>> \in R)
    <3> HIDE DEF R
    <3> QED BY <1>1, <2>1, WFMin
  <2>3. PICK x \in T : \A y \in T : ~(<<y, x>> \in R) BY <2>2
  <2>4. \A y \in T : ~(y < x) BY <2>3 DEF OpToRel
  <2>5. x # 0 /\ x - 1 \in Nat /\ (x - 1) + 1 = x OBVIOUS
  <2>6. x - 1 \in T BY <2>5
  <2> QED BY <2>4, <2>6
<1> QED BY <1>1

\* The partial sums of f up to n.
IsSum(S, f, n) == S = [k \in 0..n |-> IF k = 0 THEN 0 ELSE S[k - 1] + f[k]]

LEMMA PartialSums ==
    ASSUME NEW f
    PROVE  \A n \in Nat : \E S : IsSum(S, f, n)
<1> DEFINE T == {n \in Nat : \E S : IsSum(S, f, n)}
<1>1. 0 \in T
  <2>1. IsSum([k \in 0..0 |-> 0], f, 0) BY DEF IsSum
  <2> QED BY <2>1
<1>2. ASSUME NEW n \in Nat, n \in T PROVE n + 1 \in T
  <2>1. PICK S : IsSum(S, f, n) BY <1>2
  <2> DEFINE R == [k \in 0..(n + 1) |-> IF k = n + 1 THEN S[n] + f[n + 1] ELSE S[k]]
  <2>2. \A k \in 0..n : R[k] = S[k] /\ S[k] = IF k = 0 THEN 0 ELSE S[k - 1] + f[k] BY <2>1 DEF IsSum
  <2>3. \A k \in 0..(n + 1) : R[k] = IF k = 0 THEN 0 ELSE R[k - 1] + f[k]
    <3>1. R[n + 1] = R[n] + f[n + 1] BY <2>2
    <3>2. \A k \in 0..n : k # 0 => R[k - 1] = S[k - 1] BY <2>2
    <3> HIDE DEF R
    <3>3. \A k \in 0..(n + 1) : k = n + 1 \/ k \in 0..n OBVIOUS
    <3> QED BY <2>2, <3>1, <3>2, <3>3
  <2>4. IsSum(R, f, n + 1)
    <3>1. R = [k \in 0..(n + 1) |-> R[k]] OBVIOUS
    <3> HIDE DEF R
    <3> QED BY <2>3, <3>1 DEF IsSum
  <2> QED BY <2>4
<1> HIDE DEF T
<1>3. Nat \subseteq T BY <1>1, <1>2, NatSetInduction
<1> QED BY <1>3 DEF T

LEMMA SumIsLast ==
    ASSUME NEW f, NEW n \in Nat
    PROVE  \E S : IsSum(S, f, n) /\ Sum(f, n) = S[n]
<1>1. Sum(f, n) = (CHOOSE S : IsSum(S, f, n))[n] BY DEF Sum, IsSum
<1> QED BY <1>1, PartialSums

LEMMA PartialSumsUnique ==
    ASSUME NEW f, NEW n \in Nat, NEW m \in Nat, n <= m, NEW S, NEW R, IsSum(S, f, n), IsSum(R, f, m)
    PROVE  S[n] = R[n]
<1> DEFINE T == {k \in Nat : k <= n => S[k] = R[k]}
<1>1. 0 \in T BY DEF IsSum
<1>2. ASSUME NEW k \in Nat, k \in T PROVE k + 1 \in T
  <2>1. ASSUME k + 1 <= n PROVE S[k + 1] = R[k + 1]
    <3>1. S[k] = R[k] BY <1>2, <2>1
    <3>2. S[k + 1] = S[k] + f[k + 1] /\ R[k + 1] = R[k] + f[k + 1] BY <2>1 DEF IsSum
    <3> QED BY <3>1, <3>2
  <2> QED BY <2>1
<1> HIDE DEF T
<1>3. Nat \subseteq T BY <1>1, <1>2, NatSetInduction
<1> QED BY <1>3 DEF T

\* Sum is what its name says: nothing of no terms, and one term more each time.
LEMMA SumOfNone == ASSUME NEW f PROVE Sum(f, 0) = 0
BY SumIsLast DEF IsSum

LEMMA SumOfMore ==
    ASSUME NEW f, NEW n \in Nat
    PROVE  Sum(f, n + 1) = Sum(f, n) + f[n + 1]
<1>1. PICK S : IsSum(S, f, n) /\ Sum(f, n) = S[n] BY SumIsLast
<1>2. PICK R : IsSum(R, f, n + 1) /\ Sum(f, n + 1) = R[n + 1] BY SumIsLast
<1>3. S[n] = R[n] BY <1>1, <1>2, PartialSumsUnique
<1>4. R[n + 1] = R[n] + f[n + 1] BY <1>2 DEF IsSum
<1> QED BY <1>1, <1>2, <1>3, <1>4

\* Terms that are integers.
Whole(f, n) == \A k \in 1..n : f[k] \in Int

LEMMA SumIsWhole ==
    ASSUME NEW f, NEW n \in Nat, Whole(f, n)
    PROVE  \A k \in 0..n : Sum(f, k) \in Int
<1> DEFINE T == {k \in Nat : k <= n => Sum(f, k) \in Int}
<1>1. 0 \in T BY SumOfNone
<1>2. ASSUME NEW k \in Nat, k \in T PROVE k + 1 \in T BY <1>2, SumOfMore DEF Whole
<1> HIDE DEF T
<1>3. Nat \subseteq T BY <1>1, <1>2, NatSetInduction
<1> QED BY <1>3 DEF T

LEMMA SumOfSame ==
    ASSUME NEW f, NEW g, NEW n \in Nat, \A k \in 1..n : f[k] = g[k]
    PROVE  Sum(f, n) = Sum(g, n)
<1> DEFINE T == {k \in Nat : k <= n => Sum(f, k) = Sum(g, k)}
<1>1. 0 \in T BY SumOfNone
<1>2. ASSUME NEW k \in Nat, k \in T PROVE k + 1 \in T BY <1>2, SumOfMore
<1> HIDE DEF T
<1>3. Nat \subseteq T BY <1>1, <1>2, NatSetInduction
<1> QED BY <1>3 DEF T

LEMMA SumOfSums ==
    ASSUME NEW f, NEW g, NEW s, NEW n \in Nat, Whole(f, n), Whole(g, n),
           \A k \in 1..n : s[k] = f[k] + g[k]
    PROVE  Sum(s, n) = Sum(f, n) + Sum(g, n)
<1> DEFINE T == {k \in Nat : k <= n => Sum(s, k) = Sum(f, k) + Sum(g, k)}
<1>1. 0 \in T BY SumOfNone
<1>2. ASSUME NEW k \in Nat, k \in T PROVE k + 1 \in T
  <2>1. ASSUME k + 1 <= n PROVE Sum(s, k + 1) = Sum(f, k + 1) + Sum(g, k + 1)
    <3>1. Sum(f, k) \in Int /\ Sum(g, k) \in Int BY <2>1, SumIsWhole
    <3>2. f[k + 1] \in Int /\ g[k + 1] \in Int /\ s[k + 1] = f[k + 1] + g[k + 1] BY <2>1 DEF Whole
    <3>3. Sum(s, k) = Sum(f, k) + Sum(g, k) BY <1>2, <2>1
    <3> QED BY <3>1, <3>2, <3>3, SumOfMore
  <2> QED BY <2>1
<1> HIDE DEF T
<1>3. Nat \subseteq T BY <1>1, <1>2, NatSetInduction
<1> QED BY <1>3 DEF T

LEMMA SumOfDifferences ==
    ASSUME NEW f, NEW g, NEW s, NEW n \in Nat, Whole(f, n), Whole(g, n),
           \A k \in 1..n : s[k] = f[k] - g[k]
    PROVE  Sum(s, n) = Sum(f, n) - Sum(g, n)
<1>1. Whole(s, n) BY DEF Whole
<1>2. \A k \in 1..n : f[k] = s[k] + g[k] BY DEF Whole
<1>3. Sum(f, n) = Sum(s, n) + Sum(g, n) BY <1>1, <1>2, SumOfSums
<1>4. Sum(f, n) \in Int /\ Sum(s, n) \in Int /\ Sum(g, n) \in Int BY <1>1, SumIsWhole
<1> QED BY <1>3, <1>4

LEMMA SumIsNatural ==
    ASSUME NEW f, NEW n \in Nat, \A k \in 1..n : f[k] \in Nat
    PROVE  \A k \in 0..n : Sum(f, k) \in Nat
<1> DEFINE T == {k \in Nat : k <= n => Sum(f, k) \in Nat}
<1>1. 0 \in T BY SumOfNone
<1>2. ASSUME NEW k \in Nat, k \in T PROVE k + 1 \in T BY <1>2, SumOfMore
<1> HIDE DEF T
<1>3. Nat \subseteq T BY <1>1, <1>2, NatSetInduction
<1> QED BY <1>3 DEF T

\* Terms that are 0 add nothing.
LEMMA SumStops ==
    ASSUME NEW f, NEW m \in Nat, NEW n \in Nat, m <= n, Whole(f, n),
           \A k \in (m + 1)..n : f[k] = 0
    PROVE  Sum(f, n) = Sum(f, m)
<1> DEFINE T == {d \in Nat : m + d <= n => Sum(f, m + d) = Sum(f, m)}
<1>0. Sum(f, m) \in Int BY SumIsWhole
<1>1. 0 \in T OBVIOUS
<1>2. ASSUME NEW d \in Nat, d \in T PROVE d + 1 \in T
  <2>1. ASSUME m + (d + 1) <= n PROVE Sum(f, m + (d + 1)) = Sum(f, m)
    <3>1. Sum(f, m + d) = Sum(f, m) BY <1>2, <2>1
    <3>2. m + d \in Nat /\ (m + d) + 1 = m + (d + 1) /\ f[(m + d) + 1] = 0 BY <2>1
    <3>3. Sum(f, (m + d) + 1) = Sum(f, m + d) + f[(m + d) + 1] BY <3>2, SumOfMore
    <3> QED BY <1>0, <3>1, <3>2, <3>3
  <2> QED BY <2>1
<1> HIDE DEF T
<1>3. Nat \subseteq T BY <1>1, <1>2, NatSetInduction
<1>4. n - m \in T /\ m + (n - m) = n BY <1>3
<1> QED BY <1>4 DEF T

LEMMA SumOfZeros ==
    ASSUME NEW f, NEW n \in Nat, \A k \in 1..n : f[k] = 0
    PROVE  Sum(f, n) = 0
<1>1. Whole(f, n) BY DEF Whole
<1>2. \A k \in (0 + 1)..n : f[k] = 0 OBVIOUS
<1>3. Sum(f, n) = Sum(f, 0) BY <1>1, <1>2, SumStops
<1> QED BY <1>3, SumOfNone

\* The terms of f up to m are those of g up to n, after a zeros and before others.
IsBlock(f, g, a, n, m) ==
    /\ a + n <= m /\ Whole(g, n)
    /\ \A k \in 1..n : f[a + k] = g[k]
    /\ \A k \in 1..m : k \notin (a + 1)..(a + n) => f[k] = 0

LEMMA SumOfBlock ==
    ASSUME NEW f, NEW g, NEW a \in Nat, NEW n \in Nat, NEW m \in Nat, IsBlock(f, g, a, n, m)
    PROVE  Sum(f, m) = Sum(g, n)
<1> USE DEF IsBlock
<1> DEFINE T == {d \in Nat : d <= n => Sum(f, a + d) = Sum(g, d)}
<1>0. Whole(f, m)
  <2> SUFFICES ASSUME NEW k \in 1..m PROVE f[k] \in Int BY DEF Whole
  <2>1. CASE k \in (a + 1)..(a + n)
    <3>1. k - a \in 1..n /\ a + (k - a) = k BY <2>1
    <3>2. f[k] = g[k - a] BY <3>1
    <3> QED BY <3>1, <3>2 DEF Whole
  <2>2. CASE k \notin (a + 1)..(a + n) BY <2>2
  <2> QED BY <2>1, <2>2
<1>1. 0 \in T
  <2>1. \A k \in 1..a : f[k] = 0 OBVIOUS
  <2>2. Sum(f, a) = 0 BY <2>1, SumOfZeros
  <2>3. a + 0 = a OBVIOUS
  <2> QED BY <2>2, <2>3, SumOfNone
<1>2. ASSUME NEW d \in Nat, d \in T PROVE d + 1 \in T
  <2>1. ASSUME d + 1 <= n PROVE Sum(f, a + (d + 1)) = Sum(g, d + 1)
    <3>1. Sum(f, a + d) = Sum(g, d) BY <1>2, <2>1
    <3>2. a + d \in Nat /\ (a + d) + 1 = a + (d + 1) /\ f[a + (d + 1)] = g[d + 1] BY <2>1
    <3>3. Sum(f, (a + d) + 1) = Sum(f, a + d) + f[(a + d) + 1] BY <3>2, SumOfMore
    <3> QED BY <3>1, <3>2, <3>3, SumOfMore
  <2> QED BY <2>1
<1> HIDE DEF T
<1>3. Nat \subseteq T BY <1>1, <1>2, NatSetInduction
<1>4. Sum(f, a + n) = Sum(g, n) BY <1>3 DEF T
<1>5. Sum(f, m) = Sum(f, a + n)
  <2>1. \A k \in ((a + n) + 1)..m : f[k] = 0 OBVIOUS
  <2>2. a + n \in Nat OBVIOUS
  <2> QED BY <1>0, <2>1, <2>2, SumStops
<1> QED BY <1>4, <1>5

\* A sum whose terms are related to those of another, within c for each.
LEMMA SumsWithin ==
    ASSUME NEW f, NEW g, NEW n \in Nat, NEW a \in Int, NEW b \in Int, NEW c \in Int,
           Whole(f, n), Whole(g, n),
           \A k \in 1..n : a * f[k] - b * g[k] <= c
    PROVE  a * Sum(f, n) - b * Sum(g, n) <= c * n
<1> DEFINE T == {k \in Nat : k <= n => a * Sum(f, k) - b * Sum(g, k) <= c * k}
<1>1. 0 \in T BY SumOfNone
<1>2. ASSUME NEW k \in Nat, k \in T PROVE k + 1 \in T
  <2>1. ASSUME k + 1 <= n PROVE a * Sum(f, k + 1) - b * Sum(g, k + 1) <= c * (k + 1)
    <3> DEFINE x == Sum(f, k)
               y == Sum(g, k)
               u == f[k + 1]
               w == g[k + 1]
    <3>1. x \in Int /\ y \in Int BY <2>1, SumIsWhole
    <3>2. u \in Int /\ w \in Int /\ a * u - b * w <= c BY <2>1 DEF Whole
    <3>3. a * x - b * y <= c * k BY <1>2, <2>1
    <3>4. Sum(f, k + 1) = x + u /\ Sum(g, k + 1) = y + w BY SumOfMore
    <3> HIDE DEF x, y, u, w
    <3>5. a * (x + u) - b * (y + w) = (a * x - b * y) + (a * u - b * w) BY <3>1, <3>2
    <3>6. c * (k + 1) = c * k + c OBVIOUS
    <3>7. a * x \in Int /\ b * y \in Int /\ a * u \in Int /\ b * w \in Int /\ c * k \in Int BY <3>1, <3>2
    <3> HIDE <1>2
    <3>8. (a * x - b * y) + (a * u - b * w) <= c * k + c BY <3>2, <3>3, <3>7
    <3> QED BY <3>4, <3>5, <3>6, <3>8
  <2> QED BY <2>1
<1> HIDE DEF T
<1>3. Nat \subseteq T BY <1>1, <1>2, NatSetInduction
<1> QED BY <1>3 DEF T

\* Rounding to thousands, and so the commission: within a half of the exact value.
LEMMA RoundedWithin ==
    ASSUME NEW x \in Int
    PROVE  /\ HalfEven(x, 1000) \in Int
           /\ 1000 * HalfEven(x, 1000) - x <= 500
           /\ x - 1000 * HalfEven(x, 1000) <= 500
<1> DEFINE q == x \div 1000
           r == x % 1000
<1>1. q \in Int /\ r \in 0..999 /\ x = 1000 * q + r OBVIOUS
<1>2. q % 2 \in {0, 1} BY <1>1
<1>3. HalfEven(x, 1000) = IF 2 * r < 1000 THEN q ELSE IF 2 * r > 1000 THEN q + 1 ELSE q + (q % 2)
  BY DEF HalfEven
<1> HIDE DEF q, r
<1> QED BY <1>1, <1>2, <1>3

LEMMA CommissionWithin ==
    ASSUME NEW p \in Int, NEW t \in Int
    PROVE  /\ Commission(p, t) \in Int
           /\ 100 * Commission(p, t) - t * p <= 500
           /\ t * p - 100 * Commission(p, t) <= 500
<1> DEFINE x == p * t
           e == HalfEven(x, 1000)
<1>1. x \in Int /\ t * p = x OBVIOUS
<1>2. Commission(p, t) = 10 * HalfEven(x, 100 * 10) BY DEF Commission, Rounded
<1>3. 100 * 10 = 1000 OBVIOUS
<1>4. Commission(p, t) = 10 * e BY <1>2, <1>3
<1> HIDE DEF x
<1>5. e \in Int /\ 1000 * e - x <= 500 /\ x - 1000 * e <= 500 BY <1>1, RoundedWithin
<1> HIDE DEF e
<1> QED BY <1>1, <1>4, <1>5

\* The same as one fact about a price and a percentage.
CommissionNear(p, t) == /\ Commission(p, t) \in Int
                        /\ 100 * Commission(p, t) - t * p <= 500
                        /\ t * p - 100 * Commission(p, t) <= 500

LEMMA CommissionIsNear ==
    ASSUME NEW p \in Int, NEW t \in Int
    PROVE  CommissionNear(p, t)
BY CommissionWithin DEF CommissionNear

\* What is left of a discount after each line.
IsLeft(L, f, n, d) ==
    L = [k \in 0..n |-> IF k = 0 THEN d ELSE IF L[k - 1] > 0 THEN L[k - 1] - f[k] ELSE L[k - 1]]

LEMMA Remainders ==
    ASSUME NEW f, NEW d
    PROVE  \A n \in Nat : \E L : IsLeft(L, f, n, d)
<1> DEFINE T == {n \in Nat : \E L : IsLeft(L, f, n, d)}
<1>1. 0 \in T
  <2>1. IsLeft([k \in 0..0 |-> d], f, 0, d) BY DEF IsLeft
  <2> QED BY <2>1
<1>2. ASSUME NEW n \in Nat, n \in T PROVE n + 1 \in T
  <2>1. PICK L : IsLeft(L, f, n, d) BY <1>2
  <2> DEFINE last == IF L[n] > 0 THEN L[n] - f[n + 1] ELSE L[n]
             R == [k \in 0..(n + 1) |-> IF k = n + 1 THEN last ELSE L[k]]
  <2>2. \A k \in 0..n : /\ R[k] = L[k]
                        /\ L[k] = IF k = 0 THEN d
                                  ELSE IF L[k - 1] > 0 THEN L[k - 1] - f[k] ELSE L[k - 1]
    BY <2>1 DEF IsLeft
  <2>3. \A k \in 0..(n + 1) : R[k] = IF k = 0 THEN d
                                     ELSE IF R[k - 1] > 0 THEN R[k - 1] - f[k] ELSE R[k - 1]
    <3>1. R[n + 1] = IF R[n] > 0 THEN R[n] - f[n + 1] ELSE R[n] BY <2>2
    <3>2. \A k \in 0..n : k # 0 => R[k - 1] = L[k - 1] BY <2>2
    <3> HIDE DEF R, last
    <3>3. \A k \in 0..(n + 1) : k = n + 1 \/ k \in 0..n OBVIOUS
    <3> QED BY <2>2, <3>1, <3>2, <3>3
  <2>4. IsLeft(R, f, n + 1, d)
    <3>1. R = [k \in 0..(n + 1) |-> R[k]] OBVIOUS
    <3> HIDE DEF R
    <3> QED BY <2>3, <3>1 DEF IsLeft
  <2> QED BY <2>4
<1> HIDE DEF T
<1>3. Nat \subseteq T BY <1>1, <1>2, NatSetInduction
<1> QED BY <1>3 DEF T

\* The discounts of the lines: none more than its line, and together all of the
\* discount, or all there is.
LEMMA DiscountsSpread ==
    ASSUME NEW f, NEW n \in Nat, NEW d \in Nat, \A k \in 1..n : f[k] \in Nat
    PROVE  /\ \A k \in 1..n : /\ LineDiscounts(f, n, d)[k] \in Nat
                              /\ LineDiscounts(f, n, d)[k] <= f[k]
           /\ Sum(LineDiscounts(f, n, d), n) = Smaller(d, Sum(f, n))
<1> DEFINE less == LineDiscounts(f, n, d)
<1>1. PICK L : /\ IsLeft(L, f, n, d)
               /\ less = [k \in 1..n |-> IF L[k - 1] > 0 THEN Smaller(f[k], L[k - 1]) ELSE 0]
  <2> DEFINE C == CHOOSE L : IsLeft(L, f, n, d)
  <2>1. IsLeft(C, f, n, d) BY Remainders
  <2>2. less = [k \in 1..n |-> IF C[k - 1] > 0 THEN Smaller(f[k], C[k - 1]) ELSE 0]
    BY DEF LineDiscounts, IsLeft
  <2> QED BY <2>1, <2>2
<1> HIDE DEF less
<1>2. \A k \in 0..n : Sum(f, k) \in Nat BY SumIsNatural
<1> DEFINE T == {k \in Nat : k <= n =>
                   /\ L[k] \in Int
                   /\ L[k] > 0 => L[k] = d - Sum(f, k)
                   /\ L[k] <= 0 => Sum(f, k) >= d
                   /\ Sum(less, k) = Smaller(d, Sum(f, k))}
<1>3. 0 \in T
  <2>1. L[0] = d BY <1>1 DEF IsLeft
  <2> QED BY <2>1, SumOfNone DEF Smaller
<1>4. ASSUME NEW k \in Nat, k \in T PROVE k + 1 \in T
  <2>1. ASSUME k + 1 <= n
        PROVE  /\ L[k + 1] \in Int
               /\ L[k + 1] > 0 => L[k + 1] = d - Sum(f, k + 1)
               /\ L[k + 1] <= 0 => Sum(f, k + 1) >= d
               /\ Sum(less, k + 1) = Smaller(d, Sum(f, k + 1))
    <3>1. /\ L[k] \in Int
          /\ L[k] > 0 => L[k] = d - Sum(f, k)
          /\ L[k] <= 0 => Sum(f, k) >= d
          /\ Sum(less, k) = Smaller(d, Sum(f, k))
      BY <1>4, <2>1
    <3>2. k + 1 \in 1..n /\ (k + 1) - 1 = k /\ Sum(f, k) \in Nat BY <1>2, <2>1
    <3>3. f[k + 1] \in Nat BY <3>2
    <3>4. L[k + 1] = IF L[k] > 0 THEN L[k] - f[k + 1] ELSE L[k] BY <1>1, <3>2 DEF IsLeft
    <3>5. less[k + 1] = IF L[k] > 0 THEN Smaller(f[k + 1], L[k]) ELSE 0 BY <1>1, <3>2
    <3>6. Sum(f, k + 1) = Sum(f, k) + f[k + 1] /\ Sum(less, k + 1) = Sum(less, k) + less[k + 1]
      BY SumOfMore
    <3> HIDE <1>4
    <3> QED BY <3>1, <3>2, <3>3, <3>4, <3>5, <3>6 DEF Smaller
  <2> QED BY <2>1
<1> HIDE DEF T
<1>5. Nat \subseteq T BY <1>3, <1>4, NatSetInduction
<1>6. Sum(less, n) = Smaller(d, Sum(f, n)) BY <1>5 DEF T
<1>7. ASSUME NEW k \in 1..n PROVE less[k] \in Nat /\ less[k] <= f[k]
  <2>1. k - 1 \in Nat /\ k - 1 <= n BY <1>7
  <2>2. L[k - 1] \in Int BY <1>5, <2>1 DEF T
  <2>3. less[k] = IF L[k - 1] > 0 THEN Smaller(f[k], L[k - 1]) ELSE 0 BY <1>1
  <2>4. f[k] \in Nat OBVIOUS
  <2> QED BY <2>2, <2>3, <2>4 DEF Smaller
<1> QED BY <1>6, <1>7 DEF less

-----------------------------------------------------------------------------
(* The books of an order: what its columns and its items come to.          *)

\* The rows of an order, and what they come to.
OwnRows(o) == [i \in ItemIds |-> IF i \in ItemsOf(o) THEN item[i] ELSE NoItem]
Goods(o)   == Sum(Counted(OwnRows(o)), MaxItems)

\* Orders and requests hold sums and rows of the declared types.
Typed ==
    /\ sums \in [Orders -> Sums] /\ DOMAIN cost = Orders
    /\ job \in [Staff -> Job \cup {NoJob}]

\* A request that recalculates is about an order with an edited item, and it has read
\* rows of that order: an id belongs to one order, whoever holds its row.
Reads(j, i) ==
    /\ j.read[i].order = j.order
    /\ j.read[i].count \in Nat
    /\ item[i] # NoItem => item[i].order = j.order
    /\ \A g \in Staff : job[g] # NoJob /\ job[g].read[i] # NoItem => job[g].order = j.order

Stage(j) ==
    /\ j.kind = "status" <=> j.stage = "loaded"
    /\ j.kind # "status" => j.order \in edited

Readings ==
    /\ \A i \in ItemIds : item[i] # NoItem => item[i].count \in Nat
    /\ \A h \in Staff : job[h] # NoJob =>
         Stage(job[h]) /\ \A i \in ItemIds : job[h].read[i] # NoItem => Reads(job[h], i)

\* An order that was not edited is as it was placed, also in the hands of requests.
AsPlaced(o) ==
    /\ \A i \in ItemsOf(o) : /\ ~item[i].incident
                             /\ item[i].total = cost[o][item[i].product] * item[i].count
    /\ group[o].products = Goods(o)
    /\ sums[o].products = Goods(o) + PackageSum(sums[o].package, sums[o].quantity)
    /\ group[o].total = Goods(o) + group[o].delivering
    /\ group[o].commission = Commission(Goods(o), Percentage)
    /\ \A h \in Staff : job[h] # NoJob /\ job[h].order = o => job[h].sums = sums[o]

\* An edited order is as its last recalculation left it.
AsEdited(o) ==
    /\ sums[o].products = Goods(o)
    /\ group[o].total = Goods(o) + group[o].delivering
    /\ group[o].commission = Commission(Goods(o), institution.tax)

RowBooks(o) ==
    /\ o \notin edited => AsPlaced(o)
    /\ o \in edited /\ institution.tax # NoTax /\ o \notin lost /\ Quiet(o) => AsEdited(o)

Books == \A o \in Placed : RowBooks(o)

\* Without a percentage no edit reaches the sums: they are those of the placement,
\* for every order and in the hands of every request.
PlacedSums(o) ==
    /\ sums[o].products = group[o].products + PackageSum(sums[o].package, sums[o].quantity)
    /\ group[o].total = group[o].products + group[o].delivering
    /\ group[o].commission = Commission(group[o].products, Percentage)

Loyal(h, o) == job[h] # NoJob /\ job[h].order = o => job[h].sums = sums[o]

Unreached ==
    institution.tax = NoTax => \A o \in Placed : PlacedSums(o) /\ \A h \in Staff : Loyal(h, o)

\* The inductive invariant of the sums.
Bookkeeping == Typed /\ Readings /\ Books /\ Unreached

-----------------------------------------------------------------------------
(* Types of sums and requests.                                             *)

LEMMA TableIsWhole ==
    ASSUME NEW t, Table(t)
    PROVE  Whole(Counted(t), MaxItems)
<1> SUFFICES ASSUME NEW i \in 1..MaxItems PROVE Counted(t)[i] \in Int BY DEF Whole
<1>1. t[i] \in Item \cup {NoItem} BY DEF Table, ItemIds
<1>2. t[i] \in Item => t[i].total \in Int BY DEF Item
<1> QED BY <1>1, <1>2 DEF Counted, ItemIds

LEMMA TableSum ==
    ASSUME NEW t, Table(t)
    PROVE  Sum(Counted(t), MaxItems) \in Int
BY TableIsWhole, SumIsWhole, BoundAssumption

LEMMA DeliveryIsWhole ==
    ASSUME NEW free \in BOOLEAN, NEW d \in Nat
    PROVE  DeliveringSum(free, Delivery, d) \in Int
<1> DEFINE x == Delivery.minPrice + Delivery.perKm * d
           y == x \div 100
           z == x % 100
<1>1. Delivery.minDistance \in Int /\ Delivery.minPrice \in Int /\ Delivery.perKm \in Int
  BY SettingsAssumption
<1>2. x \in Int
  <2>1. Delivery.perKm * d \in Int BY <1>1
  <2> QED BY <1>1, <2>1
<1>3. HalfEven(x, 100) \in Int
  <2> HIDE DEF x
  <2>1. y \in Int /\ z \in Int /\ y % 2 \in Int BY <1>2
  <2>2. HalfEven(x, 100) = IF 2 * z < 100 THEN y ELSE IF 2 * z > 100 THEN y + 1 ELSE y + (y % 2)
    BY DEF HalfEven
  <2> HIDE DEF y, z
  <2> QED BY <2>1, <2>2
<1>4. 1 * 100 = 100 OBVIOUS
<1>5. Rounded(x, 1, 100) = 100 * HalfEven(x, 100) BY <1>4 DEF Rounded
<1>6. Rounded(x, 1, 100) \in Int BY <1>3, <1>5
<1>7. DeliveringSum(free, Delivery, d) \in {0, Delivery.minPrice, Rounded(x, 1, 100)} BY DEF DeliveringSum
<1> HIDE DEF x
<1> QED BY <1>1, <1>6, <1>7

LEMMA PackageIsWhole ==
    ASSUME NEW a \in Nat, NEW q \in Nat
    PROVE  PackageSum(a, q) \in Nat
BY DEF PackageSum

\* A basket's lines.
LEMMA BasketOf ==
    ASSUME NEW v \in Cart
    PROVE  /\ Len(v.offer.basket) \in Nat
           /\ \A k \in 1..Len(v.offer.basket) :
                /\ v.offer.basket[k].product \in Products
                /\ v.offer.basket[k].count \in Nat
                /\ v.price[v.offer.basket[k].product] \in Nat
                /\ Amounts(v)[k] = v.price[v.offer.basket[k].product] * v.offer.basket[k].count
                /\ Amounts(v)[k] \in Nat
           /\ v.offer.package.amount \in Nat /\ v.offer.package.quantity \in Nat
           /\ v.offer.distance \in Nat
           /\ v.sum \in Nat
<1> DEFINE b == v.offer.basket
           T == [product : Products, count : Nat]
<1>1. v.offer \in Offer /\ v.price \in [Products -> Prices] /\ v.sum \in Nat
  <2>1. v.offer \in Offers /\ v.price \in [Products -> Prices] /\ v.sum \in PromoSums \cup {0} BY DEF Cart
  <2>2. v.offer \in Offer BY <2>1, InputAssumption
  <2>3. v.sum \in Nat
    <3> DEFINE off == v.sum
    <3>1. off \in PromoSums \cup {0} /\ PromoSums \subseteq Nat BY <2>1, InputAssumption
    <3> HIDE DEF off
    <3>2. off \in Nat BY <3>1
    <3> QED BY <3>2 DEF off
  <2> QED BY <2>1, <2>2, <2>3
<1>2. b \in Seq(T) /\ v.offer.package \in [amount : Nat, quantity : Nat] /\ v.offer.distance \in Nat
  BY <1>1 DEF Offer
<1>3. Len(b) \in Nat BY <1>2
<1>4. ASSUME NEW k \in 1..Len(b)
      PROVE  /\ b[k].product \in Products /\ b[k].count \in Nat /\ v.price[b[k].product] \in Nat
             /\ Amounts(v)[k] = v.price[b[k].product] * b[k].count
             /\ Amounts(v)[k] \in Nat
  <2>1. b[k] \in T
    <3> HIDE DEF b, T
    <3> QED BY <1>2, ElementOf
  <2>2. b[k].product \in Products /\ b[k].count \in Nat BY <2>1
  <2>3. v.price[b[k].product] \in Nat BY <1>1, <2>2, InputAssumption
  <2>4. Amounts(v)[k] = v.price[b[k].product] * b[k].count BY DEF Amounts
  <2>5. v.price[b[k].product] * b[k].count \in Nat
    <3> HIDE DEF b
    <3> QED BY <2>2, <2>3
  <2> QED BY <2>2, <2>3, <2>4, <2>5
<1> QED BY <1>1, <1>2, <1>3, <1>4

LEMMA BasketSum ==
    ASSUME NEW v \in Cart
    PROVE  Whole(Amounts(v), Len(v.offer.basket)) /\ Products_(v) \in Nat
<1> DEFINE n == Len(v.offer.basket)
<1>1. n \in Nat /\ \A k \in 1..n : Amounts(v)[k] \in Nat BY BasketOf
<1>2. Whole(Amounts(v), n) BY <1>1 DEF Whole
<1>3. Sum(Amounts(v), n) \in Nat
  <2> HIDE DEF n
  <2> QED BY <1>1, SumIsNatural
<1> QED BY <1>2, <1>3 DEF Products_

LEMMA NewSumsTyped ==
    ASSUME TypeOK, NEW v \in Cart
    PROVE  NewSums(v) \in Sums
<1> DEFINE package == PackageSum(v.offer.package.amount, v.offer.package.quantity)
           products == Products_(v) + package
           delivering == DeliveringSum(institution.free, Delivery, v.offer.distance)
           total == (delivering + products) - v.sum
           amount == v.offer.package.amount
           quantity == v.offer.package.quantity
           off == v.sum
<1>1. amount \in Nat /\ quantity \in Nat /\ v.offer.distance \in Nat /\ off \in Nat BY BasketOf
<1>2. products \in Int
  <2>1. package \in Nat BY <1>1, PackageIsWhole
  <2> HIDE DEF package
  <2> QED BY <2>1, BasketSum
<1>3. institution.free \in BOOLEAN BY InputAssumption DEF TypeOK, Institution
<1>4. delivering \in Int BY <1>1, <1>3, DeliveryIsWhole
<1>5. total \in Int
  <2> HIDE DEF products, delivering
  <2> QED BY <1>1, <1>2, <1>4
<1>6. NewSums(v) = [products |-> products, delivering |-> delivering, discount |-> off, total |-> total,
                    package |-> amount, quantity |-> quantity]
  BY DEF NewSums
<1> HIDE DEF products, delivering, total, amount, quantity, off
<1> QED BY <1>1, <1>2, <1>4, <1>5, <1>6 DEF Sums

LEMMA RequestTyped ==
    ASSUME NEW kind \in {"add", "change", "remove", "status"}, NEW o \in Orders,
           NEW stage \in {"edited", "computed", "loaded"}, NEW to \in Statuses, NEW row \in Row,
           NEW t \in Sums, NEW read \in [ItemIds -> Item \cup {NoItem}]
    PROVE  [kind |-> kind, order |-> o, stage |-> stage, to |-> to, row |-> row, sums |-> t,
            read |-> read] \in Job
BY DEF Job

LEMMA InitiallyTyped == Init => Typed
<1> SUFFICES ASSUME Init PROVE Typed OBVIOUS
<1>1. NoSums \in Sums BY DEF NoSums, Sums
<1> QED BY <1>1 DEF Init, Typed

\* Begin of an edit: the request is one, and it is not about other orders.
LEMMA Begun ==
    ASSUME IInv, Typed, NEW h \in Staff, NEW kind \in {"add", "change", "remove"}, NEW o \in Placed,
           Begin(h, kind, o)
    PROVE  /\ job[h] = NoJob /\ job' \in [Staff -> Job \cup {NoJob}]
           /\ job'[h] # NoJob /\ job'[h].kind = kind /\ job'[h].order = o
           /\ job'[h].stage = "edited" /\ job'[h].sums = sums[o]
           /\ \A i \in ItemIds : job'[h].read[i] = NoItem
           /\ \A k \in Staff : k # h => job'[k] = job[k]
<1> DEFINE none == [i \in ItemIds |-> NoItem]
           j == [kind |-> kind, order |-> o, stage |-> "edited", to |-> "created", row |-> order[o],
                 sums |-> sums[o], read |-> none]
<1>1. o \in Orders /\ order[o] \in Row /\ sums[o] \in Sums
  BY BoundAssumption DEF IInv, Types, TypeOK, Placed, Orders, Typed
<1>2. none \in [ItemIds -> Item \cup {NoItem}] OBVIOUS
<1>3. j \in Job
  <2> HIDE DEF none
  <2> QED BY <1>1, <1>2, RequestTyped DEF Statuses
<1>4. job[h] = NoJob /\ job' = [job EXCEPT ![h] = j] BY DEF Begin
<1>5. j.kind = kind /\ j.order = o /\ j.stage = "edited" /\ j.sums = sums[o] /\ j.read = none OBVIOUS
<1> HIDE DEF j
<1>6. j # NoJob BY <1>3, SentinelAssumption
<1> QED BY <1>3, <1>4, <1>5, <1>6 DEF Typed

\* The same of a change of status.
LEMMA Loaded ==
    ASSUME IInv, Typed, NEW h \in Staff, NEW o \in Orders, NEW to \in Targets, UpdateStatus(h, o, to)
    PROVE  /\ job[h] = NoJob /\ job' \in [Staff -> Job \cup {NoJob}] /\ o \in Placed
           /\ job'[h] # NoJob /\ job'[h].kind = "status" /\ job'[h].order = o
           /\ job'[h].stage = "loaded" /\ job'[h].sums = sums[o]
           /\ \A i \in ItemIds : job'[h].read[i] = NoItem
           /\ \A k \in Staff : k # h => job'[k] = job[k]
<1> DEFINE none == [i \in ItemIds |-> NoItem]
           j == [kind |-> "status", order |-> o, stage |-> "loaded", to |-> to, row |-> order[o],
                 sums |-> sums[o], read |-> none]
<1>1. o \in Placed /\ order[o] \in Row /\ sums[o] \in Sums
  BY DEF IInv, Types, TypeOK, Typed, UpdateStatus
<1>2. none \in [ItemIds -> Item \cup {NoItem}] OBVIOUS
<1>3. j \in Job
  <2> HIDE DEF none
  <2> QED BY <1>1, <1>2, RequestTyped DEF Targets
<1>4. job[h] = NoJob /\ job' = [job EXCEPT ![h] = j] BY DEF UpdateStatus
<1>5. j.kind = "status" /\ j.order = o /\ j.stage = "loaded" /\ j.sums = sums[o] /\ j.read = none OBVIOUS
<1> HIDE DEF j
<1>6. j # NoJob BY <1>3, SentinelAssumption
<1> QED BY <1>1, <1>3, <1>4, <1>5, <1>6 DEF Typed

\* What a recalculation reads.
Fresh(o) == [i \in ItemIds |->
               IF i \in ItemsOf(o)
               THEN [item[i] EXCEPT !.total = price[item[i].product] * item[i].count]
               ELSE NoItem]

LEMMA FreshRows ==
    ASSUME IInv, NEW o
    PROVE  /\ Fresh(o) \in [ItemIds -> Item \cup {NoItem}]
           /\ \A i \in ItemIds : Fresh(o)[i] # NoItem =>
                i \in ItemsOf(o) /\ Fresh(o)[i].order = item[i].order /\ Fresh(o)[i].count = item[i].count
<1>1. ASSUME NEW i \in ItemIds, i \in ItemsOf(o)
      PROVE  /\ Fresh(o)[i] \in Item
             /\ Fresh(o)[i].order = item[i].order /\ Fresh(o)[i].count = item[i].count
  <2>1. item[i] \in Item BY <1>1 DEF IInv, Types, TypeOK, ItemsOf
  <2>2. price[item[i].product] \in Nat /\ item[i].count \in Int
    BY <2>1, InputAssumption DEF IInv, Types, TypeOK, Item
  <2> DEFINE n == price[item[i].product] * item[i].count
  <2>3. n \in Int BY <2>2
  <2>4. Fresh(o)[i] = [item[i] EXCEPT !.total = n] BY <1>1 DEF Fresh
  <2> HIDE DEF n
  <2> QED BY <2>1, <2>3, <2>4 DEF Item
<1>2. \A i \in ItemIds : i \notin ItemsOf(o) => Fresh(o)[i] = NoItem BY DEF Fresh
<1>3. Fresh(o) = [i \in ItemIds |-> Fresh(o)[i]] BY DEF Fresh
<1> QED BY <1>1, <1>2, <1>3

LEMMA Recalculated ==
    ASSUME IInv, Typed, NEW h \in Staff, Recalculate(h)
    PROVE  /\ job[h] # NoJob /\ job[h].stage = "edited" /\ job' \in [Staff -> Job \cup {NoJob}]
           /\ job'[h] # NoJob /\ job'[h].kind = job[h].kind /\ job'[h].order = job[h].order
           /\ job'[h].stage = "computed" /\ job'[h].read = Fresh(job[h].order)
           /\ job'[h].sums = job[h].sums \/ job'[h].sums = sums[job[h].order]
           /\ \A k \in Staff : k # h => job'[k] = job[k]
           /\ UNCHANGED <<catalogue, promos, rows, receipt, cart, requests, history>>
<1> DEFINE o == job[h].order
           row == IF job[h].kind = "add" THEN job[h].row ELSE order[o]
           t == IF job[h].kind = "add" THEN job[h].sums ELSE sums[o]
           kind == job[h].kind
           to == job[h].to
           k == [kind |-> kind, order |-> o, stage |-> "computed", to |-> to, row |-> row, sums |-> t,
                 read |-> Fresh(o)]
<1>1. job[h] # NoJob /\ job[h].stage = "edited" /\ job[h] \in Job BY DEF Recalculate, Typed
<1>2. o \in Orders /\ kind \in {"add", "change", "remove", "status"} /\ to \in Statuses
      /\ job[h].row \in Row /\ job[h].sums \in Sums
  BY <1>1 DEF Job
<1>3. row \in Row /\ t \in Sums BY <1>2 DEF IInv, Types, TypeOK, Typed
<1>4. Fresh(o) \in [ItemIds -> Item \cup {NoItem}] BY FreshRows
<1>5. k \in Job
  <2> HIDE DEF kind, to, row, t, o
  <2> QED BY <1>2, <1>3, <1>4, RequestTyped
<1>6. /\ job' = [job EXCEPT ![h] = k]
      /\ UNCHANGED <<catalogue, promos, rows, receipt, cart, requests, history>>
  BY DEF Recalculate, Fresh
<1>7. /\ k.kind = kind /\ k.order = o /\ k.stage = "computed" /\ k.read = Fresh(o)
      /\ k.sums = job[h].sums \/ k.sums = sums[o]
  OBVIOUS
<1> HIDE DEF k
<1>8. k # NoJob BY <1>5, SentinelAssumption
<1> QED BY <1>1, <1>5, <1>6, <1>7, <1>8 DEF Typed

\* What a recalculation saves.
LEMMA SavedSumsTyped ==
    ASSUME NEW t \in Sums, NEW a \in Int, NEW b \in Int
    PROVE  /\ [t EXCEPT !.products = a, !.total = b] \in Sums
           /\ [t EXCEPT !.products = a, !.total = b].products = a
           /\ [t EXCEPT !.products = a, !.total = b].discount = t.discount
BY DEF Sums

-----------------------------------------------------------------------------
(* Items and who reads them.                                               *)

\* An edit of the items of x: it changes rows of x or adds one, and begins a request.
RowEdit(i, x) ==
    \/ item'[i] = item[i]
    \/ /\ item[i] = NoItem \/ item[i].order = x
       /\ \/ item'[i] = NoItem
          \/ item'[i].order = x /\ item'[i].count \in Nat /\ (item[i] # NoItem \/ nextItem <= i)

EditOf(h, x) ==
    /\ x \in Placed
    /\ \E kind \in {"add", "change", "remove"} : Begin(h, kind, x)
    /\ edited' = edited \cup {x}
    /\ UNCHANGED <<institution, placed, sums, group, receipt, cost, lost>>
    /\ \A i \in ItemIds : RowEdit(i, x)

LEMMA AddIsEdit ==
    ASSUME IInv, Readings, NEW h \in Staff, NEW o \in Orders, NEW p \in Products, NEW n \in Counts,
           AddItem(h, o, p, n)
    PROVE  EditOf(h, o)
<1> DEFINE r == Added(o, p, n)
<1>1. r.order = o /\ r.count \in Nat BY InputAssumption DEF Added
<1>2. item' = Append_(item, r) BY DEF AddItem
<1> HIDE DEF r
<1>3. ASSUME NEW i \in ItemIds PROVE RowEdit(i, o)
  <2>1. item \in [ItemIds -> Item \cup {NoItem}] /\ (item[i] # NoItem => i < nextItem)
        /\ i \in Int /\ nextItem \in Int
    BY BoundAssumption DEF IInv, Types, TypeOK, ItemIds
  <2>2. CASE i = nextItem
    <3>1. item[i] = NoItem BY <2>1, <2>2
    <3>2. item'[i] = r BY <1>2, <2>1, <2>2 DEF Append_
    <3> QED BY <1>1, <2>1, <2>2, <3>1, <3>2 DEF RowEdit
  <2>3. CASE i # nextItem BY <1>2, <2>1, <2>3 DEF Append_, RowEdit
  <2> QED BY <2>2, <2>3
<1> QED BY <1>3 DEF AddItem, EditOf, catalogue

LEMMA ItemIsOfPlaced ==
    ASSUME IInv, NEW i \in ItemIds, item[i] # NoItem
    PROVE  item[i] \in Item /\ item[i].order \in Placed
<1>1. item[i] \in Item /\ item[i].order <= placed BY DEF IInv, Types, TypeOK
<1> QED BY <1>1, BoundAssumption DEF Placed, Item, Orders, IInv, Types, TypeOK

LEMMA ChangeIsEdit ==
    ASSUME IInv, Readings, NEW h \in Staff, NEW i \in ItemIds, NEW n \in Counts, NEW b \in BOOLEAN,
           ChangeItem(h, i, n, b)
    PROVE  EditOf(h, item[i].order)
<1> DEFINE x == item[i].order
           r == [item[i] EXCEPT !.count = n, !.incident = b]
<1>1. item[i] \in Item /\ item[i] # NoItem /\ x \in Placed BY ItemIsOfPlaced DEF ChangeItem
<1>2. r.order = x /\ r.count \in Nat BY <1>1, InputAssumption DEF Item
<1>3. item' = [item EXCEPT ![i] = r] BY DEF ChangeItem
<1> HIDE DEF r
<1>4. ASSUME NEW k \in ItemIds PROVE RowEdit(k, x)
  <2>1. item \in [ItemIds -> Item \cup {NoItem}] BY DEF IInv, Types, TypeOK
  <2>2. CASE k = i BY <1>1, <1>2, <1>3, <2>1, <2>2 DEF RowEdit
  <2>3. CASE k # i BY <1>3, <2>1, <2>3 DEF RowEdit
  <2> QED BY <2>2, <2>3
<1> QED BY <1>1, <1>4 DEF ChangeItem, EditOf, catalogue

LEMMA RemoveIsEdit ==
    ASSUME IInv, Readings, NEW h \in Staff, NEW i \in ItemIds, RemoveItem(h, i)
    PROVE  EditOf(h, item[i].order)
<1> DEFINE x == item[i].order
<1>1. item[i] \in Item /\ item[i] # NoItem /\ x \in Placed BY ItemIsOfPlaced DEF RemoveItem
<1>2. item' = [item EXCEPT ![i] = NoItem] BY DEF RemoveItem
<1>3. ASSUME NEW k \in ItemIds PROVE RowEdit(k, x)
  <2>1. item \in [ItemIds -> Item \cup {NoItem}] BY DEF IInv, Types, TypeOK
  <2> QED BY <1>1, <1>2, <2>1 DEF RowEdit
<1> QED BY <1>1, <1>3 DEF RemoveItem, EditOf, catalogue

LEMMA ReplaceIsEdit ==
    ASSUME IInv, Readings, NEW h \in Staff, NEW o \in Orders, NEW q \in Products, NEW p \in Products,
           NEW n \in Counts, NEW new \in BOOLEAN, ReplaceItem(h, o, q, p, n, new)
    PROVE  EditOf(h, o)
<1> DEFINE t == Replaced(o, q)
<1>0. /\ item \in [ItemIds -> Item \cup {NoItem}] /\ nextItem \in Int /\ nextItem \in ItemIds
      /\ \A i \in ItemIds : i \in Int /\ (item[i] # NoItem => i < nextItem)
  BY BoundAssumption DEF IInv, Types, TypeOK, ItemIds, ReplaceItem
<1>1. ASSUME NEW x, Of(o, x) # {}
      PROVE  /\ First(o, x) \in ItemIds /\ item[First(o, x)] \in Item /\ item[First(o, x)] # NoItem
             /\ item[First(o, x)].order = o /\ item[First(o, x)].count \in Nat
  <2>1. First(o, x) \in Of(o, x) BY <1>1, FirstItem
  <2> QED BY <1>0, <2>1 DEF Of, ItemsOf, Readings
<1>2. /\ DOMAIN t = ItemIds
      /\ \A i \in ItemIds : \/ t[i] = item[i]
                            \/ /\ item[i] # NoItem /\ item[i].order = o
                               /\ t[i] \in Item /\ t[i].order = o /\ t[i].count \in Nat
  <2>1. CASE Of(o, q) = {} BY <1>0, <2>1 DEF Replaced
  <2>2. CASE Of(o, q) # {}
    <3> DEFINE i == First(o, q)
               r == [item[i] EXCEPT !.incident = TRUE]
    <3>1. i \in ItemIds /\ item[i] \in Item /\ item[i] # NoItem /\ item[i].order = o /\ item[i].count \in Nat
      BY <1>1, <2>2
    <3>2. r \in Item /\ r.order = o /\ r.count \in Nat BY <3>1 DEF Item
    <3>3. t = [item EXCEPT ![i] = r] BY <2>2 DEF Replaced
    <3> HIDE DEF r, t, i
    <3> QED BY <1>0, <3>1, <3>2, <3>3
  <2> QED BY <2>1, <2>2
<1> HIDE DEF t
<1>3. CASE Of(o, p) = {} \/ new
  <2> DEFINE r == Added(o, p, n)
  <2>1. r.order = o /\ r.count \in Nat BY InputAssumption DEF Added
  <2>2. item' = [t EXCEPT ![nextItem] = r] BY <1>3 DEF ReplaceItem, t, Append_
  <2> HIDE DEF r
  <2>3. ASSUME NEW i \in ItemIds PROVE RowEdit(i, o)
    <3>1. CASE i = nextItem
      <4>1. item[i] = NoItem BY <1>0, <3>1
      <4>2. item'[i] = r BY <1>2, <2>2, <3>1
      <4> QED BY <1>0, <2>1, <3>1, <4>1, <4>2 DEF RowEdit
    <3>2. CASE i # nextItem
      <4>1. item'[i] = t[i] BY <1>2, <2>2, <3>2
      <4> QED BY <1>2, <4>1 DEF RowEdit
    <3> QED BY <3>1, <3>2
  <2> QED BY <2>3 DEF ReplaceItem, EditOf
<1>4. CASE ~(Of(o, p) = {} \/ new)
  <2> DEFINE f == First(o, p)
             m == item[f].count + n
             r == [t[f] EXCEPT !.count = m, !.total = item[f].total + price[p] * n, !.incident = FALSE]
  <2>1. f \in ItemIds /\ item[f] \in Item /\ item[f] # NoItem /\ item[f].order = o /\ item[f].count \in Nat
    BY <1>1, <1>4
  <2>2. t[f] \in Item /\ t[f].order = o BY <1>2, <2>1
  <2>3. m \in Nat BY <2>1, InputAssumption
  <2>4. item' = [t EXCEPT ![f] = r] BY <1>4 DEF ReplaceItem, t
  <2>5. r.order = o /\ r.count = m
    <3> HIDE DEF m, f
    <3> QED BY <2>2 DEF Item
  <2> HIDE DEF r, m, f
  <2>6. ASSUME NEW i \in ItemIds PROVE RowEdit(i, o)
    <3>1. CASE i = f
      <4>1. item'[i] = r BY <1>2, <2>1, <2>4, <3>1
      <4> QED BY <2>1, <2>3, <2>5, <3>1, <4>1 DEF RowEdit
    <3>2. CASE i # f
      <4>1. item'[i] = t[i] BY <1>2, <2>4, <3>2
      <4> QED BY <1>2, <4>1 DEF RowEdit
    <3> QED BY <3>1, <3>2
  <2> QED BY <2>6 DEF ReplaceItem, EditOf
<1> QED BY <1>3, <1>4

\* A step in which rows keep their order, or are new; requests stay, end or begin.
LEMMA ReadingsKept ==
    ASSUME IInv, Readings, edited \subseteq edited',
           \A i \in ItemIds : \/ item'[i] = NoItem
                              \/ /\ item[i] # NoItem /\ item'[i].order = item[i].order
                                 /\ item'[i].count \in Nat
                              \/ nextItem <= i /\ item'[i].count \in Nat,
           \A k \in Staff : \/ job'[k] = job[k]
                            \/ job'[k] = NoJob
                            \/ Stage(job[k])' /\ \A i \in ItemIds : job'[k].read[i] = NoItem
    PROVE  Readings'
<1>0. ASSUME NEW h \in Staff, job'[h] # NoJob, NEW i \in ItemIds, job'[h].read[i] # NoItem
      PROVE  /\ job'[h] = job[h] /\ Reads(job[h], i) /\ ~(nextItem <= i)
  <2>1. job'[h] = job[h] BY <1>0
  <2>2. i < nextItem BY <1>0, <2>1 DEF IInv, Types, Jobs, JobOK, Table
  <2>3. i \in Int /\ nextItem \in Int BY BoundAssumption DEF ItemIds, IInv, Types, TypeOK
  <2> QED BY <1>0, <2>1, <2>2, <2>3 DEF Readings
<1>1. ASSUME NEW h \in Staff, job'[h] # NoJob, NEW i \in ItemIds, job'[h].read[i] # NoItem
      PROVE  Reads(job[h], i)'
  <2>1. job'[h] = job[h] /\ Reads(job[h], i) /\ ~(nextItem <= i) BY <1>0, <1>1
  <2>2. item'[i] # NoItem => item'[i].order = job[h].order BY <2>1 DEF Reads
  <2>3. ASSUME NEW g \in Staff, job'[g] # NoJob, job'[g].read[i] # NoItem
        PROVE  job'[g].order = job'[h].order
    BY <1>0, <2>1, <2>3 DEF Reads
  <2> QED BY <2>1, <2>2, <2>3 DEF Reads
<1>2. \A i \in ItemIds : item'[i] # NoItem => item'[i].count \in Nat BY DEF Readings
<1>3. ASSUME NEW h \in Staff, job'[h] # NoJob PROVE Stage(job[h])'
  <2>1. CASE job'[h] = job[h] BY <1>3, <2>1 DEF Readings, Stage
  <2> QED BY <1>3, <2>1
<1> QED BY <1>1, <1>2, <1>3 DEF Readings

\* Rows and requests that stay are as they were.
LEMMA StayingRow ==
    ASSUME Readings, NEW i \in ItemIds, item'[i] = item[i]
    PROVE  \/ item'[i] = NoItem
           \/ /\ item[i] # NoItem /\ item'[i].order = item[i].order
              /\ item'[i].count \in Nat
           \/ nextItem <= i /\ item'[i].count \in Nat
BY DEF Readings

LEMMA EditReadings ==
    ASSUME IInv, Typed, Readings, NEW h \in Staff, NEW x, EditOf(h, x)
    PROVE  Typed' /\ Readings'
<1>1. PICK kind \in {"add", "change", "remove"} : Begin(h, kind, x) BY DEF EditOf
<1>2. /\ job' \in [Staff -> Job \cup {NoJob}]
      /\ job'[h] # NoJob /\ job'[h].kind = kind /\ job'[h].order = x
      /\ job'[h].stage = "edited"
      /\ \A i \in ItemIds : job'[h].read[i] = NoItem
      /\ \A k \in Staff : k # h => job'[k] = job[k]
  BY <1>1, Begun DEF EditOf
<1>3. Stage(job[h])' BY <1>2 DEF Stage, EditOf
<1>4. ASSUME NEW k \in Staff
      PROVE  \/ job'[k] = job[k]
             \/ job'[k] = NoJob
             \/ Stage(job[k])' /\ \A i \in ItemIds : job'[k].read[i] = NoItem
  <2>1. CASE k = h BY <1>2, <1>3, <2>1
  <2>2. CASE k # h BY <1>2, <2>2
  <2> QED BY <2>1, <2>2
<1>5. ASSUME NEW i \in ItemIds
      PROVE  \/ item'[i] = NoItem
             \/ /\ item[i] # NoItem /\ item'[i].order = item[i].order
                /\ item'[i].count \in Nat
             \/ nextItem <= i /\ item'[i].count \in Nat
  <2>1. RowEdit(i, x) BY DEF EditOf
  <2>2. CASE item'[i] = item[i] BY <2>2, StayingRow
  <2> QED BY <2>1, <2>2 DEF RowEdit
<1>6. Readings' BY <1>4, <1>5, ReadingsKept DEF EditOf
<1>7. Typed' BY <1>2 DEF Typed, EditOf
<1> QED BY <1>6, <1>7

\* A step that changes no item; a request may end or begin.
LEMMA QuietReadings ==
    ASSUME IInv, Readings, item' = item, edited' = edited,
           \A k \in Staff : \/ job'[k] = job[k]
                            \/ job'[k] = NoJob
                            \/ /\ job'[k].kind = "status" /\ job'[k].stage = "loaded"
                               /\ \A i \in ItemIds : job'[k].read[i] = NoItem
    PROVE  Readings'
<1>1. \A i \in ItemIds : item'[i] = item[i] OBVIOUS
<1>2. ASSUME NEW k \in Staff
      PROVE  \/ job'[k] = job[k]
             \/ job'[k] = NoJob
             \/ Stage(job[k])' /\ \A i \in ItemIds : job'[k].read[i] = NoItem
  BY DEF Stage
<1> QED BY <1>1, <1>2, StayingRow, ReadingsKept

LEMMA RecalculateReadings ==
    ASSUME IInv, Typed, Readings, NEW h \in Staff, Recalculate(h)
    PROVE  Typed' /\ Readings'
<1> DEFINE o == job[h].order
<1>1. /\ job[h] # NoJob /\ job[h].stage = "edited" /\ job' \in [Staff -> Job \cup {NoJob}]
      /\ job'[h] # NoJob /\ job'[h].kind = job[h].kind /\ job'[h].order = o
      /\ job'[h].stage = "computed" /\ job'[h].read = Fresh(o)
      /\ \A k \in Staff : k # h => job'[k] = job[k]
      /\ UNCHANGED <<catalogue, promos, rows, receipt, cart, requests, history>>
  BY Recalculated
<1>2. item' = item /\ edited' = edited /\ sums' = sums /\ cost' = cost BY <1>1 DEF rows, history
<1>3. \A i \in ItemIds : Fresh(o)[i] # NoItem =>
         item[i] # NoItem /\ item[i].order = o /\ Fresh(o)[i].order = o /\ Fresh(o)[i].count = item[i].count
  BY FreshRows DEF ItemsOf
<1>4. ASSUME NEW k \in Staff, job'[k] # NoJob PROVE Stage(job[k])'
  <2>1. CASE k = h BY <1>1, <1>2, <2>1 DEF Readings, Stage
  <2>2. CASE k # h BY <1>1, <1>2, <1>4, <2>2 DEF Readings, Stage
  <2> QED BY <2>1, <2>2
<1>5. ASSUME NEW k \in Staff, job'[k] # NoJob, NEW i \in ItemIds, job'[k].read[i] # NoItem
      PROVE  /\ job'[k].read[i].order = job'[k].order
             /\ job'[k].read[i].count \in Nat
             /\ item[i] # NoItem => item[i].order = job'[k].order
  <2>1. CASE k = h BY <1>1, <1>3, <1>5, <2>1 DEF Readings
  <2>2. CASE k # h
    <3>1. job'[k] = job[k] BY <1>1, <2>2
    <3> QED BY <1>5, <3>1 DEF Readings, Reads
  <2> QED BY <2>1, <2>2
<1>6. ASSUME NEW k \in Staff, job'[k] # NoJob, NEW g \in Staff, job'[g] # NoJob,
             NEW i \in ItemIds, job'[k].read[i] # NoItem, job'[g].read[i] # NoItem
      PROVE  job'[g].order = job'[k].order
  <2>1. CASE k = h
    <3>1. item[i] # NoItem /\ item[i].order = job'[k].order BY <1>1, <1>3, <1>6, <2>1
    <3> QED BY <1>5, <1>6, <3>1
  <2>2. CASE g = h
    <3>1. item[i] # NoItem /\ item[i].order = job'[g].order BY <1>1, <1>3, <1>6, <2>2
    <3> QED BY <1>5, <1>6, <3>1
  <2>3. CASE k # h /\ g # h
    <3>1. job'[k] = job[k] /\ job'[g] = job[g] BY <1>1, <2>3
    <3> QED BY <1>6, <3>1 DEF Readings, Reads
  <2> QED BY <2>1, <2>2, <2>3
<1>7. ASSUME NEW k \in Staff, job'[k] # NoJob, NEW i \in ItemIds, job'[k].read[i] # NoItem
      PROVE  Reads(job[k], i)'
  BY <1>2, <1>5, <1>6, <1>7 DEF Reads
<1> QED BY <1>1, <1>2, <1>4, <1>7 DEF Readings, Typed

\* What ends a recalculation finds and leaves.
LEMMA Saving ==
    ASSUME IInv, Typed, Readings, NEW h \in Staff, SaveSums(h)
    PROVE  /\ job[h] # NoJob /\ job[h] \in Job /\ job[h].kind # "status"
           /\ job[h].order \in edited /\ job[h].order \in Placed /\ Table(job[h].read)
           /\ job'[h] = NoJob /\ job' \in [Staff -> Job \cup {NoJob}]
           /\ \A k \in Staff : k # h => job'[k] = job[k]
           /\ \A i \in ItemIds : item'[i] = IF job[h].read[i] # NoItem THEN job[h].read[i] ELSE item[i]
           /\ UNCHANGED <<institution, placed, edited, cost, receipt>>
<1>1. job[h] # NoJob /\ job[h].stage = "computed" BY DEF SaveSums
<1>2. job[h] \in Job /\ Stage(job[h]) /\ JobOK(job[h]) BY <1>1 DEF Typed, Readings, IInv, Types, Jobs
<1>3. /\ job[h].kind # "status" /\ job[h].order \in edited /\ job[h].order \in Placed /\ Table(job[h].read)
  BY <1>1, <1>2 DEF Stage, JobOK
<1>4. job' = [job EXCEPT ![h] = NoJob] BY DEF SaveSums
<1>5. \A i \in ItemIds : item'[i] = IF job[h].read[i] # NoItem THEN job[h].read[i] ELSE item[i]
  BY DEF SaveSums
<1>6. UNCHANGED <<institution, placed, edited, cost, receipt>> BY DEF SaveSums, catalogue
<1>7. /\ job'[h] = NoJob /\ job' \in [Staff -> Job \cup {NoJob}]
      /\ \A k \in Staff : k # h => job'[k] = job[k]
  BY <1>4 DEF Typed
<1> QED BY <1>1, <1>2, <1>3, <1>5, <1>6, <1>7

LEMMA SaveTyped ==
    ASSUME IInv, Money, Typed, Readings, NEW h \in Staff, SaveSums(h)
    PROVE  Typed'
<1> DEFINE o == job[h].order
           goods == Sum(Counted(job[h].read), MaxItems)
           total == NewTotal(group[o], job[h].read) - job[h].sums.discount
           t == job[h].sums
           r == [t EXCEPT !.products = goods, !.total = total]
<1>1. /\ job[h] \in Job /\ job' \in [Staff -> Job \cup {NoJob}] /\ Table(job[h].read) /\ o \in Placed
      /\ job[h] # NoJob
  BY Saving
<1>2. t \in Sums BY <1>1 DEF Job
<1>3. goods \in Int BY <1>1, TableSum
<1>4. total \in Int
  <2>1. group[o].delivering = t.delivering BY <1>1 DEF Money, JobSums, Agrees
  <2>2. group[o].delivering \in Int /\ t.discount \in Int BY <1>2, <2>1 DEF Sums
  <2>3. NewTotal(group[o], job[h].read) = group[o].delivering + goods BY DEF NewTotal
  <2> HIDE DEF goods, t, o
  <2>4. group[o].delivering + goods \in Int BY <1>3, <2>2
  <2> QED BY <2>2, <2>3, <2>4 DEF t
<1>5. r \in Sums
  <2> HIDE DEF goods, total, t
  <2> QED BY <1>2, <1>3, <1>4, SavedSumsTyped
<1>6. (sums' = sums \/ sums' = [sums EXCEPT ![o] = r]) /\ cost' = cost BY DEF SaveSums
<1> HIDE DEF r
<1> QED BY <1>1, <1>5, <1>6 DEF Typed

LEMMA SaveReadings ==
    ASSUME IInv, Typed, Readings, NEW h \in Staff, SaveSums(h)
    PROVE  Readings'
<1> DEFINE j == job[h]
<1>1. /\ j # NoJob /\ job'[h] = NoJob /\ \A k \in Staff : k # h => job'[k] = job[k]
      /\ \A i \in ItemIds : item'[i] = IF j.read[i] # NoItem THEN j.read[i] ELSE item[i]
      /\ edited' = edited
  BY Saving
<1>2. \A i \in ItemIds : item'[i] # NoItem => item'[i].count \in Nat BY <1>1 DEF Readings, Reads
<1>3. ASSUME NEW k \in Staff, job'[k] # NoJob
      PROVE  Stage(job[k])' /\ \A i \in ItemIds : job'[k].read[i] # NoItem => Reads(job[k], i)'
  <2>1. job'[k] = job[k] /\ k # h BY <1>1, <1>3
  <2>2. Stage(job[k])' BY <1>1, <1>3, <2>1 DEF Readings, Stage
  <2>3. ASSUME NEW i \in ItemIds, job[k].read[i] # NoItem PROVE Reads(job[k], i)'
    <3>1. Reads(job[k], i) BY <1>3, <2>1, <2>3 DEF Readings
    <3>2. item'[i] # NoItem => item'[i].order = job[k].order
      <4>1. CASE j.read[i] # NoItem
        <5>1. j.order = job[k].order BY <1>1, <3>1, <4>1 DEF Reads
        <5>2. j.read[i].order = j.order BY <1>1, <4>1 DEF Readings, Reads
        <5> QED BY <1>1, <4>1, <5>1, <5>2
      <4>2. CASE j.read[i] = NoItem BY <1>1, <3>1, <4>2 DEF Reads
      <4> QED BY <4>1, <4>2
    <3>3. \A g \in Staff : job'[g] # NoJob /\ job'[g].read[i] # NoItem => job'[g].order = job[k].order
      BY <1>1, <3>1 DEF Reads
    <3> QED BY <2>1, <3>1, <3>2, <3>3 DEF Reads
  <2> QED BY <2>1, <2>2, <2>3
<1> QED BY <1>2, <1>3 DEF Readings

LEMMA PlaceReadings ==
    ASSUME IInv, Typed, Readings, NEW s \in Shoppers, Place(s)
    PROVE  Typed' /\ Readings'
<1> DEFINE v == cart[s]
           o == placed + 1
           n == Len(v.offer.basket)
<1>1. v \in Cart /\ TypeOK BY DEF Place, IInv, Types, TypeOK
<1>2. /\ sums' = [sums EXCEPT ![o] = NewSums(v)] /\ job' = job /\ edited' = edited
      /\ item' = NewItems(v, o)
  BY DEF Place
<1>3. NewSums(v) \in Sums BY <1>1, NewSumsTyped
<1>4. Typed'
  <2>1. DOMAIN cost' = DOMAIN cost BY DEF Place
  <2> QED BY <1>2, <1>3, <2>1 DEF Typed
<1>5. ASSUME NEW i \in ItemIds
      PROVE  \/ item'[i] = NoItem
             \/ /\ item[i] # NoItem /\ item'[i].order = item[i].order
                /\ item'[i].count \in Nat
             \/ nextItem <= i /\ item'[i].count \in Nat
  <2>0. nextItem \in Int /\ i \in Int /\ n \in Nat BY <1>1, BoundAssumption, BasketOf DEF TypeOK, ItemIds
  <2>1. CASE i \in nextItem..(nextItem + n - 1)
    <3> DEFINE k == i - nextItem + 1
    <3>1. k \in 1..n /\ nextItem <= i
      <4> HIDE DEF n
      <4> QED BY <2>0, <2>1
    <3>2. item'[i] = NewItem(v, o, k) BY <1>2, <2>1 DEF NewItems
    <3>3. v.offer.basket[k].count \in Nat
      <4> HIDE DEF k
      <4> QED BY <1>1, <3>1, BasketOf
    <3> HIDE DEF k
    <3> QED BY <3>1, <3>2, <3>3 DEF NewItem
  <2>2. CASE i \notin nextItem..(nextItem + n - 1)
    <3>1. item'[i] = item[i] BY <1>2, <2>2 DEF NewItems
    <3> QED BY <3>1, StayingRow
  <2> QED BY <2>1, <2>2
<1>6. Readings' BY <1>2, <1>5, ReadingsKept
<1> QED BY <1>4, <1>6

\* A status is saved.
LEMMA Committing ==
    ASSUME IInv, Typed, Readings, NEW h \in Staff, Accept(h) \/ Reject(h) \/ Close(h)
    PROVE  /\ job[h] # NoJob /\ job[h] \in Job /\ job[h].kind = "status" /\ job[h].order \in Placed
           /\ job'[h] = NoJob /\ job' \in [Staff -> Job \cup {NoJob}]
           /\ \A k \in Staff : k # h => job'[k] = job[k]
           /\ sums' = [sums EXCEPT ![job[h].order] = job[h].sums]
           /\ UNCHANGED <<institution, placed, group, item, edited, cost>>
           /\ Lost(job[h])
<1>1. job[h] # NoJob /\ job[h].stage = "loaded" BY DEF Accept, Reject, Close, At
<1>2. job[h] \in Job /\ Stage(job[h]) /\ JobOK(job[h]) BY <1>1 DEF Typed, Readings, IInv, Types, Jobs
<1>3. job[h].kind = "status" /\ job[h].order \in Placed BY <1>1, <1>2 DEF Stage, JobOK
<1>4. /\ job' = [job EXCEPT ![h] = NoJob] /\ sums' = [sums EXCEPT ![job[h].order] = job[h].sums]
      /\ UNCHANGED <<institution, placed, group, item, edited, cost>>
      /\ Lost(job[h])
  BY DEF Accept, Reject, Close, CommitStatus, catalogue
<1>5. /\ job'[h] = NoJob /\ job' \in [Staff -> Job \cup {NoJob}]
      /\ \A k \in Staff : k # h => job'[k] = job[k]
  BY <1>4 DEF Typed
<1> QED BY <1>1, <1>2, <1>3, <1>4, <1>5

LEMMA StatusReadings ==
    ASSUME IInv, Typed, Readings, NEW h \in Staff, Status(h)
    PROVE  Typed' /\ Readings'
<1>1. ASSUME NEW o \in Orders, NEW to \in Targets, UpdateStatus(h, o, to) PROVE Typed' /\ Readings'
  <2>1. /\ job' \in [Staff -> Job \cup {NoJob}]
        /\ job'[h].kind = "status" /\ job'[h].stage = "loaded"
        /\ \A i \in ItemIds : job'[h].read[i] = NoItem
        /\ \A k \in Staff : k # h => job'[k] = job[k]
    BY <1>1, Loaded
  <2>2. sums' = sums /\ item' = item /\ edited' = edited /\ cost' = cost
    BY <1>1 DEF UpdateStatus, rows, history
  <2>3. ASSUME NEW k \in Staff
        PROVE  \/ job'[k] = job[k]
               \/ job'[k] = NoJob
               \/ /\ job'[k].kind = "status" /\ job'[k].stage = "loaded"
                  /\ \A i \in ItemIds : job'[k].read[i] = NoItem
    <3>1. CASE k = h BY <2>1, <3>1
    <3>2. CASE k # h BY <2>1, <3>2
    <3> QED BY <3>1, <3>2
  <2>4. Readings' BY <2>2, <2>3, QuietReadings
  <2> QED BY <2>1, <2>2, <2>4 DEF Typed
<1>2. ASSUME Accept(h) \/ Reject(h) \/ Close(h) PROVE Typed' /\ Readings'
  <2>1. /\ job[h] \in Job
        /\ job'[h] = NoJob /\ job' \in [Staff -> Job \cup {NoJob}]
        /\ \A k \in Staff : k # h => job'[k] = job[k]
        /\ sums' = [sums EXCEPT ![job[h].order] = job[h].sums]
        /\ item' = item /\ edited' = edited /\ cost' = cost
    BY <1>2, Committing
  <2>2. job[h].sums \in Sums BY <2>1 DEF Job
  <2>3. \A k \in Staff : job'[k] = job[k] \/ job'[k] = NoJob BY <2>1
  <2>4. Readings' BY <2>1, <2>3, QuietReadings
  <2> QED BY <2>1, <2>2, <2>4 DEF Typed
<1> QED BY <1>1, <1>2 DEF Status

LEMMA EditsAre ==
    ASSUME IInv, Readings, NEW h \in Staff, Edit(h)
    PROVE  (\E x \in Placed : EditOf(h, x)) \/ Recalculate(h) \/ SaveSums(h) \/ Die(h)
<1>1. ASSUME NEW i \in ItemIds, item[i] # NoItem PROVE item[i].order \in Placed
  BY <1>1, ItemIsOfPlaced
<1>2. ASSUME NEW o \in Orders, NEW p \in Products, NEW n \in Counts, AddItem(h, o, p, n)
      PROVE  \E x \in Placed : EditOf(h, x)
  BY <1>2, AddIsEdit DEF AddItem
<1>3. ASSUME NEW o \in Orders, NEW p \in Products, NEW n \in Counts, NEW q \in Products,
             NEW new \in BOOLEAN, ReplaceItem(h, o, q, p, n, new)
      PROVE  \E x \in Placed : EditOf(h, x)
  BY <1>3, ReplaceIsEdit DEF ReplaceItem
<1>4. ASSUME NEW i \in ItemIds, NEW n \in Counts, NEW b \in BOOLEAN, ChangeItem(h, i, n, b)
      PROVE  \E x \in Placed : EditOf(h, x)
  BY <1>1, <1>4, ChangeIsEdit DEF ChangeItem
<1>5. ASSUME NEW i \in ItemIds, RemoveItem(h, i) PROVE \E x \in Placed : EditOf(h, x)
  BY <1>1, <1>5, RemoveIsEdit DEF RemoveItem
<1> QED BY <1>2, <1>3, <1>4, <1>5 DEF Edit

LEMMA InductiveReadings == IInv /\ Money /\ Typed /\ Readings /\ [Next]_vars => Typed' /\ Readings'
<1> SUFFICES ASSUME IInv, Money, Typed, Readings, [Next]_vars PROVE Typed' /\ Readings' OBVIOUS
<1>1. ASSUME UNCHANGED <<rows, job, history>> PROVE Typed' /\ Readings'
  BY <1>1, QuietReadings DEF Typed, rows, history
<1>2. ASSUME NEW p \in Products, NEW n \in Prices, SetPrice(p, n) PROVE Typed' /\ Readings'
  BY <1>1, <1>2 DEF SetPrice
<1>3. ASSUME NEW c \in Codes, DeletePromo(c) \/ \E r \in PromoRow : EditPromo(c, r)
      PROVE  Typed' /\ Readings'
  BY <1>1, <1>3 DEF DeletePromo, EditPromo
<1>4. ASSUME NEW s \in Shoppers, Order(s) PROVE Typed' /\ Readings'
  BY <1>1, <1>4, PlaceReadings DEF Order, Validate, TurnAway
<1>5. ASSUME NEW h \in Staff, Die(h) PROVE Typed' /\ Readings'
  <2>1. job' = [job EXCEPT ![h] = NoJob] /\ item' = item /\ edited' = edited /\ sums' = sums
        /\ cost' = cost
    BY <1>5 DEF Die, rows
  <2>2. \A k \in Staff : job'[k] = job[k] \/ job'[k] = NoJob BY <2>1 DEF Typed
  <2> QED BY <2>1, <2>2, QuietReadings DEF Typed
<1>6. ASSUME NEW h \in Staff, Edit(h) PROVE Typed' /\ Readings'
  BY <1>5, <1>6, EditsAre, EditReadings, RecalculateReadings, SaveTyped, SaveReadings
<1>7. ASSUME NEW h \in Staff, Status(h) PROVE Typed' /\ Readings'
  BY <1>7, StatusReadings
<1> QED BY <1>1, <1>2, <1>3, <1>4, <1>6, <1>7 DEF Next, vars

LEMMA InitialReadings == Init => Typed /\ Readings
BY InitiallyTyped DEF Init, Readings

-----------------------------------------------------------------------------
(* The sums of an order and its items.                                     *)

\* A step leaves the rows of an order alone.
Untouched(o) ==
    \A i \in ItemIds : (item[i] # NoItem /\ item[i].order = o) \/ (item'[i] # NoItem /\ item'[i].order = o)
                          => item'[i] = item[i]

LEMMA RowsKept ==
    ASSUME NEW o, Untouched(o)
    PROVE  ItemsOf(o)' = ItemsOf(o) /\ OwnRows(o)' = OwnRows(o) /\ Goods(o)' = Goods(o)
<1>1. ItemsOf(o)' = ItemsOf(o) BY DEF Untouched, ItemsOf
<1>2. \A i \in ItemsOf(o) : item'[i] = item[i] BY DEF Untouched, ItemsOf
<1>3. OwnRows(o)' = OwnRows(o) BY <1>1, <1>2 DEF OwnRows
<1>4. Goods(o)' = Goods(o) BY <1>3 DEF Goods, Counted
<1> QED BY <1>1, <1>3, <1>4

\* A step that leaves an order and its rows alone keeps its books.
LEMMA BooksKept ==
    ASSUME NEW o, RowBooks(o), Untouched(o),
           sums'[o] = sums[o], group'[o] = group[o], cost'[o] = cost[o], institution' = institution,
           edited \subseteq edited',
           o \notin edited' => \A k \in Staff : job'[k] # NoJob /\ job'[k].order = o =>
                                  job'[k].sums = sums[o],
           o \in edited' /\ institution.tax # NoTax /\ o \notin lost' /\ Quiet(o)' =>
             o \in edited /\ o \notin lost /\ Quiet(o)
    PROVE  RowBooks(o)'
<1>1. ItemsOf(o)' = ItemsOf(o) /\ Goods(o)' = Goods(o) BY RowsKept
<1>2. Percentage' = Percentage BY DEF Percentage
<1>3. ASSUME o \notin edited' PROVE AsPlaced(o)'
  <2>1. AsPlaced(o) BY <1>3 DEF RowBooks
  <2>2. \A i \in ItemsOf(o)' : item'[i] = item[i] BY <1>1 DEF Untouched, ItemsOf
  <2>3. \A i \in ItemsOf(o)' : /\ ~item'[i].incident
                              /\ item'[i].total = cost'[o][item'[i].product] * item'[i].count
    BY <1>1, <2>1, <2>2 DEF AsPlaced
  <2> QED BY <1>1, <1>2, <1>3, <2>1, <2>3 DEF AsPlaced
<1>4. ASSUME o \in edited', institution'.tax # NoTax, o \notin lost', Quiet(o)' PROVE AsEdited(o)'
  <2>1. AsEdited(o) BY <1>4 DEF RowBooks
  <2> QED BY <1>1, <2>1 DEF AsEdited
<1> QED BY <1>3, <1>4 DEF RowBooks

LEMMA EditBooks ==
    ASSUME IInv, Typed, Readings, Books, NEW h \in Staff, NEW x, EditOf(h, x)
    PROVE  Books'
<1>1. PICK kind \in {"add", "change", "remove"} : Begin(h, kind, x) BY DEF EditOf
<1>2. /\ job[h] = NoJob
      /\ job'[h] # NoJob /\ job'[h].kind = kind /\ job'[h].order = x
      /\ \A k \in Staff : k # h => job'[k] = job[k]
  BY <1>1, Begun DEF EditOf
<1>3. ~Quiet(x)' BY <1>2 DEF Quiet
<1>4. ASSUME NEW o \in Placed PROVE RowBooks(o)'
  <2>1. CASE o = x BY <1>3, <2>1 DEF RowBooks, EditOf
  <2>2. CASE o # x
    <3>1. Untouched(o) BY <2>2 DEF EditOf, RowEdit, Untouched
    <3>2. Quiet(o)' => Quiet(o) BY <1>2 DEF Quiet
    <3>3. o \in edited' => o \in edited BY <2>2 DEF EditOf
    <3>4. RowBooks(o) BY DEF Books
    <3>5. o \notin edited' => \A k \in Staff : job'[k] # NoJob /\ job'[k].order = o =>
                                 job'[k].sums = sums[o]
      BY <1>2, <2>2, <3>4 DEF RowBooks, AsPlaced, EditOf
    <3>6. /\ sums'[o] = sums[o] /\ group'[o] = group[o] /\ cost'[o] = cost[o] /\ institution' = institution
          /\ edited \subseteq edited' /\ lost' = lost
      BY DEF EditOf
    <3> QED BY <3>1, <3>2, <3>3, <3>4, <3>5, <3>6, BooksKept
  <2> QED BY <2>1, <2>2
<1>5. Placed' = Placed BY DEF EditOf, Placed
<1> QED BY <1>4, <1>5 DEF Books

LEMMA RecalculateBooks ==
    ASSUME IInv, Typed, Readings, Books, NEW h \in Staff, Recalculate(h)
    PROVE  Books'
<1>1. /\ job[h] # NoJob /\ job[h].stage = "edited"
      /\ job'[h] # NoJob /\ job'[h].kind = job[h].kind /\ job'[h].order = job[h].order
      /\ \A k \in Staff : k # h => job'[k] = job[k]
      /\ UNCHANGED <<catalogue, promos, rows, receipt, cart, requests, history>>
  BY Recalculated
<1>2. job[h].order \in edited BY <1>1 DEF Readings, Stage
<1>3. ASSUME NEW o \in Placed PROVE RowBooks(o)'
  <2>1. RowBooks(o) BY DEF Books
  <2>2. Untouched(o) BY <1>1 DEF rows, Untouched
  <2>3. Quiet(o)' => Quiet(o) BY <1>1 DEF Quiet
  <2>4. /\ sums'[o] = sums[o] /\ group'[o] = group[o] /\ cost'[o] = cost[o] /\ institution' = institution
        /\ edited' = edited /\ lost' = lost
    BY <1>1 DEF rows, history, catalogue
  <2>5. o \notin edited' => \A k \in Staff : job'[k] # NoJob /\ job'[k].order = o =>
                               job'[k].sums = sums[o]
    BY <1>1, <1>2, <2>1, <2>4 DEF RowBooks, AsPlaced
  <2> QED BY <2>1, <2>2, <2>3, <2>4, <2>5, BooksKept
<1>4. Placed' = Placed BY <1>1 DEF Placed, rows
<1> QED BY <1>3, <1>4 DEF Books

\* Ends of requests that recalculate lose the order unless they saved it.
LEMMA DieBooks ==
    ASSUME IInv, Typed, Readings, Books, NEW h \in Staff, Die(h)
    PROVE  Books'
<1>1. /\ job[h] # NoJob /\ job'[h] = NoJob /\ \A k \in Staff : k # h => job'[k] = job[k]
      /\ UNCHANGED <<placed, sums, group, cost, institution, item, edited>>
      /\ lost' = IF job[h].kind = "status" THEN lost ELSE lost \cup {job[h].order}
  BY DEF Die, Typed, rows, catalogue
<1>2. ASSUME NEW o \in Placed PROVE RowBooks(o)'
  <2>1. RowBooks(o) BY DEF Books
  <2>2. Untouched(o) BY <1>1 DEF Untouched
  <2>3. o \notin lost' /\ Quiet(o)' => Quiet(o) BY <1>1 DEF Quiet
  <2>4. o \notin edited' => \A k \in Staff : job'[k] # NoJob /\ job'[k].order = o =>
                               job'[k].sums = sums[o]
    BY <1>1, <2>1 DEF RowBooks, AsPlaced
  <2>5. lost \subseteq lost' BY <1>1
  <2> QED BY <1>1, <2>1, <2>2, <2>3, <2>4, <2>5, BooksKept
<1>3. Placed' = Placed BY <1>1 DEF Placed
<1> QED BY <1>2, <1>3 DEF Books

\* An item is itself, whatever its sum.
LEMMA FactsOfRows ==
    ASSUME NEW r \in Item \cup {NoItem}, NEW s \in Item \cup {NoItem}, Facts(r) = Facts(s)
    PROVE  r = NoItem <=> s = NoItem
<1>1. ASSUME NEW q \in Item PROVE Facts(q) # NoItem
  <2>1. q # NoItem BY SentinelAssumption
  <2>2. Facts(q) = [q EXCEPT !.total = 0] BY <2>1 DEF Facts
  <2>3. [q EXCEPT !.total = 0] \in Item BY DEF Item
  <2> QED BY <2>2, <2>3, SentinelAssumption
<1>2. Facts(NoItem) = NoItem BY DEF Facts
<1> QED BY <1>1, <1>2

\* A recalculation that nothing came between leaves the sums of the items it read.
LEMMA SavedBooks ==
    ASSUME IInv, Money, Typed, Readings, Books, NEW h \in Staff, SaveSums(h), Current(job[h]),
           institution.tax # NoTax, NEW o, o = job[h].order
    PROVE  AsEdited(o)'
<1> DEFINE j == job[h]
           goods == Sum(Counted(j.read), MaxItems)
<1>1. /\ j # NoJob /\ j \in Job /\ j.kind # "status" /\ o \in edited /\ o \in Placed /\ Table(j.read)
      /\ \A i \in ItemIds : item'[i] = IF j.read[i] # NoItem THEN j.read[i] ELSE item[i]
      /\ institution' = institution
  BY Saving
<1>2. o \in Orders /\ j.sums \in Sums BY <1>1 DEF Job
<1>3. ASSUME NEW i \in ItemIds
      PROVE  IF i \in ItemsOf(o)' THEN item'[i] = j.read[i] ELSE j.read[i] = NoItem
  <2>1. j.read[i] \in Item \cup {NoItem} BY <1>1 DEF Table
  <2>2. item[i] \in Item \cup {NoItem} BY DEF IInv, Types, TypeOK
  <2>3. CASE j.read[i] # NoItem
    <3>1. j.read[i].order = o BY <1>1, <2>3 DEF Readings, Reads
    <3>2. item'[i] = j.read[i] BY <1>1, <2>3
    <3> QED BY <2>3, <3>1, <3>2 DEF ItemsOf
  <2>4. CASE j.read[i] = NoItem
    <3>1. item'[i] = item[i] BY <1>1, <2>4
    <3>2. i \notin ItemsOf(o)
      <4> SUFFICES ASSUME i \in ItemsOf(o) PROVE FALSE OBVIOUS
      <4>1. Facts(item[i]) = Facts(j.read[i]) BY <1>1 DEF Current
      <4>2. item[i] # NoItem BY DEF ItemsOf
      <4> QED BY <2>1, <2>2, <2>4, <4>1, <4>2, FactsOfRows
    <3> QED BY <2>4, <3>1, <3>2 DEF ItemsOf
  <2> QED BY <2>3, <2>4
<1>4. OwnRows(o)' = j.read
  <2>1. j.read = [i \in ItemIds |-> j.read[i]] BY <1>1 DEF Table
  <2> QED BY <1>3, <2>1 DEF OwnRows
<1>5. Goods(o)' = goods BY <1>4 DEF Goods, Counted
<1>6. goods \in Int BY <1>1, TableSum
<1>7. group[o].delivering \in Int
  <2>1. group[o].delivering = j.sums.delivering BY <1>1 DEF Money, JobSums, Agrees
  <2> QED BY <1>2, <2>1 DEF Sums
<1>8. IsGroup(group[o]) /\ DOMAIN group = Orders BY <1>1 DEF Money, RowSums
<1>9. NewTotal(group[o], j.read) = group[o].delivering + goods BY DEF NewTotal
<1> DEFINE n == group[o].delivering + goods
           c == Commission(goods, institution.tax)
           total == n - j.sums.discount
<1>10. /\ group' = [group EXCEPT ![o] = [group[o] EXCEPT !.total = n, !.commission = c]]
       /\ sums' = [sums EXCEPT ![o] = [j.sums EXCEPT !.products = goods, !.total = total]]
  BY <1>9 DEF SaveSums
<1>11. n = goods + group[o].delivering BY <1>6, <1>7
<1> HIDE DEF n, c, goods, j, total
<1>12. /\ group'[o].total = n /\ group'[o].commission = c /\ group'[o].delivering = group[o].delivering
  BY <1>2, <1>8, <1>10 DEF IsGroup
<1>13. sums'[o].products = goods
  <2>1. sums'[o] = [j.sums EXCEPT !.products = goods, !.total = total] BY <1>2, <1>10 DEF Typed
  <2> QED BY <1>2, <2>1 DEF Sums
<1> QED BY <1>1, <1>5, <1>11, <1>12, <1>13 DEF AsEdited, c

LEMMA SaveBooks ==
    ASSUME IInv, Money, Typed, Readings, Books, NEW h \in Staff, SaveSums(h)
    PROVE  Books'
<1> DEFINE j == job[h]
<1>1. /\ j # NoJob /\ j.kind # "status" /\ j.order \in edited /\ j.order \in Placed
      /\ job'[h] = NoJob /\ \A k \in Staff : k # h => job'[k] = job[k]
      /\ \A i \in ItemIds : item'[i] = IF j.read[i] # NoItem THEN j.read[i] ELSE item[i]
      /\ UNCHANGED <<institution, placed, edited, cost>>
  BY Saving
<1>2. /\ lost' = lost \/ lost' = lost \cup {j.order}
      /\ \A o \in Placed : o # j.order => sums'[o] = sums[o] /\ group'[o] = group[o]
  <2>1. Placed \subseteq DOMAIN sums /\ Placed \subseteq DOMAIN group
    BY BoundAssumption DEF Money, RowSums, Placed, Orders, IInv, Types, TypeOK
  <2>2. lost' = lost \/ lost' = lost \cup {j.order} BY DEF SaveSums, Lost
  <2>3. \A o \in Placed : o # j.order => sums'[o] = sums[o] /\ group'[o] = group[o]
    BY <2>1 DEF SaveSums
  <2> QED BY <2>2, <2>3
<1>3. ASSUME NEW o \in Placed PROVE RowBooks(o)'
  <2>1. CASE o = j.order
    <3>1. ASSUME o \notin lost', institution'.tax # NoTax PROVE AsEdited(o)'
      <4>1. institution.tax # NoTax /\ Current(j) BY <1>1, <2>1, <3>1 DEF SaveSums, Lost
      <4> QED BY <2>1, <4>1, SavedBooks
    <3> QED BY <1>1, <2>1, <3>1 DEF RowBooks
  <2>2. CASE o # j.order
    <3>1. RowBooks(o) BY DEF Books
    <3>2. ASSUME NEW i \in ItemIds, (item[i] # NoItem /\ item[i].order = o) \/ (item'[i] # NoItem /\ item'[i].order = o)
          PROVE  item'[i] = item[i]
      <4>1. CASE j.read[i] = NoItem BY <1>1, <4>1
      <4>2. CASE j.read[i] # NoItem
        <5>1. Reads(j, i) BY <1>1, <4>2 DEF Readings
        <5>2. item'[i] = j.read[i] BY <1>1, <4>2
        <5>3. item'[i].order = j.order /\ (item[i] # NoItem => item[i].order = j.order) BY <5>1, <5>2 DEF Reads
        <5> QED BY <2>2, <3>2, <5>3
      <4> QED BY <4>1, <4>2
    <3>3. Untouched(o) BY <3>2 DEF Untouched
    <3>4. Quiet(o)' => Quiet(o) BY <1>1, <2>2 DEF Quiet
    <3>5. o \notin edited' => \A k \in Staff : job'[k] # NoJob /\ job'[k].order = o =>
                                 job'[k].sums = sums[o]
      BY <1>1, <3>1 DEF RowBooks, AsPlaced
    <3>6. /\ sums'[o] = sums[o] /\ group'[o] = group[o] /\ cost'[o] = cost[o]
          /\ institution' = institution /\ edited' = edited /\ lost \subseteq lost'
      BY <1>1, <1>2, <2>2
    <3> HIDE DEF j
    <3> QED BY <3>1, <3>3, <3>4, <3>5, <3>6, BooksKept
  <2> QED BY <2>1, <2>2
<1>4. Placed' = Placed BY <1>1 DEF Placed
<1> QED BY <1>3, <1>4 DEF Books

LEMMA CommitBooks ==
    ASSUME IInv, Typed, Readings, Books, NEW h \in Staff, Accept(h) \/ Reject(h) \/ Close(h)
    PROVE  Books'
<1> DEFINE j == job[h]
<1>1. /\ j # NoJob /\ j.kind = "status" /\ j.order \in Placed
      /\ job'[h] = NoJob /\ \A k \in Staff : k # h => job'[k] = job[k]
      /\ sums' = [sums EXCEPT ![j.order] = j.sums]
      /\ UNCHANGED <<institution, placed, group, item, edited, cost>>
      /\ Lost(j)
  BY Committing
<1>2. lost \subseteq lost' /\ (j.order \notin lost' => sums[j.order] = j.sums) BY <1>1 DEF Lost, Current
<1>3. ASSUME NEW o \in Placed PROVE RowBooks(o)'
  <2>1. RowBooks(o) BY DEF Books
  <2>2. Untouched(o) BY <1>1 DEF Untouched
  <2>3. Quiet(o)' => Quiet(o) BY <1>1 DEF Quiet
  <2>4. o \notin edited' => \A k \in Staff : job'[k] # NoJob /\ job'[k].order = o =>
                               job'[k].sums = sums[o]
    BY <1>1, <2>1 DEF RowBooks, AsPlaced
  <2>5. CASE o \in edited /\ o \in lost' BY <1>1, <2>5 DEF RowBooks
  <2>6. CASE ~(o \in edited /\ o \in lost')
    <3>1. sums'[o] = sums[o]
      <4>1. o = j.order => j.sums = sums[o] BY <1>1, <1>2, <2>1, <2>6 DEF RowBooks, AsPlaced
      <4> QED BY <1>1, <4>1 DEF Typed
    <3> QED BY <1>1, <1>2, <2>1, <2>2, <2>3, <2>4, <3>1, BooksKept
  <2> QED BY <2>5, <2>6
<1>4. Placed' = Placed BY <1>1 DEF Placed
<1> QED BY <1>3, <1>4 DEF Books

LEMMA LoadBooks ==
    ASSUME IInv, Typed, Readings, Books, NEW h \in Staff, NEW x \in Orders, NEW to \in Targets,
           UpdateStatus(h, x, to)
    PROVE  Books'
<1>1. /\ job'[h] # NoJob /\ job'[h].kind = "status" /\ job'[h].order = x
      /\ job'[h].sums = sums[x] /\ job[h] = NoJob
      /\ \A k \in Staff : k # h => job'[k] = job[k]
  BY Loaded
<1>2. UNCHANGED <<catalogue, promos, rows, receipt, cart, history>> BY DEF UpdateStatus
<1>3. ASSUME NEW o \in Placed PROVE RowBooks(o)'
  <2>1. RowBooks(o) BY DEF Books
  <2>2. Untouched(o) BY <1>2 DEF rows, Untouched
  <2>3. Quiet(o)' => Quiet(o) BY <1>1 DEF Quiet
  <2>4. /\ sums'[o] = sums[o] /\ group'[o] = group[o] /\ cost'[o] = cost[o] /\ institution' = institution
        /\ edited' = edited /\ lost' = lost
    BY <1>2 DEF rows, history, catalogue
  <2>5. o \notin edited' => \A k \in Staff : job'[k] # NoJob /\ job'[k].order = o =>
                               job'[k].sums = sums[o]
    BY <1>1, <2>1, <2>4 DEF RowBooks, AsPlaced
  <2> QED BY <2>1, <2>2, <2>3, <2>4, <2>5, BooksKept
<1>4. Placed' = Placed BY <1>2 DEF Placed, rows
<1> QED BY <1>3, <1>4 DEF Books

\* The rows a placement adds are those of the basket.
LEMMA NewRows ==
    ASSUME IInv, NEW s \in Shoppers, Place(s), NEW v, v = cart[s], NEW x, x = placed + 1
    PROVE  /\ v \in Cart /\ x \in Orders /\ x \notin Placed /\ Placed' = Placed \cup {x}
           /\ Len(v.offer.basket) \in Nat /\ nextItem \in Nat /\ nextItem >= 1
           /\ (nextItem - 1) + Len(v.offer.basket) <= MaxItems
           /\ \A k \in 1..Len(v.offer.basket) :
                LET i == (nextItem - 1) + k
                IN  /\ i \in ItemIds /\ item[i] = NoItem
                    /\ item'[i] = NewItem(v, x, k) /\ item'[i] # NoItem
           /\ \A i \in ItemIds : i \notin nextItem..((nextItem - 1) + Len(v.offer.basket)) =>
                item'[i] = item[i] /\ (item[i] # NoItem => item[i].order # x)
<1> DEFINE n == Len(v.offer.basket)
<1>1. TypeOK /\ v \in Cart /\ x \in Orders /\ nextItem + n - 1 <= MaxItems /\ item' = NewItems(v, x)
      /\ placed' = x
  BY DEF Place, IInv, Types, TypeOK
<1>2. n \in Nat BY <1>1, BasketOf
<1>3. /\ nextItem \in Nat /\ nextItem >= 1 /\ placed \in Nat /\ MaxItems \in Nat
      /\ \A i \in ItemIds : i \in Nat /\ (item[i] # NoItem => i < nextItem)
  BY <1>1, BoundAssumption DEF TypeOK, ItemIds
<1>4. (nextItem - 1) + n <= MaxItems
  <2> HIDE DEF n
  <2> QED BY <1>1, <1>2, <1>3
<1>5. x \notin Placed /\ Placed' = Placed \cup {x} BY <1>1, <1>3 DEF Placed
<1>6. ASSUME NEW k \in 1..n
      PROVE  /\ (nextItem - 1) + k \in ItemIds /\ item[(nextItem - 1) + k] = NoItem
             /\ item'[(nextItem - 1) + k] = NewItem(v, x, k) /\ item'[(nextItem - 1) + k] # NoItem
  <2> DEFINE i == (nextItem - 1) + k
  <2>1. i \in ItemIds /\ i \in nextItem..(nextItem + n - 1) /\ i - nextItem + 1 = k /\ ~(i < nextItem)
    <3> HIDE DEF n
    <3> QED BY <1>2, <1>3, <1>4 DEF ItemIds
  <2>2. item[i] = NoItem BY <1>3, <2>1
  <2>3. item'[i] = NewItem(v, x, k) BY <1>1, <2>1 DEF NewItems
  <2>4. NewItem(v, x, k) \in Item
    <3>1. v.offer.basket[k].product \in Products /\ v.offer.basket[k].count \in Nat /\ Amounts(v)[k] \in Nat
      <4> HIDE DEF n
      <4> QED BY <1>1, BasketOf DEF n
    <3> QED BY <1>1, <3>1 DEF NewItem, Item
  <2>5. item'[i] # NoItem BY <2>3, <2>4, SentinelAssumption
  <2> QED BY <2>1, <2>2, <2>3, <2>5
<1>7. ASSUME NEW i \in ItemIds, i \notin nextItem..((nextItem - 1) + n)
      PROVE  item'[i] = item[i] /\ (item[i] # NoItem => item[i].order # x)
  <2>1. (nextItem - 1) + n = nextItem + n - 1
    <3> HIDE DEF n
    <3> QED BY <1>2, <1>3
  <2>2. item'[i] = item[i] BY <1>1, <1>7, <2>1 DEF NewItems
  <2>3. item[i] # NoItem => item[i] \in Item /\ item[i].order <= placed BY <1>1 DEF TypeOK
  <2>4. item[i] # NoItem => item[i].order \in Int BY <2>3 DEF Item, Orders
  <2> QED BY <1>3, <2>2, <2>3, <2>4
<1> QED BY <1>1, <1>2, <1>3, <1>4, <1>5, <1>6, <1>7

LEMMA NewGoods ==
    ASSUME IInv, NEW s \in Shoppers, Place(s), NEW v, v = cart[s], NEW x, x = placed + 1
    PROVE  Goods(x)' = Products_(v)
<1> DEFINE n == Len(v.offer.basket)
           a == nextItem - 1
<1>1. /\ v \in Cart /\ x \in Orders /\ n \in Nat /\ a \in Nat /\ a + n <= MaxItems /\ nextItem = a + 1
      /\ \A k \in 1..n : /\ a + k \in ItemIds
                         /\ item'[a + k] = NewItem(v, x, k) /\ item'[a + k] # NoItem
      /\ \A i \in ItemIds : i \notin (a + 1)..(a + n) =>
           item'[i] = item[i] /\ (item[i] # NoItem => item[i].order # x)
  BY NewRows
<1> HIDE DEF n, a
<1> DEFINE t == [i \in ItemIds |-> IF i \in {k \in ItemIds : item'[k] # NoItem /\ item'[k].order = x}
                                   THEN item'[i] ELSE NoItem]
           f == Counted(t)
<1>2. Goods(x)' = Sum(f, MaxItems) BY DEF Goods, OwnRows, ItemsOf, Counted
<1>3. \A k \in 1..n : f[a + k] = Amounts(v)[k]
  <2> SUFFICES ASSUME NEW k \in 1..n PROVE f[a + k] = Amounts(v)[k] OBVIOUS
  <2>1. NewItem(v, x, k).order = x /\ NewItem(v, x, k).total = Amounts(v)[k]
        /\ NewItem(v, x, k).incident = FALSE
    BY DEF NewItem
  <2>2. t[a + k] = NewItem(v, x, k) /\ t[a + k] # NoItem BY <1>1, <2>1
  <2> HIDE DEF t
  <2> QED BY <1>1, <2>1, <2>2 DEF Counted
<1>4. \A k \in 1..MaxItems : k \notin (a + 1)..(a + n) => f[k] = 0
  <2> SUFFICES ASSUME NEW k \in ItemIds, k \notin (a + 1)..(a + n) PROVE f[k] = 0 BY DEF ItemIds
  <2>1. t[k] = NoItem BY <1>1
  <2> HIDE DEF t
  <2> QED BY <2>1 DEF Counted
<1>5. Whole(Amounts(v), n) BY <1>1, BasketSum DEF n
<1>6. Sum(f, MaxItems) = Sum(Amounts(v), n)
  <2>1. a \in Nat /\ n \in Nat /\ MaxItems \in Nat /\ a + n <= MaxItems BY <1>1, BoundAssumption
  <2> DEFINE q == Amounts(v)
  <2>2. \A k \in 1..n : f[a + k] = q[k] BY <1>3
  <2>3. Whole(q, n) BY <1>5
  <2> HIDE DEF f, q
  <2>4. IsBlock(f, q, a, n, MaxItems) BY <1>4, <2>1, <2>2, <2>3 DEF IsBlock
  <2>5. Sum(f, MaxItems) = Sum(q, n) BY <2>1, <2>4, SumOfBlock
  <2> QED BY <2>5 DEF q
<1> QED BY <1>2, <1>6 DEF Products_, n

LEMMA NewBooks ==
    ASSUME IInv, Typed, Money, NEW s \in Shoppers, Place(s), NEW v, v = cart[s], NEW x, x = placed + 1
    PROVE  AsPlaced(x)'
<1> DEFINE n == Len(v.offer.basket)
           a == nextItem - 1
           package == PackageSum(v.offer.package.amount, v.offer.package.quantity)
           t == NewSums(v)
           g == NewGroup(v, t.delivering)
<1>1. /\ v \in Cart /\ x \in Orders /\ x \notin Placed /\ n \in Nat /\ a \in Nat /\ nextItem = a + 1
      /\ \A k \in 1..n : /\ a + k \in ItemIds
                         /\ item'[a + k] = NewItem(v, x, k) /\ item'[a + k] # NoItem
      /\ \A i \in ItemIds : i \notin (a + 1)..(a + n) =>
           item'[i] = item[i] /\ (item[i] # NoItem => item[i].order # x)
  BY NewRows
<1>2. Goods(x)' = Products_(v) BY NewGoods
<1>3. /\ sums' = [sums EXCEPT ![x] = t] /\ group' = [group EXCEPT ![x] = g]
      /\ cost' = [cost EXCEPT ![x] = v.price]
      /\ job' = job /\ institution' = institution
  BY DEF Place, catalogue
<1>4. /\ t.products = Products_(v) + package /\ t.package = v.offer.package.amount
      /\ t.quantity = v.offer.package.quantity
  BY DEF NewSums
<1>5. /\ g.products = Products_(v) /\ g.total = Products_(v) + g.delivering
      /\ g.commission = Commission(Products_(v), Percentage)
  BY DEF NewGroup
<1> HIDE DEF t, g, n, a
<1>6. sums'[x] = t /\ group'[x] = g BY <1>1, <1>3 DEF Typed, Money, RowSums
<1>7. ASSUME NEW i \in ItemIds, item'[i] # NoItem, item'[i].order = x
      PROVE  ~item'[i].incident /\ item'[i].total = cost'[x][item'[i].product] * item'[i].count
  <2>1. i \in (a + 1)..(a + n) BY <1>1, <1>7
  <2>2. i - a \in 1..n /\ a + (i - a) = i BY <1>1, <2>1
  <2>3. PICK k \in 1..n : i = a + k BY <2>2
  <2>4. item'[i] = NewItem(v, x, k) BY <1>1, <2>3
  <2>5. Amounts(v)[k] = v.price[v.offer.basket[k].product] * v.offer.basket[k].count
    BY <1>1, BasketOf DEF n
  <2>6. cost'[x] = v.price BY <1>1, <1>3 DEF Typed
  <2> QED BY <2>4, <2>5, <2>6 DEF NewItem
<1>8. \A k \in Staff : job'[k] # NoJob => job'[k].order # x
  BY <1>1, <1>3 DEF IInv, Types, Jobs, JobOK
<1>9. Percentage' = Percentage BY <1>3 DEF Percentage
<1>10. \A i \in ItemsOf(x)' : ~item'[i].incident /\ item'[i].total = cost'[x][item'[i].product] * item'[i].count
  BY <1>7 DEF ItemsOf
<1> QED BY <1>2, <1>4, <1>5, <1>6, <1>8, <1>9, <1>10 DEF AsPlaced

LEMMA PlaceBooks ==
    ASSUME IInv, Money, Typed, Readings, Books, NEW s \in Shoppers, Place(s)
    PROVE  Books'
<1>1. PICK v : v = cart[s] OBVIOUS
<1>2. PICK x : x = placed + 1 OBVIOUS
<1> DEFINE last == (nextItem - 1) + Len(v.offer.basket)
<1>3. /\ x \in Orders /\ x \notin Placed /\ Placed' = Placed \cup {x}
      /\ Len(v.offer.basket) \in Nat /\ nextItem \in Nat /\ nextItem >= 1
      /\ \A k \in 1..Len(v.offer.basket) :
           LET i == (nextItem - 1) + k
           IN  /\ i \in ItemIds /\ item[i] = NoItem
               /\ item'[i] = NewItem(v, x, k) /\ item'[i] # NoItem
      /\ \A i \in ItemIds : i \notin nextItem..last => item'[i] = item[i]
  BY <1>1, <1>2, NewRows
<1>4. \A i \in ItemIds : i \in nextItem..last => item[i] = NoItem /\ item'[i].order = x
  <2> SUFFICES ASSUME NEW i \in ItemIds, i \in nextItem..last
               PROVE  item[i] = NoItem /\ item'[i].order = x
    OBVIOUS
  <2> DEFINE k == i - (nextItem - 1)
  <2>1. k \in 1..Len(v.offer.basket) /\ i = (nextItem - 1) + k BY <1>3
  <2> HIDE DEF k, last
  <2>2. item[(nextItem - 1) + k] = NoItem /\ item'[(nextItem - 1) + k] = NewItem(v, x, k) BY <1>3, <2>1
  <2> QED BY <2>1, <2>2 DEF NewItem
<1>5. /\ sums' = [sums EXCEPT ![x] = NewSums(v)]
      /\ group' = [group EXCEPT ![x] = NewGroup(v, NewSums(v).delivering)]
      /\ cost' = [cost EXCEPT ![x] = v.price]
      /\ job' = job /\ institution' = institution /\ edited' = edited /\ lost' = lost
  BY <1>1, <1>2 DEF Place, catalogue
<1>6. ASSUME NEW o \in Placed PROVE RowBooks(o)'
  <2>1. o # x /\ o \in Orders
    BY <1>3, BoundAssumption DEF Placed, Orders, IInv, Types, TypeOK
  <2>2. Untouched(o) BY <1>3, <1>4, <2>1 DEF Untouched
  <2>3. sums'[o] = sums[o] /\ group'[o] = group[o] /\ cost'[o] = cost[o]
    BY <1>5, <2>1 DEF Typed, Money, RowSums
  <2>4. RowBooks(o) BY DEF Books
  <2>5. Quiet(o)' = Quiet(o) BY <1>5 DEF Quiet
  <2>6. o \notin edited' => \A k \in Staff : job'[k] # NoJob /\ job'[k].order = o =>
                               job'[k].sums = sums[o]
    BY <1>5, <2>4 DEF RowBooks, AsPlaced
  <2> QED BY <1>5, <2>2, <2>3, <2>4, <2>5, <2>6, BooksKept
<1>7. RowBooks(x)'
  <2>1. x \notin edited' BY <1>3, <1>5 DEF IInv, Types, TypeOK
  <2>2. AsPlaced(x)' BY <1>1, <1>2, NewBooks
  <2> QED BY <2>1, <2>2 DEF RowBooks
<1> QED BY <1>3, <1>6, <1>7 DEF Books

LEMMA InductiveBooks ==
    IInv /\ Money /\ Typed /\ Readings /\ Books /\ [Next]_vars => Books'
<1> SUFFICES ASSUME IInv, Money, Typed, Readings, Books, [Next]_vars PROVE Books' OBVIOUS
<1>1. ASSUME UNCHANGED <<rows, job, history, institution>> PROVE Books'
  <2>1. Placed' = Placed BY <1>1 DEF rows, Placed
  <2>2. ASSUME NEW o \in Placed PROVE RowBooks(o)'
    <3>1. RowBooks(o) BY DEF Books
    <3>2. Untouched(o) BY <1>1 DEF rows, Untouched
    <3>3. Quiet(o)' = Quiet(o) BY <1>1 DEF Quiet
    <3>4. /\ sums'[o] = sums[o] /\ group'[o] = group[o] /\ cost'[o] = cost[o] /\ institution' = institution
          /\ edited' = edited /\ lost' = lost /\ job' = job
      BY <1>1 DEF rows, history
    <3>5. o \notin edited' => \A k \in Staff : job'[k] # NoJob /\ job'[k].order = o =>
                                 job'[k].sums = sums[o]
      BY <3>1, <3>4 DEF RowBooks, AsPlaced
    <3> QED BY <3>1, <3>2, <3>3, <3>4, <3>5, BooksKept
  <2> QED BY <2>1, <2>2 DEF Books
<1>2. ASSUME NEW p \in Products, NEW n \in Prices, SetPrice(p, n) PROVE Books'
  BY <1>1, <1>2 DEF SetPrice
<1>3. ASSUME NEW c \in Codes, DeletePromo(c) \/ \E r \in PromoRow : EditPromo(c, r) PROVE Books'
  BY <1>1, <1>3 DEF DeletePromo, EditPromo, catalogue
<1>4. ASSUME NEW s \in Shoppers, Order(s) PROVE Books'
  BY <1>1, <1>4, PlaceBooks DEF Order, Validate, TurnAway, catalogue
<1>5. ASSUME NEW h \in Staff, Edit(h) PROVE Books'
  BY <1>5, EditsAre, EditBooks, RecalculateBooks, SaveBooks, DieBooks
<1>6. ASSUME NEW h \in Staff, Status(h) PROVE Books'
  BY <1>6, LoadBooks, CommitBooks DEF Status
<1> QED BY <1>1, <1>2, <1>3, <1>4, <1>5, <1>6 DEF Next, vars, catalogue

\* A step that leaves an order's sums alone leaves them those of its placement.
LEMMA SumsKept ==
    ASSUME NEW o, PlacedSums(o), sums'[o] = sums[o], group'[o] = group[o], institution' = institution
    PROVE  PlacedSums(o)'
<1>1. Percentage' = Percentage BY DEF Percentage
<1> QED BY <1>1 DEF PlacedSums

\* The sums stay while requests are loyal to them, and requests load them.
LEMMA UnreachedKept ==
    ASSUME Unreached, Placed' = Placed, institution' = institution,
           \A o \in Placed : sums'[o] = sums[o] /\ group'[o] = group[o],
           \A o \in Placed, k \in Staff : Loyal(k, o) => Loyal(k, o)'
    PROVE  Unreached'
BY SumsKept DEF Unreached

LEMMA PlaceUnreached ==
    ASSUME IInv, Money, Typed, Readings, Unreached, NEW s \in Shoppers, Place(s)
    PROVE  Unreached'
<1>1. PICK v : v = cart[s] OBVIOUS
<1>2. PICK x : x = placed + 1 OBVIOUS
<1>3. x \in Orders /\ x \notin Placed /\ Placed' = Placed \cup {x} BY <1>1, <1>2, NewRows
<1>4. /\ sums' = [sums EXCEPT ![x] = NewSums(v)]
      /\ group' = [group EXCEPT ![x] = NewGroup(v, NewSums(v).delivering)]
      /\ job' = job /\ institution' = institution
  BY <1>1, <1>2 DEF Place, catalogue
<1>5. ASSUME institution.tax = NoTax, NEW o \in Placed
      PROVE  PlacedSums(o)' /\ \A h \in Staff : Loyal(h, o)'
  <2>1. PlacedSums(o) /\ \A h \in Staff : Loyal(h, o) BY <1>5 DEF Unreached
  <2>2. o # x /\ o \in Orders
    BY <1>3, BoundAssumption DEF Placed, Orders, IInv, Types, TypeOK
  <2>3. sums'[o] = sums[o] /\ group'[o] = group[o] BY <1>4, <2>2 DEF Typed, Money, RowSums
  <2> QED BY <1>4, <2>1, <2>3, SumsKept DEF Loyal
<1>6. PlacedSums(x)' /\ \A h \in Staff : Loyal(h, x)'
  <2>1. AsPlaced(x)' BY <1>1, <1>2, NewBooks
  <2> QED BY <2>1 DEF AsPlaced, PlacedSums, Loyal
<1> QED BY <1>3, <1>4, <1>5, <1>6 DEF Unreached

LEMMA EditUnreached ==
    ASSUME IInv, Money, Typed, Readings, Unreached, NEW h \in Staff, Edit(h)
    PROVE  Unreached'
<1>1. ASSUME NEW x \in Placed, EditOf(h, x) PROVE Unreached'
  <2>1. PICK kind \in {"add", "change", "remove"} : Begin(h, kind, x) BY <1>1 DEF EditOf
  <2>2. /\ job'[h] # NoJob /\ job'[h].order = x /\ job'[h].sums = sums[x]
        /\ \A k \in Staff : k # h => job'[k] = job[k]
    BY <2>1, Begun
  <2>3. sums' = sums /\ group' = group /\ institution' = institution /\ Placed' = Placed
    BY <1>1 DEF EditOf, Placed
  <2> QED BY <2>2, <2>3, UnreachedKept DEF Loyal
<1>2. ASSUME Recalculate(h) PROVE Unreached'
  <2>1. /\ job[h] # NoJob /\ job'[h].order = job[h].order
        /\ job'[h].sums = job[h].sums \/ job'[h].sums = sums[job[h].order]
        /\ \A k \in Staff : k # h => job'[k] = job[k]
        /\ UNCHANGED <<catalogue, promos, rows, receipt, cart, requests, history>>
    BY <1>2, Recalculated
  <2>2. sums' = sums /\ group' = group /\ institution' = institution /\ Placed' = Placed
    BY <2>1 DEF rows, catalogue, Placed
  <2> QED BY <2>1, <2>2, UnreachedKept DEF Loyal
<1>3. ASSUME SaveSums(h), institution.tax = NoTax PROVE Unreached'
  <2>1. /\ job'[h] = NoJob /\ institution' = institution /\ Placed' = Placed
        /\ \A k \in Staff : k # h => job'[k] = job[k]
    BY <1>3, Saving DEF Placed
  <2>2. sums' = sums /\ group' = group BY <1>3 DEF SaveSums
  <2> QED BY <2>1, <2>2, UnreachedKept DEF Loyal
<1>4. ASSUME SaveSums(h), institution.tax # NoTax PROVE Unreached'
  BY <1>4, Saving DEF Unreached
<1>5. ASSUME Die(h) PROVE Unreached'
  <2>1. /\ job'[h] = NoJob /\ \A k \in Staff : k # h => job'[k] = job[k]
        /\ UNCHANGED <<placed, sums, group, institution>>
    BY <1>5 DEF Die, Typed, rows, catalogue
  <2>2. Placed' = Placed BY <2>1 DEF Placed
  <2> QED BY <2>1, <2>2, UnreachedKept DEF Loyal
<1> QED BY <1>1, <1>2, <1>3, <1>4, <1>5, EditsAre

LEMMA StatusUnreached ==
    ASSUME IInv, Money, Typed, Readings, Unreached, NEW h \in Staff, Status(h)
    PROVE  Unreached'
<1>1. ASSUME NEW o \in Orders, NEW to \in Targets, UpdateStatus(h, o, to) PROVE Unreached'
  <2>1. /\ job'[h] # NoJob /\ job'[h].order = o /\ job'[h].sums = sums[o]
        /\ \A k \in Staff : k # h => job'[k] = job[k]
    BY <1>1, Loaded
  <2>2. UNCHANGED <<catalogue, promos, rows, receipt, cart, history>> BY <1>1 DEF UpdateStatus
  <2>3. sums' = sums /\ group' = group /\ institution' = institution /\ Placed' = Placed
    BY <2>2 DEF rows, catalogue, Placed
  <2> QED BY <2>1, <2>3, UnreachedKept DEF Loyal
<1>2. ASSUME Accept(h) \/ Reject(h) \/ Close(h) PROVE Unreached'
  <2>1. /\ job[h] # NoJob /\ job[h].order \in Placed
        /\ job'[h] = NoJob /\ \A k \in Staff : k # h => job'[k] = job[k]
        /\ sums' = [sums EXCEPT ![job[h].order] = job[h].sums]
        /\ UNCHANGED <<institution, placed, group>>
    BY <1>2, Committing
  <2>2. Placed' = Placed BY <2>1 DEF Placed
  <2>3. ASSUME institution.tax = NoTax PROVE \A o \in Placed : sums'[o] = sums[o]
    <3>1. Loyal(h, job[h].order) BY <2>1, <2>3 DEF Unreached
    <3>2. job[h].sums = sums[job[h].order] BY <2>1, <3>1 DEF Loyal
    <3>3. \A o \in Placed : o \in DOMAIN sums
      BY BoundAssumption DEF Typed, Placed, Orders, IInv, Types, TypeOK
    <3> QED BY <2>1, <3>2, <3>3
  <2>4. CASE institution.tax = NoTax BY <2>1, <2>2, <2>3, <2>4, UnreachedKept DEF Loyal
  <2>5. CASE institution.tax # NoTax BY <2>1, <2>5 DEF Unreached
  <2> QED BY <2>4, <2>5
<1> QED BY <1>1, <1>2 DEF Status

LEMMA InductiveUnreached ==
    IInv /\ Money /\ Typed /\ Readings /\ Unreached /\ [Next]_vars => Unreached'
<1> SUFFICES ASSUME IInv, Money, Typed, Readings, Unreached, [Next]_vars PROVE Unreached' OBVIOUS
<1>1. ASSUME UNCHANGED <<rows, job, institution>> PROVE Unreached'
  <2>1. sums' = sums /\ group' = group /\ institution' = institution /\ Placed' = Placed /\ job' = job
    BY <1>1 DEF rows, Placed
  <2> QED BY <2>1, UnreachedKept DEF Loyal
<1>2. ASSUME NEW p \in Products, NEW n \in Prices, SetPrice(p, n) PROVE Unreached'
  BY <1>1, <1>2 DEF SetPrice
<1>3. ASSUME NEW c \in Codes, DeletePromo(c) \/ \E r \in PromoRow : EditPromo(c, r)
      PROVE  Unreached'
  BY <1>1, <1>3 DEF DeletePromo, EditPromo, catalogue
<1>4. ASSUME NEW s \in Shoppers, Order(s) PROVE Unreached'
  BY <1>1, <1>4, PlaceUnreached DEF Order, Validate, TurnAway, catalogue
<1>5. ASSUME NEW h \in Staff, Edit(h) \/ Status(h) PROVE Unreached'
  BY <1>5, EditUnreached, StatusUnreached
<1> QED BY <1>1, <1>2, <1>3, <1>4, <1>5 DEF Next, vars, catalogue

LEMMA InductiveBookkeeping == IInv /\ Money /\ Bookkeeping /\ [Next]_vars => Bookkeeping'
BY InductiveReadings, InductiveBooks, InductiveUnreached DEF Bookkeeping

LEMMA InitialBooks == Init => Bookkeeping
<1> SUFFICES ASSUME Init PROVE Books /\ Unreached BY InitialReadings DEF Bookkeeping
<1>1. Placed = {} BY DEF Init, Placed
<1> QED BY <1>1 DEF Books, Unreached

\* The invariant of the sums of orders, of their groups and of their items.
THEOREM BooksOfOrders == Spec => [](IInv /\ Money /\ Bookkeeping)
<1>1. Spec => []Money BY InitialMoney, InductiveMoney, Invariance, PTL DEF Spec
<1> QED BY <1>1, InitialBooks, InductiveBookkeeping, Invariance, PTL DEF Spec

-----------------------------------------------------------------------------
(* The sums, the receipts and the reports.                                 *)

LEMMA RowsOfOrder ==
    ASSUME IInv, Typed, Readings, NEW o \in Placed
    PROVE  /\ Table(OwnRows(o)) /\ Goods(o) \in Int
           /\ \A i \in ItemIds : Gross(o)[i] \in Nat
           /\ \A i \in ItemIds : i \in ItemsOf(o) => item[i] \in Item /\ item[i] # NoItem
           /\ sums[o] \in Sums /\ o \in Orders
<1>1. Table(OwnRows(o)) BY DEF OwnRows, Table, IInv, Types, TypeOK
<1>2. Goods(o) \in Int BY <1>1, TableSum DEF Goods
<1>3. \A i \in ItemIds : i \in ItemsOf(o) => item[i] \in Item /\ item[i] # NoItem
  BY DEF IInv, Types, TypeOK, ItemsOf
<1>4. ASSUME NEW i \in ItemIds PROVE Gross(o)[i] \in Nat
  <2>1. CASE i \in ItemsOf(o)
    <3>1. price[item[i].product] \in Nat /\ item[i].count \in Nat
      BY <1>3, <2>1, InputAssumption DEF IInv, Types, TypeOK, Item, Readings
    <3>2. Gross(o)[i] = price[item[i].product] * item[i].count BY <2>1 DEF Gross
    <3> QED BY <3>1, <3>2
  <2>2. CASE i \notin ItemsOf(o) BY <2>2 DEF Gross
  <2> QED BY <2>1, <2>2
<1>5. o \in Orders BY BoundAssumption DEF Placed, Orders, IInv, Types, TypeOK
<1> QED BY <1>1, <1>2, <1>3, <1>4, <1>5 DEF Typed

\* The sums of an order are those of its items (Checkout!SumsAgree): what is placed is
\* kept until an edit, and the last recalculation to read and write undisturbed has
\* the last word; where none gets through, the placement has it.
LEMMA BooksAreSums == IInv /\ Money /\ Bookkeeping => SumsAgree
<1> SUFFICES ASSUME IInv, Money, Typed, Readings, Books, Unreached, NEW o \in Placed, o \notin lost,
                    Quiet(o)
             PROVE  LET goods   == IF o \in edited /\ ~Recounted(o) THEN group[o].products ELSE Goods(o)
                        package == IF Recounted(o) THEN 0
                                   ELSE PackageSum(sums[o].package, sums[o].quantity)
                    IN  /\ sums[o].products = goods + package
                        /\ sums[o].total = goods + package + group[o].delivering - sums[o].discount
                        /\ group[o].total = goods + group[o].delivering
                        /\ group[o].delivering = sums[o].delivering
                        /\ group[o].commission =
                             Commission(goods, IF Recounted(o) THEN institution.tax ELSE Percentage)
  BY DEF SumsAgree, Bookkeeping, Goods, OwnRows, StoredGoods
<1> DEFINE goods == IF o \in edited /\ ~Recounted(o) THEN group[o].products ELSE Goods(o)
           package == IF Recounted(o) THEN 0 ELSE PackageSum(sums[o].package, sums[o].quantity)
<1>1. Goods(o) \in Int /\ sums[o] \in Sums BY RowsOfOrder
<1>2. sums[o].package \in Nat /\ sums[o].quantity \in Nat /\ sums[o].discount \in Int
      /\ sums[o].delivering \in Int /\ sums[o].products \in Int
  BY <1>1 DEF Sums
<1>3. package \in Int
  <2>1. PackageSum(sums[o].package, sums[o].quantity) \in Nat BY <1>2, PackageIsWhole
  <2> QED BY <2>1
<1>4. RowBooks(o) BY DEF Books
<1>5. /\ sums[o].products = goods + package
      /\ group[o].total = goods + group[o].delivering
      /\ group[o].commission = Commission(goods, IF Recounted(o) THEN institution.tax ELSE Percentage)
  <2>1. CASE Recounted(o)
    <3>1. AsEdited(o) BY <1>4, <2>1 DEF RowBooks, Recounted
    <3>2. goods = Goods(o) /\ package = 0 BY <2>1
    <3> HIDE DEF goods, package
    <3> QED BY <1>1, <2>1, <3>1, <3>2 DEF AsEdited
  <2>2. CASE o \notin edited BY <1>4, <2>2 DEF RowBooks, AsPlaced, Recounted
  <2>3. CASE o \in edited /\ ~Recounted(o)
    <3>1. PlacedSums(o) BY <2>3 DEF Unreached, Recounted
    <3> QED BY <2>3, <3>1 DEF PlacedSums
  <2> QED BY <2>1, <2>2, <2>3
<1>6. /\ sums[o].total = (sums[o].delivering + sums[o].products) - sums[o].discount
      /\ sums[o].delivering = group[o].delivering
  BY DEF Money, RowSums, Agrees
<1>7. sums[o].total = goods + package + group[o].delivering - sums[o].discount
  <2>1. PICK g : g = goods + package OBVIOUS
  <2> HIDE DEF goods, package
  <2>2. sums[o].total = (goods + package) + group[o].delivering - sums[o].discount
    BY <1>2, <1>5, <1>6, <2>1
  <2> QED BY <2>2
<1> QED BY <1>5, <1>6, <1>7

\* Whatever edits and status changes came before, the sums of an order are those of its
\* items (Checkout!SumsAgree), unless one save overwrote another or a worker died;
\* where the institution has no percentage of its own they stay those of the placement,
\* whatever becomes of the items.
THEOREM SumsAreOfItems == Spec => []SumsAgree
BY BooksOfOrders, BooksAreSums, PTL

\* The lines of a receipt: what is not sold costs nothing, so the lines come to what
\* the items cost less the discount, as far as it goes.
LEMMA LinesOfReceipt ==
    ASSUME IInv, Money, Bookkeeping, NEW o \in Placed, NEW t \in Sums, Receipt(o, t).fair
    PROVE  LET r == Receipt(o, t)
           IN  /\ r.goods >= 0
               /\ r.goods + r.package + r.delivery = r.amount + Larger(0, r.discount - r.gross)
<1> DEFINE n == MaxItems
           gross == Gross(o)
           d == t.discount
           less == LineDiscounts(gross, n, d)
           lines == [i \in ItemIds |-> IF Sold(o, i) THEN gross[i] - less[i] ELSE 0]
           r == Receipt(o, t)
           total == Sum(gross, n)
           package == PackageSum(t.package, t.quantity)
           delivery == group[o].delivering
<1>0. Typed /\ Readings /\ SumsAgree BY BooksAreSums DEF Bookkeeping
<1>1. /\ r.amount = t.total /\ r.goods = Sum(lines, n) /\ r.package = package
      /\ r.delivery = delivery /\ r.gross = total /\ r.discount = d
      /\ o \notin lost /\ t = sums[o] /\ Quiet(o)
      /\ \A i \in ItemsOf(o) : Sold(o, i) /\ item[i].total = gross[i]
      /\ o \in edited => t.package = 0 /\ institution.tax # NoTax
  BY DEF Receipt, Quiet
<1>2. d \in Nat /\ t.package \in Nat /\ t.quantity \in Nat /\ t.delivering \in Int /\ n \in Nat
  BY BoundAssumption DEF Sums
<1>3. \A i \in 1..n : gross[i] \in Nat BY <1>0, RowsOfOrder DEF ItemIds
<1> HIDE DEF r, less
<1>4. /\ \A i \in 1..n : less[i] \in Nat /\ less[i] <= gross[i]
      /\ Sum(less, n) = Smaller(d, total)
  <2> HIDE DEF gross, d, n
  <2> QED BY <1>2, <1>3, DiscountsSpread DEF less
<1>5. \A i \in 1..n : lines[i] = gross[i] - less[i]
  <2> SUFFICES ASSUME NEW i \in ItemIds PROVE lines[i] = gross[i] - less[i] BY DEF ItemIds
  <2>1. CASE i \in ItemsOf(o) BY <1>1, <2>1
  <2>2. CASE i \notin ItemsOf(o)
    <3>1. gross[i] = 0 BY <2>2 DEF Gross
    <3>2. less[i] = 0 BY <1>4, <3>1 DEF ItemIds
    <3>3. lines[i] = 0 BY <2>2 DEF Sold
    <3> QED BY <3>1, <3>2, <3>3
  <2> QED BY <2>1, <2>2
<1>6. Whole(gross, n) /\ Whole(less, n) BY <1>3, <1>4 DEF Whole
<1> HIDE DEF gross, lines, n, d
<1>7. Sum(lines, n) = total - Sum(less, n) BY <1>2, <1>5, <1>6, SumOfDifferences
<1>8. total \in Nat
  <2>1. \A k \in 0..n : Sum(gross, k) \in Nat BY <1>2, <1>3, SumIsNatural
  <2> QED BY <1>2, <2>1
<1>9. Goods(o) = total
  <2>1. \A i \in 1..n : Counted(OwnRows(o))[i] = gross[i]
    <3> SUFFICES ASSUME NEW i \in ItemIds PROVE Counted(OwnRows(o))[i] = gross[i] BY DEF ItemIds, n
    <3>1. CASE i \in ItemsOf(o) BY <1>1, <3>1 DEF Counted, OwnRows, ItemsOf, Sold
    <3>2. CASE i \notin ItemsOf(o) BY <3>2 DEF Counted, OwnRows, Gross, gross
    <3> QED BY <3>1, <3>2
  <2>2. Sum(Counted(OwnRows(o)), n) = total BY <1>2, <2>1, SumOfSame
  <2> QED BY <2>2 DEF Goods, n
<1>10. package \in Nat BY <1>2, PackageIsWhole
<1>11. o \in edited => package = 0
  <2>1. o \in edited => t.package = 0 BY <1>1
  <2> QED BY <1>2, <2>1 DEF PackageSum
<1>12. t.total = Goods(o) + (IF o \in edited THEN 0 ELSE package) + delivery - d
  <2>1. o \in edited <=> Recounted(o) BY <1>1 DEF Recounted
  <2> QED BY <1>0, <1>1, <2>1 DEF SumsAgree, Goods, OwnRows, StoredGoods, d
<1>13. delivery \in Int BY <1>1, <1>2 DEF Money, RowSums, Agrees
<1>14. t.total = total + package + delivery - d
  <2>1. (IF o \in edited THEN 0 ELSE package) = package BY <1>11
  <2> QED BY <1>9, <1>12, <2>1
<1> HIDE DEF total, package, delivery
<1>15. r.goods = total - Smaller(d, total) BY <1>1, <1>4, <1>7
<1>16. d \in Nat BY <1>2
<1> QED BY <1>1, <1>8, <1>10, <1>13, <1>14, <1>15, <1>16 DEF Smaller, Larger, r

ReceiptBook == DOMAIN receipt = Orders /\ ReceiptAdds

\* Only an acceptance writes a receipt, of sums and items that are as they are.
LEMMA InductiveReceipts == IInv /\ Money /\ Bookkeeping /\ ReceiptBook /\ [Next]_vars => ReceiptBook'
<1> SUFFICES ASSUME IInv, Money, Bookkeeping, ReceiptBook, [Next]_vars PROVE ReceiptBook' OBVIOUS
<1>0. ASSUME receipt' = receipt PROVE ReceiptBook' BY <1>0 DEF ReceiptBook, ReceiptAdds
<1>1. ASSUME NEW h \in Staff, Accept(h) PROVE ReceiptBook'
  <2>1. PICK o : o = job[h].order OBVIOUS
  <2>2. PICK t : t = job[h].sums OBVIOUS
  <2>3. job[h] # NoJob /\ job[h] \in Job /\ o \in Placed BY <1>1, <2>1, Committing DEF Bookkeeping
  <2>4. t \in Sums /\ o \in Orders BY <2>1, <2>2, <2>3 DEF Job
  <2>5. receipt' = receipt \/ receipt' = [receipt EXCEPT ![o] = Receipt(o, t)]
    BY <1>1, <2>1, <2>2 DEF Accept
  <2>6. CASE receipt' = [receipt EXCEPT ![o] = Receipt(o, t)]
    <3>1. DOMAIN receipt' = Orders BY <2>6 DEF ReceiptBook
    <3>2. ASSUME NEW q \in Orders, receipt'[q] # NoReceipt, receipt'[q].fair
          PROVE  LET r == receipt'[q]
                 IN  /\ r.goods >= 0
                     /\ r.goods + r.package + r.delivery = r.amount + Larger(0, r.discount - r.gross)
      <4>1. CASE q = o
        <5>1. receipt'[q] = Receipt(o, t) BY <2>4, <2>6, <4>1 DEF ReceiptBook
        <5> QED BY <2>3, <2>4, <3>2, <5>1, LinesOfReceipt
      <4>2. CASE q # o
        <5>1. receipt'[q] = receipt[q] BY <2>6, <4>2 DEF ReceiptBook
        <5> QED BY <3>2, <5>1 DEF ReceiptBook, ReceiptAdds
      <4> QED BY <4>1, <4>2
    <3> QED BY <3>1, <3>2 DEF ReceiptBook, ReceiptAdds
  <2> QED BY <1>0, <2>5, <2>6
<1>2. ASSUME NEW s \in Shoppers, Order(s) PROVE receipt' = receipt
  BY <1>2 DEF Order, Validate, Place, TurnAway
<1>3. ASSUME NEW h \in Staff, Edit(h) PROVE receipt' = receipt
  <2>1. ASSUME NEW o \in Orders, NEW p \in Products, NEW n \in Counts, AddItem(h, o, p, n)
        PROVE  receipt' = receipt
    BY <2>1 DEF AddItem
  <2>2. ASSUME NEW o \in Orders, NEW p \in Products, NEW n \in Counts, NEW q \in Products,
               NEW newOptions \in BOOLEAN, ReplaceItem(h, o, q, p, n, newOptions)
        PROVE  receipt' = receipt
    BY <2>2 DEF ReplaceItem
  <2>3. ASSUME NEW i \in ItemIds, NEW n \in Counts, NEW incident \in BOOLEAN, ChangeItem(h, i, n, incident)
        PROVE  receipt' = receipt
    BY <2>3 DEF ChangeItem
  <2>4. ASSUME NEW i \in ItemIds, RemoveItem(h, i) PROVE receipt' = receipt BY <2>4 DEF RemoveItem
  <2>5. ASSUME Recalculate(h) PROVE receipt' = receipt BY <2>5 DEF Recalculate
  <2>6. ASSUME SaveSums(h) PROVE receipt' = receipt BY <2>6 DEF SaveSums
  <2>7. ASSUME Die(h) PROVE receipt' = receipt BY <2>7 DEF Die
  <2> QED BY <1>3, <2>1, <2>2, <2>3, <2>4, <2>5, <2>6, <2>7 DEF Edit
<1>4. ASSUME NEW h \in Staff, Status(h) PROVE receipt' = receipt \/ Accept(h)
  BY <1>4 DEF Status, UpdateStatus, Reject, Close
<1>5. ASSUME \/ \E p \in Products, n \in Prices : SetPrice(p, n)
             \/ \E c \in Codes : DeletePromo(c) \/ \E r \in PromoRow : EditPromo(c, r)
      PROVE  receipt' = receipt
  BY <1>5 DEF SetPrice, DeletePromo, EditPromo
<1> QED BY <1>0, <1>1, <1>2, <1>3, <1>4, <1>5 DEF Next, vars

\* The lines of a Payme receipt add up to its amount (Checkout!ReceiptAdds), for every
\* basket, discount and history of edits.
THEOREM ReceiptsAdd == Spec => []ReceiptAdds
<1>1. Init => ReceiptBook BY DEF Init, ReceiptBook, ReceiptAdds
<1>2. ReceiptBook => ReceiptAdds BY DEF ReceiptBook
<1> QED BY <1>1, <1>2, BooksOfOrders, InductiveReceipts, PTL DEF Spec

\* Sums over some of the orders.
Terms(S, f) == [o \in Orders |-> IF o \in S THEN f[o] ELSE 0]

LEMMA OverSame ==
    ASSUME NEW S, NEW f, NEW g, \A o \in S \cap Orders : f[o] = g[o]
    PROVE  Over(S, f) = Over(S, g)
<1>1. \A o \in 1..MaxOrders : Terms(S, f)[o] = Terms(S, g)[o] BY DEF Terms, Orders
<1>2. Sum(Terms(S, f), MaxOrders) = Sum(Terms(S, g), MaxOrders)
  BY <1>1, SumOfSame, BoundAssumption
<1> QED BY <1>2 DEF Over, Terms

LEMMA OverIsWhole ==
    ASSUME NEW S, NEW f, \A o \in S \cap Orders : f[o] \in Int
    PROVE  Whole(Terms(S, f), MaxOrders) /\ Over(S, f) \in Int
<1>1. Whole(Terms(S, f), MaxOrders) BY DEF Whole, Terms, Orders
<1>2. \A k \in 0..MaxOrders : Sum(Terms(S, f), k) \in Int BY <1>1, SumIsWhole, BoundAssumption
<1>3. Sum(Terms(S, f), MaxOrders) \in Int BY <1>2, BoundAssumption
<1> QED BY <1>1, <1>3 DEF Over, Terms

LEMMA OverIsNatural ==
    ASSUME NEW S, NEW f, \A o \in S \cap Orders : f[o] \in Nat
    PROVE  Over(S, f) \in Nat
<1>1. \A o \in 1..MaxOrders : Terms(S, f)[o] \in Nat BY DEF Terms, Orders
<1>2. \A k \in 0..MaxOrders : Sum(Terms(S, f), k) \in Nat BY <1>1, SumIsNatural, BoundAssumption
<1>3. Sum(Terms(S, f), MaxOrders) \in Nat BY <1>2, BoundAssumption
<1> QED BY <1>3 DEF Over, Terms

LEMMA OverSums ==
    ASSUME NEW S, NEW f, NEW g, NEW s,
           \A o \in S \cap Orders : f[o] \in Int /\ g[o] \in Int /\ s[o] = f[o] + g[o]
    PROVE  Over(S, s) = Over(S, f) + Over(S, g)
<1>1. Whole(Terms(S, f), MaxOrders) /\ Whole(Terms(S, g), MaxOrders) BY OverIsWhole
<1>2. \A o \in 1..MaxOrders : Terms(S, s)[o] = Terms(S, f)[o] + Terms(S, g)[o] BY DEF Terms, Orders
<1>3. Sum(Terms(S, s), MaxOrders) = Sum(Terms(S, f), MaxOrders) + Sum(Terms(S, g), MaxOrders)
  BY <1>1, <1>2, SumOfSums, BoundAssumption
<1> QED BY <1>3 DEF Over, Terms

LEMMA OverDifferences ==
    ASSUME NEW S, NEW f, NEW g, NEW s,
           \A o \in S \cap Orders : f[o] \in Int /\ g[o] \in Int /\ s[o] = f[o] - g[o]
    PROVE  Over(S, s) = Over(S, f) - Over(S, g)
<1>1. Whole(Terms(S, f), MaxOrders) /\ Whole(Terms(S, g), MaxOrders) BY OverIsWhole
<1>2. \A o \in 1..MaxOrders : Terms(S, s)[o] = Terms(S, f)[o] - Terms(S, g)[o] BY DEF Terms, Orders
<1>3. Sum(Terms(S, s), MaxOrders) = Sum(Terms(S, f), MaxOrders) - Sum(Terms(S, g), MaxOrders)
  BY <1>1, <1>2, SumOfDifferences, BoundAssumption
<1> QED BY <1>3 DEF Over, Terms

\* Terms that differ by at most c.
Near(S, f, g, a, b, c) == \A o \in S : f[o] \in Int /\ g[o] \in Int /\ a * f[o] - b * g[o] <= c

\* Their sums, over orders that were placed.
LEMMA OverWithin ==
    ASSUME NEW m \in Nat, m <= MaxOrders, NEW S, S \subseteq 1..m, NEW f, NEW g,
           NEW a \in Int, NEW b \in Int, NEW c \in Nat, Near(S, f, g, a, b, c)
    PROVE  a * Over(S, f) - b * Over(S, g) <= c * m
<1> USE DEF Near
<1> DEFINE x == Terms(S, f)
           y == Terms(S, g)
<1>1. \A o \in S \cap Orders : f[o] \in Int /\ g[o] \in Int OBVIOUS
<1>2. Whole(x, MaxOrders) /\ Whole(y, MaxOrders) BY <1>1, OverIsWhole
<1>3. Whole(x, m) /\ Whole(y, m) BY <1>2, BoundAssumption DEF Whole
<1>4. \A k \in (m + 1)..MaxOrders : x[k] = 0 /\ y[k] = 0 BY BoundAssumption DEF Terms, Orders
<1>5. \A k \in 1..m : a * x[k] - b * y[k] <= c
  <2> SUFFICES ASSUME NEW k \in 1..m PROVE a * x[k] - b * y[k] <= c OBVIOUS
  <2>1. CASE k \in S
    <3>1. x[k] = f[k] /\ y[k] = g[k] BY <2>1, BoundAssumption DEF Terms, Orders
    <3> QED BY <2>1, <3>1
  <2>2. CASE k \notin S
    <3>1. x[k] = 0 /\ y[k] = 0 BY <2>2, BoundAssumption DEF Terms, Orders
    <3> QED BY <3>1
  <2> QED BY <2>1, <2>2
<1> HIDE DEF x, y
<1>6. Sum(x, MaxOrders) = Sum(x, m) /\ Sum(y, MaxOrders) = Sum(y, m)
  BY <1>2, <1>4, SumStops, BoundAssumption
<1>7. a * Sum(x, m) - b * Sum(y, m) <= c * m BY <1>3, <1>5, SumsWithin
<1>8. Over(S, f) = Sum(x, MaxOrders) /\ Over(S, g) = Sum(y, MaxOrders) BY DEF Over, x, y, Terms
<1> QED BY <1>6, <1>7, <1>8

\* A closed order without edits, at the prices it was placed at.
LEMMA AsOnPaper ==
    ASSUME IInv, Money, Bookkeeping, NEW o \in Placed, o \notin edited, price = cost[o]
    PROVE  /\ Sum(Gross(o), MaxItems) = Goods(o)
           /\ Sum([i \in ItemIds |-> IF i \in ItemsOf(o) THEN item[i].total ELSE 0], MaxItems) = Goods(o)
           /\ Goods(o) \in Nat
           /\ group[o].products = Goods(o)
           /\ sums[o].products = Goods(o) + PackageSum(sums[o].package, sums[o].quantity)
           /\ sums[o].total = (sums[o].delivering + sums[o].products) - sums[o].discount
           /\ group[o].total = Goods(o) + sums[o].delivering
           /\ group[o].commission = Commission(Goods(o), Percentage)
           /\ sums[o] \in Sums
<1>0. Typed /\ Readings /\ AsPlaced(o) BY DEF Bookkeeping, Books, RowBooks
<1> DEFINE totals == [i \in ItemIds |-> IF i \in ItemsOf(o) THEN item[i].total ELSE 0]
           c == Counted(OwnRows(o))
<1>1. ASSUME NEW i \in 1..MaxItems PROVE Gross(o)[i] = c[i] /\ totals[i] = c[i]
  <2>0. i \in ItemIds BY DEF ItemIds
  <2>1. CASE i \in ItemsOf(o)
    <3>1. ~item[i].incident /\ item[i].total = price[item[i].product] * item[i].count
      BY <1>0, <2>1 DEF AsPlaced
    <3>2. item[i] # NoItem BY <2>1 DEF ItemsOf
    <3>3. c[i] = item[i].total BY <2>0, <2>1, <3>1, <3>2 DEF Counted, OwnRows
    <3> QED BY <2>0, <2>1, <3>1, <3>3 DEF Gross
  <2>2. CASE i \notin ItemsOf(o) BY <2>0, <2>2 DEF Counted, OwnRows, Gross
  <2> QED BY <2>1, <2>2
<1> HIDE DEF totals, c
<1>2. Sum(Gross(o), MaxItems) = Sum(c, MaxItems) /\ Sum(totals, MaxItems) = Sum(c, MaxItems)
  BY <1>1, SumOfSame, BoundAssumption
<1>3. Sum(Gross(o), MaxItems) \in Nat
  <2>1. \A i \in 1..MaxItems : Gross(o)[i] \in Nat BY <1>0, RowsOfOrder DEF ItemIds
  <2>2. \A k \in 0..MaxItems : Sum(Gross(o), k) \in Nat BY <2>1, SumIsNatural, BoundAssumption
  <2> QED BY <2>2, BoundAssumption
<1>4. Goods(o) = Sum(c, MaxItems) BY DEF Goods, c
<1>5. /\ sums[o].total = (sums[o].delivering + sums[o].products) - sums[o].discount
      /\ sums[o].delivering = group[o].delivering
  BY DEF Money, RowSums, Agrees
<1>6. sums[o] \in Sums BY <1>0, RowsOfOrder
<1> QED BY <1>0, <1>2, <1>3, <1>4, <1>5, <1>6 DEF AsPlaced, totals

\* Every report is a sum over orders of columns that agree for each.
LEMMA ReportsAdd == IInv /\ Money /\ Bookkeeping => ReportsAgree
<1> SUFFICES ASSUME IInv, Money, Bookkeeping,
                    \A o \in Closed : o \notin edited /\ price = cost[o] /\ order[o].paid
             PROVE  LET products == ReportAPIView.products
                    IN  /\ products = InstitutionReportAPIView.products
                        /\ products = InstitutionReportAPIView.taxed
                        /\ order_stats = products + Over(Closed, [o \in Orders |-> PackageSum(sums[o].package, sums[o].quantity)])
                        /\ OrderStatsView.total =
                             order_stats + PaymentHistory - Over(Closed, [o \in Orders |-> sums[o].discount])
                        /\ OrderReportView.without_commission = products - OrderStatsView.commission
                        /\ \A o \in Closed : sums[o].quantity > 0 \/ sums[o].package = 0 =>
                             NotifiedTotal(o) = sums[o].total + sums[o].discount
                        /\ -ReportAPIView.diff = InstitutionReportAPIView.diff - products
                        /\ ~institution.own /\ institution.tax # NoTax =>
                             LET off == 100 * OrderStatsView.commission - institution.tax * products
                             IN  off <= 500 * placed /\ -off <= 500 * placed
  BY DEF ReportsAgree
<1> DEFINE goods      == [o \in Orders |-> Goods(o)]
           packages   == [o \in Orders |-> PackageSum(sums[o].package, sums[o].quantity)]
           products   == [o \in Orders |-> sums[o].products]
           delivering == [o \in Orders |-> sums[o].delivering]
           discounts  == [o \in Orders |-> sums[o].discount]
           totals     == [o \in Orders |-> sums[o].total]
           commission == [o \in Orders |-> group[o].commission]
           grossed    == [o \in Orders |-> Sum(Gross(o), MaxItems)]
           grouped    == [o \in Orders |-> group[o].products]
           itemised   == [o \in Orders |-> Sum([i \in ItemIds |-> IF i \in ItemsOf(o) THEN item[i].total ELSE 0], MaxItems)]
           rest       == [o \in Orders |-> group[o].products - group[o].commission]
           both       == [o \in Orders |-> sums[o].products + sums[o].delivering]
           C          == Closed
           P          == Over(C, goods)
<1>1. /\ C \subseteq Placed /\ C \subseteq Orders /\ C \subseteq 1..placed /\ placed \in Nat /\ placed <= MaxOrders
  BY BoundAssumption DEF Closed, Placed, Orders, IInv, Types, TypeOK
<1>2. Percentage \in Nat
  BY InputAssumption, SettingsAssumption DEF IInv, Types, TypeOK, Institution, Percentage
<1>3. ASSUME NEW o \in C
      PROVE  /\ grossed[o] = goods[o] /\ itemised[o] = goods[o] /\ grouped[o] = goods[o]
             /\ goods[o] \in Nat /\ goods[o] = Goods(o)
             /\ packages[o] \in Nat /\ delivering[o] \in Int /\ discounts[o] \in Int /\ products[o] \in Int
             /\ products[o] = goods[o] + packages[o]
             /\ both[o] = products[o] + delivering[o]
             /\ totals[o] = both[o] - discounts[o]
             /\ commission[o] = Commission(goods[o], Percentage)
             /\ commission[o] \in Int
             /\ rest[o] = goods[o] - commission[o]
             /\ group[o].total = goods[o] + delivering[o]
  <2>1. o \in Placed /\ o \in Orders /\ o \notin edited /\ price = cost[o] BY <1>1
  <2>2. /\ Sum(Gross(o), MaxItems) = Goods(o)
        /\ Sum([i \in ItemIds |-> IF i \in ItemsOf(o) THEN item[i].total ELSE 0], MaxItems) = Goods(o)
        /\ Goods(o) \in Nat
        /\ group[o].products = Goods(o)
        /\ sums[o].products = Goods(o) + PackageSum(sums[o].package, sums[o].quantity)
        /\ sums[o].total = (sums[o].delivering + sums[o].products) - sums[o].discount
        /\ group[o].total = Goods(o) + sums[o].delivering
        /\ group[o].commission = Commission(Goods(o), Percentage)
        /\ sums[o] \in Sums
    BY <2>1, AsOnPaper
  <2>3. /\ sums[o].package \in Nat /\ sums[o].quantity \in Nat /\ sums[o].delivering \in Int
        /\ sums[o].discount \in Int /\ sums[o].products \in Int
    BY <2>2 DEF Sums
  <2>4. PackageSum(sums[o].package, sums[o].quantity) \in Nat BY <2>3, PackageIsWhole
  <2>5. Commission(Goods(o), Percentage) \in Int BY <1>2, <2>2, CommissionWithin
  <2>6. sums[o].total = (sums[o].products + sums[o].delivering) - sums[o].discount BY <2>2, <2>3
  <2> QED BY <2>1, <2>2, <2>3, <2>4, <2>5, <2>6
<1> HIDE DEF goods, packages, products, delivering, discounts, totals, commission, grossed, grouped,
             itemised, rest, both, C
<1>4. P \in Nat BY <1>3, OverIsNatural
<1>5. Over(C, grossed) = P BY <1>3, OverSame
<1>6. Over(C, grouped) = P BY <1>3, OverSame
<1>7. Over(C, itemised) = P BY <1>3, OverSame
<1>8. Over(C, products) = P + Over(C, packages) BY <1>3, OverSums
<1>9. Over(C, totals) = Over(C, products) + Over(C, delivering) - Over(C, discounts)
  <2>1. Over(C, both) = Over(C, products) + Over(C, delivering) BY <1>3, OverSums
  <2>2. \A o \in C \cap Orders : both[o] \in Int /\ discounts[o] \in Int /\ totals[o] = both[o] - discounts[o]
    BY <1>3
  <2>3. Over(C, totals) = Over(C, both) - Over(C, discounts) BY <2>2, OverDifferences
  <2>4. Over(C, products) \in Int /\ Over(C, delivering) \in Int /\ Over(C, discounts) \in Int
    BY <1>3, OverIsWhole
  <2> QED BY <2>1, <2>3, <2>4
<1>10. Over(C, rest) = P - Over(C, commission) BY <1>3, OverDifferences
<1>11. /\ ReportAPIView.products = P
       /\ InstitutionReportAPIView.products = P /\ InstitutionReportAPIView.taxed = P
       /\ order_stats = Over(C, products) /\ PaymentHistory = Over(C, delivering)
       /\ OrderReportView.without_commission = Over(C, rest)
  BY <1>5, <1>6, <1>7 DEF ReportAPIView, InstitutionReportAPIView, order_stats, PaymentHistory,
                          OrderReportView, grossed, grouped, itemised, products, delivering, rest, C
<1>12. OrderStatsView.total = Over(C, totals) /\ OrderStatsView.commission = Over(C, commission)
  <2>1. {o \in Closed : order[o].paid} = Closed OBVIOUS
  <2> QED BY <2>1 DEF OrderStatsView, totals, commission, C
<1>13. ASSUME NEW o \in Closed, sums[o].quantity > 0 \/ sums[o].package = 0
       PROVE  NotifiedTotal(o) = sums[o].total + sums[o].discount
  <2>1. /\ goods[o] \in Nat /\ packages[o] \in Nat /\ delivering[o] \in Int /\ discounts[o] \in Int
        /\ products[o] = goods[o] + packages[o] /\ both[o] = products[o] + delivering[o]
        /\ totals[o] = both[o] - discounts[o] /\ group[o].total = goods[o] + delivering[o]
    BY <1>3, <1>13 DEF C
  <2>2. o \in Orders /\ o \in Placed BY <1>1, <1>13 DEF C
  <2>3. totals[o] = sums[o].total /\ discounts[o] = sums[o].discount
        /\ packages[o] = PackageSum(sums[o].package, sums[o].quantity)
    BY <2>2 DEF totals, discounts, packages
  <2>4. sums[o].package \in Nat /\ sums[o].quantity \in Nat
    BY <2>2, RowsOfOrder DEF Bookkeeping, Sums
  <2>5. sums[o].quantity * sums[o].package = packages[o] BY <1>13, <2>3, <2>4 DEF PackageSum
  <2> QED BY <2>1, <2>3, <2>5 DEF NotifiedTotal
<1>14. Tax \in Nat
  <2>1. institution.tax \in Nat \cup {NoTax} BY InputAssumption DEF IInv, Types, TypeOK, Institution
  <2> QED BY <2>1 DEF Tax
<1>15. -ReportAPIView.diff = InstitutionReportAPIView.diff - P
  <2> DEFINE income == P * Tax
             diff == IF P = 0 THEN income ELSE 100 * P - income - P
  <2>1. income \in Nat /\ (P = 0 => income = 0) BY <1>4, <1>14
  <2>2. ReportAPIView.diff = IF diff < 100 * P THEN -diff ELSE diff
    BY <1>5 DEF ReportAPIView, grossed, C
  <2>3. InstitutionReportAPIView.diff = 100 * P - income
    BY <1>6 DEF InstitutionReportAPIView, grouped, C
  <2> HIDE DEF income, P
  <2> QED BY <1>4, <2>1, <2>2, <2>3
<1>16. ASSUME ~institution.own, institution.tax # NoTax
       PROVE  /\ 100 * Over(C, commission) - institution.tax * P <= 500 * placed
              /\ institution.tax * P - 100 * Over(C, commission) <= 500 * placed
  <2> DEFINE tax == institution.tax
  <2>1. Percentage = tax BY <1>16 DEF Percentage
  <2>2. tax \in Int BY <1>2, <2>1
  <2>3. \A o \in C : /\ commission[o] \in Int /\ goods[o] \in Int
                     /\ 100 * commission[o] - tax * goods[o] <= 500
                     /\ tax * goods[o] - 100 * commission[o] <= 500
    <3> SUFFICES ASSUME NEW o \in C
                 PROVE  /\ commission[o] \in Int /\ goods[o] \in Int
                        /\ 100 * commission[o] - tax * goods[o] <= 500
                        /\ tax * goods[o] - 100 * commission[o] <= 500
      OBVIOUS
    <3> DEFINE p == goods[o]
    <3>1. p \in Int /\ commission[o] = Commission(p, tax) BY <1>3, <2>1
    <3> HIDE DEF tax, p
    <3>2. CommissionNear(p, tax) BY ONLY <2>2, <3>1, CommissionIsNear
    <3>3. /\ Commission(p, tax) \in Int
          /\ 100 * Commission(p, tax) - tax * p <= 500
          /\ tax * p - 100 * Commission(p, tax) <= 500
      BY ONLY <3>2 DEF CommissionNear
    <3> QED BY <3>1, <3>3 DEF p
  <2> HIDE DEF tax
  <2>0. Near(C, commission, goods, 100, tax, 500) /\ Near(C, goods, commission, tax, 100, 500)
    BY <2>3 DEF Near
  <2> DEFINE m       == placed
             hundred == 100
             half    == 500
  <2>4. /\ m \in Nat /\ m <= MaxOrders /\ C \subseteq 1..m /\ hundred \in Int /\ half \in Nat
        /\ Near(C, commission, goods, hundred, tax, half)
        /\ Near(C, goods, commission, tax, hundred, half)
    BY <1>1, <2>0
  <2> HIDE DEF m, P, hundred, half
  <2>5. hundred * Over(C, commission) - tax * Over(C, goods) <= half * m
    BY <2>2, <2>4, OverWithin
  <2>6. tax * Over(C, goods) - hundred * Over(C, commission) <= half * m
    BY <2>2, <2>4, OverWithin
  <2> QED BY <2>5, <2>6 DEF tax, m, P, hundred, half
<1>17. Over(C, packages) = Over(Closed, [o \in Orders |-> PackageSum(sums[o].package, sums[o].quantity)])
       /\ Over(C, discounts) = Over(Closed, [o \in Orders |-> sums[o].discount])
  BY DEF packages, discounts, C
<1>18. Over(C, commission) \in Int BY <1>3, OverIsWhole
<1>19. ~institution.own /\ institution.tax # NoTax =>
         LET off == 100 * OrderStatsView.commission - institution.tax * ReportAPIView.products
         IN  off <= 500 * placed /\ -off <= 500 * placed
  <2> SUFFICES ASSUME ~institution.own, institution.tax # NoTax
               PROVE  /\ 100 * Over(C, commission) - institution.tax * P <= 500 * placed
                      /\ -(100 * Over(C, commission) - institution.tax * P) <= 500 * placed
    BY <1>11, <1>12
  <2>1. institution.tax \in Int BY <1>2 DEF Percentage
  <2> DEFINE a == 100 * Over(C, commission)
             b == institution.tax * P
  <2>2. a \in Int /\ b \in Int BY <1>4, <1>18, <2>1
  <2>3. a - b <= 500 * placed /\ b - a <= 500 * placed BY <1>16
  <2> HIDE DEF a, b, P
  <2>4. -(a - b) = b - a BY <2>2
  <2> QED BY <2>3, <2>4 DEF a, b
<1> HIDE DEF P
<1> QED BY <1>8, <1>9, <1>10, <1>11, <1>12, <1>13, <1>15, <1>17, <1>19

\* The reports speak of the same money (OrderViews!ReportsAgree): the products of every
\* one, the couriers' earnings, the commission up to its rounding, and the settlements.
THEOREM ReportsTellTheSame == Spec => []ReportsAgree
BY BooksOfOrders, ReportsAdd, PTL
==============================================================================
