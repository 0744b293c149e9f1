----------------------------- MODULE OrderViews -----------------------------
(***************************************************************************)
(* What the apps, the panel and the reports say an order costs.  Each view *)
(* computes it from columns of its own choice: the sums of the order row,  *)
(* the group, the items as stored, the items as priced today, the usage    *)
(* row of the promo code.  Nothing here changes an order.                  *)
(***************************************************************************)
EXTENDS Checkout

\* (Mutant: the row of another order of the customer is found, too.)
UsagesOfCustomer(o) == {r \in usage : r.user = order[o].customer}

\* PromoCodeUsage.objects.get(order=obj, user=obj.customer)
Usages(o) == {r \in usage : r.order = o /\ r.user = order[o].customer}

\* The discount customers, couriers and restaurant are shown: the sum the code of
\* the usage row has now, nothing without a row.
get_discount_sum(o) ==
    IF Usages(o) = {} THEN 0 ELSE promo[(CHOOSE r \in Usages(o) : TRUE).code].sum

\* Courier and restaurant are not shown order.total_sum, but a total of their own.
get_prices(o) ==
    [discount |-> get_discount_sum(o),
     total    |-> (sums[o].delivering + sums[o].products) - get_discount_sum(o)]

\* The total in the message about a new order; a package with quantity 0 is not in it.
NotifiedTotal(o) == group[o].total + sums[o].quantity * sums[o].package

-----------------------------------------------------------------------------
(* Reports.                                                                *)

Closed == {o \in Placed : order[o].status = "closed"}

Over(S, f) == Sum([o \in Orders |-> IF o \in S THEN f[o] ELSE 0], MaxOrders)

\* "tax_percentage_ordinary or 0"
Tax == IF institution.tax = NoTax THEN 0 ELSE institution.tax

\* The items of closed orders as they are priced today, incidents among them, and
\* the delivery once for every item.  "diff", in hundredths: what is left of them
\* without income and Payme's one percent, its sign turned if less than the sales.
ReportAPIView ==
    LET products == Over(Closed, [o \in Orders |-> Sum(Gross(o), MaxItems)])
        income   == products * Tax
        diff     == IF products = 0 THEN income ELSE 100 * products - income - products
    IN  [products |-> products,
         delivery |-> Over(Closed, [o \in Orders |-> sums[o].delivering * Cardinality(ItemsOf(o))]),
         diff     |-> IF diff < 100 * products THEN -diff ELSE diff]

\* The groups of closed orders (and of those on their way, a status that Checkout does
\* not have), and the stored sums of their items; "diff" as above.
InstitutionReportAPIView ==
    LET products == Over(Closed, [o \in Orders |-> group[o].products])
    IN  [products |-> products,
         taxed    |-> Over(Closed, [o \in Orders |->
                         Sum([i \in ItemIds |-> IF i \in ItemsOf(o) THEN item[i].total ELSE 0], MaxItems)]),
         diff     |-> 100 * products - products * Tax]

\* What the rows of paid orders and their groups hold.
OrderStatsView ==
    LET paid == {o \in Closed : order[o].paid}
    IN  [total      |-> Over(paid, [o \in Orders |-> sums[o].total]),
         commission |-> Over(paid, [o \in Orders |-> group[o].commission])]

\* The institution's own report: the groups of closed orders.
OrderReportView ==
    [products           |-> Over(Closed, [o \in Orders |-> group[o].products]),
     without_commission |-> Over(Closed, [o \in Orders |-> group[o].products - group[o].commission])]

\* The restaurant's statistics: the order rows, with their packages.
order_stats == Over(Closed, [o \in Orders |-> sums[o].products])

\* What the couriers of closed orders earned.
PaymentHistory == Over(Closed, [o \in Orders |-> sums[o].delivering])

-----------------------------------------------------------------------------
(* Properties.                                                             *)

\* Whoever carries or cooks an order is told the total the customer owes, though it
\* is not read from the order (get_prices, get_discount_sum): whatever edits, status
\* changes and other orders of the customer do, lost updates included, the usage row
\* and the sums stay in step.  Not so after a rejection, which deletes the row and
\* leaves the discount in the sums, nor for a code that was never used up or whose
\* sum was edited since.
ShownIsOwed ==
    \A o \in Placed \ released :
        (order[o].code # NoCode => order[o].matched /\ promo[order[o].code].sum = sums[o].discount)
        => get_prices(o) = [discount |-> sums[o].discount, total |-> sums[o].total]

\* The reports speak of the same money: without edits, and at the prices the orders
\* were placed at, the products of ReportAPIView (prices of today), of the groups
\* (InstitutionReportAPIView, OrderReportView) and of their items agree; what the
\* restaurant's statistics and the couriers' earnings come to is, less discounts,
\* the total of OrderStatsView; the commission they hold is the percentage up to
\* its rounding; what the two settlements leave differs by Payme's one percent; and
\* the restaurant was told the total without the discount.
ReportsAgree ==
    (\A o \in Closed : o \notin edited /\ price = cost[o] /\ order[o].paid) =>
        LET products == ReportAPIView.products
        IN  /\ products = InstitutionReportAPIView.products
            /\ products = InstitutionReportAPIView.taxed
            /\ order_stats = products + Over(Closed, [o \in Orders |-> PackageSum(sums[o].package, sums[o].quantity)])
            /\ OrderStatsView.total =
                 order_stats + PaymentHistory - Over(Closed, [o \in Orders |-> sums[o].discount])
            /\ OrderReportView.without_commission = products - OrderStatsView.commission
            /\ \A o \in Closed : sums[o].quantity > 0 \/ sums[o].package = 0 =>
                 NotifiedTotal(o) = sums[o].total + sums[o].discount
            /\ -ReportAPIView.diff = InstitutionReportAPIView.diff - products
            /\ ~institution.own /\ institution.tax # NoTax =>
                 LET off == 100 * OrderStatsView.commission - institution.tax * products
                 IN  off <= 500 * placed /\ -off <= 500 * placed
=============================================================================
