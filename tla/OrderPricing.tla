---------------------------- MODULE OrderPricing ----------------------------
(***************************************************************************)
(* The arithmetic of an order: delivery price, commission, the discount and *)
(* how payme() spreads it over the lines of a receipt (order/services.py). *)
(* Lines are functions over 1..n; a line that does not exist is 0.         *)
(***************************************************************************)
EXTENDS Integers

Smaller(a, b) == IF a < b THEN a ELSE b
Larger(a, b)  == IF a < b THEN b ELSE a

\* The integer nearest to a/b, the even one of two: Python's round().
HalfEven(a, b) ==
    LET q == a \div b
        r == a % b
    IN  IF 2 * r < b THEN q ELSE IF 2 * r > b THEN q + 1 ELSE q + (q % 2)

\* The multiple of "unit" nearest to a/b: round(a / b, -1) and round(a / b, -2).
Rounded(a, b, unit) == unit * HalfEven(a, b * unit)

Sum(f, n) ==
    LET S[k \in 0..n] == IF k = 0 THEN 0 ELSE S[k - 1] + f[k] IN S[n]

\* calculate_delivering_sum, with the institution's own settings.
DeliveringSum(free, settings, distance) ==
    CASE free -> 0
      [] ~free /\ distance < settings.minDistance -> settings.minPrice
      [] OTHER -> Rounded(settings.minPrice + settings.perKm * distance, 1, 100)

\* _calculate_commission, and the one of recalculate_order_products.
Commission(products, percentage) == Rounded(products * percentage, 100, 10)

\* The package counts once when its quantity is 0 (_calculate_products_sum; in
\* payme() the same as "package_quantity or 1").
PackageSum(amount, quantity) == amount * (IF quantity > 0 THEN quantity ELSE 1)

\* (Mutant: the remainder is not lowered by a line it covers.)
LineDiscountsNotLowered(amounts, n, discount) ==
    [k \in 1..n |-> Smaller(amounts[k], discount)]

\* The discount of each line of a receipt, in the order of the lines: all of a
\* line while the remainder lasts, then what is left of it, then nothing.
LineDiscounts(amounts, n, discount) ==
    LET Left[k \in 0..n] ==
            IF k = 0 THEN discount
            ELSE IF Left[k - 1] > 0 THEN Left[k - 1] - amounts[k] ELSE Left[k - 1]
    IN  [k \in 1..n |-> IF Left[k - 1] > 0 THEN Smaller(amounts[k], Left[k - 1]) ELSE 0]

=============================================================================
