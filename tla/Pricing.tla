------------------------------- MODULE Pricing -------------------------------
(***************************************************************************)
(* The sums of a cart and of an order, in minor units: Money               *)
(* (backend/app/core/money.py), CartService.totals, and the rows, the VAT  *)
(* and the total of an order (backend/app/modules/orders/service.py).      *)
(*                                                                         *)
(* Prices include VAT.  A quantity of 0 is a line that is not there.       *)
(***************************************************************************)
EXTENDS Integers, FiniteSets, Functions

CONSTANTS
    Variants,
    vat_rate,                  \* of a variant, in thousandths
    HalvesLost,                \* <<gross, rate>> whose half minor unit is cut off
    FREE_SHIPPING_THRESHOLD,
    STANDARD_SHIPPING

ASSUME PricingAssumption ==
    /\ IsFiniteSet(Variants)
    /\ vat_rate \in [Variants -> Nat]
    /\ FREE_SHIPPING_THRESHOLD \in Nat /\ STANDARD_SHIPPING \in Nat \ {0}

\* apply_rate(rate / (1 + rate)), ROUND_HALF_UP; but rate / (1 + rate) has 28
\* digits, and where those are too few an exact half falls short of a half: at
\* 12 %, 14 has a VAT of 1, and 98 one of 11.
VatIn(gross, rate) ==
    LET twice  == 2 * gross * rate + 1000 + rate
        double == 2 * (1000 + rate)
        lost   == twice % double = 0 /\ <<gross, rate>> \in HalvesLost
    IN  (twice \div double) - (IF lost THEN 1 ELSE 0)

Gross(quantity, unit) == [v \in Variants |-> quantity[v] * unit[v]]

ShippingFor(subtotal) ==
    IF subtotal >= FREE_SHIPPING_THRESHOLD \/ subtotal = 0 THEN 0 ELSE STANDARD_SHIPPING

\* CartTotals
Totals(quantity, unit) ==
    LET gross    == Gross(quantity, unit)
        subtotal == SumFunction(gross)
    IN  [subtotal |-> subtotal,
         vat      |-> SumFunction([v \in Variants |-> VatIn(gross[v], vat_rate[v])]),
         shipping |-> ShippingFor(subtotal),
         total    |-> subtotal + ShippingFor(subtotal)]

\* vat_breakdown, from the rows of an order.
VatBreakdown(rows) ==
    LET sold  == {v \in Variants : rows[v].quantity > 0}
        parts == [v \in sold |-> VatIn(rows[v].line_total, vat_rate[v])]
    IN  [rate \in {vat_rate[v] : v \in sold} |->
            SumFunctionOnSet(parts, {v \in sold : vat_rate[v] = rate})]
==============================================================================
