----------------------------- MODULE Storefront -----------------------------
(***************************************************************************)
(* The cart on the screen and the order made from it: the cart context and *)
(* the checkout form of the storefront (cart-provider.tsx,                 *)
(* checkout-form.tsx), whose requests overlap and whose answers come in    *)
(* any order or not at all, against the cart router and place_order, while *)
(* prices change.                                                          *)
(*                                                                         *)
(* A cart request reads the cart, works out one line of it, and commits    *)
(* that line.  Its answer is what it has read and written, at the prices   *)
(* of that moment.                                                         *)
(***************************************************************************)
EXTENDS Pricing

CONSTANTS
    Requests,      \* requests that may be under way at once
    Prices,        \* of variants
    Quantities,    \* that a shopper adds or sets
    MAX_LINE_QUANTITY,
    Nothing,       \* no cart on the screen, no answer yet
    MaxEvents      \* bound: requests sent and prices changed in one visit

NoLine == [quantity |-> 0, noted |-> 0]
Lines  == {NoLine} \cup [quantity : 1..MAX_LINE_QUANTITY, noted : Prices]
Carts  == [Variants -> Lines]

\* What CartOut can be.
AllTotals ==
    {Totals(q, u) : q \in [Variants -> 0..MAX_LINE_QUANTITY], u \in [Variants -> Prices]}
CartOuts ==
    [quantity : [Variants -> 0..MAX_LINE_QUANTITY], flagged : SUBSET Variants,
     totals : AllTotals, no : Nat, whole : BOOLEAN]

ASSUME StorefrontAssumption ==
    /\ Prices \subseteq Nat
    /\ Nothing \notin CartOuts
    /\ Quantities \subseteq Nat
    /\ MAX_LINE_QUANTITY \in Nat \ {0}
    /\ MaxEvents \in Nat

VARIABLES
    price,     \* product_variants.price_minor_units
    cart,      \* the committed lines of the open cart
    view,      \* the cart of CartProvider
    request,   \* the calls of run
    checkout,  \* place_order, as far as it has got
    outcome,   \* the answer to the last POST /checkout
    clock,     \* history: commits and new prices in this visit
    doubt,     \* history: answers crossed, a re-sync failed or an order was placed
    events     \* history: for the bound

storefrontVars == <<price, cart, view, request, checkout, outcome, clock, doubt, events>>

-----------------------------------------------------------------------------
(* Carts and requests. *)

EmptyCart == [v \in Variants |-> NoLine]

QuantitiesOf(lines) == [v \in Variants |-> lines[v].quantity]

\* repricing_report
Drifted(lines) == {v \in Variants : lines[v].quantity > 0 /\ lines[v].noted # price[v]}

\* CartOut: the lines, the sums, and (history) when it was true, if it ever was.
CartOut(lines, no, whole) ==
    [quantity |-> QuantitiesOf(lines), flagged |-> Drifted(lines),
     totals |-> Totals(QuantitiesOf(lines), price), no |-> no, whole |-> whole]

Read == [kind |-> "read"]
Ops  == {Read} \cup [kind : {"add"}, of : Variants, n : Quantities \ {0}]
               \cup [kind : {"set"}, of : Variants, n : Quantities]

\* base: whether the cart is still as it was read ("current"), has been changed
\* ("overtaken"), has lost or got the line in question ("lost"), or was ordered
\* ("closed"). alone: nothing else was sent or ordered meanwhile (history).
Idle ==
    [step |-> "idle", op |-> Read, resync |-> FALSE, loaded |-> EmptyCart, line |-> NoLine,
     base |-> "current", alone |-> TRUE, answer |-> Nothing]

NoOrder == [step |-> "idle", accept |-> FALSE, lines |-> EmptyCart, since |-> 0, repriced |-> {},
            unit |-> [v \in Variants |-> 0]]

NoOutcome == [kind |-> "none"]

InFlight == {r \in Requests : request[r].step # "idle"}

Becomes(r, update) == request' = [request EXCEPT ![r] = update]

StorefrontInit ==
    /\ price \in [Variants -> Prices]
    /\ cart = EmptyCart
    /\ view = Nothing
    /\ request = [r \in Requests |-> Idle]
    /\ checkout = NoOrder
    /\ outcome = NoOutcome
    /\ clock = 0 /\ doubt = FALSE /\ events = 0

-----------------------------------------------------------------------------
(* The browser: refresh, addItem, setQuantity, and run around them. *)

\* A line must be on the screen for its quantity to be set.
Send(r, o) ==
    /\ request[r].step = "idle"
    /\ o.kind = "set" => view # Nothing /\ view.quantity[o.of] > 0
    /\ events < MaxEvents /\ events' = events + 1
    /\ request' = [s \in Requests |->
           IF s = r THEN [Idle EXCEPT !.step = "sent", !.op = o, !.alone = (InFlight = {})]
           ELSE [request[s] EXCEPT !.alone = request[s].step = "idle"]]
    /\ UNCHANGED <<price, cart, view, checkout, outcome, clock, doubt>>

\* setCart, with whatever answer comes.
Deliver(r) ==
    /\ request[r].step = "answered"
    /\ view' = request[r].answer
    /\ doubt' = IF request[r].alone THEN FALSE
                ELSE doubt \/ ~view'.whole \/ (view # Nothing /\ view'.no < view.no)
    /\ Becomes(r, Idle)
    /\ UNCHANGED <<price, cart, checkout, outcome, clock, events>>

\* Mutant: the error is shown, and no more.
ResyncNever(r) ==
    /\ request[r].step = "failed" /\ ~request[r].resync
    /\ Becomes(r, Idle)
    /\ UNCHANGED <<price, cart, view, checkout, outcome, clock, doubt, events>>

\* catch: GET /cart.
Resync(r) ==
    /\ request[r].step = "failed" /\ ~request[r].resync
    /\ Becomes(r, [Idle EXCEPT !.step = "sent", !.resync = TRUE, !.alone = request[r].alone])
    /\ UNCHANGED <<price, cart, view, checkout, outcome, clock, doubt, events>>

\* "leave the previous state in place"
GiveUp(r) ==
    /\ request[r].step = "failed" /\ request[r].resync
    /\ Becomes(r, Idle)
    /\ doubt' = TRUE
    /\ UNCHANGED <<price, cart, view, checkout, outcome, clock, events>>

-----------------------------------------------------------------------------
(* The cart router. *)

\* Mutant: without min.
ChangedUncapped(o) ==
    LET n == IF o.kind = "add" THEN cart[o.of].quantity + o.n ELSE o.n
    IN  IF n = 0 THEN NoLine
        ELSE [quantity |-> n, noted |-> IF o.kind = "add" THEN price[o.of] ELSE cart[o.of].noted]

\* add_item and set_quantity: the line they leave.
Changed(o) ==
    LET sum == IF o.kind = "add" THEN cart[o.of].quantity + o.n ELSE o.n
        n   == IF sum > MAX_LINE_QUANTITY THEN MAX_LINE_QUANTITY ELSE sum
    IN  IF n = 0 THEN NoLine
        ELSE [quantity |-> n, noted |-> IF o.kind = "add" THEN price[o.of] ELSE cart[o.of].noted]

Act(r) ==
    LET o == request[r].op IN
    /\ request[r].step = "sent"
    /\ o.kind = "set" => cart[o.of].quantity > 0
    /\ Becomes(r, [request[r] EXCEPT !.step = "acting", !.loaded = cart,
                                     !.line = IF o = Read THEN NoLine ELSE Changed(o)])
    /\ UNCHANGED <<price, cart, view, checkout, outcome, clock, doubt, events>>

\* Cart as the request leaves it, and as it has seen it then.
WithLine(lines, r) ==
    IF request[r].op = Read THEN lines ELSE [lines EXCEPT ![request[r].op.of] = request[r].line]

\* An INSERT needs a row that is not there, an UPDATE the row that was read; a
\* DELETE of a row that is gone does nothing.
Possible(r) ==
    LET req == request[r] IN
    req.base = "lost" =>
        \/ req.line = NoLine
        \/ req.loaded[req.op.of] = NoLine /\ cart[req.op.of] = NoLine

Writes(r) ==
    LET req == request[r] IN
    req.op # Read /\ req.base # "closed" /\ (req.base = "lost" => req.line # NoLine)

\* What a commit of r is to another request: it makes or takes the row that one is
\* about, or some row it has read.
Overtaken(s, r) ==
    LET req == request[s]  o == request[r].op IN
    IF req.step # "acting" \/ req.base = "closed" THEN req.base
    ELSE IF req.op # Read /\ req.op.of = o.of /\ (cart[o.of] = NoLine) # (request[r].line = NoLine)
         THEN "lost"
    ELSE IF req.base = "lost" THEN "lost" ELSE "overtaken"

\* The commit, and _serialise after it.
Commit(r) ==
    LET req == request[r]
        now == IF Writes(r) THEN clock + 1 ELSE clock
    IN
    /\ req.step = "acting" /\ Possible(r)
    /\ cart' = IF Writes(r) THEN WithLine(cart, r) ELSE cart
    /\ clock' = now
    /\ request' = [s \in Requests |->
           IF s = r
           THEN [Idle EXCEPT !.step = "answered", !.op = req.op, !.resync = req.resync,
                     !.alone = req.alone,
                     !.answer = CartOut(WithLine(req.loaded, r), now, req.base = "current")]
           ELSE [request[s] EXCEPT !.base = IF Writes(r) THEN Overtaken(s, r) ELSE @]]
    /\ UNCHANGED <<price, view, checkout, outcome, doubt, events>>

\* Refused (no stock, no such line), rolled back, or lost on the way.
Fail(r) ==
    /\ request[r].step \in {"sent", "acting", "answered"}
    /\ Becomes(r, [Idle EXCEPT !.step = "failed", !.resync = request[r].resync,
                               !.alone = request[r].alone])
    /\ UNCHANGED <<price, cart, view, checkout, outcome, clock, doubt, events>>

-----------------------------------------------------------------------------
(* The order. *)

\* History: whether the shopper sees the cart and the prices as they are.
Informed == view # Nothing /\ view.whole /\ view.no = clock

Ordering(from) ==
    /\ checkout.step = from
    /\ from = "idle" => outcome.kind # "order" /\ cart # EmptyCart

\* Mutant: the report is made, and not looked at.
ReportUnread(accept) ==
    /\ Ordering("idle")
    /\ checkout' = [NoOrder EXCEPT !.step = "reported", !.accept = accept, !.lines = cart,
                                  !.since = clock]
    /\ outcome' = NoOutcome
    /\ UNCHANGED <<price, cart, view, request, clock, doubt, events>>

\* place_order up to the addresses. The form never accepts, but others may.
Report(accept) ==
    /\ Ordering("idle")
    /\ accept \/ Drifted(cart) = {}
    /\ checkout' = [NoOrder EXCEPT !.step = "reported", !.accept = accept, !.lines = cart,
                                  !.since = clock]
    /\ outcome' = NoOutcome
    /\ UNCHANGED <<price, cart, view, request, clock, doubt, events>>

\* PriceChangedError
RefuseDrift ==
    /\ Ordering("idle")
    /\ Drifted(cart) # {}
    /\ outcome' = [kind |-> "changed", informed |-> Informed,
                   shown |-> IF view = Nothing THEN {} ELSE view.flagged]
    /\ UNCHANGED <<price, cart, view, request, checkout, clock, doubt, events>>

\* The variants are read again: those of the report are no longer in the session.
Load ==
    /\ Ordering("reported")
    /\ checkout' = [checkout EXCEPT !.step = "loaded", !.unit = price]
    /\ UNCHANGED <<price, cart, view, request, outcome, clock, doubt, events>>

\* Mutant: totals reads the prices once more.
TotalsReadAgain(lines, unit) == Totals(QuantitiesOf(lines), price)

\* totals: its query returns the variants that are in the session.
OrderTotals(lines, unit) == Totals(QuantitiesOf(lines), unit)

Place ==
    LET lines == checkout.lines  unit == checkout.unit IN
    /\ Ordering("loaded")
    /\ outcome' =
           [kind |-> "order", accept |-> checkout.accept, repriced |-> checkout.repriced,
            noted |-> [v \in Variants |-> lines[v].noted],
            rows |-> [v \in Variants |->
                         [quantity |-> lines[v].quantity, unit |-> unit[v],
                          line_total |-> Gross(QuantitiesOf(lines), unit)[v]]],
            totals |-> OrderTotals(lines, unit),
            informed |-> Informed /\ checkout.since = clock,
            shown |-> IF view = Nothing THEN Nothing ELSE view.totals]
    /\ checkout' = NoOrder
    /\ cart' = EmptyCart
    /\ clock' = clock + 1
    /\ doubt' = TRUE
    /\ request' = [r \in Requests |->
           [request[r] EXCEPT !.base = IF request[r].step = "acting" THEN "closed" ELSE @,
                              !.alone = request[r].step = "idle"]]
    /\ UNCHANGED <<price, view, events>>

AbortCheckout ==
    /\ checkout.step # "idle"
    /\ checkout' = NoOrder
    /\ UNCHANGED <<price, cart, view, request, outcome, clock, doubt, events>>

-----------------------------------------------------------------------------

\* From outside the program.
Reprice(v, p) ==
    /\ price[v] # p
    /\ events < MaxEvents /\ events' = events + 1
    /\ price' = [price EXCEPT ![v] = p]
    /\ clock' = clock + 1
    /\ checkout' = [checkout EXCEPT !.repriced = IF checkout.step = "reported" THEN @ \cup {v} ELSE @]
    /\ UNCHANGED <<cart, view, request, outcome, doubt>>

\* Another shopper, at the prices there are.
NextShopper ==
    /\ InFlight = {} /\ checkout.step = "idle"
    /\ cart' = EmptyCart /\ view' = Nothing /\ outcome' = NoOutcome
    /\ clock' = 0 /\ doubt' = FALSE /\ events' = 0
    /\ UNCHANGED <<price, request, checkout>>

Browser(r) == (\E o \in Ops : Send(r, o)) \/ Deliver(r) \/ Resync(r) \/ GiveUp(r)

Router(r) == Act(r) \/ Commit(r) \/ Fail(r)

Ordered == (\E accept \in BOOLEAN : Report(accept)) \/ RefuseDrift \/ Load \/ Place \/ AbortCheckout

StorefrontNext ==
    \/ \E r \in Requests : Browser(r) \/ Router(r)
    \/ Ordered
    \/ \E v \in Variants, p \in Prices : Reprice(v, p)
    \/ NextShopper

StorefrontSpec == StorefrontInit /\ [][StorefrontNext]_storefrontVars

-----------------------------------------------------------------------------
(* What holds. *)

\* When every answer is in, the screen shows the cart there is, whatever was
\* refused or lost on the way; unless answers crossed, a re-sync failed as well or
\* an order was placed, which the page does not follow. A request that ran alone
\* makes good for that. Sums are those of the prices until one changes.
ViewIsCurrent ==
    InFlight = {} /\ view # Nothing /\ ~doubt =>
        /\ view.quantity = QuantitiesOf(cart)
        /\ view.no = clock => view.totals = Totals(view.quantity, price)

\* The VAT in an amount is right to within half a unit.
RoundsWell(gross, rate) ==
    LET half  == 1000 + rate
        twice == 2 * (half * VatIn(gross, rate) - gross * rate)
    IN  -half <= twice /\ twice <= half

\* Rows make the subtotal of an order and, by rate, its VAT, each row's to within
\* half a unit.
AddsUp(rows, totals) ==
    LET sold == {v \in Variants : rows[v].quantity > 0} IN
    /\ sold # {}
    /\ totals.subtotal = SumFunction([v \in Variants |-> rows[v].quantity * rows[v].unit])
    /\ totals.vat = SumFunction(VatBreakdown(rows))
    /\ totals.total = totals.subtotal + totals.shipping
    /\ totals.shipping = 0 <=>
          totals.subtotal = 0 \/ totals.subtotal >= FREE_SHIPPING_THRESHOLD
    /\ \A v \in sold : RoundsWell(rows[v].line_total, vat_rate[v])

\* An order adds up, also when prices change while it is placed.
OrderAddsUp == outcome.kind = "order" => AddsUp(outcome.rows, outcome.totals)

\* "Instead of silently charging a different amount" (modules/cart/models.py): who
\* has not accepted new prices pays those of when the items were added, unless
\* one changes after the report, which is charged in silence; and who looks at the
\* cart as it is, and as it stays, pays the total on the screen, and is refused only
\* when a line there is flagged.
ChargedAsAgreed ==
    /\ outcome.kind = "changed" /\ outcome.informed => outcome.shown # {}
    /\ outcome.kind = "order" =>
          /\ outcome.informed => outcome.totals = outcome.shown
          /\ ~outcome.accept =>
                \A v \in Variants \ outcome.repriced :
                    outcome.rows[v].quantity > 0 => outcome.rows[v].unit = outcome.noted[v]

RequestTypes ==
    [step : {"idle", "sent", "acting", "answered", "failed"}, op : Ops, resync : BOOLEAN,
     loaded : Carts, line : Lines, base : {"current", "overtaken", "lost", "closed"},
     alone : BOOLEAN, answer : CartOuts \cup {Nothing}]

StorefrontTypeOK ==
    /\ price \in [Variants -> Prices]
    /\ cart \in Carts
    /\ view \in CartOuts \cup {Nothing}
    /\ request \in [Requests -> RequestTypes]
    /\ \A r \in Requests : request[r].step = "answered" <=> request[r].answer # Nothing
    /\ checkout \in [step : {"idle", "reported", "loaded"}, accept : BOOLEAN, lines : Carts,
                     since : Nat, repriced : SUBSET Variants,
                     unit : [Variants -> Prices \cup {0}]]
    /\ clock \in Nat /\ doubt \in BOOLEAN /\ events \in 0..MaxEvents

\* A request that is alone is the only one; what it has read is there as long as
\* nobody has overtaken it.
RequestsInOrder ==
    \A r \in InFlight :
        /\ request[r].alone => InFlight = {r}
        /\ request[r].step = "sent" => request[r].base = "current"
        /\ request[r].step = "acting" =>
              /\ request[r].base = "current" => request[r].loaded = cart
              /\ request[r].alone => request[r].base = "current"

\* What an answer is worth when the cart was changed last at n.
Stands(a, n) ==
    /\ a.no <= clock
    /\ a.no = clock => a.totals = Totals(a.quantity, price)
    /\ a.whole /\ a.no >= n => a.quantity = QuantitiesOf(cart)
    /\ a.whole /\ a.no = clock => a.flagged = Drifted(cart)

\* A request will bring that change to the screen, or doubt.
Brings(r, n) ==
    request[r].step = "answered" => ~request[r].answer.whole \/ request[r].answer.no >= n

\* With every change of the cart there is one that brings it, until it is shown.
FollowsFrom(n) ==
    /\ view # Nothing => Stands(view, n)
    /\ \A r \in Requests :
          request[r].step = "answered" =>
              /\ Stands(request[r].answer, n)
              /\ request[r].alone => request[r].answer.whole /\ request[r].answer.no >= n
    /\ \/ doubt
       \/ view = Nothing /\ n = 0
       \/ view # Nothing /\ view.whole /\ view.no >= n
       \/ \E r \in InFlight : Brings(r, n)

ViewFollows == \E n \in 0..clock : FollowsFrom(n)

\* place_order holds the cart it has read, and prices that were agreed to.
CheckoutHolds ==
    checkout.step # "idle" =>
        /\ checkout.since <= clock
        /\ checkout.since = clock =>
              /\ checkout.lines = cart
              /\ checkout.step = "loaded" => checkout.unit = price
        /\ ~checkout.accept =>
              \A v \in Variants \ checkout.repriced :
                  checkout.lines[v].quantity > 0 =>
                      checkout.lines[v].noted =
                          IF checkout.step = "loaded" THEN checkout.unit[v] ELSE price[v]

\* place_order sells something, at prices there are.
GoodsAreSold ==
    checkout.step # "idle" =>
        /\ \E v \in Variants : checkout.lines[v].quantity > 0
        /\ checkout.step = "loaded" => checkout.unit \in [Variants -> Prices]

AgreementInv ==
    /\ StorefrontTypeOK
    /\ RequestsInOrder
    /\ ViewFollows
    /\ CheckoutHolds
    /\ ChargedAsAgreed

StorefrontInv ==
    /\ AgreementInv
    /\ GoodsAreSold
    /\ OrderAddsUp
=============================================================================
