------------------------------- MODULE Basket -------------------------------
(***************************************************************************)
(* What the cart API promises one shopper: a basket before sign-in and one *)
(* after it, on which every request acts at one instant or not at all.     *)
(***************************************************************************)
EXTENDS Integers, FiniteSets

CONSTANTS
    Variants,      \* product variants
    MaxQuantity,   \* MAX_LINE_QUANTITY
    MaxLines       \* MAX_DISTINCT_LINES

VARIABLES
    basket,   \* quantity of each variant, for "guest" and for "user"
    order     \* lines of the shopper's last order

basketVars == <<basket, order>>

Empty     == [v \in Variants |-> 0]
Capped(n) == IF n < MaxQuantity THEN n ELSE MaxQuantity
LinesIn(b) == {v \in Variants : b[v] > 0}

\* "Quantities are summed and clamped rather than overwritten."
Folded(g, u) == [v \in Variants |-> Capped(g[v] + u[v])]

BasketInit ==
    /\ basket = [o \in {"guest", "user"} |-> Empty]
    /\ order = Empty

\* What request w does.
Serve(w) ==
    \/ /\ w.kind = "read"
       /\ UNCHANGED basketVars
    \/ /\ w.kind = "add"
       /\ basket[w.owner][w.variant] = 0 => Cardinality(LinesIn(basket[w.owner])) < MaxLines
       /\ basket' = [basket EXCEPT ![w.owner][w.variant] = Capped(@ + w.quantity)]
       /\ UNCHANGED order
    \/ /\ w.kind = "set"
       /\ basket[w.owner][w.variant] > 0
       /\ basket' = [basket EXCEPT ![w.owner][w.variant] = Capped(w.quantity)]
       /\ UNCHANGED order
    \/ /\ w.kind = "clear"
       /\ basket' = [basket EXCEPT ![w.owner] = Empty]
       /\ UNCHANGED order
    \/ /\ w.kind = "sign_in"
       /\ basket' = [basket EXCEPT !["guest"] = Empty,
                                   !["user"] = Folded(basket["guest"], basket["user"])]
       /\ UNCHANGED order
    \/ /\ w.kind = "checkout"
       /\ basket["user"] # Empty
       /\ basket' = [basket EXCEPT !["user"] = Empty]
       /\ order' = basket["user"]
=============================================================================
