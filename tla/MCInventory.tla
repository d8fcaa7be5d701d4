----------------------------- MODULE MCInventory -----------------------------
(* Three checkouts over one or two variants, with stock for only some.         *)
EXTENDS Holds

CONSTANTS o1, o2, o3, v1, v2, c1, p1, w1

\* o1 buys both variants, o2 and o3 compete with it for one each.
MCLines    == {<<o1, v1>>, <<o1, v2>>, <<o2, v1>>, <<o3, v2>>} \cap (Orders \X Variants)
MCQuantity == [r \in MCLines |-> IF r = <<o1, v1>> THEN 2 ELSE 1]

\* Enough for o1 and o2 together in v1, for one order only in v2.
MCStock == [v \in Variants |-> IF v = v1 THEN 3 ELSE 1]

\* All three compete for one variant, with stock for o1 alone or for the others.
RaceLines    == Orders \X {v1}
RaceQuantity == [r \in RaceLines |-> IF r = <<o1, v1>> THEN 2 ELSE 1]
RaceStock    == [v \in Variants |-> 2]
=============================================================================
