---------------------------- MODULE MCFulfilment ----------------------------
(* Two orders that compete for v1, the first of which also buys v2; two      *)
(* deliveries of the event that pays the first, one that pays the second and *)
(* one of another type.                                                      *)
EXTENDS Fulfilment

CONSTANTS o1, o2, v1, v2, e1, e2, e3, d1, d2, d3, d4, c1, w1

MCLines    == {<<o1, v1>>, <<o1, v2>>, <<o2, v1>>} \cap (Orders \X Variants)
MCQuantity == [r \in MCLines |-> 1]
MCEventOf  == [d \in Payers |-> CASE d = d3 -> e2 [] d = d4 -> e3 [] OTHER -> e1]
MCOrderFor == [e \in Events |-> CASE e = e1 -> o1 [] e = e2 -> o2 [] OTHER -> NoOrder]
OneUnit    == [v \in Variants |-> 1]
TwoUnits   == [v \in Variants |-> 2]
=============================================================================
