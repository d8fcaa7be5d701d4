---------------------------- MODULE MCStorefront ----------------------------
(* Two variants of two rates: 25 % and 12 %. Two of one at the higher price ship *)
(* freely, just; the VAT of the lower price at 12 % is 3571.5, less the digits   *)
(* that are cut off.                                                             *)
EXTENDS Storefront, TLC

MCvat_rate == [v \in Variants |-> IF v = "a" THEN 250 ELSE 120]

MCHalvesLost == {<<33334, 120>>}

RequestSymmetry == Permutations(Requests)
=============================================================================
