------------------------------ MODULE MCOutbox ------------------------------
(* Three messages, one of a type without handlers, two relays. *)
EXTENDS Outbox

CONSTANTS w1, w2
=============================================================================
