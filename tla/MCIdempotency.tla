---------------------------- MODULE MCIdempotency ----------------------------
(* Three requests under one key, the form's retries, and one of a second tab. *)
EXTENDS Idempotency

CONSTANTS r1, r2, r3, r4, k1, k2, x1, x2

MCKeyOf == [r \in Requests |-> IF r = r4 THEN k2 ELSE k1]
=============================================================================
