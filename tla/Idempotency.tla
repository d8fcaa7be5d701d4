----------------------------- MODULE Idempotency -----------------------------
(***************************************************************************)
(* POST /checkout between its two stores: the idempotency keys in Redis    *)
(* (backend/app/core/idempotency.py) and the cart and the order in         *)
(* Postgres (the checkout handler of backend/app/api/routers/checkout.py). *)
(* No transaction spans both, so a request that dies or is slow leaves     *)
(* them apart.  Reservation and payment are module Fulfilment's; here      *)
(* place_order succeeds or fails as a whole.                               *)
(***************************************************************************)
CONSTANTS
    Requests,    \* POST /checkout requests of one shopper
    Keys,        \* values of the Idempotency-Key header
    KeyOf,       \* the key each request carries
    Carts,       \* the shopper's successive carts
    NoCart

ASSUME IdempotencyAssumption ==
    /\ KeyOf \in [Requests -> Keys]
    /\ NoCart \notin Carts
    /\ Requests \cap {"absent", "in_progress", "none", "conflict", "no_cart", "error"} = {}

VARIABLES
    store,     \* Redis: a key is absent, in progress or holds the response
               \* of a request, which is named by that request
    openCart,  \* the shopper's cart with no checked_out_at
    spent,     \* carts that are checked out
    ordered,   \* the cart a request has placed a committed order for
    step,      \* where a request is
    cart,      \* the cart a request has loaded
    answer     \* the response of a request

idempotencyVars == <<store, openCart, spent, ordered, step, cart, answer>>

IdempotencyTypeOK ==
    /\ store \in [Keys -> {"absent", "in_progress"} \cup Requests]
    /\ openCart \in Carts \cup {NoCart}
    /\ spent \subseteq Carts
    /\ ordered \in [Requests -> Carts \cup {NoCart}]
    /\ step \in [Requests -> {"idle", "refused", "claimed", "placing", "committed",
                              "no_cart", "error", "over"}]
    /\ cart \in [Requests -> Carts \cup {NoCart}]
    /\ answer \in [Requests -> {"none", "conflict", "no_cart", "error"} \cup Requests]

IdempotencyInit ==
    /\ store = [k \in Keys |-> "absent"]
    /\ openCart \in Carts
    /\ spent = {}
    /\ ordered = [r \in Requests |-> NoCart]
    /\ step = [r \in Requests |-> "idle"]
    /\ cart = [r \in Requests |-> NoCart]
    /\ answer = [r \in Requests |-> "none"]

\* Requests between claim and the end of their handler.
Working(r) == step[r] \in {"claimed", "placing", "committed", "no_cart", "error"}

GoTo(r, s)     == step' = [step EXCEPT ![r] = s]
Answer(r, a)   == GoTo(r, "over") /\ answer' = [answer EXCEPT ![r] = a]
Remember(k, x) == store' = [store EXCEPT ![k] = x]

-----------------------------------------------------------------------------
(* claim *)

\* Mutant: NX is forgotten.
ClaimAnyway(r) ==
    /\ step[r] = "idle"
    /\ store[KeyOf[r]] \notin Requests
    /\ Remember(KeyOf[r], "in_progress")
    /\ GoTo(r, "claimed")
    /\ UNCHANGED <<openCart, spent, ordered, cart, answer>>

\* SET NX
Claim(r) ==
    /\ step[r] = "idle"
    /\ store[KeyOf[r]] = "absent"
    /\ Remember(KeyOf[r], "in_progress")
    /\ GoTo(r, "claimed")
    /\ UNCHANGED <<openCart, spent, ordered, cart, answer>>

FindClaimed(r) ==
    /\ step[r] = "idle"
    /\ store[KeyOf[r]] # "absent"
    /\ GoTo(r, "refused")
    /\ UNCHANGED <<store, openCart, spent, ordered, cart, answer>>

\* Mutant: claim is called inside of the try, so that a conflict releases.
ConflictFrees(r) ==
    /\ step[r] = "refused"
    /\ store[KeyOf[r]] \in {"absent", "in_progress"}
    /\ Remember(KeyOf[r], "absent")
    /\ Answer(r, "conflict")
    /\ UNCHANGED <<openCart, spent, ordered, cart>>

\* GET, a second command: the key may be gone, or completed, by now.
Conflict(r) ==
    /\ step[r] = "refused"
    /\ store[KeyOf[r]] \in {"absent", "in_progress"}
    /\ Answer(r, "conflict")
    /\ UNCHANGED <<store, openCart, spent, ordered, cart>>

Replay(r) ==
    /\ step[r] = "refused"
    /\ store[KeyOf[r]] \in Requests
    /\ Answer(r, store[KeyOf[r]])
    /\ UNCHANGED <<store, openCart, spent, ordered, cart>>

-----------------------------------------------------------------------------
(* The transaction. *)

ResolveCart(r) ==
    /\ step[r] = "claimed"
    /\ openCart # NoCart
    /\ cart' = [cart EXCEPT ![r] = openCart]
    /\ GoTo(r, "placing")
    /\ UNCHANGED <<store, openCart, spent, ordered, answer>>

NoOpenCart(r) ==
    /\ step[r] = "claimed"
    /\ openCart = NoCart
    /\ GoTo(r, "no_cart")
    /\ UNCHANGED <<store, openCart, spent, ordered, cart, answer>>

\* place_order or PaymentService.start raises.
PlacingFails(r) ==
    /\ step[r] \in {"claimed", "placing"}
    /\ GoTo(r, "error")
    /\ UNCHANGED <<store, openCart, spent, ordered, cart, answer>>

\* The order is committed together with checked_out_at, an UPDATE without a
\* condition: another request may have checked out the same cart meanwhile.
\* When the connection breaks while it commits, commit() raises although
\* the database has committed.
Commit(r) ==
    /\ step[r] = "placing"
    /\ ordered' = [ordered EXCEPT ![r] = cart[r]]
    /\ spent' = spent \cup {cart[r]}
    /\ openCart' = IF openCart = cart[r] THEN NoCart ELSE openCart
    /\ GoTo(r, "committed") \/ GoTo(r, "error")
    /\ UNCHANGED <<store, cart, answer>>

-----------------------------------------------------------------------------
(* complete and release *)

\* Mutant: the response is stored before the commit.
CompleteEarly(r) ==
    /\ step[r] \in {"placing", "committed"}
    /\ Remember(KeyOf[r], r)
    /\ Answer(r, r)
    /\ UNCHANGED <<openCart, spent, ordered, cart>>

Complete(r) ==
    /\ step[r] = "committed"
    /\ Remember(KeyOf[r], r)
    /\ Answer(r, r)
    /\ UNCHANGED <<openCart, spent, ordered, cart>>

\* _serialise_order raises, after the commit and outside of the try: a 500, and
\* the key stays claimed.
SerialisingFails(r) ==
    /\ step[r] = "committed"
    /\ Answer(r, "error")
    /\ UNCHANGED <<store, openCart, spent, ordered, cart>>

\* DEL, whoever has claimed the key.
Release(r) ==
    /\ step[r] \in {"no_cart", "error"}
    /\ Remember(KeyOf[r], "absent")
    /\ Answer(r, step[r])
    /\ UNCHANGED <<openCart, spent, ordered, cart>>

-----------------------------------------------------------------------------
(* The environment. *)

\* The process dies, or Redis does not answer it.
Die(r) ==
    /\ Working(r) \/ step[r] = "refused"
    /\ GoTo(r, "over")
    /\ UNCHANGED <<store, openCart, spent, ordered, cart, answer>>

\* Mutant: the claim has no TTL.
ExpireResponse(k) ==
    /\ store[k] \in Requests
    /\ Remember(k, "absent")
    /\ UNCHANGED <<openCart, spent, ordered, step, cart, answer>>

\* _CLAIM_TTL and _RESULT_TTL; Redis keeps nothing over a restart either.  A
\* claim is assumed to last for the request that holds it, which has ten
\* minutes: nothing in the code bounds a request, or holds on to a lost claim.
Expire(k) ==
    /\ store[k] # "absent"
    /\ store[k] = "in_progress" => \A r \in Requests : KeyOf[r] = k => ~Working(r)
    /\ Remember(k, "absent")
    /\ UNCHANGED <<openCart, spent, ordered, step, cart, answer>>

\* The shopper adds to the cart again: CartService.resolve makes a new one.
Refill(x) ==
    /\ openCart = NoCart
    /\ x \in Carts \ spent
    /\ openCart' = x
    /\ UNCHANGED <<store, spent, ordered, step, cart, answer>>

RequestNext(r) ==
    \/ Claim(r) \/ FindClaimed(r) \/ Conflict(r) \/ Replay(r)
    \/ ResolveCart(r) \/ NoOpenCart(r) \/ PlacingFails(r) \/ Commit(r)
    \/ Complete(r) \/ SerialisingFails(r) \/ Release(r)

IdempotencyNext ==
    \/ \E r \in Requests : RequestNext(r) \/ Die(r)
    \/ \E k \in Keys : Expire(k)
    \/ \E x \in Carts : Refill(x)

IdempotencySpec == IdempotencyInit /\ [][IdempotencyNext]_idempotencyVars

-----------------------------------------------------------------------------
(* What holds. *)

\* "Without this the customer is charged twice" (core/idempotency.py): however
\* often a request is sent again, dies, or its key expires, its key never
\* orders the same cart twice.
OneOrderPerKeyAndCart ==
    \A r, t \in Requests :
        r # t /\ KeyOf[r] = KeyOf[t] /\ ordered[r] # NoCart => ordered[r] # ordered[t]

\* A 201 shows an order that is in the database and was placed under the key
\* the request carries.
AnswerIsAnOrder ==
    \A r \in Requests :
        answer[r] \in Requests =>
            /\ ordered[answer[r]] # NoCart
            /\ KeyOf[answer[r]] = KeyOf[r]

\* The inductive invariant: a key is claimed while a request works under it,
\* by that request alone; whoever has loaded the open cart, and only an open
\* one, can still order it.
OneWorkerPerKey ==
    /\ \A r \in Requests : Working(r) => store[KeyOf[r]] = "in_progress"
    /\ \A r, t \in Requests :
          Working(r) /\ Working(t) /\ KeyOf[r] = KeyOf[t] => r = t

OrdersSpendCarts ==
    /\ openCart \notin spent
    /\ \A r \in Requests : ordered[r] # NoCart => ordered[r] \in spent
    /\ \A r \in Requests : step[r] = "placing" => cart[r] \in Carts
    /\ \A r \in Requests : ordered[r] # NoCart => step[r] \in {"committed", "error", "over"}
    /\ \A r \in Requests : step[r] = "committed" => ordered[r] # NoCart
    /\ \A r, t \in Requests :
          r # t /\ KeyOf[r] = KeyOf[t] /\ step[r] = "placing" => cart[r] # ordered[t]

ResponsesAreOrders ==
    \A k \in Keys :
        store[k] \in Requests => ordered[store[k]] # NoCart /\ KeyOf[store[k]] = k

IdempotencyInv ==
    /\ IdempotencyTypeOK
    /\ OneOrderPerKeyAndCart
    /\ AnswerIsAnOrder
    /\ OneWorkerPerKey
    /\ OrdersSpendCarts
    /\ ResponsesAreOrders

\* The expiry of Redis is what frees the claim of a request that died.
IdempotencyLiveSpec ==
    /\ IdempotencySpec
    /\ \A r \in Requests : WF_idempotencyVars(step[r] # "idle" /\ RequestNext(r))
    /\ \A k \in Keys : WF_idempotencyVars(store[k] = "in_progress" /\ Expire(k))

\* No shopper is locked out: a claimed key becomes a response, or free again.
ClaimsEnd == \A k \in Keys : store[k] = "in_progress" ~> store[k] # "in_progress"
=============================================================================
