----------------------------- MODULE Fulfilment -----------------------------
(***************************************************************************)
(* The life of an order across the modules that share its transaction:     *)
(*                                                                         *)
(*   - POST /checkout: place_order, PaymentService.start, one commit       *)
(*     (api/routers/checkout.py, orders/service.py, payments/service.py);  *)
(*   - POST /webhooks/payments: record_webhook, capture, mark_paid, one    *)
(*     commit, 202 (api/routers/webhooks.py);                              *)
(*   - POST /orders/{order_number}/cancel: cancel, one commit;             *)
(*   - the reservation sweeper.                                            *)
(*                                                                         *)
(* The stock and the reservations are module Inventory's; every action     *)
(* here is one of its actions joined with what the same step does to       *)
(* orders, payments, processed webhooks and the outbox, or leaves it alone *)
(* (theorem FulfilmentProofs!ImplementsInventory).  The payers of          *)
(* Inventory are the webhook deliveries, its cancellers the cancel         *)
(* requests.  A session serves one request after the other, so that a      *)
(* provider may retry a delivery at any time and as often as it likes.     *)
(***************************************************************************)
EXTENDS Inventory

CONSTANTS
    Events,    \* event ids the provider sends
    EventOf,   \* the event a delivery carries
    OrderFor,  \* the order whose payment a "payment.captured" event names by
               \* its reference, NoOrder for an event of any other type
    NoOrder

ASSUME FulfilmentAssumption ==
    /\ EventOf  \in [Payers -> Events]
    /\ OrderFor \in [Events -> Orders \cup {NoOrder}]
    /\ NoOrder \notin Orders

VARIABLES
    status,       \* orders.status, "none" while the row does not exist
    paidAt,       \* orders with paid_at set
    cancelledAt,  \* orders with cancelled_at set
    payment,      \* payments.status, "none" while the row does not exist
    applied,      \* how often a committed transaction has processed an event
    outbox,       \* events in outbox_messages, <<type, subject>>
    acked,        \* events some delivery has answered with 202
    step,         \* how far a request is before or after its inventory steps
    loaded,       \* the order a session has loaded
    emitted       \* events queued in a session's UnitOfWork

orderVars      == <<status, paidAt, cancelledAt, payment, applied, outbox>>
requestVars    == <<step, loaded, emitted>>
fulfilmentVars == <<orderVars, acked, requestVars, inventoryVars>>

\* What the model records of a domain event: its type and its subject.
EventNames == ({"inventory.reserved"} \X Lines)
              \cup ({"order.placed", "order.paid", "order.cancelled"} \X Orders)

\* Rows of processed_webhooks.
Processed == {e \in Events : applied[e] > 0}

FulfilmentTypeOK ==
    /\ status  \in [Orders -> {"none", "pending_payment", "paid", "cancelled"}]
    /\ payment \in [Orders -> {"none", "authorized", "captured"}]
    /\ paidAt \subseteq Orders
    /\ cancelledAt \subseteq Orders
    /\ applied \in [Events -> Nat]
    /\ acked \subseteq Events
    /\ step \in [Sessions -> {"idle", "recorded", "captured", "loaded", "intent"}]
    /\ loaded \in [Sessions -> Orders \cup {NoOrder}]
    /\ outbox \subseteq EventNames
    /\ emitted \in [Sessions -> SUBSET EventNames]

FulfilmentInit ==
    /\ InventoryInit
    /\ status  = [o \in Orders |-> "none"]
    /\ payment = [o \in Orders |-> "none"]
    /\ paidAt = {} /\ cancelledAt = {} /\ outbox = {} /\ acked = {}
    /\ applied = [e \in Events |-> 0]
    /\ step    = [s \in Sessions |-> "idle"]
    /\ loaded  = [s \in Sessions |-> NoOrder]
    /\ emitted = [s \in Sessions |-> {}]

-----------------------------------------------------------------------------
(* The unit of work. *)

\* Mutant: the UnitOfWork is used again with the events of the last request.
KeepEvents(s) ==
    /\ step'   = [step EXCEPT ![s] = "idle"]
    /\ loaded' = [loaded EXCEPT ![s] = NoOrder]
    /\ UNCHANGED emitted

\* The request is over: the next one of this session gets a new UnitOfWork.
EndRequest(s) ==
    /\ step'    = [step EXCEPT ![s] = "idle"]
    /\ loaded'  = [loaded EXCEPT ![s] = NoOrder]
    /\ emitted' = [emitted EXCEPT ![s] = {}]

\* UnitOfWork.emit
Emit(s, event) == emitted' = [emitted EXCEPT ![s] = @ \cup {event}]

\* Mutant: the queued events are not added before the commit.
LoseEvents(s, last) == outbox' = outbox \cup last

\* UnitOfWork.commit writes the queued events in the same transaction.
WriteOutbox(s, last) == outbox' = outbox \cup emitted[s] \cup last

-----------------------------------------------------------------------------
(* Checkout. *)

StartCheckout(o) ==
    /\ BeginCheckout(o)
    /\ UNCHANGED <<orderVars, acked, requestVars>>

ReserveLine(o, r) ==
    /\ Reserve(o, r)
    /\ Emit(o, <<"inventory.reserved", r>>)
    /\ UNCHANGED <<orderVars, acked, step, loaded>>

\* InsufficientStockError takes the order and all its lines with it.
OutOfStock(o, r) ==
    /\ RejectReserve(o, r)
    /\ EndRequest(o)
    /\ UNCHANGED <<orderVars, acked>>

\* All lines are reserved: place_order emits and PaymentService.start inserts
\* the payment.  A declined intent raises instead, which is a rollback.
StartPayment(o) ==
    /\ phase[o] = "reserving" /\ todo[o] = {} /\ step[o] = "idle"
    /\ step' = [step EXCEPT ![o] = "intent"]
    /\ Emit(o, <<"order.placed", o>>)
    /\ UNCHANGED <<orderVars, acked, loaded, inventoryVars>>

\* Mutant: the order is committed before the payment is started.
CommitBeforePayment(o) ==
    /\ step[o] = "idle"
    /\ CommitCheckout(o)
    /\ status' = [status EXCEPT ![o] = "pending_payment"]
    /\ outbox' = outbox \cup emitted[o] \cup {<<"order.placed", o>>}
    /\ EndRequest(o)
    /\ UNCHANGED <<payment, paidAt, cancelledAt, applied, acked>>

FinishCheckout(o) ==
    /\ step[o] = "intent"
    /\ CommitCheckout(o)
    /\ status'  = [status EXCEPT ![o] = "pending_payment"]
    /\ payment' = [payment EXCEPT ![o] = "authorized"]
    /\ WriteOutbox(o, {})
    /\ EndRequest(o)
    /\ UNCHANGED <<paidAt, cancelledAt, applied, acked>>

-----------------------------------------------------------------------------
(* Payment callbacks. *)

\* The transaction of delivery d has inserted its event and not yet ended.
Inserting(d) == d \in Payers /\ step[d] # "idle"

\* Mutant: the webhook is looked up instead of inserted under its key.
NoKey(d) == TRUE

\* INSERT under the unique key (provider, event_id): it waits for the outcome
\* of a transaction that has inserted the same key.
KeyFree(d) == \A t \in Payers \ {d} : EventOf[t] = EventOf[d] => ~Inserting(t)

RecordWebhook(d) ==
    /\ step[d] = "idle"
    /\ KeyFree(d)
    /\ EventOf[d] \notin Processed
    /\ step' = [step EXCEPT ![d] = "recorded"]
    /\ UNCHANGED <<orderVars, acked, loaded, emitted, inventoryVars>>

\* Mutant: a key that is being inserted is taken for one that is there.
IgnoreInFlight(d) ==
    /\ step[d] = "idle"
    /\ EventOf[d] \in Processed \/ ~KeyFree(d)
    /\ acked' = acked \cup {EventOf[d]}
    /\ UNCHANGED <<orderVars, requestVars, inventoryVars>>

\* The key is there: rolled back and acknowledged without doing anything.
IgnoreDuplicate(d) ==
    /\ step[d] = "idle"
    /\ KeyFree(d)
    /\ EventOf[d] \in Processed
    /\ acked' = acked \cup {EventOf[d]}
    /\ UNCHANGED <<orderVars, requestVars, inventoryVars>>

\* An event of another type is remembered and acknowledged, nothing more.
FinishOther(d) ==
    /\ step[d] = "recorded"
    /\ OrderFor[EventOf[d]] = NoOrder
    /\ applied' = [applied EXCEPT ![EventOf[d]] = @ + 1]
    /\ acked' = acked \cup {EventOf[d]}
    /\ EndRequest(d)
    /\ UNCHANGED <<status, paidAt, cancelledAt, payment, outbox, inventoryVars>>

\* capture: a payment that is captured already is not an error.  Before the
\* checkout has committed there is no payment and the callback fails.
Capture(d) ==
    /\ step[d] = "recorded"
    /\ OrderFor[EventOf[d]] # NoOrder
    /\ payment[OrderFor[EventOf[d]]] \in {"authorized", "captured"}
    /\ step' = [step EXCEPT ![d] = "captured"]
    /\ UNCHANGED <<orderVars, acked, loaded, emitted, inventoryVars>>

\* ALLOWED_TRANSITIONS, the part any endpoint reaches.
Allowed(from, to) ==
    \/ from = "pending_payment" /\ to \in {"paid", "cancelled"}
    \/ from = "paid" /\ to = "cancelled"

\* The router loads the order and transition_to checks the status as loaded.
LoadOrder(s, o, target) ==
    /\ Allowed(status[o], target)
    /\ step'   = [step EXCEPT ![s] = "loaded"]
    /\ loaded' = [loaded EXCEPT ![s] = o]
    /\ UNCHANGED <<orderVars, acked, emitted, inventoryVars>>

LoadPaidOrder(d) ==
    /\ step[d] = "captured"
    /\ LoadOrder(d, OrderFor[EventOf[d]], "paid")

LoadCancelledOrder(c, o) ==
    /\ step[c] = "idle"
    /\ LoadOrder(c, o, "cancelled")

\* _reservations_for
ReadHolds(s) ==
    /\ step[s] = "loaded"
    /\ ReadReservations(s, loaded[s])
    /\ UNCHANGED <<orderVars, acked, requestVars>>

SettleHold(s, r) ==
    /\ Release(s, r) \/ CommitReservation(s, r)
    /\ UNCHANGED <<orderVars, acked, requestVars>>

HoldRefused(s, r) ==
    /\ RefuseSettle(s, r)
    /\ EndRequest(s)
    /\ UNCHANGED <<orderVars, acked>>

\* Mutant: the captured payment is not part of the commit.
FinishUncaptured(d) ==
    LET o == loaded[d]
    IN  /\ CommitSettle(d)
        /\ status'  = [status EXCEPT ![o] = "paid"]
        /\ paidAt'  = paidAt \cup {o}
        /\ applied' = [applied EXCEPT ![EventOf[d]] = @ + 1]
        /\ WriteOutbox(d, {<<"order.paid", o>>})
        /\ acked' = acked \cup {EventOf[d]}
        /\ EndRequest(d)
        /\ UNCHANGED <<cancelledAt, payment>>

\* The commit of a callback.  The UPDATE of the order has no condition on the
\* status it was loaded with.
FinishPayment(d) ==
    LET o == loaded[d]
    IN  /\ CommitSettle(d)
        /\ status'  = [status EXCEPT ![o] = "paid"]
        /\ paidAt'  = paidAt \cup {o}
        /\ payment' = [payment EXCEPT ![o] = "captured"]
        /\ applied' = [applied EXCEPT ![EventOf[d]] = @ + 1]
        /\ WriteOutbox(d, {<<"order.paid", o>>})
        /\ acked' = acked \cup {EventOf[d]}
        /\ EndRequest(d)
        /\ UNCHANGED cancelledAt

FinishCancel(c) ==
    LET o == loaded[c]
    IN  /\ CommitSettle(c)
        /\ status' = [status EXCEPT ![o] = "cancelled"]
        /\ cancelledAt' = cancelledAt \cup {o}
        /\ WriteOutbox(c, {<<"order.cancelled", o>>})
        /\ EndRequest(c)
        /\ UNCHANGED <<paidAt, payment, applied, acked>>

-----------------------------------------------------------------------------
(* The rest of the system. *)

Sweep(w) ==
    /\ SweeperNext(w)
    /\ UNCHANGED <<orderVars, acked, requestVars>>

TimePasses(r) ==
    /\ Lapse(r)
    /\ UNCHANGED <<orderVars, acked, requestVars>>

\* An exception, a timeout, a deadlock or a crash before the commit: the
\* transaction and the queued events are gone, nobody is answered 2xx.
AbortRequest(s) ==
    /\ \/ Rollback(s)
       \/ /\ s \in Settlers /\ phase[s] = "idle" /\ step[s] # "idle"
          /\ UNCHANGED inventoryVars
    /\ EndRequest(s)
    /\ UNCHANGED <<orderVars, acked>>

FulfilmentNext ==
    \/ \E o \in Orders :
          \/ StartCheckout(o) \/ StartPayment(o) \/ FinishCheckout(o)
          \/ \E r \in Lines : ReserveLine(o, r) \/ OutOfStock(o, r)
    \/ \E d \in Payers :
          RecordWebhook(d) \/ IgnoreDuplicate(d) \/ FinishOther(d)
          \/ Capture(d) \/ LoadPaidOrder(d) \/ FinishPayment(d)
    \/ \E c \in Cancellers :
          FinishCancel(c) \/ \E o \in Orders : LoadCancelledOrder(c, o)
    \/ \E s \in Settlers :
          ReadHolds(s) \/ \E r \in Lines : SettleHold(s, r) \/ HoldRefused(s, r)
    \/ \E w \in Sweepers : Sweep(w)
    \/ \E r \in Lines : TimePasses(r)
    \/ \E s \in Sessions : AbortRequest(s)

FulfilmentSpec == FulfilmentInit /\ [][FulfilmentNext]_fulfilmentVars

-----------------------------------------------------------------------------
(* What holds. *)

\* "The shopper either has an order with stock held, or nothing happened"
\* (docs/architecture.md): an order row, its payment, all its reservations and
\* its confirmation event come into being together.
PlacedTogether ==
    \A o \in Orders :
        LET exists == status[o] # "none"
        IN  /\ exists <=> payment[o] # "none"
            /\ exists <=> <<"order.placed", o>> \in outbox
            /\ IF exists THEN LinesOf(o) \subseteq rows ELSE LinesOf(o) \cap rows = {}

\* "Either both land or neither does" (shared/unit_of_work.py): the outbox tells
\* what the tables tell, event by event.
EventsMatchState ==
    /\ \A r \in Lines : r \in rows <=> <<"inventory.reserved", r>> \in outbox
    /\ \A o \in Orders : /\ o \in paidAt <=> <<"order.paid", o>> \in outbox
                         /\ o \in cancelledAt <=> <<"order.cancelled", o>> \in outbox

\* "The same event id must never be applied twice" (api/routers/webhooks.py),
\* however many deliveries of it are in flight.
AppliedOnce == \A e \in Events : applied[e] <= 1

\* A 202 tells the provider to stop retrying: it is sent only when the order
\* has been marked paid, the payment captured and the event remembered.
AckedIsRecorded ==
    \A e \in acked :
        /\ applied[e] = 1
        /\ OrderFor[e] # NoOrder => /\ OrderFor[e] \in paidAt
                                   /\ payment[OrderFor[e]] = "captured"

\* A payment is captured exactly when its order has been paid.
CapturedIsPaid == \A o \in Orders : payment[o] = "captured" <=> o \in paidAt

\* An order that has been paid or cancelled has no open reservation left: with
\* Inventory's NoLeakedHold, none of its stock stays reserved forever.
SettledHoldsNothing ==
    \A o \in paidAt \cup cancelledAt : LinesOf(o) \cap Open = {}

-----------------------------------------------------------------------------
(* The inductive invariant behind them. *)

\* Deliveries of one event: at most one has inserted its row, and then no
\* committed transaction has.
OneInsertPerEvent ==
    /\ \A d \in Payers : Inserting(d) => EventOf[d] \notin Processed
    /\ \A d, t \in Payers :
          d # t /\ EventOf[d] = EventOf[t] => ~(Inserting(d) /\ Inserting(t))

\* A processed event has had its effect.
ProcessedIsPaid ==
    \A e \in Processed : OrderFor[e] # NoOrder => OrderFor[e] \in paidAt

\* Where a checkout is, in Inventory's terms and in the request's.
CheckoutStage ==
    \A o \in Orders :
        /\ step[o] \in {"idle", "intent"}
        /\ step[o] = "intent" => phase[o] = "reserving" /\ todo[o] = {}
        /\ phase[o] = "placed" <=> status[o] # "none"
        /\ o \in paidAt \cup cancelledAt => status[o] # "none"
        /\ emitted[o] = {<<"inventory.reserved", r>> : r \in held[o]}
                        \cup {x \in {<<"order.placed", o>>} : step[o] = "intent"}

\* Where a callback or a cancel request is.
SettlerStage ==
    \A s \in Settlers :
        /\ phase[s] = "settling" => step[s] = "loaded"
        /\ step[s] = "captured" => OrderFor[EventOf[s]] \in Orders
        /\ step[s] = "loaded" => loaded[s] \in Orders /\ status[loaded[s]] # "none"
        /\ step[s] = "loaded" /\ s \in Payers => loaded[s] = OrderFor[EventOf[s]]
        /\ emitted[s] = {}

\* What a settler has read covers every reservation of its order that is open
\* when it commits.
ReadCoversOpen ==
    \A s \in Settlers :
        phase[s] = "settling" => LinesOf(loaded[s]) \cap Open \subseteq todo[s] \cup held[s]

FulfilmentInv ==
    /\ FulfilmentTypeOK
    /\ PlacedTogether
    /\ EventsMatchState
    /\ AppliedOnce
    /\ AckedIsRecorded
    /\ CapturedIsPaid
    /\ SettledHoldsNothing
    /\ OneInsertPerEvent
    /\ ProcessedIsPaid
    /\ CheckoutStage
    /\ SettlerStage
    /\ ReadCoversOpen

-----------------------------------------------------------------------------
(* What does not. *)

\* "... which is what stops a cancelled order from quietly becoming shipped"
\* (orders/models.py): cancelled is a terminal state.
CancelledIsTerminal ==
    [][\A o \in Orders : status[o] = "cancelled" => status'[o] = "cancelled"]_fulfilmentVars

\* "Even a buggy service cannot oversell" (inventory/models.py): what has been
\* paid for was in stock.
PaidIsInStock ==
    \A v \in Variants :
        Total({r \in Lines : status[OrderOf(r)] = "paid"}, v) <= InitialStock[v]
=============================================================================
