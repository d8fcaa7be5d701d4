------------------------------ MODULE Delivery ------------------------------
(***************************************************************************)
(* What the transactional outbox promises its consumers, whatever the      *)
(* number of relays and however they crash: at-least-once delivery.  An    *)
(* event takes effect any number of times between the commit that wrote    *)
(* it and the commit that marks it published, and it is marked published   *)
(* only once it has taken effect.                                          *)
(***************************************************************************)
CONSTANTS
    Messages,    \* outbox messages
    Subscribed   \* those whose event type has a handler

VARIABLES
    written,     \* messages committed with the change they tell of
    delivered,   \* messages whose handlers have run to the end at least once
    finished     \* messages marked published

deliveryVars == <<written, delivered, finished>>

DeliveryInit == written = {} /\ delivered = {} /\ finished = {}

Write(m) ==
    /\ m \in Messages \ written
    /\ written' = written \cup {m}
    /\ UNCHANGED <<delivered, finished>>

\* Possible again and again until the message is marked published.
Deliver(m) ==
    /\ m \in written \ finished
    /\ delivered' = delivered \cup {m}
    /\ UNCHANGED <<written, finished>>

\* One commit marks a batch.
Finish(B) ==
    /\ B \subseteq written \ finished
    /\ B \cap Subscribed \subseteq delivered
    /\ finished' = finished \cup B
    /\ UNCHANGED <<written, delivered>>

DeliveryNext ==
    \/ \E m \in Messages : Write(m) \/ Deliver(m)
    \/ \E B \in SUBSET Messages : Finish(B)

DeliverySpec == DeliveryInit /\ [][DeliveryNext]_deliveryVars
=============================================================================
