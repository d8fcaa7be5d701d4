------------------------------- MODULE Outbox -------------------------------
(***************************************************************************)
(* The outbox table and the relays that drain it                           *)
(* (backend/app/shared/outbox.py, backend/app/workers/outbox_relay.py).    *)
(*                                                                         *)
(* A relay claims a batch with FOR UPDATE SKIP LOCKED, runs the handlers   *)
(* of each message in turn, and commits all the marks of the batch at its  *)
(* end.  Handlers act outside of the transaction: when the relay dies      *)
(* before its commit their effects stay and the marks are lost.            *)
(***************************************************************************)
EXTENDS Integers, FiniteSets

CONSTANTS
    Messages,     \* messages by rank of created_at
    Subscribed,   \* those whose event type has a handler
    Relays,       \* relay processes
    Stoppable,    \* relays that may be sent SIGINT or SIGTERM
    BatchSize,    \* settings.outbox_batch_size
    MaxAttempts   \* MAX_ATTEMPTS

ASSUME OutboxAssumption ==
    /\ Messages \subseteq Nat
    /\ Subscribed \subseteq Messages
    /\ Stoppable \subseteq Relays
    /\ BatchSize \in Nat \ {0}
    /\ MaxAttempts \in Nat \ {0}

VARIABLES
    inserted,    \* messages committed to the table
    published,   \* messages with published_at set
    attempts,    \* the attempts column
    handled,     \* messages whose handlers have run to the end at least once
    orphaned,    \* history: those of them whose mark died with a relay
    mode,        \* what a relay is doing
    stopping,    \* relays whose stop event is set
    batch,       \* messages a relay has claimed and still to handle
    done,        \* ... has marked published, uncommitted
    failed       \* ... has marked failed, uncommitted

tableVars  == <<inserted, published, attempts>>
relayVars  == <<mode, batch, done, failed>>
effectVars == <<handled, orphaned>>
outboxVars == <<tableVars, effectVars, relayVars, stopping>>

OutboxTypeOK ==
    /\ inserted \subseteq Messages
    /\ published \subseteq inserted
    /\ attempts \in [Messages -> 0..MaxAttempts]
    /\ handled \subseteq inserted
    /\ orphaned \subseteq handled
    /\ mode \in [Relays -> {"idle", "working", "down", "stopped"}]
    /\ stopping \subseteq Relays
    /\ batch \in [Relays -> SUBSET Messages]
    /\ done \in [Relays -> SUBSET Messages]
    /\ failed \in [Relays -> SUBSET Messages]

OutboxInit ==
    /\ inserted = {} /\ published = {} /\ handled = {} /\ orphaned = {} /\ stopping = {}
    /\ attempts = [m \in Messages |-> 0]
    /\ mode = [w \in Relays |-> "idle"]
    /\ batch = [w \in Relays |-> {}]
    /\ done = [w \in Relays |-> {}]
    /\ failed = [w \in Relays |-> {}]

\* The rows that relay w has locked: all of its batch, until it commits.
Locked(w) == batch[w] \cup done[w] \cup failed[w]

\* A commit of a unit of work.  Transactions need not commit in the order of
\* created_at, so neither does this.
Insert(m) ==
    /\ m \in Messages \ inserted
    /\ inserted' = inserted \cup {m}
    /\ UNCHANGED <<published, attempts, effectVars, relayVars, stopping>>

\* Mutant: <= for <.
DueOnceMore == {m \in inserted \ published : attempts[m] <= MaxAttempts}

\* The WHERE of claim_batch.  next_attempt_at never delays a message:
\* mark_failed sets it to the present and drops the back-off it computes.
Due == {m \in inserted \ published : attempts[m] < MaxAttempts}

\* Mutant: FOR UPDATE SKIP LOCKED is forgotten.
NotLocked(w) == Due

\* SKIP LOCKED
Claimable(w) == {m \in Due : \A t \in Relays \ {w} : m \notin Locked(t)}

\* ORDER BY created_at LIMIT n
Oldest(S, n) == {m \in S : Cardinality({k \in S : k < m}) < n}

ClaimBatch(w) ==
    /\ mode[w] = "idle"
    /\ w \notin stopping
    /\ mode'  = [mode EXCEPT ![w] = "working"]
    /\ batch' = [batch EXCEPT ![w] = Oldest(Claimable(w), BatchSize)]
    /\ UNCHANGED <<tableVars, effectVars, done, failed, stopping>>

\* The batch is a list in the order of created_at.
NextInBatch(w) == {m \in batch[w] : \A k \in batch[w] : m <= k}

\* Every handler of the message returns, then mark_published.
Handle(w, m) ==
    /\ m \in NextInBatch(w)
    /\ handled' = handled \cup {m}
    /\ batch' = [batch EXCEPT ![w] = @ \ {m}]
    /\ done'  = [done EXCEPT ![w] = @ \cup {m}]
    /\ UNCHANGED <<tableVars, orphaned, mode, failed, stopping>>

\* Mutant: the exception is swallowed and the message marked published.
Swallow(w, m) ==
    /\ m \in NextInBatch(w) \cap Subscribed
    /\ batch' = [batch EXCEPT ![w] = @ \ {m}]
    /\ done'  = [done EXCEPT ![w] = @ \cup {m}]
    /\ UNCHANGED <<tableVars, effectVars, mode, failed, stopping>>

\* A handler raises, then mark_failed.  A message without handlers never fails.
HandlerFails(w, m) ==
    /\ m \in NextInBatch(w) \cap Subscribed
    /\ batch'  = [batch EXCEPT ![w] = @ \ {m}]
    /\ failed' = [failed EXCEPT ![w] = @ \cup {m}]
    /\ UNCHANGED <<tableVars, effectVars, mode, done, stopping>>

\* The relay leaves its session.
EndBatch(w, next) ==
    /\ mode'   = [mode EXCEPT ![w] = next]
    /\ batch'  = [batch EXCEPT ![w] = {}]
    /\ done'   = [done EXCEPT ![w] = {}]
    /\ failed' = [failed EXCEPT ![w] = {}]

\* Mutant: a batch with a failure in it is rolled back but for the attempts.
KeepOnlyAttempts(w) ==
    /\ mode[w] = "working"
    /\ batch[w] = {}
    /\ published' = IF failed[w] = {} THEN published \cup done[w] ELSE published
    /\ attempts'  = [m \in Messages |-> IF m \in failed[w] THEN attempts[m] + 1 ELSE attempts[m]]
    /\ EndBatch(w, "idle")
    /\ UNCHANGED <<inserted, effectVars, stopping>>

\* Mutant: mark_failed records the error but no attempt.
KeepNoAttempts(w) ==
    /\ mode[w] = "working"
    /\ batch[w] = {}
    /\ published' = published \cup done[w]
    /\ EndBatch(w, "idle")
    /\ UNCHANGED <<inserted, attempts, effectVars, stopping>>

CommitBatch(w) ==
    /\ mode[w] = "working"
    /\ batch[w] = {}
    /\ published' = published \cup done[w]
    /\ attempts'  = [m \in Messages |-> IF m \in failed[w] THEN attempts[m] + 1 ELSE attempts[m]]
    /\ EndBatch(w, "idle")
    /\ UNCHANGED <<inserted, effectVars, stopping>>

\* The process dies, or loses its connection.
Crash(w) ==
    /\ mode[w] \in {"idle", "working"}
    /\ EndBatch(w, "down")
    /\ orphaned' = orphaned \cup done[w]
    /\ UNCHANGED <<tableVars, handled, stopping>>

\* It is started again, with a stop event of its own.
Restart(w) ==
    /\ mode[w] = "down"
    /\ mode' = [mode EXCEPT ![w] = "idle"]
    /\ stopping' = stopping \ {w}
    /\ UNCHANGED <<tableVars, effectVars, batch, done, failed>>

\* request_stop: the batch in hand is finished first.
RequestStop(w) ==
    /\ w \in Stoppable \ stopping
    /\ mode[w] \in {"idle", "working"}
    /\ stopping' = stopping \cup {w}
    /\ UNCHANGED <<tableVars, effectVars, relayVars>>

Stop(w) ==
    /\ mode[w] = "idle"
    /\ w \in stopping
    /\ mode' = [mode EXCEPT ![w] = "stopped"]
    /\ UNCHANGED <<tableVars, effectVars, batch, done, failed, stopping>>

RelayNext(w) ==
    \/ ClaimBatch(w)
    \/ \E m \in Messages : Handle(w, m) \/ HandlerFails(w, m)
    \/ CommitBatch(w)
    \/ Stop(w)
    \/ Restart(w)

OutboxNext ==
    \/ \E m \in Messages : Insert(m)
    \/ \E w \in Relays : RelayNext(w) \/ Crash(w) \/ RequestStop(w)

OutboxSpec == OutboxInit /\ [][OutboxNext]_outboxVars

-----------------------------------------------------------------------------
(* What the outbox promises. *)

\* At-least-once delivery, as module Delivery states it.
Consumers == INSTANCE Delivery WITH
                 written <- inserted, delivered <- handled, finished <- published
AtLeastOnce == Consumers!DeliverySpec

\* "N workers can run without stepping on each other" (shared/outbox.py): no
\* message is in the hands of two relays, and none is that is published.
OneRelayPerMessage ==
    /\ \A w, t \in Relays : w # t => Locked(w) \cap Locked(t) = {}
    /\ \A w \in Relays : Locked(w) \subseteq inserted \ published

\* Only a relay that dies makes an event take effect twice.  Whatever the
\* relays do otherwise (failures in the same batch, a stop signal in the
\* middle of one), a message that has taken effect is marked, or is about to be.
RedeliveryNeedsCrash ==
    handled \subseteq published \cup orphaned \cup UNION {done[w] : w \in Relays}

\* A relay holds no message whose attempts are used up.
AttemptsBounded ==
    \A w \in Relays, m \in Messages : m \in Locked(w) => attempts[m] < MaxAttempts

OutboxInv ==
    /\ OutboxTypeOK
    /\ OneRelayPerMessage
    /\ AttemptsBounded
    /\ RedeliveryNeedsCrash
    /\ \A w \in Relays : mode[w] # "working" => Locked(w) = {}
    /\ \A w \in Relays : batch[w] \cap (done[w] \cup failed[w]) = {}
    /\ \A w \in Relays : done[w] \cap failed[w] = {}
    /\ \A w \in Relays : done[w] \subseteq handled

\* A relay runs until it is told to stop, is started again after a crash, and
\* does not crash forever.
RelayFairness(w) ==
    /\ WF_outboxVars(RelayNext(w))
    /\ <>[][~Crash(w)]_outboxVars

OutboxLiveSpec == OutboxSpec /\ \A w \in Relays : RelayFairness(w)

\* No message waits forever behind messages that keep failing: each is
\* published or used up its attempts.
EverySettles ==
    \A m \in Messages :
        m \in inserted ~> m \in published \/ attempts[m] = MaxAttempts
=============================================================================
