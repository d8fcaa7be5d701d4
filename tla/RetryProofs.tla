---------------------------- MODULE RetryProofs ----------------------------
(***************************************************************************)
(* What is done again does no more than it should: a checkout under an     *)
(* idempotency key, and an event in the outbox.                            *)
(*                                                                         *)
(* One key never orders one cart twice, for any number of requests, keys   *)
(* and carts, as long as a claim outlasts the request that holds it; and a *)
(* relay of any batch size and any number of relays implement              *)
(* at-least-once delivery.                                                 *)
(***************************************************************************)
EXTENDS Idempotency, Outbox, TLAPS

-----------------------------------------------------------------------------
(* Checkout and its keys. *)

\* Abbreviations of the actions, expanded everywhere.
USE DEF GoTo, Answer, Remember

\* No key, no order.
LEMMA KeysInit == IdempotencyInit => IdempotencyInv
BY IdempotencyAssumption
   DEF IdempotencyInit, IdempotencyInv, IdempotencyTypeOK, OneOrderPerKeyAndCart,
       AnswerIsAnOrder, OneWorkerPerKey, OrdersSpendCarts, ResponsesAreOrders, Working

\* Types, action by action.
LEMMA TypeStep ==
    IdempotencyInv /\ [IdempotencyNext]_idempotencyVars => IdempotencyTypeOK'
<1> SUFFICES ASSUME IdempotencyTypeOK, OrdersSpendCarts, [IdempotencyNext]_idempotencyVars
             PROVE  IdempotencyTypeOK'
  BY DEF IdempotencyInv
<1> USE IdempotencyAssumption DEF IdempotencyTypeOK
<1>1. ASSUME NEW r \in Requests, RequestNext(r)
      PROVE  IdempotencyTypeOK'
  <2>1. CASE Claim(r) \/ FindClaimed(r) \/ Conflict(r) \/ Replay(r)
    BY <2>1 DEF Claim, FindClaimed, Conflict, Replay
  <2>2. CASE ResolveCart(r) \/ NoOpenCart(r) \/ PlacingFails(r)
    BY <2>2 DEF ResolveCart, NoOpenCart, PlacingFails
  <2>3. CASE Commit(r)
    BY <2>3 DEF Commit, OrdersSpendCarts
  <2>4. CASE Complete(r) \/ SerialisingFails(r) \/ Release(r)
    BY <2>4 DEF Complete, SerialisingFails, Release
  <2> QED
    BY <1>1, <2>1, <2>2, <2>3, <2>4 DEF RequestNext
<1>2. CASE \E r \in Requests : Die(r)
  BY <1>2 DEF Die
<1>3. CASE \E k \in Keys : Expire(k)
  BY <1>3 DEF Expire
<1>4. CASE \E x \in Carts : Refill(x)
  BY <1>4 DEF Refill
<1>5. CASE UNCHANGED idempotencyVars
  BY <1>5 DEF idempotencyVars
<1> QED
  BY <1>1, <1>2, <1>3, <1>4, <1>5 DEF IdempotencyNext

\* While one request works under a key, the others of the key are idle, refused
\* or over: SET NX admits nobody, and only the worker itself gives the key up.
LEMMA WorkerStep ==
    IdempotencyInv /\ [IdempotencyNext]_idempotencyVars => OneWorkerPerKey'
<1> SUFFICES ASSUME IdempotencyTypeOK, OneWorkerPerKey, [IdempotencyNext]_idempotencyVars
             PROVE  OneWorkerPerKey'
  BY DEF IdempotencyInv
<1> USE IdempotencyAssumption DEF IdempotencyTypeOK, OneWorkerPerKey, Working
<1>1. ASSUME NEW r \in Requests, RequestNext(r)
      PROVE  OneWorkerPerKey'
  <2>1. CASE Claim(r)
    BY <2>1 DEF Claim
  <2>2. CASE FindClaimed(r) \/ Conflict(r) \/ Replay(r)
    BY <2>2 DEF FindClaimed, Conflict, Replay
  <2>3. CASE ResolveCart(r) \/ NoOpenCart(r) \/ PlacingFails(r) \/ Commit(r)
    BY <2>3 DEF ResolveCart, NoOpenCart, PlacingFails, Commit
  <2>4. CASE Complete(r) \/ SerialisingFails(r) \/ Release(r)
    BY <2>4 DEF Complete, SerialisingFails, Release
  <2> QED
    BY <1>1, <2>1, <2>2, <2>3, <2>4 DEF RequestNext
<1>2. CASE \E r \in Requests : Die(r)
  BY <1>2 DEF Die
<1>3. CASE \E k \in Keys : Expire(k)
  BY <1>3 DEF Expire
<1>4. CASE \E x \in Carts : Refill(x)
  BY <1>4 DEF Refill
<1>5. CASE UNCHANGED idempotencyVars
  BY <1>5 DEF idempotencyVars
<1> QED
  BY <1>1, <1>2, <1>3, <1>4, <1>5 DEF IdempotencyNext

\* A cart that has been ordered is never open again, and nobody else of the same
\* key has it loaded.
LEMMA CartStep ==
    IdempotencyInv /\ [IdempotencyNext]_idempotencyVars => OrdersSpendCarts'
<1> SUFFICES ASSUME IdempotencyTypeOK, OneWorkerPerKey, OrdersSpendCarts,
                    [IdempotencyNext]_idempotencyVars
             PROVE  OrdersSpendCarts'
  BY DEF IdempotencyInv
<1> USE IdempotencyAssumption DEF IdempotencyTypeOK, OrdersSpendCarts
<1>1. ASSUME NEW r \in Requests, RequestNext(r)
      PROVE  OrdersSpendCarts'
  <2>1. CASE Claim(r) \/ FindClaimed(r)
    BY <2>1 DEF Claim, FindClaimed
  <2>2. CASE Conflict(r) \/ Replay(r)
    BY <2>2 DEF Conflict, Replay
  <2>3. CASE ResolveCart(r)
    BY <2>3 DEF ResolveCart
  <2>4. CASE NoOpenCart(r) \/ PlacingFails(r)
    BY <2>4 DEF NoOpenCart, PlacingFails
  <2>5. CASE Commit(r)
    BY <2>5 DEF Commit, OneWorkerPerKey, Working
  <2>6. CASE Complete(r) \/ SerialisingFails(r) \/ Release(r)
    BY <2>6 DEF Complete, SerialisingFails, Release
  <2> QED
    BY <1>1, <2>1, <2>2, <2>3, <2>4, <2>5, <2>6 DEF RequestNext
<1>2. CASE \E r \in Requests : Die(r)
  BY <1>2 DEF Die, Working
<1>3. CASE \E k \in Keys : Expire(k)
  BY <1>3 DEF Expire
<1>4. CASE \E x \in Carts : Refill(x)
  BY <1>4 DEF Refill
<1>5. CASE UNCHANGED idempotencyVars
  BY <1>5 DEF idempotencyVars
<1> QED
  BY <1>1, <1>2, <1>3, <1>4, <1>5 DEF IdempotencyNext

\* Orders and responses, which only Commit and Complete add to.
LEMMA OrderStep ==
    IdempotencyInv /\ [IdempotencyNext]_idempotencyVars
        => OneOrderPerKeyAndCart' /\ ResponsesAreOrders' /\ AnswerIsAnOrder'
<1> SUFFICES ASSUME IdempotencyTypeOK, OrdersSpendCarts, OneOrderPerKeyAndCart,
                    ResponsesAreOrders, AnswerIsAnOrder,
                    [IdempotencyNext]_idempotencyVars
             PROVE  OneOrderPerKeyAndCart' /\ ResponsesAreOrders' /\ AnswerIsAnOrder'
  BY DEF IdempotencyInv
<1> USE IdempotencyAssumption
    DEF IdempotencyTypeOK, OneOrderPerKeyAndCart, ResponsesAreOrders, AnswerIsAnOrder
<1>1. ASSUME NEW r \in Requests, RequestNext(r)
      PROVE  OneOrderPerKeyAndCart' /\ ResponsesAreOrders' /\ AnswerIsAnOrder'
  <2>1. CASE Claim(r) \/ FindClaimed(r)
    BY <2>1 DEF Claim, FindClaimed
  <2>2. CASE Conflict(r) \/ Replay(r)
    BY <2>2 DEF Conflict, Replay
  <2>3. CASE ResolveCart(r) \/ NoOpenCart(r) \/ PlacingFails(r)
    BY <2>3 DEF ResolveCart, NoOpenCart, PlacingFails
  <2>4. CASE Commit(r)
    BY <2>4 DEF Commit, OrdersSpendCarts
  <2>5. CASE Complete(r)
    BY <2>5 DEF Complete, OrdersSpendCarts
  <2>6. CASE SerialisingFails(r) \/ Release(r)
    BY <2>6 DEF SerialisingFails, Release
  <2> QED
    BY <1>1, <2>1, <2>2, <2>3, <2>4, <2>5, <2>6 DEF RequestNext
<1>2. CASE \E r \in Requests : Die(r)
  BY <1>2 DEF Die
<1>3. CASE \E k \in Keys : Expire(k)
  BY <1>3 DEF Expire
<1>4. CASE \E x \in Carts : Refill(x)
  BY <1>4 DEF Refill
<1>5. CASE UNCHANGED idempotencyVars
  BY <1>5 DEF idempotencyVars
<1> QED
  BY <1>1, <1>2, <1>3, <1>4, <1>5 DEF IdempotencyNext

\* The inductive invariant of checkout and its keys (core/idempotency.py, the
\* checkout handler).
THEOREM IdempotencyInvariance == IdempotencySpec => []IdempotencyInv
<1>1. IdempotencyInv /\ [IdempotencyNext]_idempotencyVars => IdempotencyInv'
  BY TypeStep, WorkerStep, CartStep, OrderStep DEF IdempotencyInv
<1> QED
  BY KeysInit, <1>1, PTL DEF IdempotencySpec

\* "Without this the customer is charged twice" (core/idempotency.py:4-6): no
\* two requests with one key place an order for one cart.
THEOREM NoSecondOrder == IdempotencySpec => []OneOrderPerKeyAndCart
<1>1. IdempotencyInv => OneOrderPerKeyAndCart
  BY DEF IdempotencyInv
<1> QED
  BY <1>1, IdempotencyInvariance, PTL

\* What a checkout or its replay answers is an order in the database, placed
\* under the key that was sent (IdempotencyStore.claim, complete).
THEOREM AnswersAreTrue == IdempotencySpec => []AnswerIsAnOrder
<1>1. IdempotencyInv => AnswerIsAnOrder
  BY DEF IdempotencyInv
<1> QED
  BY <1>1, IdempotencyInvariance, PTL

-----------------------------------------------------------------------------
(* The outbox and its relays. *)

\* LIMIT returns some of the rows.
LEMMA OldestIsPart ==
    ASSUME NEW S, NEW n
    PROVE  Oldest(S, n) \subseteq S
BY DEF Oldest

\* A relay that leaves its session holds nothing, and the others are untouched.
LEMMA EndBatchFrees ==
    ASSUME OutboxTypeOK, NEW w \in Relays,
           NEW next \in {"idle", "down"}, EndBatch(w, next)
    PROVE  /\ Locked(w)' = {}
           /\ mode'[w] = next /\ batch'[w] = {} /\ done'[w] = {} /\ failed'[w] = {}
           /\ \A t \in Relays \ {w} :
                 /\ mode'[t] = mode[t]
                 /\ batch'[t] = batch[t] /\ done'[t] = done[t] /\ failed'[t] = failed[t]
                 /\ Locked(t)' = Locked(t)
           /\ mode' \in [Relays -> {"idle", "working", "down", "stopped"}]
           /\ batch' \in [Relays -> SUBSET Messages]
           /\ done' \in [Relays -> SUBSET Messages]
           /\ failed' \in [Relays -> SUBSET Messages]
BY DEF EndBatch, OutboxTypeOK, Locked

\* OutboxInv holds in the empty table.
LEMMA TableInit == OutboxInit => OutboxInv
BY OutboxAssumption
   DEF OutboxInit, OutboxInv, OutboxTypeOK, OneRelayPerMessage, AttemptsBounded,
       RedeliveryNeedsCrash, Locked

LEMMA InsertKeeps ==
    ASSUME OutboxInv, NEW m \in Messages, Insert(m)
    PROVE  OutboxInv'
BY DEF Insert, OutboxInv, OutboxTypeOK, OneRelayPerMessage, AttemptsBounded,
       RedeliveryNeedsCrash, Locked, relayVars, effectVars

\* SKIP LOCKED keeps the new batch apart from every other.
LEMMA ClaimKeeps ==
    ASSUME OutboxInv, NEW w \in Relays, ClaimBatch(w)
    PROVE  OutboxInv'
<1> DEFINE B == Oldest(Claimable(w), BatchSize)
<1>1. /\ B \subseteq inserted \ published
      /\ \A m \in B : attempts[m] < MaxAttempts
      /\ \A t \in Relays \ {w} : B \cap Locked(t) = {}
  BY OldestIsPart DEF Claimable, Due
<1>2. B \subseteq Messages
  BY <1>1 DEF OutboxInv, OutboxTypeOK
<1>3. Locked(w) = {}
  BY DEF ClaimBatch, OutboxInv
<1> HIDE DEF B
<1>4. /\ batch' = [batch EXCEPT ![w] = B] /\ mode' = [mode EXCEPT ![w] = "working"]
      /\ done' = done /\ failed' = failed /\ inserted' = inserted /\ published' = published
      /\ attempts' = attempts /\ handled' = handled /\ orphaned' = orphaned
      /\ stopping' = stopping
  BY DEF ClaimBatch, B, tableVars, effectVars
<1>5. OutboxTypeOK'
  BY <1>2, <1>4 DEF OutboxInv, OutboxTypeOK
<1>6. Locked(w)' = B /\ \A t \in Relays \ {w} : Locked(t)' = Locked(t)
  BY <1>3, <1>4 DEF Locked, OutboxInv, OutboxTypeOK
<1>7. OneRelayPerMessage' /\ AttemptsBounded'
  BY <1>1, <1>4, <1>6 DEF OneRelayPerMessage, AttemptsBounded, OutboxInv
<1>8. done[w] = {} /\ failed[w] = {}
  BY <1>3 DEF Locked
<1> QED
  BY <1>4, <1>5, <1>6, <1>7, <1>8
     DEF OutboxInv, OutboxTypeOK, RedeliveryNeedsCrash, Locked

\* Marking moves a message from one part of what w holds to another.
LEMMA HandleKeeps ==
    ASSUME OutboxInv, NEW w \in Relays, NEW m \in Messages, Handle(w, m)
    PROVE  OutboxInv'
<1>1. m \in batch[w] /\ m \in Locked(w) /\ m \in inserted
  BY DEF Handle, NextInBatch, OutboxInv, OneRelayPerMessage, Locked
<1>2. /\ batch' = [batch EXCEPT ![w] = batch[w] \ {m}]
      /\ done' = [done EXCEPT ![w] = done[w] \cup {m}]
      /\ handled' = handled \cup {m} /\ orphaned' = orphaned
      /\ inserted' = inserted /\ published' = published /\ attempts' = attempts
      /\ mode' = mode /\ failed' = failed /\ stopping' = stopping
  BY DEF Handle, tableVars
<1>3. OutboxTypeOK'
  BY <1>1, <1>2 DEF OutboxInv, OutboxTypeOK
<1>4. \A t \in Relays : Locked(t)' = Locked(t)
  BY <1>1, <1>2 DEF Locked, OutboxInv, OutboxTypeOK
<1>5. OneRelayPerMessage' /\ AttemptsBounded'
  BY <1>2, <1>4 DEF OneRelayPerMessage, AttemptsBounded, OutboxInv
<1>6. /\ done'[w] = done[w] \cup {m} /\ batch'[w] = batch[w] \ {m}
      /\ \A t \in Relays \ {w} : done'[t] = done[t] /\ batch'[t] = batch[t]
  BY <1>2 DEF OutboxInv, OutboxTypeOK
<1>7. RedeliveryNeedsCrash'
  BY <1>2, <1>6 DEF OutboxInv, RedeliveryNeedsCrash
<1> QED
  BY <1>1, <1>2, <1>3, <1>4, <1>5, <1>6, <1>7 DEF OutboxInv

LEMMA FailKeeps ==
    ASSUME OutboxInv, NEW w \in Relays, NEW m \in Messages, HandlerFails(w, m)
    PROVE  OutboxInv'
<1>1. m \in batch[w]
  BY DEF HandlerFails, NextInBatch
<1>2. /\ batch' = [batch EXCEPT ![w] = batch[w] \ {m}]
      /\ failed' = [failed EXCEPT ![w] = failed[w] \cup {m}]
      /\ handled' = handled /\ orphaned' = orphaned
      /\ inserted' = inserted /\ published' = published /\ attempts' = attempts
      /\ mode' = mode /\ done' = done /\ stopping' = stopping
  BY DEF HandlerFails, tableVars, effectVars
<1>3. OutboxTypeOK'
  BY <1>1, <1>2 DEF OutboxInv, OutboxTypeOK
<1>4. \A t \in Relays : Locked(t)' = Locked(t)
  BY <1>1, <1>2 DEF Locked, OutboxInv, OutboxTypeOK
<1>5. OneRelayPerMessage' /\ AttemptsBounded' /\ RedeliveryNeedsCrash'
  BY <1>2, <1>4 DEF OneRelayPerMessage, AttemptsBounded, RedeliveryNeedsCrash, OutboxInv
<1>6. /\ failed'[w] = failed[w] \cup {m} /\ batch'[w] = batch[w] \ {m}
      /\ \A t \in Relays \ {w} : failed'[t] = failed[t] /\ batch'[t] = batch[t]
  BY <1>2 DEF OutboxInv, OutboxTypeOK
<1> QED
  BY <1>1, <1>2, <1>3, <1>4, <1>5, <1>6 DEF OutboxInv

\* The attempts of a message in hand are not used up, so one more is in range.
LEMMA CommitKeeps ==
    ASSUME OutboxInv, NEW w \in Relays, CommitBatch(w)
    PROVE  OutboxInv'
<1>1. OutboxTypeOK /\ EndBatch(w, "idle")
  BY DEF OutboxInv, CommitBatch
<1>2. /\ published' = published \cup done[w]
      /\ attempts' = [m \in Messages |-> IF m \in failed[w] THEN attempts[m] + 1 ELSE attempts[m]]
      /\ inserted' = inserted /\ handled' = handled /\ orphaned' = orphaned
      /\ stopping' = stopping
  BY DEF CommitBatch, effectVars
<1>3. /\ Locked(w)' = {}
      /\ mode'[w] = "idle" /\ batch'[w] = {} /\ done'[w] = {} /\ failed'[w] = {}
      /\ \A t \in Relays \ {w} :
            /\ mode'[t] = mode[t]
            /\ batch'[t] = batch[t] /\ done'[t] = done[t] /\ failed'[t] = failed[t]
            /\ Locked(t)' = Locked(t)
  BY <1>1, EndBatchFrees
<1>4. done[w] \subseteq inserted \ published /\ done[w] \subseteq handled
  BY DEF OutboxInv, OneRelayPerMessage, Locked
<1>5. attempts' \in [Messages -> 0..MaxAttempts]
  <2>1. \A m \in failed[w] : m \in Messages /\ attempts[m] < MaxAttempts
    BY DEF OutboxInv, OutboxTypeOK, AttemptsBounded, Locked
  <2> QED
    BY <1>1, <1>2, <2>1, OutboxAssumption DEF OutboxTypeOK
<1>6. OutboxTypeOK'
  <2>1. /\ mode' \in [Relays -> {"idle", "working", "down", "stopped"}]
        /\ batch' \in [Relays -> SUBSET Messages]
        /\ done' \in [Relays -> SUBSET Messages]
        /\ failed' \in [Relays -> SUBSET Messages]
    BY <1>1, EndBatchFrees
  <2> QED
    BY <1>1, <1>2, <1>4, <1>5, <2>1 DEF OutboxTypeOK
<1>7. OneRelayPerMessage'
  <2>1. \A t \in Relays \ {w} : Locked(t) \cap done[w] = {}
    BY DEF OutboxInv, OneRelayPerMessage, Locked
  <2> QED
    BY <1>2, <1>3, <2>1 DEF OutboxInv, OneRelayPerMessage
<1>8. AttemptsBounded'
  <2>1. SUFFICES ASSUME NEW t \in Relays \ {w}, NEW m \in Messages, m \in Locked(t)
                 PROVE  attempts'[m] < MaxAttempts
    BY <1>3 DEF AttemptsBounded
  <2>2. m \notin failed[w]
    BY <2>1 DEF OutboxInv, OneRelayPerMessage, Locked
  <2> QED
    BY <1>2, <2>1, <2>2 DEF OutboxInv, AttemptsBounded
<1>9. RedeliveryNeedsCrash'
  <2>1. \A m \in UNION {done[t] : t \in Relays} :
           m \in done[w] \/ m \in UNION {done'[t] : t \in Relays}
    BY <1>3
  <2> QED
    BY <1>2, <2>1 DEF OutboxInv, RedeliveryNeedsCrash
<1> QED
  BY <1>2, <1>3, <1>6, <1>7, <1>8, <1>9 DEF OutboxInv

\* The effects of the batch stay; its marks are remembered as orphaned.
LEMMA CrashKeeps ==
    ASSUME OutboxInv, NEW w \in Relays, Crash(w)
    PROVE  OutboxInv'
<1>1. OutboxTypeOK /\ EndBatch(w, "down")
  BY DEF OutboxInv, Crash
<1>2. /\ published' = published /\ attempts' = attempts /\ inserted' = inserted
      /\ handled' = handled /\ orphaned' = orphaned \cup done[w] /\ stopping' = stopping
  BY DEF Crash, tableVars
<1>3. /\ Locked(w)' = {}
      /\ mode'[w] = "down" /\ batch'[w] = {} /\ done'[w] = {} /\ failed'[w] = {}
      /\ \A t \in Relays \ {w} :
            /\ mode'[t] = mode[t]
            /\ batch'[t] = batch[t] /\ done'[t] = done[t] /\ failed'[t] = failed[t]
            /\ Locked(t)' = Locked(t)
  BY <1>1, EndBatchFrees
<1>4. OutboxTypeOK'
  <2>1. /\ mode' \in [Relays -> {"idle", "working", "down", "stopped"}]
        /\ batch' \in [Relays -> SUBSET Messages]
        /\ done' \in [Relays -> SUBSET Messages]
        /\ failed' \in [Relays -> SUBSET Messages]
    BY <1>1, EndBatchFrees
  <2> QED
    BY <1>1, <1>2, <2>1 DEF OutboxTypeOK, OutboxInv
<1>5. OneRelayPerMessage' /\ AttemptsBounded'
  BY <1>2, <1>3 DEF OutboxInv, OneRelayPerMessage, AttemptsBounded
<1>6. RedeliveryNeedsCrash'
  <2>1. \A m \in UNION {done[t] : t \in Relays} :
           m \in done[w] \/ m \in UNION {done'[t] : t \in Relays}
    BY <1>3
  <2> QED
    BY <1>2, <2>1 DEF OutboxInv, RedeliveryNeedsCrash
<1> QED
  BY <1>2, <1>3, <1>4, <1>5, <1>6 DEF OutboxInv

\* A signal, the end of the main loop and a new start touch no message.
LEMMA StopKeeps ==
    ASSUME OutboxInv, NEW w \in Relays, RequestStop(w) \/ Stop(w) \/ Restart(w)
    PROVE  OutboxInv'
<1>1. /\ UNCHANGED <<inserted, published, attempts, handled, orphaned, batch, done, failed>>
      /\ \/ mode' = mode /\ stopping' = stopping \cup {w}
         \/ mode' = [mode EXCEPT ![w] = "stopped"] /\ stopping' = stopping
         \/ mode' = [mode EXCEPT ![w] = "idle"] /\ stopping' = stopping \ {w}
      /\ mode[w] = "idle" \/ mode[w] = "down" \/ mode' = mode
  BY DEF RequestStop, Stop, Restart, tableVars, effectVars, relayVars
<1>2. OutboxTypeOK'
  BY <1>1 DEF OutboxInv, OutboxTypeOK
<1>3. \A t \in Relays : Locked(t)' = Locked(t) /\ (mode'[t] # "working" => mode[t] # "working")
  BY <1>1 DEF Locked, OutboxInv, OutboxTypeOK
<1> QED
  BY <1>1, <1>2, <1>3
     DEF OutboxInv, OneRelayPerMessage, AttemptsBounded, RedeliveryNeedsCrash

\* A step in which no variable moves.
LEMMA StutterKeeps == OutboxInv /\ UNCHANGED outboxVars => OutboxInv'
BY DEF OutboxInv, OutboxTypeOK, OneRelayPerMessage, AttemptsBounded, RedeliveryNeedsCrash,
       Locked, outboxVars, tableVars, effectVars, relayVars

LEMMA StepKeeps == OutboxInv /\ [OutboxNext]_outboxVars => OutboxInv'
<1> SUFFICES ASSUME OutboxInv, OutboxNext
             PROVE  OutboxInv'
  BY StutterKeeps
<1>1. CASE \E m \in Messages : Insert(m)
  BY <1>1, InsertKeeps
<1>2. CASE \E w \in Relays : RelayNext(w)
  BY <1>2, ClaimKeeps, HandleKeeps, FailKeeps, CommitKeeps, StopKeeps DEF RelayNext
<1>3. CASE \E w \in Relays : Crash(w) \/ RequestStop(w)
  BY <1>3, CrashKeeps, StopKeeps
<1> QED
  BY <1>1, <1>2, <1>3 DEF OutboxNext

\* The inductive invariant of the outbox: what each relay holds, has marked and
\* has failed, against the table (outbox.py claim_batch, Relay.run).
THEOREM OutboxInvariance == OutboxSpec => []OutboxInv
<1> QED
  BY TableInit, StepKeeps, PTL DEF OutboxSpec

\* "N workers can run without stepping on each other" (shared/outbox.py:7), for
\* any number of relays, messages and any size of batch.
THEOREM RelaysStayApart == OutboxSpec => []OneRelayPerMessage
<1>1. OutboxInv => OneRelayPerMessage
  BY DEF OutboxInv
<1> QED
  BY <1>1, OutboxInvariance, PTL

\* Without a crash no event takes effect again once it has (Relay.run commits
\* the marks of a batch even when one of its handlers raised).
THEOREM EffectsAreMarked == OutboxSpec => []RedeliveryNeedsCrash
<1>1. OutboxInv => RedeliveryNeedsCrash
  BY DEF OutboxInv
<1> QED
  BY <1>1, OutboxInvariance, PTL

\* Every step of the relays is a step of at-least-once delivery, or no step of it.
LEMMA StepDelivers ==
    OutboxInv /\ [OutboxNext]_outboxVars
        => [Consumers!DeliveryNext]_(Consumers!deliveryVars)
<1> USE DEF Consumers!deliveryVars
<1> SUFFICES ASSUME OutboxInv, OutboxNext
             PROVE  Consumers!DeliveryNext \/ UNCHANGED Consumers!deliveryVars
  BY DEF outboxVars, tableVars, effectVars
<1>1. CASE \E m \in Messages : Insert(m)
  BY <1>1 DEF Insert, effectVars, Consumers!DeliveryNext, Consumers!Write
<1>2. ASSUME NEW w \in Relays, NEW m \in Messages, Handle(w, m)
      PROVE  Consumers!Deliver(m)
  <2>1. m \in inserted \ published
    BY <1>2 DEF Handle, NextInBatch, OutboxInv, OneRelayPerMessage, Locked
  <2> QED
    BY <1>2, <2>1 DEF Handle, tableVars, Consumers!Deliver
<1>3. ASSUME NEW w \in Relays, CommitBatch(w)
      PROVE  done[w] \in SUBSET Messages /\ Consumers!Finish(done[w])
  <2>1. done[w] \subseteq inserted \ published /\ done[w] \subseteq handled
    BY DEF OutboxInv, OneRelayPerMessage, Locked
  <2> QED
    BY <1>3, <2>1 DEF CommitBatch, effectVars, Consumers!Finish, OutboxInv, OutboxTypeOK
<1>4. ASSUME NEW w \in Relays, NEW m \in Messages,
             ClaimBatch(w) \/ HandlerFails(w, m) \/ Crash(w) \/ RequestStop(w) \/ Stop(w) \/ Restart(w)
      PROVE  UNCHANGED Consumers!deliveryVars
  BY <1>4 DEF ClaimBatch, HandlerFails, Crash, RequestStop, Stop, Restart, tableVars, effectVars
<1>5. ASSUME NEW w \in Relays,
             ClaimBatch(w) \/ Crash(w) \/ RequestStop(w) \/ Stop(w) \/ Restart(w)
      PROVE  UNCHANGED Consumers!deliveryVars
  BY <1>5 DEF ClaimBatch, Crash, RequestStop, Stop, Restart, tableVars, effectVars
<1> QED
  BY <1>1, <1>2, <1>3, <1>4, <1>5 DEF OutboxNext, RelayNext, Consumers!DeliveryNext

\* The relays implement at-least-once delivery: a message is marked published
\* only after its handlers have run to the end, and never handled afterwards.
THEOREM DeliversAtLeastOnce == OutboxSpec => AtLeastOnce
<1>1. OutboxInit => Consumers!DeliveryInit
  BY DEF OutboxInit, Consumers!DeliveryInit
<1> QED
  BY <1>1, StepDelivers, OutboxInvariance, PTL
     DEF OutboxSpec, AtLeastOnce, Consumers!DeliverySpec
=============================================================================
