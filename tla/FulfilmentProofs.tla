-------------------------- MODULE FulfilmentProofs --------------------------
(***************************************************************************)
(* Proofs about the life of an order, for any number of orders, deliveries,*)
(* cancel requests, sweepers and events.                                   *)
(***************************************************************************)
EXTENDS Fulfilment, InventoryProofs

-----------------------------------------------------------------------------
(* The order system runs the inventory module. *)

\* Every step of the order system is a step of the inventory module or leaves
\* the inventory alone.
LEMMA StepIsInventoryStep ==
    ASSUME FulfilmentInv, [FulfilmentNext]_fulfilmentVars
    PROVE  [InventoryNext]_inventoryVars
<1>1. CASE UNCHANGED fulfilmentVars
  BY <1>1 DEF fulfilmentVars
<1>2. ASSUME NEW o \in Orders,
             \/ StartCheckout(o) \/ StartPayment(o) \/ FinishCheckout(o)
             \/ \E r \in Lines : ReserveLine(o, r) \/ OutOfStock(o, r)
      PROVE  [InventoryNext]_inventoryVars
  BY <1>2 DEF StartCheckout, StartPayment, FinishCheckout, ReserveLine, OutOfStock,
              InventoryNext, CheckoutNext
<1>3. ASSUME NEW d \in Payers,
             \/ RecordWebhook(d) \/ IgnoreDuplicate(d) \/ FinishOther(d)
             \/ Capture(d) \/ LoadPaidOrder(d) \/ FinishPayment(d)
      PROVE  [InventoryNext]_inventoryVars
  BY <1>3 DEF RecordWebhook, IgnoreDuplicate, FinishOther, Capture, LoadPaidOrder,
              LoadOrder, FinishPayment, InventoryNext, SettlerNext, Settlers
<1>4. ASSUME NEW c \in Cancellers,
             FinishCancel(c) \/ \E o \in Orders : LoadCancelledOrder(c, o)
      PROVE  [InventoryNext]_inventoryVars
  BY <1>4 DEF FinishCancel, LoadCancelledOrder, LoadOrder, InventoryNext, SettlerNext,
              Settlers
<1>5. ASSUME NEW s \in Settlers, ReadHolds(s) PROVE [InventoryNext]_inventoryVars
  <2>1. loaded[s] \in Orders
    BY <1>5 DEF ReadHolds, FulfilmentInv, SettlerStage
  <2> QED
    BY <1>5, <2>1 DEF ReadHolds, InventoryNext, SettlerNext
<1>6. ASSUME NEW s \in Settlers, NEW r \in Lines, SettleHold(s, r) \/ HoldRefused(s, r)
      PROVE  [InventoryNext]_inventoryVars
  BY <1>6 DEF SettleHold, HoldRefused, InventoryNext, SettlerNext
<1>7. ASSUME \/ \E w \in Sweepers : Sweep(w)
             \/ \E r \in Lines : TimePasses(r)
             \/ \E s \in Sessions : AbortRequest(s)
      PROVE  [InventoryNext]_inventoryVars
  BY <1>7 DEF Sweep, TimePasses, AbortRequest, InventoryNext
<1> QED
  BY <1>1, <1>2, <1>3, <1>4, <1>5, <1>6, <1>7 DEF FulfilmentNext

-----------------------------------------------------------------------------
(* The initial state. *)

LEMMA FulfilmentInitInvariant == FulfilmentInit => FulfilmentInv
<1> SUFFICES ASSUME FulfilmentInit PROVE FulfilmentInv
  OBVIOUS
<1> USE DEF FulfilmentInit, InventoryInit
<1>1. FulfilmentTypeOK
  BY DEF FulfilmentTypeOK
<1>2. /\ PlacedTogether /\ EventsMatchState /\ AppliedOnce /\ AckedIsRecorded
      /\ CapturedIsPaid /\ SettledHoldsNothing /\ ProcessedIsPaid
  BY DEF PlacedTogether, EventsMatchState, AppliedOnce, AckedIsRecorded, CapturedIsPaid,
         SettledHoldsNothing, ProcessedIsPaid, Processed
<1>3. OneInsertPerEvent
  BY DEF OneInsertPerEvent, Inserting, Sessions, Settlers
<1>4. CheckoutStage
  BY DEF CheckoutStage, Sessions
<1>5. SettlerStage /\ ReadCoversOpen
  BY DEF SettlerStage, ReadCoversOpen, Sessions
<1> QED
  BY <1>1, <1>2, <1>3, <1>4, <1>5 DEF FulfilmentInv

-----------------------------------------------------------------------------
(* Steps of a checkout. *)

\* A step that leaves the committed tables alone cannot break what is said of
\* them.
LEMMA TablesUntouched ==
    ASSUME FulfilmentInv, UNCHANGED <<orderVars, acked, rows, released, committed>>
    PROVE  (/\ PlacedTogether /\ EventsMatchState /\ AppliedOnce /\ AckedIsRecorded
            /\ CapturedIsPaid /\ SettledHoldsNothing /\ ProcessedIsPaid)'
BY DEF orderVars, FulfilmentInv, PlacedTogether, EventsMatchState, AppliedOnce,
       AckedIsRecorded, CapturedIsPaid, SettledHoldsNothing, ProcessedIsPaid,
       Processed, Open

\* A step of a checkout does not touch the requests of the other sessions.
LEMMA OthersUntouched ==
    ASSUME InventoryInv, FulfilmentInv, NEW s \in Orders \cup Sweepers,
           UNCHANGED <<applied, status>>,
           released' = released \/ s \in Sweepers, committed' = committed,
           Open' \subseteq Open,
           \A t \in Sessions \ {s} :
               /\ step'[t] = step[t] /\ loaded'[t] = loaded[t] /\ emitted'[t] = emitted[t]
               /\ phase'[t] = phase[t] /\ todo'[t] = todo[t] /\ held'[t] = held[t]
    PROVE  OneInsertPerEvent' /\ SettlerStage' /\ ReadCoversOpen'
<1>1. \A t \in Settlers : t \in Sessions \ {s}
  BY InventoryAssumption DEF Sessions, InventoryAssumption
<1>2. \A t \in Payers : t \in Settlers
  BY DEF Settlers
<1>3. OneInsertPerEvent'
  BY <1>1, <1>2 DEF FulfilmentInv, OneInsertPerEvent, Inserting, Processed
<1>4. SettlerStage'
  BY <1>1 DEF FulfilmentInv, SettlerStage
<1>5. ReadCoversOpen'
  BY <1>1 DEF FulfilmentInv, ReadCoversOpen
<1> QED
  BY <1>3, <1>4, <1>5

LEMMA CheckoutWorkSteps ==
    ASSUME InventoryInv, FulfilmentInv, NEW o \in Orders,
           \/ StartCheckout(o) \/ StartPayment(o)
           \/ \E r \in Lines : ReserveLine(o, r) \/ OutOfStock(o, r)
    PROVE  FulfilmentInv'
<1>0. /\ o \in Sessions /\ InventoryTypeOK /\ FulfilmentTypeOK
      /\ UNCHANGED <<orderVars, acked, rows, released, committed>>
  BY DEF Sessions, InventoryInv, FulfilmentInv, StartCheckout, BeginCheckout, StartPayment,
         ReserveLine, Reserve, Execute, OutOfStock, RejectReserve, reservations,
         inventoryVars
<1>1. (/\ PlacedTogether /\ EventsMatchState /\ AppliedOnce /\ AckedIsRecorded
       /\ CapturedIsPaid /\ SettledHoldsNothing /\ ProcessedIsPaid)'
  BY <1>0, TablesUntouched
<1>2. \A t \in Sessions \ {o} :
          /\ step'[t] = step[t] /\ loaded'[t] = loaded[t] /\ emitted'[t] = emitted[t]
          /\ phase'[t] = phase[t] /\ todo'[t] = todo[t] /\ held'[t] = held[t]
  BY <1>0 DEF InventoryTypeOK, FulfilmentTypeOK, StartCheckout, BeginCheckout, StartPayment,
              ReserveLine, Reserve, Execute, Emit, OutOfStock, RejectReserve, EndSession,
              EndRequest, requestVars, inventoryVars
<1>3. OneInsertPerEvent' /\ SettlerStage' /\ ReadCoversOpen'
  <2>1. Open' = Open /\ UNCHANGED <<applied, status>>
    BY <1>0 DEF Open, orderVars
  <2> QED
    BY <1>0, <1>2, <2>1, OthersUntouched
<1>4. FulfilmentTypeOK'
  <2>1. \A r \in Lines : <<"inventory.reserved", r>> \in EventNames
    BY DEF EventNames
  <2>2. <<"order.placed", o>> \in EventNames
    BY DEF EventNames
  <2> QED
    BY <1>0, <2>1, <2>2
       DEF FulfilmentTypeOK, orderVars, StartCheckout, StartPayment, ReserveLine, Emit,
           OutOfStock, EndRequest, requestVars
<1>5. CheckoutStage'
  <2>1. \A p \in Orders \ {o} : p \in Sessions \ {o}
    BY DEF Sessions
  <2>2. status' = status /\ paidAt' = paidAt /\ cancelledAt' = cancelledAt
    BY <1>0 DEF orderVars
  <2>3. ASSUME NEW p \in Orders \ {o}
        PROVE  /\ step'[p] \in {"idle", "intent"}
               /\ step'[p] = "intent" => phase'[p] = "reserving" /\ todo'[p] = {}
               /\ phase'[p] = "placed" <=> status'[p] # "none"
               /\ p \in paidAt' \cup cancelledAt' => status'[p] # "none"
               /\ emitted'[p] = {<<"inventory.reserved", r>> : r \in held'[p]}
                        \cup {x \in {<<"order.placed", p>>} : step'[p] = "intent"}
    BY <1>2, <2>1, <2>2 DEF FulfilmentInv, CheckoutStage
  <2>4. /\ step'[o] \in {"idle", "intent"}
        /\ step'[o] = "intent" => phase'[o] = "reserving" /\ todo'[o] = {}
        /\ phase'[o] = "placed" <=> status'[o] # "none"
        /\ o \in paidAt' \cup cancelledAt' => status'[o] # "none"
    BY <1>0, <2>2
       DEF FulfilmentInv, CheckoutStage, InventoryTypeOK, FulfilmentTypeOK, StartCheckout,
           BeginCheckout, StartPayment, ReserveLine, Reserve, Execute, Emit, OutOfStock,
           RejectReserve, EndSession, EndRequest, requestVars, inventoryVars
  <2>5. emitted'[o] = {<<"inventory.reserved", r>> : r \in held'[o]}
                        \cup {x \in {<<"order.placed", o>>} : step'[o] = "intent"}
    <3>1. emitted[o] = {<<"inventory.reserved", r>> : r \in held[o]}
                        \cup {x \in {<<"order.placed", o>>} : step[o] = "intent"}
      BY DEF FulfilmentInv, CheckoutStage
    <3>2. CASE StartCheckout(o)
      BY <3>1, <3>2 DEF StartCheckout, BeginCheckout, requestVars
    <3>3. CASE StartPayment(o)
      BY <1>0, <3>1, <3>3
         DEF StartPayment, Emit, FulfilmentTypeOK, inventoryVars
    <3>4. ASSUME NEW r \in Lines, ReserveLine(o, r)
          PROVE  emitted'[o] = {<<"inventory.reserved", q>> : q \in held'[o]}
                        \cup {x \in {<<"order.placed", o>>} : step'[o] = "intent"}
      <4>1. held'[o] = held[o] \cup {r} /\ step'[o] = step[o]
        BY <1>0, <3>4 DEF ReserveLine, Reserve, Execute, InventoryTypeOK
      <4>2. emitted'[o] = emitted[o] \cup {<<"inventory.reserved", r>>}
        BY <1>0, <3>4 DEF ReserveLine, Emit, FulfilmentTypeOK
      <4> QED
        BY <3>1, <4>1, <4>2
    <3>5. ASSUME NEW r \in Lines, OutOfStock(o, r)
          PROVE  emitted'[o] = {<<"inventory.reserved", q>> : q \in held'[o]}
                        \cup {x \in {<<"order.placed", o>>} : step'[o] = "intent"}
      BY <1>0, <3>5 DEF OutOfStock, RejectReserve, EndSession, EndRequest, InventoryTypeOK,
                        FulfilmentTypeOK
    <3> QED
      BY <3>2, <3>3, <3>4, <3>5
  <2> QED
    BY <2>3, <2>4, <2>5 DEF CheckoutStage
<1> QED
  BY <1>1, <1>3, <1>4, <1>5 DEF FulfilmentInv

LEMMA FinishCheckoutStep ==
    ASSUME InventoryInv, FulfilmentInv, NEW o \in Orders, FinishCheckout(o)
    PROVE  FulfilmentInv'
<1>1. /\ o \in Sessions /\ InventoryTypeOK /\ FulfilmentTypeOK
      /\ phase[o] = "reserving" /\ status[o] = "none"
      /\ held[o] = LinesOf(o) /\ held[o] \cap rows = {}
      /\ rows' = rows \cup held[o] /\ Open' = Open \cup LinesOf(o)
      /\ released' = released /\ committed' = committed
  BY DEF Sessions, InventoryInv, InventoryTypeOK, FulfilmentInv, FinishCheckout,
         CommitCheckout, CheckoutWork, AllOrNothing, CheckoutStage, Open
<1>2. /\ status' = [status EXCEPT ![o] = "pending_payment"]
      /\ payment' = [payment EXCEPT ![o] = "authorized"]
      /\ outbox' = outbox \cup {<<"inventory.reserved", r>> : r \in LinesOf(o)}
                          \cup {<<"order.placed", o>>}
      /\ UNCHANGED <<paidAt, cancelledAt, applied, acked>>
  BY <1>1 DEF FinishCheckout, WriteOutbox, FulfilmentInv, CheckoutStage
<1>3. /\ \A t \in Sessions \ {o} :
             /\ step'[t] = step[t] /\ loaded'[t] = loaded[t] /\ emitted'[t] = emitted[t]
             /\ phase'[t] = phase[t] /\ todo'[t] = todo[t] /\ held'[t] = held[t]
      /\ step'[o] = "idle" /\ emitted'[o] = {} /\ held'[o] = {} /\ phase'[o] = "placed"
  BY <1>1 DEF InventoryTypeOK, FulfilmentTypeOK, FinishCheckout, CommitCheckout,
              EndSession, EndRequest
<1>4. /\ \A p \in Orders \ {o} : LinesOf(p) \cap LinesOf(o) = {}
      /\ \A p \in paidAt \cup cancelledAt : p \in Orders \ {o}
      /\ \A s \in Settlers : s \in Sessions \ {o}
      /\ \A p \in Orders \ {o} : p \in Sessions \ {o}
      /\ Payers \subseteq Settlers
  BY <1>1, InventoryAssumption
     DEF LinesOf, FulfilmentInv, FulfilmentTypeOK, CheckoutStage, Sessions, Settlers,
         InventoryAssumption
<1>5. FulfilmentTypeOK'
  BY <1>1, <1>2 DEF FulfilmentTypeOK, FinishCheckout, EndRequest, EventNames, LinesOf
<1>6. PlacedTogether'
  <2>1. ASSUME NEW p \in Orders \ {o}
        PROVE  /\ LinesOf(p) \subseteq rows' <=> LinesOf(p) \subseteq rows
               /\ LinesOf(p) \cap rows' = LinesOf(p) \cap rows
               /\ <<"order.placed", p>> \in outbox' <=> <<"order.placed", p>> \in outbox
    BY <1>1, <1>2, <1>4
  <2> QED
    BY <1>1, <1>2, <2>1 DEF FulfilmentInv, FulfilmentTypeOK, PlacedTogether
<1>7. EventsMatchState'
  BY <1>1, <1>2 DEF FulfilmentInv, EventsMatchState
<1>8. AppliedOnce' /\ AckedIsRecorded' /\ CapturedIsPaid' /\ ProcessedIsPaid'
  BY <1>1, <1>2, <1>4
     DEF FulfilmentInv, FulfilmentTypeOK, AppliedOnce, AckedIsRecorded, CapturedIsPaid,
         ProcessedIsPaid, Processed
<1>9. SettledHoldsNothing'
  BY <1>1, <1>2, <1>4 DEF FulfilmentInv, SettledHoldsNothing
<1>10. OneInsertPerEvent'
  BY <1>2, <1>3, <1>4 DEF FulfilmentInv, OneInsertPerEvent, Inserting, Processed
<1>11. SettlerStage'
  BY <1>1, <1>2, <1>3, <1>4 DEF FulfilmentInv, FulfilmentTypeOK, SettlerStage
<1>12. ReadCoversOpen'
  <2> SUFFICES ASSUME NEW s \in Settlers, phase[s] = "settling"
               PROVE  LinesOf(loaded[s]) \cap Open' \subseteq todo[s] \cup held[s]
    BY <1>3, <1>4 DEF ReadCoversOpen
  <2>1. loaded[s] \in Orders \ {o}
    BY <1>1 DEF FulfilmentInv, SettlerStage
  <2> QED
    BY <1>1, <1>4, <2>1 DEF FulfilmentInv, ReadCoversOpen
<1>13. CheckoutStage'
  <2>1. ASSUME NEW p \in Orders \ {o}
        PROVE  /\ step'[p] \in {"idle", "intent"}
               /\ step'[p] = "intent" => phase'[p] = "reserving" /\ todo'[p] = {}
               /\ phase'[p] = "placed" <=> status'[p] # "none"
               /\ p \in paidAt' \cup cancelledAt' => status'[p] # "none"
               /\ emitted'[p] = {<<"inventory.reserved", r>> : r \in held'[p]}
                        \cup {x \in {<<"order.placed", p>>} : step'[p] = "intent"}
    BY <1>1, <1>2, <1>3, <1>4 DEF FulfilmentInv, FulfilmentTypeOK, CheckoutStage
  <2>2. /\ step'[o] \in {"idle", "intent"} /\ step'[o] # "intent"
        /\ phase'[o] = "placed" /\ status'[o] # "none"
        /\ emitted'[o] = {<<"inventory.reserved", r>> : r \in held'[o]}
                        \cup {x \in {<<"order.placed", o>>} : step'[o] = "intent"}
    BY <1>1, <1>2, <1>3 DEF FulfilmentTypeOK
  <2> QED
    BY <2>1, <2>2 DEF CheckoutStage
<1> QED
  BY <1>5, <1>6, <1>7, <1>8, <1>9, <1>10, <1>11, <1>12, <1>13 DEF FulfilmentInv

-----------------------------------------------------------------------------
(* Steps of the sweeper, of time, and requests that end without a commit. *)

\* A sweep changes no order: it can only close reservations.
LEMMA SweepStep ==
    ASSUME InventoryInv, FulfilmentInv, NEW w \in Sweepers, Sweep(w)
    PROVE  FulfilmentInv'
<1>1. /\ w \in Sessions /\ w \notin Orders /\ w \notin Settlers /\ w \notin Payers
      /\ InventoryTypeOK /\ FulfilmentTypeOK
      /\ UNCHANGED <<orderVars, acked, requestVars>>
  BY InventoryAssumption
     DEF InventoryAssumption, Sessions, Settlers, InventoryInv, FulfilmentInv, Sweep
<1>2. /\ rows' = rows /\ committed' = committed
      /\ Open' \subseteq Open
      /\ \A t \in Sessions \ {w} :
             phase'[t] = phase[t] /\ todo'[t] = todo[t] /\ held'[t] = held[t]
  BY <1>1 DEF Sweep, SweeperNext, SelectExpired, Release, Settle, Execute, RefuseSettle,
              CommitSettle, EndSession, InventoryTypeOK, Open, reservations
<1>3. FulfilmentTypeOK'
  BY <1>1 DEF FulfilmentTypeOK, orderVars, requestVars
<1>4. (/\ PlacedTogether /\ EventsMatchState /\ AppliedOnce /\ AckedIsRecorded
       /\ CapturedIsPaid /\ SettledHoldsNothing /\ ProcessedIsPaid)'
  BY <1>1, <1>2
     DEF orderVars, FulfilmentInv, PlacedTogether, EventsMatchState, AppliedOnce,
         AckedIsRecorded, CapturedIsPaid, SettledHoldsNothing, ProcessedIsPaid, Processed
<1>5. OneInsertPerEvent' /\ SettlerStage' /\ ReadCoversOpen'
  BY <1>1, <1>2, OthersUntouched DEF orderVars, requestVars
<1>6. CheckoutStage'
  <2>1. \A o \in Orders : o \in Sessions \ {w}
    BY <1>1 DEF Sessions
  <2> QED
    BY <1>1, <1>2, <2>1 DEF FulfilmentInv, CheckoutStage, orderVars, requestVars
<1> QED
  BY <1>3, <1>4, <1>5, <1>6 DEF FulfilmentInv

LEMMA TimePassesStep ==
    ASSUME FulfilmentInv, NEW r \in Lines, TimePasses(r)
    PROVE  FulfilmentInv'
<1>1. /\ UNCHANGED <<orderVars, acked, requestVars, reservations, sessionVars>>
      /\ UNCHANGED <<orderVars, acked, rows, released, committed>>
  BY DEF TimePasses, Lapse, reservations
<1>2. (/\ PlacedTogether /\ EventsMatchState /\ AppliedOnce /\ AckedIsRecorded
       /\ CapturedIsPaid /\ SettledHoldsNothing /\ ProcessedIsPaid)'
  BY <1>1, TablesUntouched
<1>3. FulfilmentTypeOK' /\ OneInsertPerEvent' /\ CheckoutStage' /\ SettlerStage'
  BY <1>1 DEF orderVars, requestVars, reservations, sessionVars, FulfilmentInv,
              FulfilmentTypeOK, OneInsertPerEvent, Inserting, Processed, CheckoutStage,
              SettlerStage
<1>4. ReadCoversOpen'
  BY <1>1 DEF requestVars, reservations, sessionVars, FulfilmentInv, ReadCoversOpen, Open
<1> QED
  BY <1>2, <1>3, <1>4 DEF FulfilmentInv

\* A request ends without a commit: refused, timed out, crashed.
LEMMA EndWithoutCommit ==
    ASSUME InventoryInv, FulfilmentInv, NEW s \in Sessions,
           \/ EndSession(s, IF s \in Orders THEN "failed" ELSE "idle") /\ phase[s] # "placed"
           \/ s \in Settlers /\ phase[s] = "idle" /\ UNCHANGED sessionVars,
           EndRequest(s),
           UNCHANGED <<orderVars, acked, rows, released, committed>>
    PROVE  FulfilmentInv'
<1>1. InventoryTypeOK /\ FulfilmentTypeOK /\ Settlers \subseteq Sessions
      /\ Orders \cap Settlers = {} /\ Payers \subseteq Settlers /\ Orders \subseteq Sessions
  BY InventoryAssumption
     DEF InventoryAssumption, InventoryInv, FulfilmentInv, Sessions, Settlers
<1>2. /\ \A t \in Sessions \ {s} :
             /\ step'[t] = step[t] /\ loaded'[t] = loaded[t] /\ emitted'[t] = emitted[t]
             /\ phase'[t] = phase[t] /\ todo'[t] = todo[t] /\ held'[t] = held[t]
      /\ step'[s] = "idle" /\ emitted'[s] = {} /\ loaded'[s] = NoOrder
      /\ s \in Settlers => phase'[s] = "idle"
      /\ s \in Orders => phase'[s] = "failed" /\ held'[s] = {} /\ phase[s] # "placed"
  BY <1>1 DEF InventoryTypeOK, FulfilmentTypeOK, EndSession, EndRequest, sessionVars
<1>3. (/\ PlacedTogether /\ EventsMatchState /\ AppliedOnce /\ AckedIsRecorded
       /\ CapturedIsPaid /\ SettledHoldsNothing /\ ProcessedIsPaid)'
  BY TablesUntouched
<1>4. FulfilmentTypeOK'
  BY <1>1 DEF FulfilmentTypeOK, orderVars, EndRequest
<1>5. OneInsertPerEvent'
  BY <1>1, <1>2 DEF FulfilmentInv, OneInsertPerEvent, Inserting, Processed, orderVars
<1>6. SettlerStage'
  BY <1>1, <1>2 DEF FulfilmentInv, SettlerStage, orderVars
<1>7. ReadCoversOpen'
  BY <1>1, <1>2 DEF FulfilmentInv, ReadCoversOpen, Open
<1>8. CheckoutStage'
  <2> SUFFICES ASSUME NEW p \in Orders
        PROVE  /\ step'[p] \in {"idle", "intent"}
               /\ step'[p] = "intent" => phase'[p] = "reserving" /\ todo'[p] = {}
               /\ phase'[p] = "placed" <=> status'[p] # "none"
               /\ p \in paidAt' \cup cancelledAt' => status'[p] # "none"
               /\ emitted'[p] = {<<"inventory.reserved", r>> : r \in held'[p]}
                        \cup {x \in {<<"order.placed", p>>} : step'[p] = "intent"}
    BY DEF CheckoutStage
  <2>1. CASE p # s
    BY <1>1, <1>2, <2>1 DEF FulfilmentInv, CheckoutStage, orderVars
  <2>2. CASE p = s
    BY <1>1, <1>2, <2>2 DEF FulfilmentInv, CheckoutStage, orderVars
  <2> QED
    BY <2>1, <2>2
<1> QED
  BY <1>3, <1>4, <1>5, <1>6, <1>7, <1>8 DEF FulfilmentInv

LEMMA FailedRequestSteps ==
    ASSUME InventoryInv, FulfilmentInv,
           \/ \E s \in Sessions : AbortRequest(s)
           \/ \E s \in Settlers, r \in Lines : HoldRefused(s, r)
    PROVE  FulfilmentInv'
<1>1. ASSUME NEW s \in Sessions, AbortRequest(s) PROVE FulfilmentInv'
  <2>1. CASE Rollback(s)
    BY <1>1, <2>1, EndWithoutCommit DEF AbortRequest, Rollback, reservations
  <2>2. CASE /\ s \in Settlers /\ phase[s] = "idle" /\ step[s] # "idle"
             /\ UNCHANGED inventoryVars
    BY <1>1, <2>2, EndWithoutCommit DEF AbortRequest, inventoryVars, sessionVars
  <2> QED
    BY <1>1, <2>1, <2>2 DEF AbortRequest
<1>2. ASSUME NEW s \in Settlers, NEW r \in Lines, HoldRefused(s, r) PROVE FulfilmentInv'
  <2>1. s \in Sessions /\ s \notin Orders
    BY InventoryAssumption DEF InventoryAssumption, Sessions
  <2> QED
    BY <1>2, <2>1, EndWithoutCommit DEF HoldRefused, RefuseSettle, reservations
<1> QED
  BY <1>1, <1>2

-----------------------------------------------------------------------------
(* Steps of callbacks and cancel requests before they commit. *)

\* A step of settler s that changes only where s is.
LEMMA SettlerMoves ==
    ASSUME InventoryInv, FulfilmentInv, NEW s \in Settlers,
           UNCHANGED <<orderVars, rows, released, committed>>,
           emitted' = emitted,
           \A t \in Sessions \ {s} :
               /\ step'[t] = step[t] /\ loaded'[t] = loaded[t]
               /\ phase'[t] = phase[t] /\ todo'[t] = todo[t] /\ held'[t] = held[t],
           FulfilmentTypeOK', AckedIsRecorded',
           phase'[s] = "settling" => step'[s] = "loaded",
           step'[s] = "captured" => OrderFor[EventOf[s]] \in Orders,
           step'[s] = "loaded" => loaded'[s] \in Orders /\ status[loaded'[s]] # "none",
           step'[s] = "loaded" /\ s \in Payers => loaded'[s] = OrderFor[EventOf[s]],
           phase'[s] = "settling" =>
               LinesOf(loaded'[s]) \cap Open \subseteq todo'[s] \cup held'[s],
           step[s] = "idle" /\ step'[s] # "idle" /\ s \in Payers =>
               KeyFree(s) /\ EventOf[s] \notin Processed
    PROVE  FulfilmentInv'
<1>1. /\ Settlers \subseteq Sessions /\ Payers \subseteq Settlers
      /\ Open' = Open /\ Processed' = Processed
      /\ Orders \subseteq Sessions \ {s}
  BY InventoryAssumption
     DEF InventoryAssumption, Sessions, Settlers, Open, Processed, orderVars
<1>2. (/\ PlacedTogether /\ EventsMatchState /\ AppliedOnce
       /\ CapturedIsPaid /\ SettledHoldsNothing /\ ProcessedIsPaid)'
  BY <1>1
     DEF orderVars, FulfilmentInv, PlacedTogether, EventsMatchState, AppliedOnce,
         CapturedIsPaid, SettledHoldsNothing, ProcessedIsPaid
<1>3. OneInsertPerEvent'
  <2>1. \A t \in Payers : t # s => (Inserting(t)' <=> Inserting(t))
    BY <1>1 DEF Inserting
  <2>2. s \in Payers /\ Inserting(s)' => \/ Inserting(s)
                                         \/ KeyFree(s) /\ EventOf[s] \notin Processed
    BY DEF Inserting
  <2> QED
    BY <1>1, <2>1, <2>2 DEF FulfilmentInv, OneInsertPerEvent, KeyFree
<1>4. SettlerStage'
  BY <1>1 DEF FulfilmentInv, SettlerStage, orderVars
<1>5. ReadCoversOpen'
  BY <1>1 DEF FulfilmentInv, ReadCoversOpen
<1>6. CheckoutStage'
  BY <1>1 DEF FulfilmentInv, CheckoutStage, orderVars
<1> QED
  BY <1>2, <1>3, <1>4, <1>5, <1>6 DEF FulfilmentInv

LEMMA CallbackSteps ==
    ASSUME InventoryInv, FulfilmentInv, NEW d \in Payers,
           RecordWebhook(d) \/ IgnoreDuplicate(d) \/ Capture(d) \/ LoadPaidOrder(d)
    PROVE  FulfilmentInv'
<1>1. /\ d \in Settlers /\ d \in Sessions /\ InventoryTypeOK /\ FulfilmentTypeOK
      /\ Settlers \subseteq Sessions
      /\ UNCHANGED <<orderVars, inventoryVars, emitted>>
  BY DEF Sessions, Settlers, InventoryInv, FulfilmentInv, RecordWebhook, IgnoreDuplicate,
         Capture, LoadPaidOrder, LoadOrder, requestVars
<1>2. phase[d] # "settling" /\ step[d] \in {"idle", "recorded", "captured"}
  BY <1>1 DEF FulfilmentInv, SettlerStage, RecordWebhook, IgnoreDuplicate, Capture,
              LoadPaidOrder
<1>3. FulfilmentTypeOK'
  <2>1. EventOf[d] \in Events /\ OrderFor[EventOf[d]] \in Orders \cup {NoOrder}
    BY FulfilmentAssumption DEF FulfilmentAssumption
  <2> QED
    BY <1>1, <2>1
       DEF FulfilmentTypeOK, orderVars, RecordWebhook, IgnoreDuplicate, Capture,
           LoadPaidOrder, LoadOrder, requestVars
<1>4. AckedIsRecorded'
  <2>1. CASE IgnoreDuplicate(d)
    <3>1. /\ EventOf[d] \in Processed /\ EventOf[d] \in Events
          /\ acked' = acked \cup {EventOf[d]}
      BY <2>1 DEF IgnoreDuplicate, Processed
    <3>2. applied[EventOf[d]] = 1
      BY <1>1, <3>1 DEF Processed, FulfilmentInv, AppliedOnce, FulfilmentTypeOK
    <3>3. OrderFor[EventOf[d]] # NoOrder =>
             OrderFor[EventOf[d]] \in paidAt /\ payment[OrderFor[EventOf[d]]] = "captured"
      BY <1>1, <3>1 DEF FulfilmentInv, ProcessedIsPaid, CapturedIsPaid, FulfilmentTypeOK
    <3> QED
      BY <1>1, <3>1, <3>2, <3>3 DEF FulfilmentInv, AckedIsRecorded, orderVars
  <2>2. CASE acked' = acked
    BY <1>1, <2>2 DEF FulfilmentInv, AckedIsRecorded, orderVars
  <2> QED
    BY <2>1, <2>2 DEF RecordWebhook, Capture, LoadPaidOrder, LoadOrder
<1>5. /\ step[d] = "idle" /\ step'[d] # "idle" => KeyFree(d) /\ EventOf[d] \notin Processed
      /\ phase'[d] # "settling"
      /\ step'[d] = "captured" => OrderFor[EventOf[d]] \in Orders
  BY <1>1, <1>2, FulfilmentAssumption
     DEF RecordWebhook, IgnoreDuplicate, Capture, LoadPaidOrder, LoadOrder, requestVars,
         FulfilmentTypeOK, inventoryVars, FulfilmentAssumption
<1>6. step'[d] = "loaded" => /\ loaded'[d] \in Orders /\ status[loaded'[d]] # "none"
                             /\ loaded'[d] = OrderFor[EventOf[d]]
  <2>1. CASE LoadPaidOrder(d)
    <3> DEFINE o == OrderFor[EventOf[d]]
    <3>1. loaded'[d] = o /\ Allowed(status[o], "paid")
      BY <1>1, <2>1 DEF LoadPaidOrder, LoadOrder, FulfilmentTypeOK
    <3>2. o \in Orders
      BY <2>1, <1>1 DEF LoadPaidOrder, FulfilmentInv, SettlerStage
    <3> QED
      BY <3>1, <3>2 DEF Allowed
  <2>2. CASE RecordWebhook(d) \/ IgnoreDuplicate(d) \/ Capture(d)
    BY <1>1, <1>2, <2>2 DEF RecordWebhook, IgnoreDuplicate, Capture, requestVars,
                            FulfilmentTypeOK
  <2> QED
    BY <2>1, <2>2
<1>7. \A t \in Sessions \ {d} :
          /\ step'[t] = step[t] /\ loaded'[t] = loaded[t]
          /\ phase'[t] = phase[t] /\ todo'[t] = todo[t] /\ held'[t] = held[t]
  BY <1>1 DEF RecordWebhook, IgnoreDuplicate, Capture, LoadPaidOrder, LoadOrder,
              requestVars, FulfilmentTypeOK, inventoryVars
<1>8. UNCHANGED <<orderVars, rows, released, committed>> /\ emitted' = emitted
  BY <1>1 DEF inventoryVars
<1> QED
  BY <1>1, <1>3, <1>4, <1>5, <1>6, <1>7, <1>8, SettlerMoves

LEMMA LoadCancelledOrderStep ==
    ASSUME InventoryInv, FulfilmentInv, NEW c \in Cancellers, NEW o \in Orders,
           LoadCancelledOrder(c, o)
    PROVE  FulfilmentInv'
<1>1. /\ c \in Settlers /\ c \in Sessions /\ c \notin Payers
      /\ Settlers \subseteq Sessions /\ InventoryTypeOK /\ FulfilmentTypeOK
      /\ UNCHANGED <<orderVars, acked, emitted, inventoryVars>>
      /\ step[c] = "idle" /\ Allowed(status[o], "cancelled")
      /\ step' = [step EXCEPT ![c] = "loaded"] /\ loaded' = [loaded EXCEPT ![c] = o]
  BY InventoryAssumption
     DEF InventoryAssumption, Sessions, Settlers, InventoryInv, FulfilmentInv,
         LoadCancelledOrder, LoadOrder
<1>2. FulfilmentTypeOK'
  BY <1>1 DEF FulfilmentTypeOK, orderVars
<1>3. AckedIsRecorded'
  BY <1>1 DEF FulfilmentInv, AckedIsRecorded, orderVars
<1>4. /\ phase[c] # "settling" /\ phase' = phase /\ todo' = todo /\ held' = held
      /\ UNCHANGED <<rows, released, committed>>
  BY <1>1 DEF FulfilmentInv, SettlerStage, inventoryVars
<1>5. /\ step'[c] = "loaded" /\ loaded'[c] = o /\ status[o] # "none"
      /\ \A t \in Sessions \ {c} : step'[t] = step[t] /\ loaded'[t] = loaded[t]
  BY <1>1 DEF FulfilmentTypeOK, Allowed
<1> QED
  BY <1>1, <1>2, <1>3, <1>4, <1>5, SettlerMoves

LEMMA ReadHoldsStep ==
    ASSUME InventoryInv, FulfilmentInv, NEW s \in Settlers, ReadHolds(s)
    PROVE  FulfilmentInv'
<1>1. /\ s \in Sessions /\ Settlers \subseteq Sessions
      /\ InventoryTypeOK /\ FulfilmentTypeOK
      /\ UNCHANGED <<orderVars, acked, requestVars, rows, released, committed, held>>
      /\ step[s] = "loaded" /\ loaded[s] \in Orders
      /\ phase' = [phase EXCEPT ![s] = "settling"]
      /\ todo' = [todo EXCEPT ![s] = {r \in Open : OrderOf(r) = loaded[s]}]
  BY DEF Sessions, InventoryInv, FulfilmentInv, SettlerStage, ReadHolds, ReadReservations,
         reservations
<1>2. FulfilmentTypeOK' /\ AckedIsRecorded'
  BY <1>1 DEF FulfilmentInv, FulfilmentTypeOK, AckedIsRecorded, orderVars, requestVars
<1>3. /\ \A t \in Sessions \ {s} : phase'[t] = phase[t] /\ todo'[t] = todo[t]
      /\ LinesOf(loaded[s]) \cap Open \subseteq todo'[s]
  BY <1>1 DEF InventoryTypeOK, LinesOf
<1>4. /\ status[loaded[s]] # "none"
      /\ s \in Payers => loaded[s] = OrderFor[EventOf[s]]
  BY <1>1 DEF FulfilmentInv, SettlerStage
<1> QED
  BY <1>1, <1>2, <1>3, <1>4, SettlerMoves DEF requestVars

LEMMA SettleHoldStep ==
    ASSUME InventoryInv, FulfilmentInv, NEW s \in Settlers, NEW r \in Lines,
           SettleHold(s, r)
    PROVE  FulfilmentInv'
<1>1. /\ s \in Sessions /\ Settlers \subseteq Sessions
      /\ InventoryTypeOK /\ FulfilmentTypeOK
      /\ UNCHANGED <<orderVars, acked, requestVars, rows, released, committed, phase>>
      /\ phase[s] = "settling" /\ Execute(s, r)
  BY DEF Sessions, InventoryInv, FulfilmentInv, SettleHold, Release, CommitReservation,
         Settle, Execute, reservations
<1>2. FulfilmentTypeOK' /\ AckedIsRecorded'
  BY <1>1 DEF FulfilmentInv, FulfilmentTypeOK, AckedIsRecorded, orderVars, requestVars
<1>3. /\ \A t \in Sessions \ {s} : held'[t] = held[t] /\ todo'[t] = todo[t]
      /\ LinesOf(loaded[s]) \cap Open \subseteq todo'[s] \cup held'[s]
  BY <1>1 DEF InventoryTypeOK, Execute, FulfilmentInv, ReadCoversOpen
<1>4. /\ step[s] = "loaded" /\ loaded[s] \in Orders /\ status[loaded[s]] # "none"
      /\ s \in Payers => loaded[s] = OrderFor[EventOf[s]]
  BY <1>1 DEF FulfilmentInv, SettlerStage
<1> QED
  BY <1>1, <1>2, <1>3, <1>4, SettlerMoves DEF requestVars

-----------------------------------------------------------------------------
(* Commits of callbacks and cancel requests. *)

\* What a commit leaves of the sessions: settler s is idle again, the others
\* are where they were, no order has appeared and no reservation has opened.
LEMMA SettlerCommits ==
    ASSUME InventoryInv, FulfilmentInv, NEW s \in Settlers,
           EndRequest(s), phase'[s] # "settling", s \in Payers => Inserting(s),
           \A t \in Sessions \ {s} :
               phase'[t] = phase[t] /\ todo'[t] = todo[t] /\ held'[t] = held[t],
           \A o \in Orders : status'[o] # "none" <=> status[o] # "none",
           \A o \in paidAt' \cup cancelledAt' : status[o] # "none",
           \A e \in Events : e # EventOf[s] \/ s \notin Payers => applied'[e] = applied[e],
           Open' \subseteq Open
    PROVE  OneInsertPerEvent' /\ CheckoutStage' /\ SettlerStage' /\ ReadCoversOpen'
<1>1. /\ FulfilmentTypeOK /\ Settlers \subseteq Sessions /\ Payers \subseteq Settlers
      /\ Orders \subseteq Sessions \ {s}
  BY InventoryAssumption
     DEF InventoryAssumption, FulfilmentInv, Sessions, Settlers
<1>2. /\ \A t \in Sessions \ {s} :
             step'[t] = step[t] /\ loaded'[t] = loaded[t] /\ emitted'[t] = emitted[t]
      /\ step'[s] = "idle" /\ emitted'[s] = {}
  BY <1>1 DEF EndRequest, FulfilmentTypeOK
<1>3. OneInsertPerEvent'
  <2>1. ASSUME NEW d \in Payers, Inserting(d)'
        PROVE  d # s /\ Inserting(d) /\ EventOf[d] \notin Processed'
    <3>1. d # s /\ Inserting(d)
      BY <1>1, <1>2, <2>1 DEF Inserting
    <3>2. EventOf[d] \notin Processed /\ (s \in Payers => EventOf[d] # EventOf[s])
      BY <3>1 DEF FulfilmentInv, OneInsertPerEvent
    <3> QED
      BY <3>1, <3>2 DEF Processed
  <2> QED
    BY <2>1 DEF FulfilmentInv, OneInsertPerEvent
<1>4. CheckoutStage'
  BY <1>1, <1>2 DEF FulfilmentInv, CheckoutStage
<1>5. SettlerStage'
  BY <1>1, <1>2 DEF FulfilmentInv, SettlerStage
<1>6. ReadCoversOpen'
  BY <1>1, <1>2 DEF FulfilmentInv, ReadCoversOpen
<1> QED
  BY <1>3, <1>4, <1>5, <1>6

LEMMA FinishOtherStep ==
    ASSUME InventoryInv, FulfilmentInv, NEW d \in Payers, FinishOther(d)
    PROVE  FulfilmentInv'
<1> DEFINE e == EventOf[d]
<1>0. /\ d \in Settlers /\ d \in Sessions /\ FulfilmentTypeOK /\ Inserting(d)
      /\ e \in Events /\ e \notin Processed
  BY FulfilmentAssumption
     DEF FulfilmentAssumption, Sessions, Settlers, FulfilmentInv, FinishOther, Inserting,
         OneInsertPerEvent
<1>1. /\ OrderFor[e] = NoOrder /\ applied[e] = 0
      /\ applied' = [applied EXCEPT ![e] = 1]
      /\ acked' = acked \cup {e}
      /\ UNCHANGED <<status, paidAt, cancelledAt, payment, outbox, inventoryVars>>
      /\ EndRequest(d) /\ phase[d] # "settling"
  <2>1. applied[e] = 0
    BY <1>0 DEF FulfilmentTypeOK, Processed
  <2>2. phase[d] # "settling"
    BY <1>0 DEF FulfilmentInv, SettlerStage, FinishOther
  <2> QED
    BY <2>1, <2>2 DEF FinishOther
<1> HIDE DEF e
<1>2. FulfilmentTypeOK'
  BY <1>0, <1>1 DEF FulfilmentTypeOK, EndRequest
<1>3. PlacedTogether' /\ EventsMatchState' /\ CapturedIsPaid' /\ SettledHoldsNothing'
  BY <1>0, <1>1 DEF inventoryVars, FulfilmentInv, PlacedTogether, EventsMatchState,
              CapturedIsPaid, SettledHoldsNothing, Open
<1>4. AppliedOnce' /\ AckedIsRecorded' /\ ProcessedIsPaid'
  BY <1>0, <1>1 DEF FulfilmentInv, FulfilmentTypeOK, AppliedOnce, AckedIsRecorded,
              ProcessedIsPaid, Processed
<1>5. Open' = Open /\ phase' = phase /\ todo' = todo /\ held' = held
  BY <1>0, <1>1 DEF inventoryVars, Open
<1>6. \A o \in paidAt' \cup cancelledAt' : status[o] # "none"
  BY <1>0, <1>1 DEF FulfilmentInv, FulfilmentTypeOK, CheckoutStage
<1>7. \A x \in Events : x # EventOf[d] => applied'[x] = applied[x]
  BY <1>0, <1>1 DEF FulfilmentTypeOK, e
<1>8. OneInsertPerEvent' /\ CheckoutStage' /\ SettlerStage' /\ ReadCoversOpen'
  BY <1>0, <1>1, <1>5, <1>6, <1>7, SettlerCommits
<1> QED
  BY <1>2, <1>3, <1>4, <1>8 DEF FulfilmentInv

\* What CommitSettle does to the reservations and to the sessions.
LEMMA SettlementEffect ==
    ASSUME InventoryInv, NEW s \in Settlers, CommitSettle(s)
    PROVE  /\ rows' = rows /\ Open' = Open \ held[s] /\ todo[s] = {}
           /\ phase[s] = "settling" /\ phase'[s] = "idle"
           /\ \A t \in Sessions \ {s} :
                  phase'[t] = phase[t] /\ todo'[t] = todo[t] /\ held'[t] = held[t]
BY DEF InventoryInv, InventoryTypeOK, Sessions, CommitSettle, EndSession, Open

LEMMA FinishPaymentStep ==
    ASSUME InventoryInv, FulfilmentInv, NEW d \in Payers, FinishPayment(d)
    PROVE  FulfilmentInv'
<1> DEFINE e == EventOf[d]
           o == loaded[d]
<1>1. /\ d \in Settlers /\ d \in Sessions /\ FulfilmentTypeOK /\ CommitSettle(d)
  BY DEF Sessions, Settlers, FulfilmentInv, FinishPayment
<1>2. /\ rows' = rows /\ Open' = Open \ held[d] /\ todo[d] = {}
      /\ phase[d] = "settling" /\ phase'[d] = "idle"
      /\ \A t \in Sessions \ {d} :
             phase'[t] = phase[t] /\ todo'[t] = todo[t] /\ held'[t] = held[t]
  BY <1>1, SettlementEffect
<1>3. /\ step[d] = "loaded" /\ o \in Orders /\ status[o] # "none" /\ o = OrderFor[e]
      /\ LinesOf(o) \cap Open \subseteq held[d] /\ emitted[d] = {}
  BY <1>1, <1>2 DEF FulfilmentInv, SettlerStage, ReadCoversOpen
<1>4. /\ e \in Events /\ Inserting(d) /\ e \notin Processed /\ applied[e] = 0
  BY <1>1, <1>3, FulfilmentAssumption
     DEF FulfilmentAssumption, FulfilmentInv, FulfilmentTypeOK, Inserting,
         OneInsertPerEvent, Processed
<1>5. /\ status' = [status EXCEPT ![o] = "paid"]
      /\ paidAt' = paidAt \cup {o} /\ cancelledAt' = cancelledAt
      /\ payment' = [payment EXCEPT ![o] = "captured"]
      /\ applied' = [applied EXCEPT ![e] = 1]
      /\ outbox' = outbox \cup {<<"order.paid", o>>}
      /\ acked' = acked \cup {e}
      /\ EndRequest(d)
  BY <1>1, <1>3, <1>4 DEF FinishPayment, WriteOutbox, FulfilmentTypeOK
<1> HIDE DEF e, o
<1>6. FulfilmentTypeOK'
  <2>1. <<"order.paid", o>> \in EventNames
    BY <1>3 DEF EventNames
  <2> QED
    BY <1>1, <1>3, <1>4, <1>5, <2>1 DEF FulfilmentTypeOK, EndRequest
<1>7. PlacedTogether'
  BY <1>1, <1>2, <1>3, <1>5 DEF FulfilmentInv, FulfilmentTypeOK, PlacedTogether
<1>8. EventsMatchState'
  BY <1>1, <1>2, <1>3, <1>5 DEF FulfilmentInv, EventsMatchState
<1>9. CapturedIsPaid'
  BY <1>1, <1>3, <1>5 DEF FulfilmentInv, FulfilmentTypeOK, CapturedIsPaid
<1>10. AppliedOnce' /\ ProcessedIsPaid'
  BY <1>1, <1>3, <1>4, <1>5
     DEF FulfilmentInv, FulfilmentTypeOK, AppliedOnce, ProcessedIsPaid, Processed
<1>11. AckedIsRecorded'
  <2>1. ASSUME NEW x \in acked PROVE x # e /\ x \in Events
    BY <1>1, <1>4 DEF FulfilmentInv, FulfilmentTypeOK, AckedIsRecorded
  <2>2. \A p \in Orders : payment[p] = "captured" => payment'[p] = "captured"
    BY <1>1, <1>3, <1>5 DEF FulfilmentTypeOK
  <2> QED
    BY <1>1, <1>3, <1>4, <1>5, <2>1, <2>2
       DEF FulfilmentInv, FulfilmentTypeOK, AckedIsRecorded
<1>12. SettledHoldsNothing'
  BY <1>2, <1>3, <1>5 DEF FulfilmentInv, SettledHoldsNothing
<1>13. /\ \A p \in Orders : status'[p] # "none" <=> status[p] # "none"
       /\ \A p \in paidAt' \cup cancelledAt' : status[p] # "none"
       /\ \A x \in Events : x # EventOf[d] => applied'[x] = applied[x]
  BY <1>1, <1>3, <1>5 DEF FulfilmentInv, FulfilmentTypeOK, CheckoutStage, e
<1>14. OneInsertPerEvent' /\ CheckoutStage' /\ SettlerStage' /\ ReadCoversOpen'
  BY <1>1, <1>2, <1>4, <1>5, <1>13, SettlerCommits
<1> QED
  BY <1>6, <1>7, <1>8, <1>9, <1>10, <1>11, <1>12, <1>14 DEF FulfilmentInv

LEMMA FinishCancelStep ==
    ASSUME InventoryInv, FulfilmentInv, NEW c \in Cancellers, FinishCancel(c)
    PROVE  FulfilmentInv'
<1> DEFINE o == loaded[c]
<1>1. /\ c \in Settlers /\ c \in Sessions /\ c \notin Payers
      /\ FulfilmentTypeOK /\ CommitSettle(c)
  BY InventoryAssumption
     DEF InventoryAssumption, Sessions, Settlers, FulfilmentInv, FinishCancel
<1>2. /\ rows' = rows /\ Open' = Open \ held[c] /\ todo[c] = {}
      /\ phase[c] = "settling" /\ phase'[c] = "idle"
      /\ \A t \in Sessions \ {c} :
             phase'[t] = phase[t] /\ todo'[t] = todo[t] /\ held'[t] = held[t]
  BY <1>1, SettlementEffect
<1>3. /\ o \in Orders /\ status[o] # "none"
      /\ LinesOf(o) \cap Open \subseteq held[c] /\ emitted[c] = {}
  BY <1>1, <1>2 DEF FulfilmentInv, SettlerStage, ReadCoversOpen
<1>4. /\ status' = [status EXCEPT ![o] = "cancelled"]
      /\ cancelledAt' = cancelledAt \cup {o}
      /\ outbox' = outbox \cup {<<"order.cancelled", o>>}
      /\ UNCHANGED <<paidAt, payment, applied, acked>>
      /\ EndRequest(c)
  BY <1>1, <1>3 DEF FinishCancel, WriteOutbox
<1> HIDE DEF o
<1>5. FulfilmentTypeOK'
  <2>1. <<"order.cancelled", o>> \in EventNames
    BY <1>3 DEF EventNames
  <2> QED
    BY <1>1, <1>3, <1>4, <2>1 DEF FulfilmentTypeOK, EndRequest
<1>6. PlacedTogether'
  BY <1>1, <1>2, <1>3, <1>4 DEF FulfilmentInv, FulfilmentTypeOK, PlacedTogether
<1>7. EventsMatchState'
  BY <1>1, <1>2, <1>3, <1>4 DEF FulfilmentInv, EventsMatchState
<1>8. CapturedIsPaid' /\ AppliedOnce' /\ ProcessedIsPaid' /\ AckedIsRecorded'
  BY <1>4 DEF FulfilmentInv, CapturedIsPaid, AppliedOnce, ProcessedIsPaid, Processed,
              AckedIsRecorded
<1>9. SettledHoldsNothing'
  BY <1>2, <1>3, <1>4 DEF FulfilmentInv, SettledHoldsNothing
<1>10. /\ \A p \in Orders : status'[p] # "none" <=> status[p] # "none"
       /\ \A p \in paidAt' \cup cancelledAt' : status[p] # "none"
  BY <1>1, <1>3, <1>4 DEF FulfilmentInv, FulfilmentTypeOK, CheckoutStage
<1>11. OneInsertPerEvent' /\ CheckoutStage' /\ SettlerStage' /\ ReadCoversOpen'
  BY <1>1, <1>2, <1>4, <1>10, SettlerCommits
<1> QED
  BY <1>5, <1>6, <1>7, <1>8, <1>9, <1>11 DEF FulfilmentInv

-----------------------------------------------------------------------------
(* The theorems. *)

LEMMA FulfilmentNextInvariant ==
    ASSUME InventoryInv, FulfilmentInv, [FulfilmentNext]_fulfilmentVars
    PROVE  FulfilmentInv'
<1>1. CASE UNCHANGED fulfilmentVars
  <2>1. /\ UNCHANGED <<orderVars, acked, rows, released, committed>>
        /\ UNCHANGED <<requestVars, phase, todo, held>> /\ Open' = Open
    BY <1>1 DEF fulfilmentVars, inventoryVars, Open
  <2>2. (/\ PlacedTogether /\ EventsMatchState /\ AppliedOnce /\ AckedIsRecorded
         /\ CapturedIsPaid /\ SettledHoldsNothing /\ ProcessedIsPaid)'
    BY <2>1, TablesUntouched
  <2>3. FulfilmentTypeOK' /\ OneInsertPerEvent' /\ SettlerStage' /\ ReadCoversOpen'
    BY <2>1 DEF orderVars, requestVars, FulfilmentInv, FulfilmentTypeOK,
                OneInsertPerEvent, Inserting, Processed, SettlerStage, ReadCoversOpen
  <2>4. CheckoutStage'
    BY <2>1 DEF orderVars, requestVars, FulfilmentInv, CheckoutStage
  <2> QED
    BY <2>2, <2>3, <2>4 DEF FulfilmentInv
<1> QED
  BY <1>1, CheckoutWorkSteps, FinishCheckoutStep, CallbackSteps, FinishOtherStep,
     FinishPaymentStep, FinishCancelStep, LoadCancelledOrderStep, ReadHoldsStep,
     SettleHoldStep, FailedRequestSteps, SweepStep, TimePassesStep
     DEF FulfilmentNext

\* The two invariants together, by induction.
THEOREM FulfilmentInvariance == FulfilmentSpec => [](InventoryInv /\ FulfilmentInv)
<1>1. FulfilmentInit => InventoryInv /\ FulfilmentInv
  BY InitInvariant, FulfilmentInitInvariant DEF FulfilmentInit
<1>2. InventoryInv /\ FulfilmentInv /\ [FulfilmentNext]_fulfilmentVars
        => InventoryInv' /\ FulfilmentInv'
  BY NextInvariant, StepIsInventoryStep, FulfilmentNextInvariant
<1> QED
  BY <1>1, <1>2, PTL DEF FulfilmentSpec

\* Whatever checkouts, callbacks, cancellations and sweeps do, the stock and the
\* reservations behave as the inventory module says: its theorems hold of the
\* whole system.
THEOREM ImplementsInventory == FulfilmentSpec => InventorySpec
<1>1. FulfilmentInit => InventoryInit
  BY DEF FulfilmentInit
<1>2. FulfilmentInv /\ [FulfilmentNext]_fulfilmentVars => [InventoryNext]_inventoryVars
  BY StepIsInventoryStep
<1> QED
  BY <1>1, <1>2, FulfilmentInvariance, PTL DEF FulfilmentSpec, InventorySpec

\* The tables and the outbox tell the same story in every committed state.
THEOREM OutboxTellsTheTruth == FulfilmentSpec => []EventsMatchState
<1>1. FulfilmentInv => EventsMatchState
  BY DEF FulfilmentInv
<1> QED
  BY <1>1, FulfilmentInvariance, PTL

\* An order, its payment, its reservations and its event appear together.
THEOREM OrdersAppearWhole == FulfilmentSpec => []PlacedTogether
<1>1. FulfilmentInv => PlacedTogether
  BY DEF FulfilmentInv
<1> QED
  BY <1>1, FulfilmentInvariance, PTL

\* No event id takes effect twice, for any number of concurrent deliveries.
THEOREM WebhooksApplyOnce == FulfilmentSpec => []AppliedOnce
<1>1. FulfilmentInv => AppliedOnce
  BY DEF FulfilmentInv
<1> QED
  BY <1>1, FulfilmentInvariance, PTL

\* The provider is told to stop only when its event has been recorded.
THEOREM AcksAreTrue == FulfilmentSpec => []AckedIsRecorded
<1>1. FulfilmentInv => AckedIsRecorded
  BY DEF FulfilmentInv
<1> QED
  BY <1>1, FulfilmentInvariance, PTL

\* A captured payment and a paid order are the same thing.
THEOREM CaptureAndPaidAgree == FulfilmentSpec => []CapturedIsPaid
<1>1. FulfilmentInv => CapturedIsPaid
  BY DEF FulfilmentInv
<1> QED
  BY <1>1, FulfilmentInvariance, PTL

\* An order that was paid or cancelled has given up or used all its holds.
THEOREM SettledOrdersHoldNothing == FulfilmentSpec => []SettledHoldsNothing
<1>1. FulfilmentInv => SettledHoldsNothing
  BY DEF FulfilmentInv
<1> QED
  BY <1>1, FulfilmentInvariance, PTL
=============================================================================
