------------------------------ MODULE Inventory ------------------------------
(***************************************************************************)
(* The stock counters and the reservations of the inventory module         *)
(* (backend/app/modules/inventory/service.py), as the transactions that    *)
(* use them run against Postgres at READ COMMITTED:                        *)
(*                                                                         *)
(*   - checkout sessions reserve one line after the other and commit all   *)
(*     of them at once (orders/service.py, place_order);                   *)
(*   - cancellers and payers read the unsettled reservations of one order  *)
(*     WITHOUT locking them and settle each (cancel, mark_paid);           *)
(*   - sweepers lock expired reservations with FOR UPDATE SKIP LOCKED and  *)
(*     release them (release_expired, sweep_once).                         *)
(*                                                                         *)
(* A session is one UnitOfWork, hence one transaction.  The variables      *)
(* onHand, reserved, placed, released, committed are the COMMITTED state   *)
(* of the database.  What a running transaction has written and not        *)
(* committed is held[s]: the reservations whose stock UPDATE session s has *)
(* executed.  The row locks follow from held and todo and are not stored.  *)
(***************************************************************************)
EXTENDS Integers, FiniteSets

CONSTANTS
    Variants,         \* product variants; one stock row each
    Orders,           \* checkout attempts; each has its own order id
    Lines,            \* cart lines <<order, variant>>; a line is also the id
                      \* of the reservation made for it
    MaxLineQuantity,  \* bound on the quantity of a line (cart/service.py)
    Quantity,         \* units ordered by each line
    InitialStock,     \* on_hand of each stock row to start with
    Cancellers,       \* sessions that run CheckoutService.cancel
    Payers,           \* sessions that run CheckoutService.mark_paid
    Sweepers,         \* sweeper processes
    SweepLimit        \* the LIMIT of release_expired

Settlers == Cancellers \cup Payers
Sessions == Orders \cup Settlers \cup Sweepers

ASSUME InventoryAssumption ==
    /\ Lines \subseteq Orders \X Variants
    /\ IsFiniteSet(Lines)
    /\ MaxLineQuantity \in Nat \ {0}
    /\ Quantity \in [Lines -> 1..MaxLineQuantity]
    /\ InitialStock \in [Variants -> Nat]
    /\ SweepLimit \in Nat \ {0}
    /\ Orders \cap Settlers = {}
    /\ Orders \cap Sweepers = {}
    /\ Settlers \cap Sweepers = {}
    /\ Cancellers \cap Payers = {}

OrderOf(r)   == r[1]
VariantOf(r) == r[2]
LinesOf(o)   == {r \in Lines : OrderOf(r) = o}

\* The units of variant v that the reservations in S ask for.  A sum over a
\* set of reservations is the cardinality of its set of units.
Units(S, v) == {u \in S \X (1..MaxLineQuantity) :
                    VariantOf(u[1]) = v /\ u[2] <= Quantity[u[1]]}
Total(S, v) == Cardinality(Units(S, v))

VARIABLES
    onHand,     \* stock_items.on_hand
    reserved,   \* stock_items.reserved
    rows,       \* reservations inserted by a committed checkout
    lapsed,     \* reservations whose expires_at has passed
    released,   \* reservations with released_at set
    committed,  \* reservations with committed_at set
    phase,      \* where each session is
    todo,       \* reservations a session has still to reserve or to settle
    held        \* reservations whose stock UPDATE the session has executed

counters     == <<onHand, reserved>>
reservations == <<rows, released, committed>>
sessionVars  == <<phase, todo, held>>
inventoryVars == <<onHand, reserved, rows, lapsed, released, committed,
                   phase, todo, held>>

\* Reservations neither released nor committed, in the committed state.
Open == rows \ (released \cup committed)

InventoryTypeOK ==
    /\ onHand   \in [Variants -> Int]
    /\ reserved \in [Variants -> Int]
    /\ rows \subseteq Lines
    /\ lapsed \subseteq rows
    /\ released \subseteq rows
    /\ committed \subseteq rows
    /\ phase \in [Sessions -> {"idle", "reserving", "settling", "placed", "failed"}]
    /\ todo \in [Sessions -> SUBSET Lines]
    /\ held \in [Sessions -> SUBSET Lines]

InventoryInit ==
    /\ onHand = InitialStock
    /\ reserved = [v \in Variants |-> 0]
    /\ rows = {} /\ lapsed = {} /\ released = {} /\ committed = {}
    /\ phase = [s \in Sessions |-> "idle"]
    /\ todo = [s \in Sessions |-> {}]
    /\ held = [s \in Sessions |-> {}]

-----------------------------------------------------------------------------
(* Row locks. *)

\* An executed UPDATE keeps the stock row locked until its transaction ends;
\* any other UPDATE of the row waits for that.
StockRowFree(s, v) ==
    \A t \in Sessions \ {s} : \A r \in held[t] : VariantOf(r) # v

\* Reservation rows locked by a running sweep (SELECT ... FOR UPDATE).
SweepLocked(s) == todo[s] \cup held[s]

\* Mutant: FOR UPDATE is forgotten in release_expired.
UnlockedReservations(s, r) == TRUE

\* The reservation rows no sweep other than s has locked.
ReservationRowFree(s, r) == \A t \in Sweepers \ {s} : r \notin SweepLocked(t)

\* The session forgets its transaction, which is over.
EndSession(s, p) ==
    /\ phase' = [phase EXCEPT ![s] = p]
    /\ todo'  = [todo EXCEPT ![s] = {}]
    /\ held'  = [held EXCEPT ![s] = {}]

\* The stock UPDATE for r has been executed in session s.
Execute(s, r) ==
    /\ todo' = [todo EXCEPT ![s] = @ \ {r}]
    /\ held' = [held EXCEPT ![s] = @ \cup {r}]
    /\ UNCHANGED <<counters, reservations, lapsed, phase>>

-----------------------------------------------------------------------------
(* Checkout: one reserve() per cart line, one commit. *)

\* place_order rejects an empty cart.
BeginCheckout(o) ==
    /\ phase[o] = "idle"
    /\ LinesOf(o) # {}
    /\ phase' = [phase EXCEPT ![o] = "reserving"]
    /\ todo'  = [todo EXCEPT ![o] = LinesOf(o)]
    /\ UNCHANGED <<counters, reservations, lapsed, held>>

\* Mutant: the check looks at on_hand alone.
HasStockOnHand(r) == onHand[VariantOf(r)] >= Quantity[r]

\* The WHERE of the conditional UPDATE.
HasStock(r) == onHand[VariantOf(r)] - reserved[VariantOf(r)] >= Quantity[r]

Reserve(o, r) ==
    /\ phase[o] = "reserving"
    /\ r \in todo[o]
    /\ StockRowFree(o, VariantOf(r))
    /\ HasStock(r)
    /\ Execute(o, r)

\* No row matches.  Postgres evaluates the WHERE on the committed row before
\* it waits for the lock, so a checkout is rejected even when the
\* transaction that holds the row is about to give stock back.
RejectReserve(o, r) ==
    /\ phase[o] = "reserving"
    /\ r \in todo[o]
    /\ ~HasStock(r)
    /\ EndSession(o, "failed")
    /\ UNCHANGED <<counters, reservations, lapsed>>

\* Mutant: the transaction ends inside the loop over the lines.
CommitSomeLines(o) ==
    /\ phase[o] = "reserving"
    /\ held[o] # {}
    /\ reserved' = [v \in Variants |-> reserved[v] + Total(held[o], v)]
    /\ rows' = rows \cup held[o]
    /\ EndSession(o, "placed")
    /\ UNCHANGED <<onHand, released, committed, lapsed>>

CommitCheckout(o) ==
    /\ phase[o] = "reserving"
    /\ todo[o] = {}
    /\ reserved' = [v \in Variants |-> reserved[v] + Total(held[o], v)]
    /\ rows' = rows \cup held[o]
    /\ EndSession(o, "placed")
    /\ UNCHANGED <<onHand, released, committed, lapsed>>

-----------------------------------------------------------------------------
(* Settling: cancel and mark_paid. *)

\* Mutant: the query leaves out what has expired, as the sweeper will take it.
ReadUnexpired(s, o) ==
    /\ phase[s] = "idle"
    /\ phase[o] = "placed"
    /\ phase' = [phase EXCEPT ![s] = "settling"]
    /\ todo'  = [todo EXCEPT ![s] = {r \in Open \ lapsed : OrderOf(r) = o}]
    /\ UNCHANGED <<counters, reservations, lapsed, held>>

\* _reservations_for: a plain SELECT, so what it returns may be settled by
\* somebody else before this session commits.
ReadReservations(s, o) ==
    /\ phase[s] = "idle"
    /\ phase[o] = "placed"
    /\ phase' = [phase EXCEPT ![s] = "settling"]
    /\ todo'  = [todo EXCEPT ![s] = {r \in Open : OrderOf(r) = o}]
    /\ UNCHANGED <<counters, reservations, lapsed, held>>

\* Mutants: a settled reservation leaves a counter as it was.
ReservedUntouched(s, v) == reserved[v]
OnHandUntouched(s, v)   == onHand[v]

\* The row a statement of session s sees: committed values and its own writes.
ReservedSeenBy(s, v) == reserved[v] - Total(held[s], v)
OnHandSeenBy(s, v) ==
    IF s \in Payers THEN onHand[v] - Total(held[s], v) ELSE onHand[v]

\* Mutant: the check constraints are gone.
NoConstraint(s, r) == FALSE

\* The check constraints of stock_items after settling r in session s.
Refused(s, r) ==
    LET v == VariantOf(r)
    IN  \/ ReservedSeenBy(s, v) - Quantity[r] < 0
        \/ s \in Payers /\ OnHandSeenBy(s, v) - Quantity[r] < 0

Settle(s, r) ==
    /\ phase[s] = "settling"
    /\ r \in todo[s]
    /\ StockRowFree(s, VariantOf(r))
    /\ ~Refused(s, r)
    /\ Execute(s, r)

\* release() tests released_at and committed_at of the row as it was read,
\* which the SELECT has just filtered on: the test never stops it.
Release(s, r)           == s \in Cancellers \cup Sweepers /\ Settle(s, r)
CommitReservation(s, r) == s \in Payers /\ Settle(s, r)

\* The database refuses the UPDATE and the request fails.
RefuseSettle(s, r) ==
    /\ phase[s] = "settling"
    /\ r \in todo[s]
    /\ StockRowFree(s, VariantOf(r))
    /\ Refused(s, r)
    /\ EndSession(s, "idle")
    /\ UNCHANGED <<counters, reservations, lapsed>>

\* The commit flushes released_at or committed_at of the rows this session
\* read, waiting for a sweep that has them locked, and overwrites whatever
\* another transaction has put there since.
CommitSettle(s) ==
    /\ phase[s] = "settling"
    /\ todo[s] = {}
    /\ \A r \in held[s] : ReservationRowFree(s, r)
    /\ reserved' = [v \in Variants |-> ReservedSeenBy(s, v)]
    /\ onHand'   = [v \in Variants |-> OnHandSeenBy(s, v)]
    /\ IF s \in Payers
       THEN committed' = committed \cup held[s] /\ UNCHANGED released
       ELSE released' = released \cup held[s] /\ UNCHANGED committed
    /\ EndSession(s, "idle")
    /\ UNCHANGED <<rows, lapsed>>

-----------------------------------------------------------------------------
(* The sweeper. *)

Lapse(r) ==
    /\ r \in rows \ lapsed
    /\ lapsed' = lapsed \cup {r}
    /\ UNCHANGED <<counters, reservations, sessionVars>>

\* Mutants: the query forgets what is settled, or turns the expiry around.
SweepableAgain(s) == {r \in lapsed : ReservationRowFree(s, r)}
SweepableEarly(s) == {r \in Open \ lapsed : ReservationRowFree(s, r)}

\* What release_expired may select: unsettled, expired and not locked.
Sweepable(s) == {r \in Open \cap lapsed : ReservationRowFree(s, r)}

\* At most SweepLimit rows, fewer only when there are no more.
Batches(S) == {B \in SUBSET S : \/ B = S /\ Cardinality(B) <= SweepLimit
                                \/ Cardinality(B) = SweepLimit}

SelectExpired(s) ==
    /\ phase[s] = "idle"
    /\ phase' = [phase EXCEPT ![s] = "settling"]
    /\ \E B \in Batches(Sweepable(s)) : todo' = [todo EXCEPT ![s] = B]
    /\ UNCHANGED <<counters, reservations, lapsed, held>>

-----------------------------------------------------------------------------
\* A transaction ends without a commit: an exception in the handler, a
\* statement timeout while waiting for a lock, a deadlock, a lost process.
\* An order id is never used again; the other sessions serve the next request.
Rollback(s) ==
    /\ phase[s] \in {"reserving", "settling"}
    /\ EndSession(s, IF s \in Orders THEN "failed" ELSE "idle")
    /\ UNCHANGED <<counters, reservations, lapsed>>

CheckoutNext(o) ==
    \/ BeginCheckout(o)
    \/ \E r \in Lines : Reserve(o, r)
    \/ \E r \in Lines : RejectReserve(o, r)
    \/ CommitCheckout(o)

SettlerNext(s) ==
    \/ \E o \in Orders : ReadReservations(s, o)
    \/ \E r \in Lines : Release(s, r)
    \/ \E r \in Lines : CommitReservation(s, r)
    \/ \E r \in Lines : RefuseSettle(s, r)
    \/ CommitSettle(s)

SweeperNext(s) ==
    \/ SelectExpired(s)
    \/ \E r \in Lines : Release(s, r)
    \/ \E r \in Lines : RefuseSettle(s, r)
    \/ CommitSettle(s)

InventoryNext ==
    \/ \E o \in Orders : CheckoutNext(o)
    \/ \E s \in Settlers : SettlerNext(s)
    \/ \E s \in Sweepers : SweeperNext(s)
    \/ \E s \in Sessions : Rollback(s)
    \/ \E r \in Lines : Lapse(r)

InventorySpec == InventoryInit /\ [][InventoryNext]_inventoryVars

-----------------------------------------------------------------------------
(* What the module promises. *)

\* The counters never leave the range that models.py declares, although
\* Reserve checks only its own WHERE: a transaction's running totals stay
\* within what the database would accept, whatever the others commit.
ReservedWithinOnHand ==
    \A v \in Variants : 0 <= reserved[v] /\ reserved[v] <= onHand[v]

\* Every unit counted as reserved belongs to a reservation that is still
\* open, so that settling what is open gives all of it back: the races of
\* release() and commit_reservation() never strand stock in the counter.
NoLeakedHold ==
    \A v \in Variants : reserved[v] <= Total(Open, v)

\* A reservation marked committed has left the physical stock, once at least.
CommittedDeducted ==
    \A v \in Variants : onHand[v] <= InitialStock[v] - Total(committed, v)

\* "Either the shopper has an order and the stock is held, or nothing happened
\* at all" (orders/service.py): an order in the database has a reservation for
\* each of its lines, an order that failed or is in flight has none.
AllOrNothing ==
    \A o \in Orders :
        IF phase[o] = "placed" THEN LinesOf(o) \subseteq rows
                               ELSE LinesOf(o) \cap rows = {}

\* "Even a buggy service cannot oversell - the database refuses the write"
\* (models.py): what the orders have claimed and not given back was there to
\* begin with.  Settlers that race for one reservation break it.
ClaimsAreBacked ==
    \A v \in Variants : Total(rows \ released, v) <= InitialStock[v]

-----------------------------------------------------------------------------
(* The inductive invariant behind them. *)

\* A stock row is written by one transaction at a time.
ExclusiveStockRows ==
    \A s, t \in Sessions :
        s # t => \A r \in held[s], q \in held[t] : VariantOf(r) # VariantOf(q)

\* A reservation that a sweep has locked is open, whatever the others do,
\* and no other sweep has it.
SweepsHoldOpenRows ==
    /\ \A s \in Sweepers : SweepLocked(s) \subseteq Open
    /\ \A s, t \in Sweepers : s # t => SweepLocked(s) \cap SweepLocked(t) = {}

\* A checkout has its lines either in todo or in held until it ends.
CheckoutWork ==
    \A o \in Orders :
        /\ phase[o] = "reserving" => todo[o] \cup held[o] = LinesOf(o)
        /\ phase[o] # "reserving" => todo[o] = {} /\ held[o] = {}
        /\ todo[o] \cap held[o] = {}

\* A settler works on rows that were open when it read them.
SettlerWork ==
    \A s \in Settlers \cup Sweepers :
        /\ phase[s] = "settling" => todo[s] \cup held[s] \subseteq rows
        /\ phase[s] # "settling" => todo[s] = {} /\ held[s] = {}
        /\ todo[s] \cap held[s] = {}

\* What a transaction has written is legal once it commits: the room a
\* checkout found is still there, and so are the units a settler takes away.
RunningTotals ==
    /\ \A o \in Orders, v \in Variants :
           reserved[v] + Total(held[o], v) <= onHand[v]
    /\ \A s \in Settlers \cup Sweepers, v \in Variants :
           Total(held[s], v) <= reserved[v]

InventoryInv ==
    /\ InventoryTypeOK
    /\ ReservedWithinOnHand
    /\ NoLeakedHold
    /\ CommittedDeducted
    /\ AllOrNothing
    /\ ExclusiveStockRows
    /\ SweepsHoldOpenRows
    /\ CheckoutWork
    /\ SettlerWork
    /\ RunningTotals
=============================================================================
