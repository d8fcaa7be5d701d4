-------------------------------- MODULE Holds --------------------------------
(***************************************************************************)
(* Inventory with a history: which reservations a request has settled on   *)
(* what it had read of them, after another transaction had settled them.   *)
(* Up to there the counters are exact; and with it comes what the sweeper  *)
(* is for (backend/app/workers/reservation_sweeper.py), under fairness.    *)
(***************************************************************************)
EXTENDS Inventory

VARIABLE raced   \* history: reservations settled by a request that was overtaken

holdsVars == <<inventoryVars, raced>>

HoldsInit == InventoryInit /\ raced = {}

\* What s commits upon although it has been settled since s read it.
Overtaken(s) == IF CommitSettle(s) THEN held[s] \ Open ELSE {}

HoldsNext ==
    /\ InventoryNext
    /\ raced' = raced \cup UNION {Overtaken(s) : s \in Settlers}

HoldsSpec == HoldsInit /\ [][HoldsNext]_holdsVars

-----------------------------------------------------------------------------
(* What holds. *)

\* Nothing of this variant has been settled by a request that was overtaken.
Undisturbed(v) == \A r \in raced : VariantOf(r) # v

\* Whatever checkouts, cancels, payments and sweeps do at the same time, both
\* counters of a variant are exact: reserved is what its open reservations claim,
\* and on_hand what its committed ones have left of the stock; unless a cancel or
\* a payment commits upon a reservation that was settled after it read it.
ExactClaims ==
    \A v \in Variants : Undisturbed(v) =>
        /\ reserved[v] = Total(Open, v)
        /\ onHand[v] = InitialStock[v] - Total(committed, v)

\* ... and up to there no unit of a variant is sold twice.
NoOversell ==
    \A v \in Variants : Undisturbed(v) => Total(rows \ released, v) <= InitialStock[v]

-----------------------------------------------------------------------------
(* Liveness. *)

\* Every step of a session changes these.
SessionOf(s) == <<phase[s], todo[s], held[s]>>

\* A request that has begun ends: it waits for nothing but row locks, and the
\* statement timeout bounds that wait.
CheckoutProgress(o) ==
    /\ phase[o] = "reserving"
    /\ Rollback(o) \/ CheckoutNext(o)

SettlerProgress(s) ==
    /\ phase[s] = "settling"
    /\ Rollback(s) \/ SettlerNext(s)

\* A sweep with reservations in hand is aborted, though the database refuses
\* none of its UPDATEs.
SweepLost(s) ==
    /\ todo[s] \cup held[s] # {}
    /\ Rollback(s)
    /\ ~\E r \in Lines : RefuseSettle(s, r)

\* The sweeper runs forever (main), gets its turn among those who wait for a row,
\* and its sweeps are not aborted forever.
SweeperFairness(s) ==
    /\ SF_(SessionOf(s))(SweeperNext(s))
    /\ <>[][~SweepLost(s)]_(SessionOf(s))

HoldsLiveSpec ==
    /\ HoldsSpec
    /\ \A o \in Orders : WF_(SessionOf(o))(CheckoutProgress(o))
    /\ \A s \in Settlers : WF_(SessionOf(s))(SettlerProgress(s))
    /\ \A s \in Sweepers : SweeperFairness(s)

\* "Reservations expire so an abandoned checkout releases inventory instead of
\* holding it forever" (models.py): cancels and payments that lock the same rows do
\* not keep it from being settled, unless one of them was overtaken.  Then reserved
\* may be less than what is open, and the database refuses every sweep of it.
ExpiredIsSettled ==
    \A r \in Lines : r \in Open \cap lapsed ~> r \notin Open \/ raced # {}
=============================================================================
