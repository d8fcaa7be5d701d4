--------------------------- MODULE InventoryProofs ---------------------------
(***************************************************************************)
(* Proofs about the inventory module, for any number of variants, orders,  *)
(* lines, sessions and sweepers, any quantities and any stock.             *)
(***************************************************************************)
EXTENDS Holds, TLAPS, FiniteSetTheorems

-----------------------------------------------------------------------------
(* Sums over sets of reservations. *)

\* The sum over a set of reservations is a natural number.
LEMMA TotalType ==
    ASSUME NEW S \in SUBSET Lines, NEW v
    PROVE  IsFiniteSet(Units(S, v)) /\ Total(S, v) \in Nat
<1>1. IsFiniteSet(Lines) /\ IsFiniteSet(1..MaxLineQuantity)
  BY InventoryAssumption, FS_Interval, 1 \in Int, MaxLineQuantity \in Int
     DEF InventoryAssumption
<1>2. IsFiniteSet(Lines \X (1..MaxLineQuantity))
  BY <1>1, FS_Product
<1>3. Units(S, v) \in SUBSET (Lines \X (1..MaxLineQuantity))
  BY DEF Units
<1>4. IsFiniteSet(Units(S, v))
  BY <1>2, <1>3, FS_Subset
<1> QED
  BY <1>4, FS_CardinalityType DEF Total

\* A larger set of reservations asks for at least as much.
LEMMA TotalMonotone ==
    ASSUME NEW T \in SUBSET Lines, NEW S \in SUBSET T, NEW v
    PROVE  Total(S, v) <= Total(T, v)
<1>1. Units(S, v) \in SUBSET Units(T, v)
  BY DEF Units
<1> QED
  BY <1>1, TotalType, FS_Subset DEF Total

\* The sum over a union is at most the sum of the sums, and equal to it when
\* the two sets share no reservation.
LEMMA TotalUnion ==
    ASSUME NEW S \in SUBSET Lines, NEW T \in SUBSET Lines, NEW v
    PROVE  /\ Total(S \cup T, v) <= Total(S, v) + Total(T, v)
           /\ S \cap T = {} => Total(S \cup T, v) = Total(S, v) + Total(T, v)
<1>1. Units(S \cup T, v) = Units(S, v) \cup Units(T, v)
  BY DEF Units
<1>2. Units(S, v) \cap Units(T, v) \in SUBSET Units(S, v)
  OBVIOUS
<1>3. IsFiniteSet(Units(S, v)) /\ IsFiniteSet(Units(T, v))
  BY TotalType
<1>4. Cardinality(Units(S, v) \cap Units(T, v)) \in Nat
  BY <1>2, <1>3, FS_Subset, FS_CardinalityType
<1>5. Total(S \cup T, v)
         = Total(S, v) + Total(T, v) - Cardinality(Units(S, v) \cap Units(T, v))
  BY <1>1, <1>3, FS_Union DEF Total
<1>6. ASSUME S \cap T = {}
      PROVE  Cardinality(Units(S, v) \cap Units(T, v)) = 0
  <2>1. Units(S, v) \cap Units(T, v) = {}
    BY <1>6 DEF Units
  <2> QED
    BY <2>1, FS_EmptySet
<1> QED
  BY <1>4, <1>5, <1>6, TotalType

\* A set that has no reservation of the variant asks for none of it.
LEMMA TotalElsewhere ==
    ASSUME NEW S \in SUBSET Lines, NEW v, \A r \in S : VariantOf(r) # v
    PROVE  Total(S, v) = 0
<1>1. Units(S, v) = {}
  BY DEF Units
<1> QED
  BY <1>1, FS_EmptySet DEF Total

\* One reservation asks for its quantity.
LEMMA TotalSingle ==
    ASSUME NEW r \in Lines
    PROVE  Total({r}, VariantOf(r)) = Quantity[r]
<1> DEFINE n == Quantity[r]
<1>1. n \in 1..MaxLineQuantity /\ MaxLineQuantity \in Nat
  BY InventoryAssumption DEF InventoryAssumption
<1>2. Units({r}, VariantOf(r)) = {r} \X (1..n)
  BY <1>1 DEF Units
<1>3. IsFiniteSet({r}) /\ Cardinality({r}) = 1
  BY FS_Singleton
<1>4. IsFiniteSet(1..n) /\ Cardinality(1..n) = n
  BY <1>1, FS_Interval
<1>5. Cardinality({r} \X (1..n)) = Cardinality({r}) * Cardinality(1..n)
  BY <1>3, <1>4, FS_Product, Zenon
<1>6. Cardinality({r}) * Cardinality(1..n) = n
  BY <1>1, <1>3, <1>4
<1> QED
  BY <1>2, <1>5, <1>6 DEF Total

\* Executing the UPDATE for one more reservation adds its quantity to what the
\* session has written on that row, and nothing elsewhere.
LEMMA TotalAddOne ==
    ASSUME NEW S \in SUBSET Lines, NEW r \in Lines, r \notin S, NEW v
    PROVE  /\ v = VariantOf(r) => Total(S \cup {r}, v) = Total(S, v) + Quantity[r]
           /\ v # VariantOf(r) => Total(S \cup {r}, v) = Total(S, v)
<1>1. Total(S \cup {r}, v) = Total(S, v) + Total({r}, v)
  BY TotalUnion, S \cap {r} = {}
<1>2. ASSUME v # VariantOf(r) PROVE Total({r}, v) = 0
  BY <1>2, TotalElsewhere
<1> QED
  BY <1>1, <1>2, TotalSingle, TotalType

-----------------------------------------------------------------------------
(* Facts that hold in every state of the invariant. *)

\* Two transactions have not both written the stock row of one variant.
LEMMA OneWriter ==
    ASSUME InventoryInv, NEW s \in Sessions, NEW t \in Sessions, s # t, NEW v
    PROVE  Total(held[s], v) = 0 \/ Total(held[t], v) = 0
<1>1. held[s] \in SUBSET Lines /\ held[t] \in SUBSET Lines
  BY DEF InventoryInv, InventoryTypeOK
<1>2. CASE \E r \in held[s] : VariantOf(r) = v
  <2>1. \A q \in held[t] : VariantOf(q) # v
    BY <1>2 DEF InventoryInv, ExclusiveStockRows
  <2> QED
    BY <1>1, <2>1, TotalElsewhere
<1>3. CASE \A r \in held[s] : VariantOf(r) # v
  BY <1>1, <1>3, TotalElsewhere
<1> QED
  BY <1>2, <1>3

\* A checkout writes each stock row once: it has one line per variant.
LEMMA OneLinePerVariant ==
    ASSUME InventoryInv, NEW o \in Orders, phase[o] = "reserving", NEW r \in todo[o]
    PROVE  Total(held[o], VariantOf(r)) = 0
<1>1. o \in Sessions
  BY DEF Sessions
<1>2. held[o] \in SUBSET Lines /\ r \in Lines
  BY <1>1 DEF InventoryInv, InventoryTypeOK
<1>3. ASSUME NEW q \in held[o] PROVE VariantOf(q) # VariantOf(r)
  <2>1. q \in LinesOf(o) /\ r \in LinesOf(o) /\ q # r
    BY DEF InventoryInv, CheckoutWork
  <2>2. q \in Orders \X Variants /\ r \in Orders \X Variants
    BY <1>2, InventoryAssumption DEF InventoryAssumption
  <2> QED
    BY <2>1, <2>2 DEF LinesOf, OrderOf, VariantOf
<1> QED
  BY <1>2, <1>3, TotalElsewhere

-----------------------------------------------------------------------------
(* The initial state. *)

LEMMA InitInvariant == InventoryInit => InventoryInv
<1> SUFFICES ASSUME InventoryInit PROVE InventoryInv
  OBVIOUS
<1> USE DEF InventoryInit
<1>1. InventoryTypeOK
  BY InventoryAssumption DEF InventoryTypeOK, InventoryAssumption
<1>2. \A v : Total({}, v) = 0
  BY TotalElsewhere
<1>3. ReservedWithinOnHand
  BY InventoryAssumption DEF ReservedWithinOnHand, InventoryAssumption
<1>4. NoLeakedHold
  BY <1>2 DEF NoLeakedHold, Open
<1>5. CommittedDeducted
  BY <1>2, InventoryAssumption DEF CommittedDeducted, InventoryAssumption
<1>6. AllOrNothing
  BY DEF AllOrNothing, Sessions
<1>7. ExclusiveStockRows /\ SweepsHoldOpenRows /\ CheckoutWork /\ SettlerWork
  BY DEF ExclusiveStockRows, SweepsHoldOpenRows, SweepLocked, CheckoutWork,
         SettlerWork, Sessions
<1>8. RunningTotals
  BY <1>2, InventoryAssumption
     DEF RunningTotals, Sessions, InventoryAssumption
<1> QED
  BY <1>1, <1>3, <1>4, <1>5, <1>6, <1>7, <1>8 DEF InventoryInv

-----------------------------------------------------------------------------
(* The steps, one lemma for each way a step can disturb the invariant. *)

\* A session executes the stock UPDATE of one more reservation.
LEMMA ExecuteStep ==
    ASSUME InventoryInv,
           NEW s \in Sessions, NEW r \in todo[s],
           phase[s] \in {"reserving", "settling"},
           StockRowFree(s, VariantOf(r)),
           s \in Orders => phase[s] = "reserving" /\ HasStock(r),
           s \notin Orders => ~Refused(s, r),
           Execute(s, r)
    PROVE  InventoryInv'
<1> USE DEF Execute, counters, reservations
<1>1. /\ InventoryTypeOK
      /\ r \in Lines /\ r \notin held[s]
      /\ held[s] \in SUBSET Lines
  BY DEF InventoryInv, InventoryTypeOK, CheckoutWork, SettlerWork, Sessions
<1>2. /\ \A t \in Sessions : t # s => held'[t] = held[t] /\ todo'[t] = todo[t]
      /\ held'[s] = held[s] \cup {r}
      /\ todo'[s] = todo[s] \ {r}
  BY <1>1 DEF InventoryTypeOK
<1>3. \A t \in Sessions : todo'[t] \cup held'[t] = todo[t] \cup held[t]
  BY <1>2
<1>4. InventoryTypeOK'
  BY <1>1 DEF InventoryTypeOK
<1>5. (ReservedWithinOnHand /\ NoLeakedHold /\ CommittedDeducted /\ AllOrNothing)'
  BY DEF InventoryInv, ReservedWithinOnHand, NoLeakedHold, CommittedDeducted,
         AllOrNothing, Open
<1>6. ExclusiveStockRows'
  BY <1>2 DEF InventoryInv, ExclusiveStockRows, StockRowFree
<1>7. SweepsHoldOpenRows'
  BY <1>3 DEF InventoryInv, SweepsHoldOpenRows, SweepLocked, Open, Sessions
<1>8. CheckoutWork'
  <2> SUFFICES ASSUME NEW o \in Orders
               PROVE  /\ phase[o] = "reserving" => todo'[o] \cup held'[o] = LinesOf(o)
                      /\ phase[o] # "reserving" => todo'[o] = {} /\ held'[o] = {}
                      /\ todo'[o] \cap held'[o] = {}
    BY DEF CheckoutWork
  <2>1. o \in Sessions
    BY DEF Sessions
  <2> QED
    BY <1>2, <1>3, <2>1 DEF InventoryInv, CheckoutWork
<1>9. SettlerWork'
  <2> SUFFICES ASSUME NEW t \in Settlers \cup Sweepers
               PROVE  /\ phase[t] = "settling" => todo'[t] \cup held'[t] \subseteq rows
                      /\ phase[t] # "settling" => todo'[t] = {} /\ held'[t] = {}
                      /\ todo'[t] \cap held'[t] = {}
    BY DEF SettlerWork
  <2>1. t \in Sessions
    BY DEF Sessions
  <2> QED
    BY <1>2, <1>3, <2>1 DEF InventoryInv, SettlerWork
<1>10. RunningTotals'
  <2>1. ASSUME NEW o \in Orders, NEW v \in Variants
        PROVE  reserved[v] + Total(held'[o], v) <= onHand[v]
    <3>1. reserved[v] + Total(held[o], v) <= onHand[v] /\ o \in Sessions
      BY DEF InventoryInv, RunningTotals, Sessions
    <3>2. CASE o = s /\ v = VariantOf(r)
      <4>1. Total(held'[o], v) = Total(held[o], v) + Quantity[r]
        BY <1>1, <1>2, <3>2, TotalAddOne
      <4>2. Total(held[o], v) = 0
        BY <3>2, OneLinePerVariant
      <4>3. Quantity[r] \in Nat /\ reserved[v] \in Int /\ onHand[v] \in Int
        BY <1>1, InventoryAssumption DEF InventoryAssumption, InventoryTypeOK
      <4> QED
        BY <3>2, <4>1, <4>2, <4>3 DEF HasStock
    <3>3. CASE ~(o = s /\ v = VariantOf(r))
      <4>1. Total(held'[o], v) = Total(held[o], v)
        BY <1>1, <1>2, <3>1, <3>3, TotalAddOne
      <4> QED
        BY <3>1, <4>1
    <3> QED
      BY <3>2, <3>3
  <2>2. ASSUME NEW t \in Settlers \cup Sweepers, NEW v \in Variants
        PROVE  Total(held'[t], v) <= reserved[v]
    <3>1. Total(held[t], v) <= reserved[v] /\ t \in Sessions /\ t \notin Orders
      BY InventoryAssumption DEF InventoryInv, RunningTotals, Sessions, InventoryAssumption
    <3>2. CASE t = s /\ v = VariantOf(r)
      <4>1. Total(held'[t], v) = Total(held[t], v) + Quantity[r]
        BY <1>1, <1>2, <3>2, TotalAddOne
      <4>2. /\ Quantity[r] \in Nat /\ reserved[v] \in Int
            /\ Total(held[t], v) \in Nat
        BY <1>1, <3>2, TotalType, InventoryAssumption DEF InventoryAssumption, InventoryTypeOK
      <4>3. reserved[v] - Total(held[t], v) - Quantity[r] >= 0
        BY <3>1, <3>2, <4>2 DEF Refused, ReservedSeenBy
      <4> QED
        BY <4>1, <4>2, <4>3
    <3>3. CASE ~(t = s /\ v = VariantOf(r))
      <4>1. Total(held'[t], v) = Total(held[t], v)
        BY <1>1, <1>2, <3>1, <3>3, TotalAddOne
      <4> QED
        BY <3>1, <4>1
    <3> QED
      BY <3>2, <3>3
  <2> QED
    BY <2>1, <2>2 DEF RunningTotals
<1> QED
  BY <1>4, <1>5, <1>6, <1>7, <1>8, <1>9, <1>10 DEF InventoryInv

\* A transaction is over and has written nothing.
LEMMA AbandonStep ==
    ASSUME InventoryInv,
           NEW s \in Sessions, phase[s] \in {"reserving", "settling"},
           EndSession(s, IF s \in Orders THEN "failed" ELSE "idle"),
           UNCHANGED <<counters, reservations, lapsed>>
    PROVE  InventoryInv'
<1> USE DEF EndSession, counters, reservations
<1>1. InventoryTypeOK
  BY DEF InventoryInv
<1>2. /\ \A t \in Sessions : t # s => /\ held'[t] = held[t] /\ todo'[t] = todo[t]
                                      /\ phase'[t] = phase[t]
      /\ held'[s] = {} /\ todo'[s] = {}
      /\ phase'[s] = IF s \in Orders THEN "failed" ELSE "idle"
  BY <1>1 DEF InventoryTypeOK
<1>3. InventoryTypeOK'
  BY <1>1 DEF InventoryTypeOK
<1>4. (ReservedWithinOnHand /\ NoLeakedHold /\ CommittedDeducted)'
  BY DEF InventoryInv, ReservedWithinOnHand, NoLeakedHold, CommittedDeducted, Open
<1>5. AllOrNothing'
  BY <1>2 DEF InventoryInv, AllOrNothing, Sessions
<1>6. ExclusiveStockRows' /\ SweepsHoldOpenRows'
  BY <1>2 DEF InventoryInv, ExclusiveStockRows, SweepsHoldOpenRows, SweepLocked,
              Open, Sessions
<1>7. CheckoutWork' /\ SettlerWork'
  BY <1>2, InventoryAssumption
     DEF InventoryInv, CheckoutWork, SettlerWork, Sessions, InventoryAssumption
<1>8. RunningTotals'
  <2>1. \A t \in Sessions, v \in Variants :
            Total(held'[t], v) = Total(held[t], v) \/ Total(held'[t], v) = 0
    BY <1>2, TotalElsewhere
  <2>2. \A v \in Variants : reserved[v] \in Int /\ onHand[v] \in Int
    BY <1>1 DEF InventoryTypeOK
  <2> QED
    BY <2>1, <2>2 DEF InventoryInv, RunningTotals, ReservedWithinOnHand, Sessions
<1> QED
  BY <1>3, <1>4, <1>5, <1>6, <1>7, <1>8 DEF InventoryInv

\* A checkout commits its counters and its reservations together.
LEMMA CommitCheckoutStep ==
    ASSUME InventoryInv, NEW o \in Orders, CommitCheckout(o)
    PROVE  InventoryInv'
<1> USE DEF CommitCheckout, EndSession
<1>1. InventoryTypeOK /\ o \in Sessions /\ held[o] \in SUBSET Lines
  BY DEF InventoryInv, InventoryTypeOK, Sessions
<1>2. /\ \A t \in Sessions : t # o => /\ held'[t] = held[t] /\ todo'[t] = todo[t]
                                      /\ phase'[t] = phase[t]
      /\ held'[o] = {} /\ todo'[o] = {} /\ phase'[o] = "placed"
  BY <1>1 DEF InventoryTypeOK
<1>3. /\ held[o] = LinesOf(o)
      /\ held[o] \cap rows = {}
      /\ Open' = Open \cup held[o]
      /\ Open \cap held[o] = {}
      /\ Open \in SUBSET Lines
  BY <1>1 DEF InventoryInv, InventoryTypeOK, CheckoutWork, AllOrNothing, Open
<1>4. \A v \in Variants : /\ Total(held[o], v) \in Nat
                          /\ reserved[v] \in Int /\ onHand[v] \in Int
                          /\ reserved'[v] = reserved[v] + Total(held[o], v)
                          /\ onHand'[v] = onHand[v]
  BY <1>1, TotalType DEF InventoryTypeOK
<1>5. InventoryTypeOK'
  BY <1>1, <1>4 DEF InventoryTypeOK
<1>6. ReservedWithinOnHand'
  BY <1>4 DEF InventoryInv, ReservedWithinOnHand, RunningTotals
<1>7. NoLeakedHold'
  <2>1. \A v \in Variants : Total(Open', v) = Total(Open, v) + Total(held[o], v)
    BY <1>1, <1>3, TotalUnion
  <2>2. \A v \in Variants : Total(Open, v) \in Nat
    BY <1>3, TotalType
  <2> QED
    BY <1>4, <2>1, <2>2 DEF InventoryInv, NoLeakedHold
<1>8. CommittedDeducted'
  BY DEF InventoryInv, CommittedDeducted
<1>9. AllOrNothing'
  <2> SUFFICES ASSUME NEW p \in Orders
               PROVE  IF phase'[p] = "placed" THEN LinesOf(p) \subseteq rows'
                                              ELSE LinesOf(p) \cap rows' = {}
    BY DEF AllOrNothing
  <2>1. CASE p = o
    BY <1>2, <1>3, <2>1
  <2>2. CASE p # o
    <3>1. LinesOf(p) \cap LinesOf(o) = {}
      BY <2>2 DEF LinesOf
    <3>2. phase'[p] = phase[p]
      BY <1>2, <2>2 DEF Sessions
    <3> QED
      BY <1>3, <3>1, <3>2 DEF InventoryInv, AllOrNothing
  <2> QED
    BY <2>1, <2>2
<1>10. ExclusiveStockRows'
  BY <1>2 DEF InventoryInv, ExclusiveStockRows
<1>11. SweepsHoldOpenRows'
  <2>1. \A t \in Sweepers : t # o /\ t \in Sessions
    BY InventoryAssumption DEF InventoryAssumption, Sessions
  <2> QED
    BY <1>2, <1>3, <2>1 DEF InventoryInv, SweepsHoldOpenRows, SweepLocked
<1>12. CheckoutWork' /\ SettlerWork'
  BY <1>2, InventoryAssumption
     DEF InventoryInv, CheckoutWork, SettlerWork, Sessions, InventoryAssumption
<1>13. RunningTotals'
  <2>1. \A v \in Variants : Total(held'[o], v) = 0
    BY <1>2, TotalElsewhere
  <2>2. ASSUME NEW p \in Orders, NEW v \in Variants
        PROVE  reserved'[v] + Total(held'[p], v) <= onHand'[v]
    <3>1. CASE p = o
      BY <1>4, <2>1, <3>1 DEF InventoryInv, RunningTotals
    <3>2. CASE p # o
      <4>1. held'[p] = held[p] /\ p \in Sessions
        BY <1>2, <3>2 DEF Sessions
      <4>2. Total(held[p], v) = 0 \/ Total(held[o], v) = 0
        BY <1>1, <3>2, <4>1, OneWriter
      <4> QED
        BY <1>4, <4>1, <4>2 DEF InventoryInv, RunningTotals
    <3> QED
      BY <3>1, <3>2
  <2>3. ASSUME NEW t \in Settlers \cup Sweepers, NEW v \in Variants
        PROVE  Total(held'[t], v) <= reserved'[v]
    <3>1. t # o /\ t \in Sessions
      BY InventoryAssumption DEF InventoryAssumption, Sessions
    <3>2. Total(held'[t], v) = Total(held[t], v) /\ Total(held[t], v) \in Nat
      BY <1>1, <1>2, <3>1, TotalType DEF InventoryTypeOK
    <3> QED
      BY <1>4, <3>2 DEF InventoryInv, RunningTotals
  <2> QED
    BY <2>2, <2>3 DEF RunningTotals
<1> QED
  BY <1>5, <1>6, <1>7, <1>8, <1>9, <1>10, <1>11, <1>12, <1>13 DEF InventoryInv

\* A canceller, a payer or a sweeper commits what it has settled.
LEMMA CommitSettleStep ==
    ASSUME InventoryInv, NEW s \in Settlers \cup Sweepers, CommitSettle(s)
    PROVE  InventoryInv'
<1> USE DEF CommitSettle, EndSession
<1>1. /\ InventoryTypeOK /\ s \in Sessions /\ s \notin Orders
      /\ held[s] \in SUBSET Lines /\ held[s] \subseteq rows
  BY InventoryAssumption
     DEF InventoryInv, InventoryTypeOK, Sessions, InventoryAssumption, SettlerWork
<1>2. /\ \A t \in Sessions : t # s => /\ held'[t] = held[t] /\ todo'[t] = todo[t]
                                      /\ phase'[t] = phase[t]
      /\ held'[s] = {} /\ todo'[s] = {} /\ phase'[s] = "idle"
  BY <1>1 DEF InventoryTypeOK
<1>3. \A v \in Variants :
          /\ Total(held[s], v) \in Nat /\ Total(held[s], v) <= reserved[v]
          /\ reserved[v] \in Int /\ onHand[v] \in Int
          /\ reserved'[v] = reserved[v] - Total(held[s], v)
          /\ onHand'[v] = IF s \in Payers THEN onHand[v] - Total(held[s], v) ELSE onHand[v]
  BY <1>1, TotalType
     DEF InventoryInv, InventoryTypeOK, RunningTotals, ReservedSeenBy, OnHandSeenBy
<1>4. /\ IF s \in Payers THEN committed' = committed \cup held[s] /\ released' = released
                          ELSE released' = released \cup held[s] /\ committed' = committed
      /\ Open' = Open \ held[s]
      /\ Open \in SUBSET Lines /\ Open' \in SUBSET Lines
      /\ Open \subseteq Open' \cup held[s]
  BY <1>1 DEF InventoryTypeOK, Open
<1>5. InventoryTypeOK'
  <2>1. onHand' \in [Variants -> Int] /\ reserved' \in [Variants -> Int]
    BY <1>3 DEF OnHandSeenBy, ReservedSeenBy
  <2> QED
    BY <1>1, <1>4, <2>1 DEF InventoryTypeOK
<1>6. ReservedWithinOnHand'
  BY <1>3 DEF InventoryInv, ReservedWithinOnHand
<1>7. NoLeakedHold'
  <2> SUFFICES ASSUME NEW v \in Variants PROVE reserved'[v] <= Total(Open', v)
    BY DEF NoLeakedHold
  <2>1. Total(Open, v) <= Total(Open' \cup held[s], v)
    BY <1>1, <1>4, TotalMonotone
  <2>2. Total(Open' \cup held[s], v) <= Total(Open', v) + Total(held[s], v)
    BY <1>1, <1>4, TotalUnion
  <2>3. /\ Total(Open, v) \in Nat /\ Total(Open', v) \in Nat
        /\ Total(Open' \cup held[s], v) \in Nat
    BY <1>1, <1>4, TotalType
  <2> QED
    BY <1>3, <2>1, <2>2, <2>3 DEF InventoryInv, NoLeakedHold
<1>8. CommittedDeducted'
  <2> SUFFICES ASSUME NEW v \in Variants
               PROVE  onHand'[v] <= InitialStock[v] - Total(committed', v)
    BY DEF CommittedDeducted
  <2>1. onHand[v] <= InitialStock[v] - Total(committed, v)
    BY DEF InventoryInv, CommittedDeducted
  <2>2. committed \in SUBSET Lines /\ committed' \in SUBSET Lines
    BY <1>1, <1>4 DEF InventoryTypeOK
  <2>3. /\ Total(committed, v) \in Nat /\ Total(committed', v) \in Nat
        /\ InitialStock[v] \in Nat
    BY <2>2, TotalType, InventoryAssumption DEF InventoryAssumption
  <2>4. s \in Payers => Total(committed', v) <= Total(committed, v) + Total(held[s], v)
    BY <1>1, <1>4, <2>2, TotalUnion
  <2>5. s \notin Payers => committed' = committed
    BY <1>4
  <2> QED
    BY <1>3, <2>1, <2>3, <2>4, <2>5
<1>9. AllOrNothing'
  BY <1>1, <1>2 DEF InventoryInv, AllOrNothing, Sessions
<1>10. ExclusiveStockRows'
  BY <1>2 DEF InventoryInv, ExclusiveStockRows
<1>11. SweepsHoldOpenRows'
  <2>1. ASSUME NEW t \in Sweepers
        PROVE  SweepLocked(t)' \subseteq Open' /\ SweepLocked(t)' \subseteq SweepLocked(t)
    <3>1. CASE t = s
      BY <1>2, <3>1 DEF SweepLocked
    <3>2. CASE t # s
      <4>1. held[s] \cap SweepLocked(t) = {}
        BY <3>2 DEF ReservationRowFree
      <4>2. todo'[t] = todo[t] /\ held'[t] = held[t]
        BY <1>2, <3>2 DEF Sessions
      <4> QED
        BY <1>4, <4>1, <4>2 DEF InventoryInv, SweepsHoldOpenRows, SweepLocked
    <3> QED
      BY <3>1, <3>2
  <2> QED
    BY <2>1 DEF InventoryInv, SweepsHoldOpenRows
<1>12. CheckoutWork' /\ SettlerWork'
  BY <1>1, <1>2, InventoryAssumption
     DEF InventoryInv, CheckoutWork, SettlerWork, Sessions, InventoryAssumption
<1>13. RunningTotals'
  <2>1. \A v \in Variants : Total(held'[s], v) = 0
    BY <1>2, TotalElsewhere
  <2>2. ASSUME NEW o \in Orders, NEW v \in Variants
        PROVE  reserved'[v] + Total(held'[o], v) <= onHand'[v]
    <3>1. held'[o] = held[o] /\ Total(held[o], v) \in Nat
      BY <1>1, <1>2, TotalType DEF InventoryTypeOK, Sessions
    <3> QED
      BY <1>3, <3>1 DEF InventoryInv, RunningTotals
  <2>3. ASSUME NEW t \in Settlers \cup Sweepers, NEW v \in Variants
        PROVE  Total(held'[t], v) <= reserved'[v]
    <3>1. CASE t = s
      BY <1>3, <2>1, <3>1
    <3>2. CASE t # s
      <4>1. held'[t] = held[t] /\ t \in Sessions
        BY <1>2, <3>2 DEF Sessions
      <4>2. Total(held[t], v) = 0 \/ Total(held[s], v) = 0
        BY <1>1, <3>2, <4>1, OneWriter
      <4> QED
        BY <1>3, <4>1, <4>2 DEF InventoryInv, RunningTotals
    <3> QED
      BY <3>1, <3>2
  <2> QED
    BY <2>2, <2>3 DEF RunningTotals
<1> QED
  BY <1>5, <1>6, <1>7, <1>8, <1>9, <1>10, <1>11, <1>12, <1>13 DEF InventoryInv

\* A session starts: it has work to do and has written nothing.
LEMMA StartStep ==
    ASSUME InventoryInv, NEW s \in Sessions, NEW B \in SUBSET Lines, NEW p,
           held[s] = {},
           \/ s \in Orders /\ phase[s] = "idle" /\ p = "reserving" /\ B = LinesOf(s)
           \/ s \in Settlers /\ p = "settling" /\ B \subseteq rows
           \/ s \in Sweepers /\ p = "settling" /\ B \subseteq Sweepable(s),
           phase' = [phase EXCEPT ![s] = p],
           todo' = [todo EXCEPT ![s] = B],
           UNCHANGED <<counters, reservations, lapsed, held>>
    PROVE  InventoryInv'
<1> USE DEF counters, reservations
<1>1. /\ InventoryTypeOK
      /\ \A t \in Sessions : t # s => todo'[t] = todo[t] /\ phase'[t] = phase[t]
      /\ todo'[s] = B /\ phase'[s] = p
  BY DEF InventoryInv, InventoryTypeOK
<1>2. InventoryTypeOK'
  BY <1>1 DEF InventoryTypeOK
<1>3. (/\ ReservedWithinOnHand /\ NoLeakedHold /\ CommittedDeducted
       /\ ExclusiveStockRows /\ RunningTotals)'
  BY DEF InventoryInv, ReservedWithinOnHand, NoLeakedHold, CommittedDeducted,
         ExclusiveStockRows, RunningTotals, Open
<1>4. AllOrNothing'
  BY <1>1, InventoryAssumption
     DEF InventoryInv, AllOrNothing, Sessions, InventoryAssumption
<1>5. SweepsHoldOpenRows'
  <2>1. Open' = Open
    BY DEF Open
  <2>2. ASSUME NEW t \in Sweepers
        PROVE  SweepLocked(t)' = IF t = s THEN B ELSE SweepLocked(t)
    BY <1>1 DEF SweepLocked, Sessions
  <2>3. s \in Sweepers => /\ B \subseteq Open
                          /\ \A t \in Sweepers \ {s} : B \cap SweepLocked(t) = {}
    BY InventoryAssumption DEF InventoryAssumption, Sweepable, ReservationRowFree
  <2>4. ASSUME NEW t \in Sweepers PROVE SweepLocked(t)' \subseteq Open'
    BY <2>1, <2>2, <2>3 DEF InventoryInv, SweepsHoldOpenRows
  <2>5. ASSUME NEW t \in Sweepers, NEW u \in Sweepers, t # u
        PROVE  SweepLocked(t)' \cap SweepLocked(u)' = {}
    <3>1. SweepLocked(t) \cap SweepLocked(u) = {}
      BY <2>5 DEF InventoryInv, SweepsHoldOpenRows
    <3> QED
      BY <2>2, <2>3, <2>5, <3>1
  <2> QED
    BY <2>4, <2>5 DEF SweepsHoldOpenRows
<1>6. CheckoutWork'
  BY <1>1, InventoryAssumption
     DEF InventoryInv, CheckoutWork, Sessions, InventoryAssumption
<1>7. SettlerWork'
  BY <1>1, InventoryAssumption
     DEF InventoryInv, SettlerWork, Sessions, InventoryAssumption, Sweepable, Open
<1> QED
  BY <1>2, <1>3, <1>4, <1>5, <1>6, <1>7 DEF InventoryInv

\* Time passes.
LEMMA LapseStep ==
    ASSUME InventoryInv, NEW r \in Lines, Lapse(r)
    PROVE  InventoryInv'
BY DEF Lapse, counters, reservations, sessionVars, InventoryInv, InventoryTypeOK,
       ReservedWithinOnHand, NoLeakedHold, CommittedDeducted, AllOrNothing,
       ExclusiveStockRows, SweepsHoldOpenRows, SweepLocked, CheckoutWork, SettlerWork,
       RunningTotals, Open

-----------------------------------------------------------------------------
(* The steps of each kind of session. *)

LEMMA CheckoutSteps ==
    ASSUME InventoryInv, NEW o \in Orders, CheckoutNext(o)
    PROVE  InventoryInv'
<1>1. o \in Sessions /\ InventoryTypeOK
  BY DEF Sessions, InventoryInv
<1>2. CASE BeginCheckout(o)
  <2>1. LinesOf(o) \in SUBSET Lines /\ held[o] = {}
    BY <1>2 DEF BeginCheckout, LinesOf, InventoryInv, CheckoutWork
  <2> QED
    BY <1>1, <1>2, <2>1, StartStep DEF BeginCheckout
<1>3. ASSUME NEW r \in Lines, Reserve(o, r) PROVE InventoryInv'
  BY <1>1, <1>3, ExecuteStep DEF Reserve
<1>4. ASSUME NEW r \in Lines, RejectReserve(o, r) PROVE InventoryInv'
  BY <1>1, <1>4, AbandonStep DEF RejectReserve
<1>5. CASE CommitCheckout(o)
  BY <1>5, CommitCheckoutStep
<1> QED
  BY <1>2, <1>3, <1>4, <1>5 DEF CheckoutNext

LEMMA SettlementSteps ==
    ASSUME InventoryInv, NEW s \in Settlers \cup Sweepers,
           \/ \E r \in Lines : Release(s, r)
           \/ \E r \in Lines : CommitReservation(s, r)
           \/ \E r \in Lines : RefuseSettle(s, r)
           \/ CommitSettle(s)
    PROVE  InventoryInv'
<1>1. s \in Sessions /\ s \notin Orders
  BY InventoryAssumption DEF Sessions, InventoryAssumption
<1>2. ASSUME NEW r \in Lines, Settle(s, r) PROVE InventoryInv'
  BY <1>1, <1>2, ExecuteStep DEF Settle
<1>3. ASSUME NEW r \in Lines, RefuseSettle(s, r) PROVE InventoryInv'
  BY <1>1, <1>3, AbandonStep DEF RefuseSettle
<1>4. CASE CommitSettle(s)
  BY <1>4, CommitSettleStep
<1> QED
  BY <1>2, <1>3, <1>4 DEF Release, CommitReservation

LEMMA SettlerSteps ==
    ASSUME InventoryInv, NEW s \in Settlers, SettlerNext(s)
    PROVE  InventoryInv'
<1>1. ASSUME NEW o \in Orders, ReadReservations(s, o) PROVE InventoryInv'
  <2> DEFINE B == {r \in Open : OrderOf(r) = o}
  <2>1. B \in SUBSET Lines /\ B \subseteq rows /\ held[s] = {} /\ s \in Sessions
    BY <1>1 DEF ReadReservations, Open, InventoryInv, InventoryTypeOK, SettlerWork, Sessions
  <2> HIDE DEF B
  <2>2. /\ phase' = [phase EXCEPT ![s] = "settling"]
        /\ todo' = [todo EXCEPT ![s] = B]
        /\ UNCHANGED <<counters, reservations, lapsed, held>>
    BY <1>1 DEF ReadReservations, B
  <2> QED
    BY <2>1, <2>2, StartStep
<1>2. ASSUME \/ \E r \in Lines : Release(s, r)
             \/ \E r \in Lines : CommitReservation(s, r)
             \/ \E r \in Lines : RefuseSettle(s, r)
             \/ CommitSettle(s)
      PROVE  InventoryInv'
  BY <1>2, SettlementSteps
<1> QED
  BY <1>1, <1>2 DEF SettlerNext

LEMMA SweeperSteps ==
    ASSUME InventoryInv, NEW s \in Sweepers, SweeperNext(s)
    PROVE  InventoryInv'
<1>1. CASE SelectExpired(s)
  <2>1. PICK B \in Batches(Sweepable(s)) : todo' = [todo EXCEPT ![s] = B]
    BY <1>1 DEF SelectExpired
  <2>2. /\ B \subseteq Sweepable(s) /\ B \in SUBSET Lines
        /\ held[s] = {} /\ s \in Sessions
    BY <1>1 DEF SelectExpired, Batches, Sweepable, Open, InventoryInv, InventoryTypeOK,
                SettlerWork, Sessions
  <2> QED
    BY <1>1, <2>1, <2>2, StartStep DEF SelectExpired
<1>2. ASSUME \/ \E r \in Lines : Release(s, r)
             \/ \E r \in Lines : RefuseSettle(s, r)
             \/ CommitSettle(s)
      PROVE  InventoryInv'
  BY <1>2, SettlementSteps
<1> QED
  BY <1>1, <1>2 DEF SweeperNext

LEMMA NextInvariant ==
    ASSUME InventoryInv, [InventoryNext]_inventoryVars
    PROVE  InventoryInv'
<1>1. ASSUME NEW s \in Sessions, Rollback(s) PROVE InventoryInv'
  BY <1>1, AbandonStep DEF Rollback
<1>2. CASE UNCHANGED inventoryVars
  BY <1>2 DEF inventoryVars, InventoryInv, InventoryTypeOK, ReservedWithinOnHand,
              NoLeakedHold, CommittedDeducted, AllOrNothing, ExclusiveStockRows,
              SweepsHoldOpenRows, SweepLocked, CheckoutWork, SettlerWork,
              RunningTotals, Open
<1> QED
  BY <1>1, <1>2, CheckoutSteps, SettlerSteps, SweeperSteps, LapseStep DEF InventoryNext

-----------------------------------------------------------------------------
(* The theorems. *)

\* The inductive invariant holds in every reachable state.
THEOREM Invariance == InventorySpec => []InventoryInv
<1>1. InventoryInit => InventoryInv
  BY InitInvariant
<1>2. InventoryInv /\ [InventoryNext]_inventoryVars => InventoryInv'
  BY NextInvariant
<1> QED
  BY <1>1, <1>2, PTL DEF InventorySpec

\* Every variable keeps its type.
THEOREM TypeCorrect == InventorySpec => []InventoryTypeOK
<1>1. InventoryInv => InventoryTypeOK
  BY DEF InventoryInv
<1> QED
  BY <1>1, Invariance, PTL

\* 0 <= reserved <= on_hand: the check constraints of stock_items are never
\* what stops a checkout, and a commit never publishes a counter they reject.
THEOREM CountersInRange == InventorySpec => []ReservedWithinOnHand
<1>1. InventoryInv => ReservedWithinOnHand
  BY DEF InventoryInv
<1> QED
  BY <1>1, Invariance, PTL

\* No unit stays in reserved once the reservations that claimed it are settled,
\* whichever of cancel, mark_paid and the sweeper race for them.
THEOREM HoldsNeverLeak == InventorySpec => []NoLeakedHold
<1>1. InventoryInv => NoLeakedHold
  BY DEF InventoryInv
<1> QED
  BY <1>1, Invariance, PTL

\* What mark_paid has marked committed has left the physical stock.
THEOREM CommittedLeftStock == InventorySpec => []CommittedDeducted
<1>1. InventoryInv => CommittedDeducted
  BY DEF InventoryInv
<1> QED
  BY <1>1, Invariance, PTL

\* An order is in the database with all of its reservations or with none.
THEOREM CheckoutIsAtomic == InventorySpec => []AllOrNothing
<1>1. InventoryInv => AllOrNothing
  BY DEF InventoryInv
<1> QED
  BY <1>1, Invariance, PTL

-----------------------------------------------------------------------------
(* The counters are exact until a settled reservation is settled again. *)

HoldsOf(S, v) == {r \in S : VariantOf(r) = v}

\* Both counters of a variant, as far as nothing of it has been settled twice.
ExactInv ==
    \A v \in Variants : Undisturbed(v) =>
        /\ reserved[v] = Total(Open, v)
        /\ onHand[v] = InitialStock[v] - Total(committed, v)
        /\ HoldsOf(released \cap committed, v) = {}

\* The total of a variant looks at its own lines only.
LEMMA TotalOfHolds ==
    ASSUME NEW v, NEW S, NEW T, HoldsOf(S, v) = HoldsOf(T, v)
    PROVE  Total(S, v) = Total(T, v)
<1>1. \A r : r \in S /\ VariantOf(r) = v <=> r \in T /\ VariantOf(r) = v
  BY DEF HoldsOf
<1>2. \A u : u \in Units(S, v) <=> u \in Units(T, v)
  <2> TAKE u
  <2>1. u \in Units(S, v) <=> /\ u \in S \X (1..MaxLineQuantity)
                              /\ VariantOf(u[1]) = v /\ u[2] <= Quantity[u[1]]
    BY DEF Units
  <2>2. u \in Units(T, v) <=> /\ u \in T \X (1..MaxLineQuantity)
                              /\ VariantOf(u[1]) = v /\ u[2] <= Quantity[u[1]]
    BY DEF Units
  <2>3. VariantOf(u[1]) = v => (u \in S \X (1..MaxLineQuantity)
                                  <=> u \in T \X (1..MaxLineQuantity))
    BY <1>1
  <2> QED
    BY <2>1, <2>2, <2>3
<1>3. Units(S, v) = Units(T, v)
  BY <1>2
<1> QED
  BY <1>3 DEF Total

\* A commit of a cancel, a payment or a sweep keeps the counters exact.
LEMMA SettleExact ==
    ASSUME InventoryInv, NEW s \in Settlers \cup Sweepers, CommitSettle(s),
           NEW v \in Variants, HoldsOf(held[s], v) \subseteq Open,
           reserved[v] = Total(Open, v),
           onHand[v] = InitialStock[v] - Total(committed, v),
           HoldsOf(released \cap committed, v) = {}
    PROVE  /\ reserved'[v] = Total(Open', v)
           /\ onHand'[v] = InitialStock[v] - Total(committed', v)
           /\ HoldsOf(released' \cap committed', v) = {}
<1> DEFINE H == HoldsOf(held[s], v)
<1>1. /\ InventoryTypeOK /\ s \in Sessions
      /\ rows \in SUBSET Lines /\ committed \in SUBSET Lines
      /\ Open \in SUBSET Lines /\ H \in SUBSET Lines
      /\ H \cap committed = {} /\ H \cap released = {} /\ H \subseteq rows
  BY DEF InventoryInv, InventoryTypeOK, Open, Sessions, HoldsOf
<1>2. Total(H, v) = Total(held[s], v)
  BY TotalOfHolds DEF HoldsOf
<1>3. Total(Open, v) = Total(Open \ H, v) + Total(H, v)
  <2>1. Open = (Open \ H) \cup H /\ (Open \ H) \cap H = {} /\ Open \ H \in SUBSET Lines
    BY <1>1
  <2> HIDE DEF H
  <2> QED
    BY <1>1, <2>1, TotalUnion
<1>4. Total(Open', v) = Total(Open \ H, v)
  <2>1. HoldsOf(Open', v) = HoldsOf(Open \ H, v)
    BY DEF HoldsOf, CommitSettle, Open
  <2> QED
    BY <2>1, TotalOfHolds
<1>5. /\ Total(H, v) \in Nat /\ Total(Open \ H, v) \in Nat /\ Total(committed, v) \in Nat
      /\ InitialStock[v] \in Int
  <2> HIDE DEF H
  <2>1. Open \ H \in SUBSET Lines
    BY <1>1
  <2> QED
    BY <1>1, <2>1, TotalType, InventoryAssumption DEF InventoryAssumption
<1>6. reserved'[v] = reserved[v] - Total(held[s], v)
  BY DEF CommitSettle, ReservedSeenBy
<1>7. reserved'[v] = Total(Open', v)
  BY <1>2, <1>3, <1>4, <1>5, <1>6
<1>8. onHand'[v] = InitialStock[v] - Total(committed', v)
  <2>1. CASE s \in Payers
    <3>1. onHand'[v] = onHand[v] - Total(held[s], v) /\ committed' = committed \cup held[s]
      BY <2>1 DEF CommitSettle, OnHandSeenBy
    <3>2. Total(committed', v) = Total(committed \cup H, v)
      <4>1. HoldsOf(committed', v) = HoldsOf(committed \cup H, v)
        BY <3>1 DEF HoldsOf
      <4> QED
        BY <4>1, TotalOfHolds
    <3>3. Total(committed \cup H, v) = Total(committed, v) + Total(H, v)
      <4>1. committed \cap H = {}
        BY <1>1
      <4> HIDE DEF H
      <4> QED
        BY <1>1, <4>1, TotalUnion
    <3> QED
      BY <1>2, <1>5, <3>1, <3>2, <3>3
  <2>2. CASE s \notin Payers
    BY <2>2 DEF CommitSettle, OnHandSeenBy
  <2> QED
    BY <2>1, <2>2
<1>9. HoldsOf(released' \cap committed', v) = {}
  <2>1. \/ released' = released /\ committed' = committed \cup held[s]
        \/ released' = released \cup held[s] /\ committed' = committed
    BY DEF CommitSettle
  <2> QED
    BY <1>1, <2>1 DEF HoldsOf
<1> QED
  BY <1>7, <1>8, <1>9

LEMMA ExactStep ==
    ASSUME InventoryInv, ExactInv, [HoldsNext]_holdsVars
    PROVE  ExactInv'
<1> USE DEF counters, reservations
<1>1. InventoryTypeOK
  BY DEF InventoryInv
<1>2. raced \subseteq raced'
  BY DEF HoldsNext, holdsVars
<1>3. ASSUME NEW v \in Variants, Undisturbed(v)'
      PROVE  /\ Undisturbed(v)
             /\ reserved[v] = Total(Open, v)
             /\ onHand[v] = InitialStock[v] - Total(committed, v)
             /\ HoldsOf(released \cap committed, v) = {}
  BY <1>2, <1>3 DEF Undisturbed, ExactInv
<1>4. ASSUME UNCHANGED <<counters, reservations>> PROVE ExactInv'
  <2>1. Open' = Open
    BY <1>4 DEF Open
  <2> QED
    BY <1>3, <1>4, <2>1 DEF ExactInv
<1>5. ASSUME NEW o \in Orders, CommitCheckout(o) PROVE ExactInv'
  <2>1. /\ Open' = Open \cup held[o] /\ Open \cap held[o] = {}
        /\ Open \in SUBSET Lines /\ held[o] \in SUBSET Lines
    BY <1>1, <1>5 DEF CommitCheckout, InventoryInv, InventoryTypeOK, CheckoutWork,
                      AllOrNothing, Open, Sessions
  <2>2. \A v \in Variants : Total(Open', v) = Total(Open, v) + Total(held[o], v)
    BY <2>1, TotalUnion
  <2>3. /\ \A v \in Variants : reserved'[v] = reserved[v] + Total(held[o], v)
        /\ onHand' = onHand /\ committed' = committed /\ released' = released
    BY <1>5 DEF CommitCheckout
  <2> QED
    BY <1>3, <2>2, <2>3 DEF ExactInv
<1>6. ASSUME NEW s \in Settlers \cup Sweepers, CommitSettle(s), HoldsNext PROVE ExactInv'
  <2>1. ASSUME NEW v \in Variants, Undisturbed(v)' PROVE HoldsOf(held[s], v) \subseteq Open
    <3>1. CASE s \in Sweepers
      BY <3>1 DEF InventoryInv, SweepsHoldOpenRows, SweepLocked, HoldsOf
    <3>2. CASE s \in Settlers
      <4>1. held[s] \ Open \subseteq raced'
        BY <1>6, <3>2 DEF HoldsNext, Overtaken
      <4> QED
        BY <2>1, <4>1 DEF Undisturbed, HoldsOf
    <3> QED
      BY <3>1, <3>2
  <2> QED
    BY <1>3, <1>6, <2>1, SettleExact DEF ExactInv
<1>7. ASSUME NEW o \in Orders, CheckoutNext(o) PROVE ExactInv'
  BY <1>4, <1>5, <1>7
     DEF CheckoutNext, BeginCheckout, Reserve, RejectReserve, Execute
<1>8. ASSUME NEW s \in Settlers, SettlerNext(s), HoldsNext PROVE ExactInv'
  BY <1>4, <1>6, <1>8
     DEF SettlerNext, ReadReservations, Release, CommitReservation, Settle, Execute,
         RefuseSettle
<1>9. ASSUME NEW s \in Sweepers, SweeperNext(s), HoldsNext PROVE ExactInv'
  BY <1>4, <1>6, <1>9
     DEF SweeperNext, SelectExpired, Release, Settle, Execute, RefuseSettle
<1>10. ASSUME NEW s \in Sessions, Rollback(s) PROVE ExactInv'
  BY <1>4, <1>10 DEF Rollback
<1>11. ASSUME NEW r \in Lines, Lapse(r) PROVE ExactInv'
  BY <1>4, <1>11 DEF Lapse
<1>12. CASE UNCHANGED holdsVars
  BY <1>4, <1>12 DEF holdsVars, inventoryVars
<1>13. CASE HoldsNext
  BY <1>7, <1>8, <1>9, <1>10, <1>11, <1>13 DEF HoldsNext, InventoryNext
<1> QED
  BY <1>12, <1>13

\* The history takes nothing from Inventory.
LEMMA HoldsIsInventory == HoldsSpec => InventorySpec
<1>1. HoldsInit => InventoryInit
  BY DEF HoldsInit
<1>2. [HoldsNext]_holdsVars => [InventoryNext]_inventoryVars
  BY DEF HoldsNext, holdsVars
<1> QED
  BY <1>1, <1>2, PTL DEF HoldsSpec, InventorySpec

LEMMA CountersAreExact == HoldsSpec => [](InventoryInv /\ ExactInv)
<1>1. HoldsInit => ExactInv
  <2>1. \A v : Total({}, v) = 0
    BY TotalElsewhere
  <2> QED
    BY <2>1, InventoryAssumption
       DEF HoldsInit, InventoryInit, ExactInv, Open, HoldsOf, InventoryAssumption
<1>2. InventoryInv /\ ExactInv /\ [HoldsNext]_holdsVars => ExactInv'
  BY ExactStep
<1> QED
  BY <1>1, <1>2, HoldsIsInventory, Invariance, PTL DEF HoldsSpec

\* Whatever checkouts, cancels, payments and sweeps do at the same time, the
\* counters of a variant count its reservations exactly, until a request commits
\* upon a reservation that was settled after it read it.
THEOREM ClaimsExact == HoldsSpec => []ExactClaims
<1>1. ExactInv => ExactClaims
  BY DEF ExactInv, ExactClaims
<1> QED
  BY <1>1, CountersAreExact, PTL

\* ... so until then the orders never claim more than there was to sell.
THEOREM NothingOversold == HoldsSpec => []NoOversell
<1>1. InventoryInv /\ ExactInv => NoOversell
  <2> SUFFICES ASSUME InventoryInv, ExactInv, NEW v \in Variants, Undisturbed(v)
               PROVE  Total(rows \ released, v) <= InitialStock[v]
    BY DEF NoOversell
  <2> DEFINE Sold == committed \ released
  <2>1. /\ rows \ released = Open \cup Sold /\ Open \cap Sold = {}
        /\ Open \in SUBSET Lines /\ Sold \in SUBSET Lines /\ committed \in SUBSET Lines
    BY DEF InventoryInv, InventoryTypeOK, Open
  <2>2. Total(Sold, v) = Total(committed, v)
    <3>1. HoldsOf(Sold, v) = HoldsOf(committed, v)
      BY DEF ExactInv, HoldsOf
    <3> HIDE DEF Sold
    <3> QED
      BY <3>1, TotalOfHolds
  <2>3. Total(rows \ released, v) = Total(Open, v) + Total(Sold, v)
    <3> HIDE DEF Sold
    <3> QED
      BY <2>1, TotalUnion
  <2>4. Total(Open, v) \in Nat /\ Total(committed, v) \in Nat /\ InitialStock[v] \in Int
    BY <2>1, TotalType, InventoryAssumption DEF InventoryAssumption
  <2>5. reserved[v] = Total(Open, v) /\ onHand[v] = InitialStock[v] - Total(committed, v)
    BY DEF ExactInv
  <2>6. reserved[v] <= onHand[v]
    BY DEF InventoryInv, ReservedWithinOnHand
  <2> QED
    BY <2>2, <2>3, <2>4, <2>5, <2>6
<1> QED
  BY <1>1, CountersAreExact, PTL
=============================================================================
