----------------------------- MODULE CartProofs -----------------------------
(***************************************************************************)
(* Proofs about the carts of a shopper, for any number of requests, carts, *)
(* variants and operations.                                                *)
(***************************************************************************)
EXTENDS Cart, TLAPS

\* Clamping yields a quantity the table may hold.
LEMMA CappedInRange ==
    ASSUME NEW n \in Nat
    PROVE  Capped(n) \in 0..MaxQuantity
BY CartAssumption DEF Capped

\* The operation of a request that is at work is one of Ops.
LEMMA OpIsKnown ==
    ASSUME CartTypeOK, NEW r \in Requests, NEW kind, Asks(r, kind), kind # "none"
    PROVE  /\ op[r] \in Ops
           /\ op[r].owner \in Owners
           /\ op[r].variant \in Variants
           /\ op[r].quantity \in Nat
           /\ kind \in {"sign_in", "checkout"} => op[r].owner = "user"
<1>1. op[r] \in Ops
  BY DEF CartTypeOK, Asks, NoOp
<1> QED
  BY <1>1, CartAssumption DEF Asks

-----------------------------------------------------------------------------
(* What a write leaves in the tables. *)

\* Every write ends in the commit of its request.
LEMMA WriteCommits ==
    ASSUME NEW r \in Requests, Write(r)
    PROVE  step[r] = "loaded" /\ \E D : Commit(r, D)
BY DEF Write, Asks, ReadCart, InsertLine, UpdateLine, SetQuantity, RemoveLine, Clear,
       Delete, SignInAlone, SignInMerging, Checkout

\* The carts a request may write to: the one it has read, the guest's at
\* sign-in, or a new one when it has found none.
Writable(r) ==
    {seen[r].cart} \cup (IF op[r].kind = "sign_in" THEN {guest[r].cart} ELSE {})
        \cup (IF seen[r].cart = NoCart THEN Fresh ELSE {})

\* The rows of the tables keep their types under UpdateLine and SetQuantity.
LEMMA UpdateKeeps ==
    ASSUME CartTypeOK, NEW r \in Requests, NEW v \in Variants, NEW q \in 0..MaxQuantity,
           Update(r, v, q)
    PROVE  /\ lines' \in [Carts -> Baskets]
           /\ \A c \in Carts : lines'[c] # lines[c] => c = seen[r].cart
<1>1. CASE lines' = lines
  BY <1>1 DEF CartTypeOK
<1>2. CASE lines' = [lines EXCEPT ![seen[r].cart][v] = q]
  BY <1>2 DEF CartTypeOK, Baskets
<1> QED
  BY <1>1, <1>2 DEF Update

\* A write leaves the tables with their types, and only touches what it may.
LEMMA WriteKeeps ==
    ASSUME CartTypeOK, NEW r \in Requests, Write(r)
    PROVE  /\ owner' \in [Carts -> Owners \cup {"none"}]
           /\ spent' \subseteq Carts
           /\ lines' \in [Carts -> Baskets]
           /\ order' \in Baskets
           /\ \A c \in Carts : lines'[c] # lines[c] => c \in Writable(r)
<1> USE DEF Writable
<1>1. Empty \in Baskets
  BY CartAssumption DEF Empty, Baskets
<1>2. CASE ReadCart(r)
  BY <1>2, OpIsKnown DEF ReadCart, Create, CartTypeOK, Asks
<1>3. CASE InsertLine(r)
  <2>1. PICK c \in Into(r) :
           /\ lines' = [lines EXCEPT ![c][op[r].variant] = Capped(op[r].quantity)]
           /\ Create(r, c)
    BY <1>3 DEF InsertLine
  <2>2. op[r].owner \in Owners /\ op[r].variant \in Variants /\ op[r].quantity \in Nat
    BY <1>3, OpIsKnown DEF InsertLine
  <2>3. Capped(op[r].quantity) \in 0..MaxQuantity
    BY <2>2, CappedInRange
  <2>4. lines' \in [Carts -> Baskets]
    BY <2>1, <2>2, <2>3 DEF CartTypeOK, Baskets
  <2> QED
    BY <1>3, <2>1, <2>2, <2>4 DEF InsertLine, Create, CartTypeOK, Into
<1>4. CASE UpdateLine(r)
  <2>1. op[r].variant \in Variants /\ op[r].quantity \in Nat
    BY <1>4, OpIsKnown DEF UpdateLine
  <2>2. seen[r].lines[op[r].variant] \in Nat
    BY <2>1 DEF CartTypeOK, Snapshots, Baskets
  <2>3. Capped(seen[r].lines[op[r].variant] + op[r].quantity) \in 0..MaxQuantity
    BY <2>1, <2>2, CappedInRange
  <2> QED
    BY <1>4, <2>1, <2>3, UpdateKeeps DEF UpdateLine, CartTypeOK
<1>5. CASE SetQuantity(r)
  <2>1. op[r].variant \in Variants /\ op[r].quantity \in Nat
    BY <1>5, OpIsKnown DEF SetQuantity
  <2>2. Capped(op[r].quantity) \in 0..MaxQuantity
    BY <2>1, CappedInRange
  <2> QED
    BY <1>5, <2>1, <2>2, UpdateKeeps DEF SetQuantity, CartTypeOK
<1>6. ASSUME NEW V, Delete(r, V)
      PROVE  /\ owner' = owner /\ spent' = spent /\ order' = order
             /\ lines' \in [Carts -> Baskets]
             /\ \A c \in Carts : lines'[c] # lines[c] => c = seen[r].cart
  BY <1>6, CartAssumption DEF Delete, CartTypeOK, Baskets
<1>7. CASE RemoveLine(r) \/ Clear(r)
  <2>1. PICK V : Delete(r, V)
    BY <1>7 DEF RemoveLine, Clear
  <2> QED
    BY <1>6, <2>1 DEF CartTypeOK
<1>8. CASE SignInAlone(r)
  BY <1>8, OpIsKnown DEF SignInAlone, Create, CartTypeOK, Asks
<1>9. CASE SignInMerging(r)
  <2> DEFINE u == seen[r].lines
             q == Folded(guest[r].lines, u)
             Changed == {v \in Variants : q[v] # u[v]}
  <2>1. PICK c \in Into(r) :
           /\ lines' = [lines EXCEPT
                          ![c] = [v \in Variants |-> IF v \in Changed THEN q[v] ELSE @[v]],
                          ![guest[r].cart] = Empty]
           /\ owner' = [owner EXCEPT ![c] = "user", ![guest[r].cart] = "none"]
    BY <1>9 DEF SignInMerging
  <2>2. q \in Baskets
    <3>1. \A v \in Variants : guest[r].lines[v] + u[v] \in Nat
      BY DEF CartTypeOK, Snapshots, Baskets
    <3> QED
      BY <3>1, CappedInRange DEF Folded, Baskets
  <2>3. [v \in Variants |-> IF v \in Changed THEN q[v] ELSE lines[c][v]] \in Baskets
        \/ c \notin Carts
    BY <2>2 DEF CartTypeOK, Baskets
  <2>4. lines' \in [Carts -> Baskets]
    BY <2>1, <2>3, <1>1 DEF CartTypeOK
  <2>5. op[r].kind = "sign_in"
    BY <1>9 DEF SignInMerging, Asks
  <2>6. \A d \in Carts : d # c /\ d # guest[r].cart => lines'[d] = lines[d]
    BY <2>1 DEF CartTypeOK
  <2>7. \A d \in Carts : lines'[d] # lines[d] => d \in Writable(r)
    BY <2>5, <2>6 DEF Into
  <2>8. owner' \in [Carts -> Owners \cup {"none"}]
    BY <2>1 DEF CartTypeOK, Owners
  <2> QED
    BY <1>9, <2>4, <2>7, <2>8 DEF SignInMerging, CartTypeOK
<1>10. CASE Checkout(r)
  <2>1. seen[r].lines \in Baskets
    BY DEF CartTypeOK, Snapshots
  <2>2. seen[r].cart \in Carts
    BY <1>10 DEF Checkout, CartTypeOK, Snapshots
  <2> QED
    BY <1>10, <2>1, <2>2 DEF Checkout, CartTypeOK
<1> QED
  BY <1>2, <1>3, <1>4, <1>5, <1>7, <1>8, <1>9, <1>10 DEF Write

-----------------------------------------------------------------------------
(* The inductive invariant. *)

\* Requests remember what they have read, or forget it when they end.
LEMMA CommitKeeps ==
    ASSUME CartTypeOK, NEW r \in Requests, NEW D, Commit(r, D)
    PROVE  /\ step' \in [Requests -> {"idle", "merging", "loaded"}]
           /\ op' \in [Requests -> Ops \cup {NoOp}]
           /\ seen' \in [Requests -> Snapshots]
           /\ guest' \in [Requests -> Snapshots]
           /\ gone' \in [Requests -> SUBSET Variants]
           /\ stale' \subseteq Requests
           /\ raced' \in BOOLEAN
<1>1. Nothing \in Snapshots
  BY CartAssumption DEF Nothing, Snapshots, Baskets, Empty
<1>2. gone' \in [Requests -> SUBSET Variants]
  BY DEF Commit, CartTypeOK
<1>3. stale' \subseteq Requests /\ raced' \in BOOLEAN
  BY DEF Commit, CartTypeOK
<1>4. /\ step' \in [Requests -> {"idle", "merging", "loaded"}]
      /\ op' \in [Requests -> Ops \cup {NoOp}]
      /\ seen' \in [Requests -> Snapshots]
      /\ guest' \in [Requests -> Snapshots]
  BY <1>1 DEF Commit, Close, CartTypeOK
<1> QED
  BY <1>2, <1>3, <1>4

\* What a request may have read of an owner's cart is in Snapshots.
LEMMA ResolvedIsSnapshot ==
    ASSUME CartTypeOK, NEW o \in Owners
    PROVE  Resolved(o) \subseteq Snapshots
BY CartAssumption DEF Resolved, Open, CartTypeOK, Snapshots, Baskets, Nothing, Empty

\* The same open carts with the same lines read alike.
LEMMA HeldIsRead ==
    ASSUME NEW o, Held(o)' = Held(o)
    PROVE  Resolved(o)' = Resolved(o)
<1>1. Open(o)' = Open(o)
  <2>1. \A c \in Open(o) : <<c, lines[c]>> \in Held(o)'
    BY DEF Held
  <2>2. \A c \in Open(o)' : <<c, lines'[c]>> \in Held(o)
    BY DEF Held
  <2> QED
    BY <2>1, <2>2 DEF Held
<1>2. \A c \in Open(o) : lines'[c] = lines[c]
  <2>1. \A c \in Open(o) : <<c, lines[c]>> \in Held(o)'
    BY DEF Held
  <2> QED
    BY <2>1 DEF Held
<1> QED
  BY <1>1, <1>2 DEF Resolved

\* A write marks everyone stale whose cart it changes.
LEMMA WriteKeepsSeenIsCurrent ==
    ASSUME CartInv, NEW r \in Requests, Write(r)
    PROVE  SeenIsCurrent'
<1>1. PICK D : Commit(r, D)
  BY WriteCommits
<1>2. SUFFICES ASSUME NEW t \in Requests \ stale'
               PROVE /\ ("guest" \in HasRead(t) /\ op[t].kind = "sign_in"
                            => guest[t] \in Resolved("guest"))'
                     /\ (step[t] = "loaded" => seen[t] \in Resolved(op[t].owner))'
  BY DEF SeenIsCurrent
<1>3. CASE t = r
  <2>1. step'[r] = "idle"
    BY <1>1 DEF Commit, Close, CartInv, CartTypeOK
  <2>2. HasRead(r)' = {}
    BY <2>1 DEF HasRead
  <2> QED
    BY <1>3, <2>1, <2>2
<1>4. CASE t # r
  <2>1. t \notin stale /\ \A o \in HasRead(t) : Held(o)' = Held(o)
    BY <1>1, <1>4 DEF Commit
  <2>2. step'[t] = step[t] /\ op'[t] = op[t] /\ seen'[t] = seen[t] /\ guest'[t] = guest[t]
    BY <1>1, <1>4 DEF Commit, Close, CartInv, CartTypeOK
  <2>3. HasRead(t)' = HasRead(t)
    BY <2>2 DEF HasRead
  <2>4. \A o \in HasRead(t) : Resolved(o)' = Resolved(o)
    BY <2>1, HeldIsRead
  <2>5. step[t] = "loaded" => op[t].owner \in HasRead(t)
    <3>1. step[t] = "loaded" => op[t] \in Ops \cup {NoOp}
      BY DEF CartInv, CartTypeOK
    <3>2. step[t] = "loaded" /\ op[t].kind = "sign_in" => op[t].owner \in Owners
      BY <3>1, CartAssumption DEF NoOp
    <3> QED
      BY <3>2 DEF HasRead
  <2> QED
    BY <2>1, <2>2, <2>3, <2>4, <2>5 DEF CartInv, SeenIsCurrent
<1> QED
  BY <1>3, <1>4

\* What a request reads is there: no cart without a row.
LEMMA ResolvedHaveRows ==
    ASSUME NEW o \in Owners, NEW s \in Resolved(o), s.cart \in Carts
    PROVE  owner[s.cart] # "none"
BY CartAssumption DEF Resolved, Open, Nothing, Owners

\* A write only deletes rows of carts.
LEMMA WriteCommitsCarts ==
    ASSUME CartInv, NEW r \in Requests, Write(r)
    PROVE  \E D \in SUBSET (Carts \X Variants) : Commit(r, D)
<1>1. CASE Commit(r, {})
  BY <1>1
<1>2. ASSUME NEW V \in SUBSET Variants, Delete(r, V)
      PROVE  \E D \in SUBSET (Carts \X Variants) : Commit(r, D)
  <2> DEFINE D == {v \in V : seen[r].lines[v] > 0 /\ v \notin gone[r]}
  <2>1. Commit(r, {seen[r].cart} \X D)
    BY <1>2 DEF Delete
  <2>2. {seen[r].cart} \X D \in SUBSET (Carts \X Variants)
    BY DEF CartInv, CartTypeOK, Snapshots, Empty
  <2> QED
    BY <2>1, <2>2
<1>3. CASE RemoveLine(r) \/ Clear(r)
  BY <1>2, <1>3, OpIsKnown DEF RemoveLine, Clear, CartInv
<1>4. CASE SignInMerging(r)
  <2>1. Commit(r, {guest[r].cart} \X Variants) /\ guest[r].cart \in Carts
    BY <1>4 DEF SignInMerging, CartInv, CartTypeOK, Snapshots
  <2> QED
    BY <2>1
<1> QED
  BY <1>1, <1>3, <1>4
     DEF Write, ReadCart, InsertLine, UpdateLine, SetQuantity, SignInAlone, Checkout

\* A commit leaves whoever it does not overtake with the open cart as it was.
LEMMA NotOvertaken ==
    ASSUME CartInv, NEW r \in Requests, NEW D, Commit(r, D),
           NEW t \in Requests \ {r}, t \notin stale', seen[t].cart \in Carts
    PROVE  /\ t \notin stale
           /\ step[t] = "loaded"
           /\ seen[t].cart \in Open(op[t].owner)
           /\ seen[t].cart \in Open(op[t].owner)'
           /\ lines[seen[t].cart] = seen[t].lines
           /\ lines'[seen[t].cart] = seen[t].lines
<1> DEFINE c == seen[t].cart
<1>1. t \notin stale /\ \A o \in HasRead(t) : Held(o)' = Held(o)
  BY DEF Commit
<1>2. seen[t] # Nothing
  BY CartAssumption DEF Nothing
<1>3. step[t] = "loaded"
  BY <1>2 DEF CartInv, Remembers
<1>4. seen[t] \in Resolved(op[t].owner)
  BY <1>1, <1>3 DEF CartInv, SeenIsCurrent
<1>5. c \in Open(op[t].owner) /\ lines[c] = seen[t].lines
  BY <1>2, <1>4 DEF Resolved
<1>6. op[t].owner \in HasRead(t)
  <2>1. op[t] \in Ops \cup {NoOp}
    BY DEF CartInv, CartTypeOK
  <2>2. op[t].kind = "sign_in" => op[t].owner \in Owners
    BY <2>1, CartAssumption DEF NoOp
  <2> QED
    BY <1>3, <2>2 DEF HasRead
<1>7. PICK o \in HasRead(t) : o = op[t].owner
  BY <1>6
<1>8. <<c, lines[c]>> \in Held(o)'
  BY <1>1, <1>5, <1>7 DEF Held
<1>9. c \in Open(o)' /\ lines'[c] = lines[c]
  BY <1>8 DEF Held
<1>10. op'[t] = op[t] /\ seen'[t] = seen[t]
  BY DEF Commit, Close, CartInv, CartTypeOK
<1> QED
  BY <1>1, <1>3, <1>5, <1>7, <1>9, <1>10 DEF Open

\* A request that is not stale writes to open carts of its owners and to new
\* ones only.
LEMMA FreshWritesAreOpen ==
    ASSUME CartInv, NEW r \in Requests \ stale, step[r] = "loaded", op[r] \in Ops,
           NEW c \in Carts, c \in Writable(r)
    PROVE  c \in Open("guest") \cup Open("user") \cup Fresh
<1>1. op[r].owner \in Owners
  BY CartAssumption
<1>2. seen[r] \in Resolved(op[r].owner)
  BY DEF CartInv, SeenIsCurrent
<1>3. seen[r].cart # NoCart => seen[r].cart \in Open(op[r].owner)
  BY <1>2 DEF Resolved, Nothing
<1>4. op[r].kind = "sign_in" => guest[r] \in Resolved("guest")
  BY DEF CartInv, SeenIsCurrent, HasRead, Owners
<1>5. op[r].kind = "sign_in" /\ guest[r].cart # NoCart => guest[r].cart \in Open("guest")
  BY <1>4 DEF Resolved, Nothing
<1> QED
  BY <1>1, <1>3, <1>5, CartAssumption DEF Writable, Owners

\* Creating a cart for an owner without an open one leaves one open cart.
LEMMA CreateKeepsOne ==
    ASSUME CartInv, NEW r \in Requests \ stale, Asks(r, op[r].kind), op[r] \in Ops,
           NEW c \in Into(r), Create(r, c), spent' = spent,
           \A o \in Owners : \A d, e \in Open(o) : d = e
    PROVE  \A o \in Owners : \A d, e \in Open(o)' : d = e
<1>1. CASE seen[r].cart # NoCart
  BY <1>1 DEF Create, Open
<1>2. CASE seen[r].cart = NoCart
  <2>1. seen[r] \in Resolved(op[r].owner)
    BY DEF CartInv, SeenIsCurrent, Asks
  <2>2. Open(op[r].owner) = {}
    BY <1>2, <2>1, CartAssumption DEF Resolved, Open
  <2>3. c \in Carts /\ owner[c] = "none"
    BY <1>2 DEF Into, Fresh
  <2>4. owner' = [owner EXCEPT ![c] = op[r].owner]
    BY <1>2 DEF Create
  <2>5. \A o \in Owners : Open(o)' \subseteq Open(o) \cup (IF o = op[r].owner THEN {c} ELSE {})
    BY <2>3, <2>4 DEF Open, CartInv, CartTypeOK
  <2> QED
    BY <2>2, <2>5
<1> QED
  BY <1>1, <1>2

\* Until a request commits in spite of being stale, there is one open cart
\* before sign-in and one after it.
LEMMA WriteKeepsOneOpenCart ==
    ASSUME CartInv, NEW r \in Requests, Write(r)
    PROVE  OneOpenCart'
<1> SUFFICES ASSUME ~raced'
             PROVE  \A o \in Owners : \A d, e \in Open(o)' : d = e
  BY DEF OneOpenCart
<1>1. PICK D : Commit(r, D)
  BY WriteCommits
<1>2. ~raced /\ r \in Requests \ stale
  BY <1>1 DEF Commit
<1>3. \A o \in Owners : \A d, e \in Open(o) : d = e
  BY <1>2 DEF CartInv, OneOpenCart
<1>4. CASE owner' = owner /\ spent \subseteq spent'
  BY <1>3, <1>4 DEF Open
<1>5. ASSUME NEW kind, Asks(r, kind), kind # "none",
             NEW c \in Into(r), Create(r, c), spent' = spent
      PROVE  \A o \in Owners : \A d, e \in Open(o)' : d = e
  <2>1. op[r] \in Ops
    BY <1>5, OpIsKnown DEF CartInv
  <2> QED
    BY <1>2, <1>3, <1>5, <2>1, CreateKeepsOne DEF Asks
<1>6. CASE ReadCart(r) \/ InsertLine(r) \/ SignInAlone(r)
  BY <1>5, <1>6 DEF ReadCart, InsertLine, SignInAlone
<1>7. CASE UpdateLine(r) \/ SetQuantity(r) \/ RemoveLine(r) \/ Clear(r) \/ Checkout(r)
  BY <1>4, <1>7 DEF UpdateLine, SetQuantity, RemoveLine, Clear, Delete, Checkout
<1>8. CASE SignInMerging(r)
  <2>1. PICK c \in Into(r) :
           owner' = [owner EXCEPT ![c] = "user", ![guest[r].cart] = "none"]
    BY <1>8 DEF SignInMerging
  <2>2. Asks(r, "sign_in") /\ spent' = spent
    BY <1>8 DEF SignInMerging
  <2>3. op[r].owner = "user"
    BY <2>2, OpIsKnown DEF CartInv
  <2>4. seen[r] \in Resolved("user")
    BY <1>2, <2>2, <2>3 DEF CartInv, SeenIsCurrent, Asks
  <2>5. CASE seen[r].cart = NoCart
    <3>1. Open("user") = {}
      BY <2>4, <2>5, CartAssumption DEF Resolved, Open
    <3>2. Open("user")' \subseteq {c}
      BY <2>1, <2>2, <3>1 DEF Open, CartInv, CartTypeOK
    <3>3. Open("guest")' \subseteq Open("guest")
      BY <2>1, <2>2 DEF Open, CartInv, CartTypeOK
    <3> QED
      BY <1>3, <3>2, <3>3 DEF Owners
  <2>6. CASE seen[r].cart # NoCart
    <3>1. c \in Open("user")
      BY <2>4, <2>6 DEF Resolved, Nothing, Into
    <3>2. \A o \in Owners : Open(o)' \subseteq Open(o)
      BY <2>1, <2>2, <3>1 DEF Open, CartInv, CartTypeOK, Owners
    <3> QED
      BY <1>3, <3>2
  <2> QED
    BY <2>5, <2>6
<1> QED
  BY <1>6, <1>7, <1>8, <1>1 DEF Write

\* A write leaves no row without its cart, and whoever has read a row that
\* goes with its cart knows it.
LEMMA WriteKeepsRows ==
    ASSUME CartInv, NEW r \in Requests, Write(r)
    PROVE  RowsHaveCarts'
<1> SUFFICES ASSUME NEW c \in Carts, owner'[c] = "none"
             PROVE  /\ lines'[c] = Empty
                    /\ \A t \in Requests : seen'[t].cart = c => gone'[t] = Variants
  BY DEF RowsHaveCarts, Empty
<1>1. c # NoCart
  BY CartAssumption
<1>2. PICK D : Commit(r, D)
  BY WriteCommits
<1>3. ASSUME owner[c] = "none", lines'[c] = lines[c]
      PROVE  /\ lines'[c] = Empty
             /\ \A t \in Requests : seen'[t].cart = c => gone'[t] = Variants
  <2>1. lines[c] = Empty /\ \A t \in Requests : seen[t].cart = c => gone[t] = Variants
    BY <1>3 DEF CartInv, RowsHaveCarts
  <2>2. seen'[r].cart # c
    BY <1>1, <1>2 DEF Commit, Close, Nothing, CartInv, CartTypeOK
  <2>3. \A t \in Requests \ {r} : seen'[t] = seen[t] /\ gone[t] \subseteq gone'[t]
    BY <1>2 DEF Commit, Close, CartInv, CartTypeOK
  <2>4. \A t \in Requests : gone'[t] \subseteq Variants
    BY <1>2, CommitKeeps DEF CartInv
  <2> QED
    BY <1>3, <2>1, <2>2, <2>3, <2>4
<1>4. ASSUME NEW kind, Asks(r, kind), kind # "none", NEW d \in Into(r), Create(r, d)
      PROVE  owner[c] = "none" /\ (seen[r].cart = NoCart => c # d)
  <2>1. op[r].owner \in Owners
    BY <1>4, OpIsKnown DEF CartInv
  <2>2. seen[r].cart = NoCart => d \in Carts
    BY <1>4 DEF Into, Fresh
  <2> QED
    BY <1>4, <2>1, <2>2 DEF Create, CartInv, CartTypeOK, Owners
<1>5. CASE ReadCart(r) \/ SignInAlone(r)
  BY <1>3, <1>4, <1>5 DEF ReadCart, SignInAlone
<1>6. CASE InsertLine(r)
  <2>1. PICK d \in Into(r) :
           /\ Referable(r, d)
           /\ lines' = [lines EXCEPT ![d][op[r].variant] = Capped(op[r].quantity)]
           /\ Create(r, d)
    BY <1>6 DEF InsertLine
  <2>2. owner[c] = "none" /\ (seen[r].cart = NoCart => c # d)
    BY <1>4, <1>6, <2>1 DEF InsertLine
  <2>3. c # d
    BY <2>1, <2>2 DEF Referable
  <2> QED
    BY <1>3, <2>1, <2>2, <2>3 DEF CartInv, CartTypeOK
<1>7. ASSUME owner' = owner, NEW v \in Variants, NEW q, Update(r, v, q)
      PROVE  owner[c] = "none" /\ lines'[c] = lines[c]
  <2>1. seen[r].cart = c => v \in gone[r]
    BY <1>7 DEF CartInv, RowsHaveCarts
  <2> QED
    BY <1>7, <2>1 DEF Update, CartInv, CartTypeOK
<1>8. CASE UpdateLine(r)
  BY <1>3, <1>7, <1>8, OpIsKnown DEF UpdateLine, CartInv
<1>9. CASE SetQuantity(r)
  BY <1>3, <1>7, <1>9, OpIsKnown DEF SetQuantity, CartInv
<1>10. ASSUME NEW V, Delete(r, V)
       PROVE  owner[c] = "none" /\ lines'[c] = lines[c]
  <2>1. owner[c] = "none"
    BY <1>10 DEF Delete
  <2>2. lines[c] = Empty
    BY <2>1 DEF CartInv, RowsHaveCarts
  <2> QED
    BY <1>10, <2>1, <2>2 DEF Delete, Empty
<1>11. CASE RemoveLine(r) \/ Clear(r)
  BY <1>3, <1>10, <1>11 DEF RemoveLine, Clear
<1>12. CASE SignInMerging(r)
  <2> DEFINE q == Folded(guest[r].lines, seen[r].lines)
             Changed == {v \in Variants : q[v] # seen[r].lines[v]}
  <2>1. PICK d \in Into(r) :
           /\ lines' = [lines EXCEPT
                          ![d] = [v \in Variants |-> IF v \in Changed THEN q[v] ELSE @[v]],
                          ![guest[r].cart] = Empty]
           /\ owner' = [owner EXCEPT ![d] = "user", ![guest[r].cart] = "none"]
    BY <1>12 DEF SignInMerging
  <2> HIDE DEF q, Changed
  <2>2. CASE c = guest[r].cart
    <3>1. lines'[c] = Empty
      BY <2>1, <2>2 DEF CartInv, CartTypeOK
    <3>2. Commit(r, {c} \X Variants)
      BY <1>12, <2>2 DEF SignInMerging
    <3>3. ASSUME NEW t \in Requests, seen'[t].cart = c
          PROVE  gone'[t] = Variants
      <4>1. t # r
        BY <1>1, <3>2, <3>3 DEF Commit, Close, Nothing, CartInv, CartTypeOK
      <4>2. seen[t].cart = c
        BY <3>2, <3>3, <4>1 DEF Commit, Close, CartInv, CartTypeOK
      <4>3. gone'[t] = gone[t] \cup {v \in Variants : <<c, v>> \in {c} \X Variants}
        BY <3>2, <4>1, <4>2 DEF Commit
      <4> QED
        BY <4>3 DEF CartInv, CartTypeOK
    <3> QED
      BY <3>1, <3>3
  <2>3. CASE c # guest[r].cart
    <3>1. c # d /\ owner[c] = "none" /\ lines'[c] = lines[c]
      BY <2>1, <2>3 DEF CartInv, CartTypeOK
    <3> QED
      BY <1>3, <3>1
  <2> QED
    BY <2>2, <2>3
<1>13. CASE Checkout(r)
  BY <1>3, <1>13 DEF Checkout
<1> QED
  BY <1>5, <1>6, <1>8, <1>9, <1>11, <1>12, <1>13 DEF Write

\* What is deleted under a request's feet overtakes it.
LEMMA WriteKeepsGone ==
    ASSUME CartInv, NEW r \in Requests, Write(r)
    PROVE  GoneIsStale'
<1> SUFFICES ASSUME ~raced', NEW t \in Requests \ stale'
             PROVE  gone'[t] = {}
  BY DEF GoneIsStale
<1>1. ASSUME NEW D, Commit(r, D), t # r,
             \A v \in Variants : <<seen[t].cart, v>> \notin D
      PROVE  gone'[t] = {}
  <2>1. t \notin stale /\ ~raced
    BY <1>1 DEF Commit
  <2>2. gone[t] = {}
    BY <2>1 DEF CartInv, GoneIsStale
  <2> QED
    BY <1>1, <2>2 DEF Commit
<1>2. PICK D0 : Commit(r, D0)
  BY WriteCommits
<1>3. CASE t = r
  BY <1>2, <1>3 DEF Commit
<1>4. CASE t # r /\ Commit(r, {})
  BY <1>1, <1>4
<1>5. ASSUME t # r, NEW V, Delete(r, V)
      PROVE  gone'[t] = {}
  <2> DEFINE c == seen[r].cart
             D == {v \in V : seen[r].lines[v] > 0 /\ v \notin gone[r]}
  <2>1. Commit(r, {c} \X D)
    BY <1>5 DEF Delete
  <2>2. ASSUME NEW v \in Variants, <<seen[t].cart, v>> \in {c} \X D
        PROVE  FALSE
    <3>1. seen[t].cart = c /\ v \in D /\ seen[r].lines[v] > 0
      BY <2>2
    <3>2. c \in Carts
      BY <3>1 DEF CartInv, CartTypeOK, Snapshots, Empty
    <3>3. t \notin stale' /\ r \in Requests \ stale
      BY <2>1 DEF Commit
    <3>4. lines[c] = seen[t].lines /\ lines'[c] = seen[t].lines
      BY <1>5, <2>1, <3>1, <3>2, <3>3, NotOvertaken
    <3>5. seen[r] \in Resolved(op[r].owner)
      BY <1>2, <1>5, <3>3, WriteCommits DEF CartInv, SeenIsCurrent
    <3>6. lines[c] = seen[r].lines
      BY <3>2, <3>5, CartAssumption DEF Resolved, Nothing
    <3>7. lines'[c][v] = 0
      BY <1>5, <3>1, <3>2 DEF Delete
    <3> QED
      BY <3>1, <3>4, <3>6, <3>7
  <2> QED
    BY <1>1, <1>5, <2>1, <2>2
<1>6. CASE t # r /\ SignInMerging(r)
  <2> DEFINE g == guest[r].cart
  <2>1. Commit(r, {g} \X Variants) /\ g # NoCart
    BY <1>6 DEF SignInMerging
  <2>2. g \in Carts
    BY <2>1 DEF CartInv, CartTypeOK, Snapshots
  <2>3. owner'[g] = "none"
    BY <1>6, <2>2 DEF SignInMerging, CartInv, CartTypeOK
  <2>4. ASSUME seen[t].cart = g
        PROVE  FALSE
    <3>1. t \notin stale'
      OBVIOUS
    <3>2. step[t] = "loaded" /\ g \in Open(op[t].owner) /\ g \in Open(op[t].owner)'
      BY <1>6, <2>1, <2>2, <2>4, <3>1, NotOvertaken
    <3>3. op'[t] = op[t]
      BY <1>6, <2>1 DEF Commit, Close, CartInv, CartTypeOK
    <3>4. op[t].owner = "none"
      BY <2>3, <3>2, <3>3 DEF Open
    <3>5. op[t] \in Ops
      BY <3>2 DEF CartInv, Remembers
    <3> QED
      BY <3>4, <3>5, CartAssumption DEF Owners
  <2> QED
    BY <1>1, <1>6, <2>1, <2>4
<1> QED
  BY <1>3, <1>4, <1>5, <1>6
     DEF Write, ReadCart, InsertLine, UpdateLine, SetQuantity, RemoveLine, Clear,
         SignInAlone, Checkout

\* CartInv is inductive.
LEMMA CartStep ==
    ASSUME CartInv, [CartNext]_cartVars
    PROVE  CartInv'
<1>1. CASE UNCHANGED cartVars
  BY <1>1 DEF cartVars, cartRows, requestVars, CartInv, CartTypeOK, OneOpenCart,
              SeenIsCurrent, HasRead, Resolved, Open, RowsHaveCarts, GoneIsStale, Remembers
<1>2. ASSUME NEW r \in Requests, Write(r)
      PROVE  CartInv'
  <2>1. PICK D \in SUBSET (Carts \X Variants) : Commit(r, D)
    BY <1>2, WriteCommitsCarts
  <2>2. CartTypeOK'
    BY <1>2, <2>1, WriteKeeps, CommitKeeps DEF CartInv, CartTypeOK
  <2>3. Remembers'
    <3> SUFFICES ASSUME NEW t \in Requests
                 PROVE  /\ step'[t] # "idle" => op'[t] \in Ops
                        /\ step'[t] = "merging" => op'[t].kind = "sign_in"
                        /\ step'[t] # "loaded" => seen'[t] = Nothing /\ gone'[t] = {}
      BY DEF Remembers, Nothing, Empty
    <3>1. CASE t = r
      BY <2>1, <3>1 DEF Commit, Close, CartInv, CartTypeOK
    <3>2. CASE t # r
      <4>1. step'[t] = step[t] /\ op'[t] = op[t] /\ seen'[t] = seen[t]
        BY <2>1, <3>2 DEF Commit, Close, CartInv, CartTypeOK
      <4>2. CASE step[t] = "loaded"
        BY <4>1, <4>2 DEF CartInv, Remembers
      <4>3. CASE step[t] # "loaded"
        <5>1. seen[t].cart \notin Carts /\ gone[t] = {}
          BY <4>3, CartAssumption DEF CartInv, Remembers, Nothing
        <5> QED
          BY <2>1, <3>2, <4>1, <4>3, <5>1 DEF Commit, CartInv, Remembers
      <4> QED
        BY <4>2, <4>3
    <3> QED
      BY <3>1, <3>2
  <2> QED
    BY <1>2, <2>2, <2>3, WriteKeepsOneOpenCart, WriteKeepsSeenIsCurrent,
       WriteKeepsRows, WriteKeepsGone DEF CartInv
<1>3. ASSUME NEW r \in Requests, NEW w \in Ops, Load(r, w)
      PROVE  CartInv'
  <2>1. w.owner \in Owners /\ "guest" \in Owners
    BY CartAssumption DEF Owners
  <2>2. CartTypeOK'
    BY <1>3, <2>1, ResolvedIsSnapshot DEF Load, CartInv, CartTypeOK, cartRows
  <2>3. \A o : Resolved(o)' = Resolved(o) /\ Open(o)' = Open(o)
    BY <1>3 DEF Load, cartRows, Resolved, Open
  <2>4. OneOpenCart'
    BY <1>3, <2>3 DEF Load, CartInv, OneOpenCart
  <2>5. SeenIsCurrent'
    BY <1>3, <2>1, <2>3 DEF Load, CartInv, CartTypeOK, SeenIsCurrent, HasRead
  <2>6. RowsHaveCarts'
    BY <1>3, <2>1, ResolvedHaveRows DEF Load, CartInv, CartTypeOK, cartRows, RowsHaveCarts, Empty
  <2>7. GoneIsStale'
    BY <1>3 DEF Load, CartInv, GoneIsStale
  <2>8. Remembers'
    BY <1>3 DEF Load, CartInv, CartTypeOK, Remembers, Nothing, Empty
  <2> QED
    BY <2>2, <2>4, <2>5, <2>6, <2>7, <2>8 DEF CartInv
<1>4. ASSUME NEW r \in Requests, LoadTarget(r)
      PROVE  CartInv'
  <2>1. CartTypeOK'
    BY <1>4, ResolvedIsSnapshot DEF LoadTarget, CartInv, CartTypeOK, cartRows, Owners
  <2>2. \A o : Resolved(o)' = Resolved(o) /\ Open(o)' = Open(o)
    BY <1>4 DEF LoadTarget, cartRows, Resolved, Open
  <2>3. OneOpenCart'
    BY <1>4, <2>2 DEF LoadTarget, CartInv, OneOpenCart
  <2>4. op[r].kind = "sign_in" /\ op[r].owner = "user"
    BY <1>4, CartAssumption DEF LoadTarget, CartInv, Remembers
  <2>5. SeenIsCurrent'
    BY <1>4, <2>2, <2>4 DEF LoadTarget, CartInv, CartTypeOK, SeenIsCurrent, HasRead
  <2>6. RowsHaveCarts'
    BY <1>4, ResolvedHaveRows
       DEF LoadTarget, CartInv, CartTypeOK, cartRows, RowsHaveCarts, Empty, Owners
  <2>7. GoneIsStale'
    BY <1>4 DEF LoadTarget, CartInv, GoneIsStale
  <2>8. Remembers'
    BY <1>4 DEF LoadTarget, CartInv, CartTypeOK, Remembers, Nothing, Empty
  <2> QED
    BY <2>1, <2>3, <2>5, <2>6, <2>7, <2>8 DEF CartInv
<1>5. ASSUME NEW r \in Requests, Abort(r)
      PROVE  CartInv'
  <2>1. Nothing \in Snapshots /\ Nothing.cart = NoCart
    BY CartAssumption DEF Nothing, Snapshots, Baskets, Empty
  <2>2. CartTypeOK'
    BY <1>5, <2>1 DEF Abort, Close, CartInv, CartTypeOK, cartRows
  <2>3. \A o : Resolved(o)' = Resolved(o) /\ Open(o)' = Open(o)
    BY <1>5 DEF Abort, cartRows, Resolved, Open
  <2>4. OneOpenCart'
    BY <1>5, <2>3 DEF Abort, CartInv, OneOpenCart
  <2>5. SeenIsCurrent'
    BY <1>5, <2>3 DEF Abort, Close, CartInv, CartTypeOK, SeenIsCurrent, HasRead
  <2>6. RowsHaveCarts'
    BY <1>5, <2>1, CartAssumption
       DEF Abort, Close, CartInv, CartTypeOK, cartRows, RowsHaveCarts, Empty
  <2>7. GoneIsStale'
    BY <1>5 DEF Abort, CartInv, CartTypeOK, GoneIsStale
  <2>8. Remembers'
    BY <1>5 DEF Abort, Close, CartInv, CartTypeOK, Remembers, Nothing, Empty
  <2> QED
    BY <2>2, <2>4, <2>5, <2>6, <2>7, <2>8 DEF CartInv
<1> QED
  BY <1>1, <1>2, <1>3, <1>4, <1>5 DEF CartNext

\* The tables start empty, and nobody has read them.
LEMMA CartStart == CartInit => CartInv
<1> SUFFICES ASSUME CartInit PROVE CartInv
  OBVIOUS
<1>1. Empty \in Baskets /\ Nothing \in Snapshots /\ Nothing.cart = NoCart
  BY CartAssumption DEF Nothing, Snapshots, Baskets, Empty
<1>2. CartTypeOK
  BY <1>1 DEF CartInit, CartTypeOK
<1>3. OneOpenCart /\ SeenIsCurrent
  BY DEF CartInit, OneOpenCart, SeenIsCurrent, Open, HasRead, Owners
<1>4. RowsHaveCarts /\ GoneIsStale /\ Remembers
  BY <1>1, CartAssumption DEF CartInit, RowsHaveCarts, GoneIsStale, Remembers
<1> QED
  BY <1>2, <1>3, <1>4 DEF CartInv

\* The inductive invariant of the carts, for any shopper: types (and with them
\* the clamp on every quantity), one open cart, and requests that have seen
\* what there is unless they were overtaken.
THEOREM CartInvariance == CartSpec => []CartInv
BY CartStart, CartStep, PTL DEF CartSpec

\* resolve and its filter on checked_out_at: two open carts of one shopper
\* take a request that commits after it was overtaken.
THEOREM OneCartPerShopper == CartSpec => []OneOpenCart
<1>1. CartInv => OneOpenCart
  BY DEF CartInv
<1> QED
  BY <1>1, CartInvariance, PTL

\* place_order closes the cart for good: only a request that read the cart
\* before that still changes its lines.
THEOREM ClosedCartsStayClosed == CartSpec => ClosedCartsRest
<1>1. ASSUME CartInv, [CartNext]_cartVars
      PROVE  [\A c \in spent : lines'[c] # lines[c] => \E r \in stale : Serves(r)]_cartVars
  <2> SUFFICES ASSUME CartNext, NEW c \in spent, lines'[c] # lines[c]
               PROVE  \E r \in stale : Serves(r)
    BY <1>1
  <2>1. PICK r \in Requests : Write(r)
    <3>1. lines' # lines
      OBVIOUS
    <3> QED
      BY <3>1 DEF CartNext, Load, LoadTarget, Abort, cartRows
  <2>2. PICK D : step[r] = "loaded" /\ Commit(r, D)
    BY <2>1, WriteCommits
  <2>3. Serves(r)
    BY <1>1, <2>2 DEF Serves, Commit, Close, CartInv, CartTypeOK
  <2>4. c \in Writable(r) /\ c \in Carts
    BY <1>1, <2>1, WriteKeeps DEF CartInv, CartTypeOK
  <2>5. op[r] \in Ops
    BY <1>1, <2>1, OpIsKnown
       DEF CartInv, Write, ReadCart, InsertLine, UpdateLine, SetQuantity, RemoveLine,
           Clear, SignInAlone, SignInMerging, Checkout
  <2>6. r \in stale
    BY <1>1, <2>2, <2>4, <2>5, FreshWritesAreOpen DEF Open, Fresh
  <2> QED
    BY <2>3, <2>6
<1> QED
  BY <1>1, CartInvariance, PTL DEF CartSpec, ClosedCartsRest

-----------------------------------------------------------------------------
(* Refinement: the carts implement module Basket until somebody commits upon *)
(* what others have changed.                                               *)

\* Over no cart the sum is nothing ...
LEMMA SumOfNone == \A v : Sum({}, v) = 0
<1> SUFFICES ASSUME NEW v PROVE Sum({}, v) = 0
  OBVIOUS
<1> DEFINE f[T \in SUBSET {}] == IF T = {} THEN 0
               ELSE LET c == CHOOSE c \in T : TRUE IN lines[c][v] + f[T \ {c}]
           Next(g) == [T \in SUBSET {} |-> IF T = {} THEN 0
               ELSE LET c == CHOOSE c \in T : TRUE IN lines[c][v] + g[T \ {c}]]
           w == [T \in SUBSET {} |-> 0]
<1>1. w = Next(w) /\ f = CHOOSE g : g = Next(g)
  OBVIOUS
<1> HIDE DEF f, w
<1>2. f = Next(f)
  <2> HIDE DEF Next
  <2> QED
    BY <1>1
<1>3. Sum({}, v) = f[{}]
  BY DEF Sum, f
<1> QED
  BY <1>2, <1>3

\* ... and over one cart, what the cart has.
LEMMA SumOfOne == \A d, v : lines[d][v] \in Nat => Sum({d}, v) = lines[d][v]
<1> SUFFICES ASSUME NEW d, NEW v, lines[d][v] \in Nat
             PROVE  Sum({d}, v) = lines[d][v]
  OBVIOUS
<1> DEFINE f[T \in SUBSET {d}] == IF T = {} THEN 0
               ELSE LET c == CHOOSE c \in T : TRUE IN lines[c][v] + f[T \ {c}]
           Next(g) == [T \in SUBSET {d} |-> IF T = {} THEN 0
               ELSE LET c == CHOOSE c \in T : TRUE IN lines[c][v] + g[T \ {c}]]
           w == [T \in SUBSET {d} |-> IF T = {} THEN 0 ELSE lines[d][v]]
<1>1. \A T \in SUBSET {d} : T # {} => (CHOOSE c \in T : TRUE) = d /\ T = {d}
  OBVIOUS
<1>2. w = Next(w)
  <2>1. \A T \in SUBSET {d} : w[T] = Next(w)[T]
    BY <1>1
  <2> QED
    BY <2>1
<1>3. f = CHOOSE g : g = Next(g)
  OBVIOUS
<1> HIDE DEF f, w
<1>4. f = Next(f)
  <2> HIDE DEF Next
  <2> QED
    BY <1>2, <1>3
<1>5. f[{}] = 0
  BY <1>4
<1>6. f[{d}] = lines[d][v]
  <2>1. f[{d}] = lines[d][v] + f[{d} \ {d}]
    BY <1>1, <1>4
  <2> QED
    BY <1>5, <2>1
<1>7. Sum({d}, v) = f[{d}]
  BY DEF Sum, f
<1> QED
  BY <1>6, <1>7

BasketsAreCarts ==
    \A o \in Owners : /\ Open(o) = {} => Contents[o] = Empty
                      /\ \A c \in Open(o) : Contents[o] = lines[c]

\* Until a request commits although it was overtaken, the shopper's basket is
\* what the one open cart has.
LEMMA ContentsAreOneCart == CartInv /\ ~raced => BasketsAreCarts
<1> SUFFICES ASSUME CartInv, ~raced, NEW o \in Owners
             PROVE  /\ Open(o) = {} => Contents[o] = Empty
                    /\ \A c \in Open(o) : Contents[o] = lines[c]
  BY DEF BasketsAreCarts
<1>1. Contents[o] = [v \in Variants |-> Sum(Open(o), v)]
  BY DEF Contents
<1>2. CASE Open(o) = {}
  BY <1>1, <1>2, SumOfNone DEF Empty
<1>3. ASSUME NEW c \in Open(o)
      PROVE  Contents[o] = lines[c]
  <2>1. Open(o) = {c}
    BY <1>3 DEF CartInv, OneOpenCart
  <2>2. lines[c] \in [Variants -> Nat]
    BY <1>3 DEF CartInv, CartTypeOK, Baskets, Open
  <2>3. \A v \in Variants : Sum(Open(o), v) = lines[c][v]
    BY <2>1, <2>2, SumOfOne
  <2> QED
    BY <1>1, <2>2, <2>3
<1> QED
  BY <1>2, <1>3

\* The same after a step.
LEMMA ContentsAreOneCartNext == CartInv' /\ ~raced' => BasketsAreCarts'
BY ContentsAreOneCart, PTL

\* Contents is a function of the owners.
LEMMA ContentsAreBaskets ==
    /\ Contents = [o \in Owners |-> Contents[o]]
    /\ Contents' = [o \in Owners |-> Contents'[o]]
BY DEF Contents

\* A request that commits without having been overtaken has read the
\* shopper's basket as it is.
LEMMA UpToDate ==
    ASSUME CartInv, NEW r \in Requests, Write(r), ~raced'
    PROVE  /\ ~raced /\ r \notin stale /\ step[r] = "loaded" /\ gone[r] = {}
           /\ op[r] \in Ops
           /\ op[r].owner \in Owners /\ op[r].variant \in Variants /\ op[r].quantity \in Nat
           /\ seen[r].lines \in Baskets
           /\ seen[r] \in Resolved(op[r].owner)
           /\ Contents[op[r].owner] = seen[r].lines
           /\ op[r].kind = "sign_in" =>
                /\ op[r].owner = "user"
                /\ guest[r] \in Resolved("guest")
                /\ guest[r].lines \in Baskets
                /\ Contents["guest"] = guest[r].lines
<1>1. PICK D : step[r] = "loaded" /\ Commit(r, D)
  BY WriteCommits
<1>2. ~raced /\ r \notin stale
  BY <1>1 DEF Commit
<1>3. op[r] \in Ops
  BY <1>1 DEF CartInv, Remembers
<1>4. /\ op[r].owner \in Owners /\ op[r].variant \in Variants /\ op[r].quantity \in Nat
      /\ op[r].kind = "sign_in" => op[r].owner = "user"
  BY <1>3, CartAssumption
<1>5. gone[r] = {}
  BY <1>2 DEF CartInv, GoneIsStale
<1>6. seen[r] \in Resolved(op[r].owner)
  BY <1>1, <1>2 DEF CartInv, SeenIsCurrent
<1>7. op[r].kind = "sign_in" => guest[r] \in Resolved("guest")
  BY <1>1, <1>2 DEF CartInv, SeenIsCurrent, HasRead, Owners
<1>8. seen[r].lines \in Baskets /\ guest[r].lines \in Baskets
  BY DEF CartInv, CartTypeOK, Snapshots
<1>9. ASSUME NEW o \in Owners, NEW s \in Resolved(o)
      PROVE  Contents[o] = s.lines
  BY <1>2, ContentsAreOneCart DEF BasketsAreCarts, Resolved, Nothing
<1>10. "guest" \in Owners
  BY DEF Owners
<1> QED
  BY <1>1, <1>2, <1>3, <1>4, <1>5, <1>6, <1>7, <1>8, <1>9, <1>10

\* What a commit does not touch of an owner's, his basket keeps.
LEMMA SameBasket ==
    ASSUME CartInv, CartInv', ~raced, ~raced', NEW o \in Owners, Open(o)' = Open(o),
           \A c \in Open(o) : lines'[c] = lines[c]
    PROVE  Contents'[o] = Contents[o]
<1>1. BasketsAreCarts /\ BasketsAreCarts'
  BY ContentsAreOneCart, ContentsAreOneCartNext
<1>2. CASE Open(o) = {}
  BY <1>1, <1>2 DEF BasketsAreCarts, Empty
<1>3. CASE Open(o) # {}
  BY <1>1, <1>3 DEF BasketsAreCarts
<1> QED
  BY <1>2, <1>3

\* The cart a request writes to is, after that, the one open cart of its owner.
LEMMA IntoIsOpen ==
    ASSUME CartInv, ~raced, NEW r \in Requests, NEW o \in Owners, op[r].owner = o,
           seen[r] \in Resolved(o),
           NEW c \in Into(r), Create(r, c), spent' = spent
    PROVE  /\ c \in Carts
           /\ lines[c] = seen[r].lines
           /\ Open(o)' = {c}
           /\ \A p \in Owners \ {o} : Open(p)' = Open(p) /\ c \notin Open(p)
<1>1. CASE seen[r].cart = NoCart
  <2>1. c \in Carts \ spent /\ owner[c] = "none"
    BY <1>1 DEF Into, Fresh
  <2>2. Open(o) = {} /\ seen[r].lines = Empty
    BY <1>1, CartAssumption DEF Resolved, Open, Nothing
  <2>3. owner' = [owner EXCEPT ![c] = o]
    BY <1>1 DEF Create
  <2>4. lines[c] = Empty
    BY <2>1 DEF CartInv, RowsHaveCarts
  <2>5. Open(o)' = {c}
    BY <2>1, <2>2, <2>3 DEF Open, CartInv, CartTypeOK
  <2>6. \A p \in Owners \ {o} : Open(p)' = Open(p) /\ c \notin Open(p)
    BY <2>1, <2>3 DEF Open, CartInv, CartTypeOK, Owners
  <2> QED
    BY <2>1, <2>2, <2>4, <2>5, <2>6
<1>2. CASE seen[r].cart # NoCart
  <2>1. c \in Open(o) /\ lines[c] = seen[r].lines
    BY <1>2 DEF Into, Resolved, Nothing
  <2>2. owner' = owner
    BY <1>2 DEF Create
  <2>3. \A p \in Owners : Open(p)' = Open(p)
    BY <2>2 DEF Open
  <2>4. Open(o) = {c}
    BY <2>1 DEF CartInv, OneOpenCart
  <2>5. \A p \in Owners \ {o} : c \notin Open(p)
    BY <2>1 DEF Open
  <2> QED
    BY <2>1, <2>3, <2>4, <2>5 DEF Open
<1> QED
  BY <1>1, <1>2

\* A commit that changes one owner's basket changes Contents there.
LEMMA BasketAfter ==
    ASSUME NEW o \in Owners, NEW b, Contents'[o] = b,
           \A p \in Owners \ {o} : Contents'[p] = Contents[p]
    PROVE  Contents' = [Contents EXCEPT ![o] = b]
<1>1. \A p \in Owners : Contents'[p] = [Contents EXCEPT ![o] = b][p]
  BY ContentsAreBaskets
<1> HIDE DEF Contents
<1> QED
  BY <1>1, ContentsAreBaskets

\* The commits of requests that were not overtaken, one by one.
LEMMA ReadServes ==
    ASSUME CartInv, CartInv', NEW r \in Requests, ~raced', ReadCart(r)
    PROVE  Shopper!Serve(op[r])
<1>1. PICK o \in Owners : op[r].owner = o /\ seen[r] \in Resolved(o)
  BY UpToDate DEF Write
<1>2. PICK c \in Into(r) : Create(r, c)
  BY DEF ReadCart
<1>3. ~raced
  BY UpToDate DEF Write
<1>4. lines' = lines /\ spent' = spent /\ order' = order /\ op[r].kind = "read"
  BY DEF ReadCart, Asks
<1>5. /\ c \in Carts /\ lines[c] = seen[r].lines /\ Open(o)' = {c}
      /\ \A p \in Owners \ {o} : Open(p)' = Open(p)
  BY <1>1, <1>2, <1>3, <1>4, IntoIsOpen
<1>6. Contents'[o] = Contents[o]
  <2>1. Contents'[o] = lines'[c]
    BY <1>5, ContentsAreOneCartNext DEF BasketsAreCarts
  <2>2. Contents[o] = seen[r].lines
    BY <1>1, UpToDate DEF Write
  <2> QED
    BY <1>4, <1>5, <2>1, <2>2
<1>7. \A p \in Owners \ {o} : Contents'[p] = Contents[p]
  BY <1>3, <1>4, <1>5, SameBasket
<1>8. Contents' = Contents
  <2>1. \A p \in Owners : Contents'[p] = Contents[p]
    BY <1>6, <1>7
  <2> QED
    BY <2>1, ContentsAreBaskets
<1> QED
  BY <1>4, <1>8 DEF Shopper!Serve, Shopper!basketVars

\* A line nobody had is a line the basket did not have, within its limit.
LEMMA InsertServes ==
    ASSUME CartInv, CartInv', NEW r \in Requests, ~raced', InsertLine(r)
    PROVE  Shopper!Serve(op[r])
<1>1. PICK o \in Owners : op[r].owner = o /\ seen[r] \in Resolved(o) /\ Contents[o] = seen[r].lines
  BY UpToDate DEF Write
<1>2. PICK v \in Variants : op[r].variant = v
  BY UpToDate DEF Write
<1>3. PICK c \in Into(r) : /\ lines' = [lines EXCEPT ![c][v] = Capped(op[r].quantity)]
                           /\ Create(r, c)
  BY <1>2 DEF InsertLine
<1>4. ~raced /\ op[r].quantity \in Nat /\ seen[r].lines \in Baskets
  BY UpToDate DEF Write
<1>5. /\ spent' = spent /\ order' = order /\ op[r].kind = "add" /\ seen[r].lines[v] = 0
      /\ Cardinality(LinesIn(seen[r].lines)) < MaxLines
  BY <1>2 DEF InsertLine, Asks
<1>6. /\ c \in Carts /\ lines[c] = seen[r].lines /\ Open(o)' = {c}
      /\ \A p \in Owners \ {o} : Open(p)' = Open(p) /\ c \notin Open(p)
  BY <1>1, <1>3, <1>4, <1>5, IntoIsOpen
<1>7. \A d \in Carts : lines'[d] = IF d = c THEN [lines[c] EXCEPT ![v] = Capped(op[r].quantity)]
                                   ELSE lines[d]
  BY <1>3, <1>6 DEF CartInv, CartTypeOK
<1>8. Contents'[o] = [Contents[o] EXCEPT ![v] = Capped(Contents[o][v] + op[r].quantity)]
  <2>1. Contents'[o] = lines'[c]
    BY <1>6, ContentsAreOneCartNext DEF BasketsAreCarts
  <2> QED
    BY <1>1, <1>4, <1>5, <1>6, <1>7, <2>1
<1>9. \A p \in Owners \ {o} : Contents'[p] = Contents[p]
  BY <1>4, <1>6, <1>7, SameBasket DEF Open
<1>10. Contents' = [Contents EXCEPT ![o][v] = Capped(@ + op[r].quantity)]
  BY <1>8, <1>9, BasketAfter
<1>11. Shopper!Cardinality(Shopper!LinesIn(Contents[o])) < MaxLines
  <2>1. Shopper!LinesIn(Contents[o]) = LinesIn(seen[r].lines)
    BY <1>1 DEF Shopper!LinesIn, LinesIn
  <2>2. \A S : Shopper!Cardinality(S) = Cardinality(S)
    BY DEF Shopper!Cardinality, Cardinality
  <2> QED
    BY <1>5, <2>1, <2>2
<1>12. PICK n \in Nat, q \in Nat : n = op[r].quantity /\ q = Capped(Contents[o][v] + n)
  BY <1>1, <1>4, <1>5, CappedInRange
<1>13. Contents' = [Contents EXCEPT ![o][v] = q]
  BY <1>10, <1>12
<1> HIDE DEF Contents
<1> QED
  BY <1>1, <1>2, <1>5, <1>11, <1>12, <1>13 DEF Shopper!Serve, Shopper!Capped, Capped

\* UPDATE of a row that was read.
LEMMA UpdateServes ==
    ASSUME CartInv, CartInv', NEW r \in Requests, ~raced', Write(r),
           owner' = owner, spent' = spent,
           NEW o \in Owners, op[r].owner = o,
           NEW v \in Variants, NEW q \in Nat, Update(r, v, q)
    PROVE  /\ Contents[o] = seen[r].lines
           /\ Contents[o][v] > 0
           /\ Contents' = [Contents EXCEPT ![o][v] = q]
<1>1. ~raced /\ seen[r] \in Resolved(o) /\ Contents[o] = seen[r].lines /\ seen[r].lines \in Baskets
  BY UpToDate
<1>2. seen[r].lines[v] > 0
  BY DEF Update
<1>3. PICK c \in Open(o) : seen[r].cart = c /\ lines[c] = seen[r].lines
  BY <1>1, <1>2 DEF Resolved, Nothing, Empty
<1>4. c \in Carts /\ \A p \in Owners \ {o} : c \notin Open(p)
  BY <1>3 DEF Open
<1>5. \A d \in Carts : lines'[d] = IF d = c THEN [lines[c] EXCEPT ![v] = q] ELSE lines[d]
  <2>1. CASE q = seen[r].lines[v]
    BY <1>1, <1>3, <2>1 DEF Update, Baskets
  <2>2. CASE q # seen[r].lines[v]
    BY <1>3, <1>4, <2>2 DEF Update, CartInv, CartTypeOK
  <2> QED
    BY <2>1, <2>2
<1>6. \A p \in Owners : Open(p)' = Open(p)
  BY DEF Open
<1>7. Contents'[o] = [Contents[o] EXCEPT ![v] = q]
  <2>1. Contents'[o] = lines'[c]
    BY <1>3, <1>6, ContentsAreOneCartNext DEF BasketsAreCarts
  <2> QED
    BY <1>1, <1>3, <1>4, <1>5, <2>1
<1>8. \A p \in Owners \ {o} : Contents'[p] = Contents[p]
  BY <1>1, <1>4, <1>5, <1>6, SameBasket DEF Open
<1> QED
  BY <1>1, <1>2, <1>7, <1>8, BasketAfter

\* Adding to a line that was read adds to what the basket has.
LEMMA AddServes ==
    ASSUME CartInv, CartInv', NEW r \in Requests, ~raced', UpdateLine(r)
    PROVE  Shopper!Serve(op[r])
<1>1. PICK o \in Owners, v \in Variants, n \in Nat :
         op[r].owner = o /\ op[r].variant = v /\ op[r].quantity = n
  BY UpToDate DEF Write
<1>2. PICK q \in Nat : q = Capped(seen[r].lines[v] + n)
  <2>1. seen[r].lines[v] \in Nat
    BY UpToDate DEF Write, Baskets
  <2> QED
    BY <2>1, CappedInRange
<1>3. /\ Update(r, v, q) /\ owner' = owner /\ spent' = spent /\ order' = order
      /\ op[r].kind = "add"
  BY <1>1, <1>2 DEF UpdateLine, Asks
<1>4. /\ Contents[o] = seen[r].lines /\ Contents[o][v] > 0
      /\ Contents' = [Contents EXCEPT ![o][v] = q]
  BY <1>1, <1>3, UpdateServes DEF Write
<1> HIDE DEF Contents
<1> QED
  BY <1>1, <1>2, <1>3, <1>4 DEF Shopper!Serve, Shopper!Capped, Capped

\* Setting a line that was read sets what the basket has.
LEMMA SetServes ==
    ASSUME CartInv, CartInv', NEW r \in Requests, ~raced', SetQuantity(r)
    PROVE  Shopper!Serve(op[r])
<1>1. PICK o \in Owners, v \in Variants, n \in Nat :
         op[r].owner = o /\ op[r].variant = v /\ op[r].quantity = n
  BY UpToDate DEF Write
<1>2. PICK q \in Nat : q = Capped(n)
  BY CappedInRange
<1>3. /\ Update(r, v, q) /\ owner' = owner /\ spent' = spent /\ order' = order
      /\ op[r].kind = "set"
  BY <1>1, <1>2 DEF SetQuantity, Asks
<1>4. Contents[o][v] > 0 /\ Contents' = [Contents EXCEPT ![o][v] = q]
  BY <1>1, <1>3, UpdateServes DEF Write
<1> HIDE DEF Contents
<1> QED
  BY <1>1, <1>2, <1>3, <1>4 DEF Shopper!Serve, Shopper!Capped, Capped

\* DELETE of rows that were read.
LEMMA DeleteServes ==
    ASSUME CartInv, CartInv', NEW r \in Requests, ~raced', Write(r),
           NEW o \in Owners, op[r].owner = o,
           NEW V \in SUBSET Variants, Delete(r, V)
    PROVE  Contents' = [Contents EXCEPT ![o] =
                          [v \in Variants |-> IF v \in V THEN 0 ELSE Contents[o][v]]]
<1> DEFINE b == [v \in Variants |-> IF v \in V THEN 0 ELSE Contents[o][v]]
<1>1. /\ ~raced /\ seen[r] \in Resolved(o) /\ Contents[o] = seen[r].lines
      /\ seen[r].lines \in Baskets /\ gone[r] = {}
  BY UpToDate
<1>2. \A p \in Owners : Open(p)' = Open(p)
  BY DEF Open, Delete
<1>3. \A d \in Carts : d # seen[r].cart => lines'[d] = lines[d]
  BY DEF Delete
<1>4. \A p \in Owners \ {o} : seen[r].cart \notin Open(p)
  BY <1>1, CartAssumption DEF Resolved, Open, Nothing
<1>5. \A p \in Owners \ {o} : Contents'[p] = Contents[p]
  BY <1>1, <1>2, <1>3, <1>4, SameBasket DEF Open
<1>6. Contents'[o] = b
  <2>1. CASE Open(o) = {}
    <3>1. Contents'[o] = Empty
      BY <1>2, <2>1, ContentsAreOneCartNext DEF BasketsAreCarts, Empty
    <3>2. Contents[o] = Empty
      BY <1>1, <2>1 DEF Resolved, Nothing
    <3> QED
      BY <3>1, <3>2 DEF Empty
  <2>2. CASE Open(o) # {}
    <3>1. PICK c \in Open(o) : seen[r].cart = c /\ lines[c] = seen[r].lines
      BY <1>1, <2>2 DEF Resolved
    <3>2. c \in Carts
      BY DEF Open
    <3>3. Contents'[o] = lines'[c]
      BY <1>2, ContentsAreOneCartNext DEF BasketsAreCarts
    <3>4. lines'[c] = [v \in Variants |-> IF v \in V /\ seen[r].lines[v] > 0 THEN 0 ELSE lines[c][v]]
      BY <1>1, <3>1, <3>2 DEF Delete
    <3>5. \A v \in Variants : seen[r].lines[v] \in Nat
      BY <1>1 DEF Baskets
    <3> QED
      BY <1>1, <3>1, <3>3, <3>4, <3>5
  <2> QED
    BY <2>1, <2>2
<1> QED
  BY <1>5, <1>6, BasketAfter

\* Setting to zero removes the line.
LEMMA RemoveServes ==
    ASSUME CartInv, CartInv', NEW r \in Requests, ~raced', RemoveLine(r)
    PROVE  Shopper!Serve(op[r])
<1>1. PICK o \in Owners, v \in Variants : op[r].owner = o /\ op[r].variant = v
  BY UpToDate DEF Write
<1>2. /\ Delete(r, {v}) /\ order' = order /\ op[r].kind = "set" /\ op[r].quantity = 0
      /\ seen[r].lines[v] > 0
  BY <1>1 DEF RemoveLine, Delete, Asks
<1>3. Contents[o] = seen[r].lines /\ seen[r].lines \in Baskets
  BY <1>1, UpToDate DEF Write
<1>4. Contents' = [Contents EXCEPT ![o] =
                     [u \in Variants |-> IF u \in {v} THEN 0 ELSE Contents[o][u]]]
  BY <1>1, <1>2, DeleteServes DEF Write
<1>5. [u \in Variants |-> IF u \in {v} THEN 0 ELSE Contents[o][u]] = [Contents[o] EXCEPT ![v] = 0]
  BY <1>3 DEF Baskets
<1>6. Capped(0) = 0
  BY CartAssumption DEF Capped
<1> HIDE DEF Contents
<1> QED
  BY <1>1, <1>2, <1>3, <1>4, <1>5, <1>6 DEF Shopper!Serve, Shopper!Capped, Capped

\* Clearing leaves nothing, whatever the cart had.
LEMMA ClearServes ==
    ASSUME CartInv, CartInv', NEW r \in Requests, ~raced', Clear(r)
    PROVE  Shopper!Serve(op[r])
<1>1. PICK o \in Owners : op[r].owner = o
  BY UpToDate DEF Write
<1>2. Delete(r, Variants) /\ order' = order /\ op[r].kind = "clear"
  BY DEF Clear, Delete, Asks
<1>3. Contents' = [Contents EXCEPT ![o] =
                     [u \in Variants |-> IF u \in Variants THEN 0 ELSE Contents[o][u]]]
  BY <1>1, <1>2, DeleteServes DEF Write
<1>4. [u \in Variants |-> IF u \in Variants THEN 0 ELSE Contents[o][u]] = Empty
  BY DEF Empty
<1> HIDE DEF Contents
<1> QED
  BY <1>1, <1>2, <1>3, <1>4 DEF Shopper!Serve, Shopper!Empty, Empty

\* Sign-in without a guest's cart folds nothing into the user's.
LEMMA AloneServes ==
    ASSUME CartInv, CartInv', NEW r \in Requests, ~raced', SignInAlone(r)
    PROVE  Shopper!Serve(op[r])
<1>1. /\ op[r].kind = "sign_in" /\ guest[r].cart = NoCart
      /\ lines' = lines /\ spent' = spent /\ order' = order
  BY DEF SignInAlone, Asks
<1>2. /\ op[r].owner = "user" /\ seen[r] \in Resolved("user") /\ ~raced
      /\ Contents["user"] = seen[r].lines /\ seen[r].lines \in Baskets
      /\ guest[r] \in Resolved("guest") /\ Contents["guest"] = guest[r].lines
  BY <1>1, UpToDate DEF Write
<1>3. PICK c \in Into(r) : Create(r, c)
  BY DEF SignInAlone
<1>4. "user" \in Owners /\ "guest" \in Owners
  BY DEF Owners
<1>5. /\ c \in Carts /\ lines[c] = seen[r].lines /\ Open("user")' = {c}
      /\ Open("guest")' = Open("guest")
  BY <1>1, <1>2, <1>3, <1>4, IntoIsOpen
<1>6. Contents["guest"] = Empty
  BY <1>1, <1>2, CartAssumption DEF Resolved, Open, Nothing
<1>7. Contents'["guest"] = Contents["guest"]
  BY <1>1, <1>2, <1>4, <1>5, SameBasket
<1>8. Contents'["user"] = Contents["user"]
  <2>1. Contents'["user"] = lines'[c]
    BY <1>4, <1>5, ContentsAreOneCartNext DEF BasketsAreCarts
  <2> QED
    BY <1>1, <1>2, <1>5, <2>1
<1>9. Shopper!Folded(Contents["guest"], Contents["user"]) = Contents["user"]
  <2>1. \A n \in 0..MaxQuantity : Capped(0 + n) = n
    BY CartAssumption DEF Capped
  <2> QED
    BY <1>2, <1>6, <2>1 DEF Shopper!Folded, Shopper!Capped, Capped, Baskets, Empty
<1>10. Contents' = [Contents EXCEPT !["guest"] = Empty,
                       !["user"] = Shopper!Folded(Contents["guest"], Contents["user"])]
  <2>1. \A p \in Owners : Contents'[p] = [Contents EXCEPT !["guest"] = Empty,
                 !["user"] = Shopper!Folded(Contents["guest"], Contents["user"])][p]
    <3> HIDE DEF Contents
    <3> QED
      BY <1>6, <1>7, <1>8, <1>9, ContentsAreBaskets DEF Owners
  <2> HIDE DEF Contents
  <2> QED
    BY <2>1, ContentsAreBaskets
<1> HIDE DEF Contents
<1> QED
  BY <1>1, <1>10 DEF Shopper!Serve, Shopper!Empty, Empty

\* Sign-in with a guest's cart sums and clamps, and leaves no guest's cart.
LEMMA MergeServes ==
    ASSUME CartInv, CartInv', NEW r \in Requests, ~raced', SignInMerging(r)
    PROVE  Shopper!Serve(op[r])
<1> DEFINE g == guest[r].cart
           u == seen[r].lines
           q == Folded(guest[r].lines, u)
           Changed == {v \in Variants : q[v] # u[v]}
<1>1. /\ op[r].kind = "sign_in" /\ g # NoCart
      /\ spent' = spent /\ order' = order
  BY DEF SignInMerging, Asks
<1>2. /\ op[r].owner = "user" /\ seen[r] \in Resolved("user") /\ ~raced
      /\ Contents["user"] = u /\ u \in Baskets
      /\ guest[r] \in Resolved("guest") /\ Contents["guest"] = guest[r].lines
  BY <1>1, UpToDate DEF Write
<1>3. PICK c \in Into(r) :
         /\ lines' = [lines EXCEPT
                        ![c] = [v \in Variants |-> IF v \in Changed THEN q[v] ELSE @[v]],
                        ![g] = Empty]
         /\ owner' = [owner EXCEPT ![c] = "user", ![g] = "none"]
  BY DEF SignInMerging
<1>4. q \in [Variants -> Int]
  <2>1. \A v \in Variants : guest[r].lines[v] + u[v] \in Nat
    BY DEF CartInv, CartTypeOK, Snapshots, Baskets
  <2>2. \A v \in Variants : Capped(guest[r].lines[v] + u[v]) \in 0..MaxQuantity
    BY <2>1, CappedInRange
  <2> QED
    BY <2>2 DEF Folded
<1> HIDE DEF q
<1>5. g \in Open("guest") /\ g \in Carts
  BY <1>1, <1>2 DEF Resolved, Nothing, Open
<1>6. Open("guest") = {g}
  BY <1>2, <1>5 DEF CartInv, OneOpenCart, Owners
<1>7. /\ c \in Carts \ spent /\ c # g
      /\ lines[c] = u
      /\ Open("user") \subseteq {c}
  <2>1. CASE seen[r].cart = NoCart
    <3>1. c \in Carts \ spent /\ owner[c] = "none"
      BY <2>1 DEF Into, Fresh
    <3>2. Open("user") = {} /\ u = Empty
      BY <1>2, <2>1, CartAssumption DEF Resolved, Open, Nothing
    <3> QED
      BY <1>5, <3>1, <3>2 DEF CartInv, RowsHaveCarts, Open
  <2>2. CASE seen[r].cart # NoCart
    <3>1. c \in Open("user") /\ lines[c] = u
      BY <1>2, <2>2 DEF Into, Resolved, Nothing
    <3>2. Open("user") = {c}
      BY <1>2, <3>1 DEF CartInv, OneOpenCart, Owners
    <3> QED
      BY <1>5, <3>1, <3>2 DEF Open
  <2> QED
    BY <2>1, <2>2
<1>8. Open("guest")' = {} /\ Open("user")' = {c}
  <2>1. \A d \in Carts : owner'[d] = IF d = g THEN "none" ELSE IF d = c THEN "user" ELSE owner[d]
    BY <1>3, <1>5, <1>7 DEF CartInv, CartTypeOK
  <2>2. Open("guest")' = {}
    BY <1>1, <1>6, <1>7, <2>1 DEF Open
  <2>3. Open("user")' = {c}
    BY <1>1, <1>7, <2>1 DEF Open
  <2> QED
    BY <2>2, <2>3
<1>9. Contents'["guest"] = Empty
  BY <1>8, ContentsAreOneCartNext DEF BasketsAreCarts, Owners, Empty
<1>10. Contents'["user"] = q
  <2>1. Contents'["user"] = lines'[c]
    BY <1>8, ContentsAreOneCartNext DEF BasketsAreCarts, Owners
  <2>2. lines'[c] = [v \in Variants |-> IF v \in Changed THEN q[v] ELSE lines[c][v]]
    BY <1>3, <1>7 DEF CartInv, CartTypeOK
  <2>3. lines'[c] = [v \in Variants |-> q[v]]
    BY <1>7, <2>2
  <2> QED
    BY <1>4, <2>1, <2>3
<1>11. q = Shopper!Folded(Contents["guest"], Contents["user"])
  BY <1>2 DEF q, Folded, Capped, Shopper!Folded, Shopper!Capped
<1>12. Contents' = [Contents EXCEPT !["guest"] = Empty, !["user"] = q]
  <2>1. \A p \in Owners : Contents'[p] = [Contents EXCEPT !["guest"] = Empty, !["user"] = q][p]
    <3> HIDE DEF Contents
    <3> QED
      BY <1>9, <1>10, ContentsAreBaskets DEF Owners
  <2> HIDE DEF Contents
  <2> QED
    BY <2>1, ContentsAreBaskets
<1> HIDE DEF Contents
<1> QED
  BY <1>1, <1>11, <1>12 DEF Shopper!Serve, Shopper!Empty, Empty

\* Checkout orders what the basket has and leaves an empty one.
LEMMA CheckoutServes ==
    ASSUME CartInv, CartInv', NEW r \in Requests, ~raced', Checkout(r)
    PROVE  Shopper!Serve(op[r])
<1>1. /\ op[r].kind = "checkout" /\ seen[r].lines # Empty /\ order' = seen[r].lines
      /\ spent' = spent \cup {seen[r].cart} /\ owner' = owner /\ lines' = lines
  BY DEF Checkout, Asks
<1>2. op[r] \in Ops
  BY UpToDate DEF Write
<1>3. /\ op[r].owner = "user" /\ seen[r] \in Resolved("user") /\ ~raced
      /\ Contents["user"] = seen[r].lines
  BY <1>1, <1>2, CartAssumption, UpToDate DEF Write
<1>4. PICK c \in Open("user") : c = seen[r].cart
  BY <1>1, <1>3 DEF Resolved, Nothing
<1>5. Open("user") = {c}
  BY <1>3, <1>4 DEF CartInv, OneOpenCart, Owners
<1>6. Open("user")' = {} /\ Open("guest")' = Open("guest")
  <2>1. c \notin Open("guest")
    BY <1>4 DEF Open
  <2>2. Open("user")' = {}
    BY <1>1, <1>4, <1>5 DEF Open
  <2> QED
    BY <1>1, <1>4, <2>1, <2>2 DEF Open
<1>7. Contents'["user"] = Empty
  BY <1>6, ContentsAreOneCartNext DEF BasketsAreCarts, Owners, Empty
<1>8. Contents'["guest"] = Contents["guest"]
  BY <1>1, <1>3, <1>6, SameBasket DEF Owners
<1>9. Contents' = [Contents EXCEPT !["user"] = Empty]
  BY <1>7, <1>8, BasketAfter DEF Owners
<1> HIDE DEF Contents
<1> QED
  BY <1>1, <1>3, <1>9 DEF Shopper!Serve, Shopper!Empty, Empty

\* What a request does to the tables while it reads, or is given up, is nothing.
LEMMA NothingServed ==
    ASSUME UNCHANGED cartRows
    PROVE  UNCHANGED <<Contents, order>>
BY DEF cartRows, Contents, Sum, Open

\* The carts implement the basket that module Basket describes: until a request
\* commits in spite of having been overtaken, every commit serves its request
\* at one instant, and nothing else changes the basket or the order.
THEOREM RequestsServeAtOnce == CartSpec => ServedAtOnce
<1>1. CartInit => Shopper!BasketInit
  <2> SUFFICES ASSUME CartInit
               PROVE  Shopper!BasketInit
    OBVIOUS
  <2>1. CartInv /\ ~raced /\ \A o \in Owners : Open(o) = {}
    BY CartStart DEF CartInit, Open, Owners
  <2>2. \A o \in Owners : Contents[o] = Empty
    BY <2>1, ContentsAreOneCart DEF BasketsAreCarts
  <2>3. Contents = [o \in {"guest", "user"} |-> Empty]
    <3> HIDE DEF Contents
    <3> QED
      BY <2>2, ContentsAreBaskets DEF Owners
  <2> QED
    BY <2>3 DEF CartInit, Shopper!BasketInit, Shopper!Empty, Empty
<1>2. ASSUME CartInv, CartInv', [CartNext]_cartVars
      PROVE  [\/ raced'
              \/ \E r \in Requests : Write(r) /\ Shopper!Serve(op[r])
              \/ /\ \A r \in Requests : ~Write(r)
                 /\ UNCHANGED <<Contents, order>>]_cartVars
  <2> SUFFICES ASSUME CartNext, ~raced'
               PROVE  \/ \E r \in Requests : Write(r) /\ Shopper!Serve(op[r])
                      \/ /\ \A r \in Requests : ~Write(r)
                         /\ UNCHANGED <<Contents, order>>
    BY <1>2
  <2>1. CASE \E r \in Requests : Write(r)
    BY <1>2, <2>1, ReadServes, InsertServes, AddServes, SetServes, RemoveServes,
       ClearServes, AloneServes, MergeServes, CheckoutServes DEF Write
  <2>2. CASE \A r \in Requests : ~Write(r)
    <3>1. UNCHANGED cartRows
      BY <2>2 DEF CartNext, Load, LoadTarget, Abort
    <3> QED
      BY <2>2, <3>1, NothingServed
  <2> QED
    BY <2>1, <2>2
<1> QED
  BY <1>1, <1>2, CartInvariance, PTL DEF CartSpec, ServedAtOnce
=============================================================================
