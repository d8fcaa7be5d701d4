-------------------------------- MODULE Cart --------------------------------
(***************************************************************************)
(* The carts of one shopper (backend/app/modules/cart/service.py, the      *)
(* handlers of backend/app/api/routers/cart.py, the merge at sign-in and   *)
(* the closing at checkout), under requests that overlap: two tabs, a      *)
(* double click, a retry.                                                  *)
(*                                                                         *)
(* A request reads the shopper's open cart with its lines, decides, and    *)
(* commits what it has written.  Nothing is locked between the two, no row *)
(* has a version, and no constraint makes the open cart unique.  Writes    *)
(* take row locks that last until the commit and that readers pass, so     *)
(* they are one step, at the commit.                                       *)
(***************************************************************************)
EXTENDS Integers, FiniteSets

CONSTANTS
    Requests,      \* requests in flight, one after another in each place
    Ops,           \* what they ask for: [kind, owner, variant, quantity]
    Carts,         \* identities of rows of carts
    NoCart,
    Variants,
    MaxQuantity,   \* MAX_LINE_QUANTITY
    MaxLines       \* MAX_DISTINCT_LINES

Owners == {"guest", "user"}

ASSUME CartAssumption ==
    /\ NoCart \notin Carts
    /\ MaxQuantity \in Nat \ {0}
    /\ MaxLines \in Nat \ {0}
    /\ Ops \subseteq [kind : {"read", "add", "set", "clear", "sign_in", "checkout"},
                      owner : Owners, variant : Variants, quantity : Nat]
    /\ \A w \in Ops : w.kind = "add" => w.quantity > 0
    /\ \A w \in Ops : w.kind \in {"sign_in", "checkout"} => w.owner = "user"

VARIABLES
    owner,    \* who a cart belongs to; "none" when it has no row
    spent,    \* carts with checked_out_at set
    lines,    \* quantity of each variant in a cart, 0 without a row
    order,    \* lines of the order placed last
    step,     \* where a request is
    op,       \* what it asks for
    seen,     \* the cart of its owner as it has read it
    guest,    \* sign-in: the guest's cart as it has read it
    gone,     \* variants whose row in that cart it has read, deleted since
    stale,    \* history: requests that others have overtaken since they read
    raced     \* history: a request has committed although it was stale

cartRows    == <<owner, spent, lines, order>>
requestVars == <<step, op, seen, guest, gone>>
cartVars    == <<cartRows, requestVars, stale, raced>>

Empty      == [v \in Variants |-> 0]

\* Mutant: add_item forgets to clamp.
Uncapped(n) == n

Capped(n)  == IF n < MaxQuantity THEN n ELSE MaxQuantity
LinesIn(b) == {v \in Variants : b[v] > 0}
NoOp       == [kind |-> "none"]
Nothing    == [cart |-> NoCart, lines |-> Empty]
Baskets    == [Variants -> 0..MaxQuantity]
Snapshots  == {s \in [cart : Carts \cup {NoCart}, lines : Baskets] :
                  s.cart = NoCart => s.lines = Empty}

CartTypeOK ==
    /\ owner \in [Carts -> Owners \cup {"none"}]
    /\ spent \subseteq Carts
    /\ lines \in [Carts -> Baskets]
    /\ order \in Baskets
    /\ step \in [Requests -> {"idle", "merging", "loaded"}]
    /\ op \in [Requests -> Ops \cup {NoOp}]
    /\ seen \in [Requests -> Snapshots]
    /\ guest \in [Requests -> Snapshots]
    /\ gone \in [Requests -> SUBSET Variants]
    /\ stale \subseteq Requests
    /\ raced \in BOOLEAN

CartInit ==
    /\ owner = [c \in Carts |-> "none"]
    /\ spent = {}
    /\ lines = [c \in Carts |-> Empty]
    /\ order = Empty
    /\ step = [r \in Requests |-> "idle"]
    /\ op = [r \in Requests |-> NoOp]
    /\ seen = [r \in Requests |-> Nothing]
    /\ guest = [r \in Requests |-> Nothing]
    /\ gone = [r \in Requests |-> {}]
    /\ stale = {}
    /\ raced = FALSE

-----------------------------------------------------------------------------
(* Reading. *)

\* Mutant: checked_out_at is not looked at.
OpenOrSpent(o) == {c \in Carts : owner[c] = o}

Open(o) == {c \in Carts \ spent : owner[c] = o}

\* Mutant: a cart without lines counts as none.
ResolvedNonEmpty(o) ==
    {[cart |-> c, lines |-> lines[c]] : c \in {x \in Open(o) : lines[x] # Empty}}
        \cup (IF \A c \in Open(o) : lines[c] = Empty THEN {Nothing} ELSE {})

\* scalar() takes the first row of an unordered SELECT.
Resolved(o) ==
    {[cart |-> c, lines |-> lines[c]] : c \in Open(o)}
        \cup (IF Open(o) = {} THEN {Nothing} ELSE {})

\* A request begins; sign-in reads the guest's cart before the user's.
Load(r, w) ==
    /\ step[r] = "idle"
    /\ op' = [op EXCEPT ![r] = w]
    /\ IF w.kind = "sign_in"
       THEN /\ step' = [step EXCEPT ![r] = "merging"]
            /\ \E s \in Resolved("guest") : guest' = [guest EXCEPT ![r] = s]
            /\ UNCHANGED seen
       ELSE /\ step' = [step EXCEPT ![r] = "loaded"]
            /\ \E s \in Resolved(w.owner) : seen' = [seen EXCEPT ![r] = s]
            /\ UNCHANGED guest
    /\ UNCHANGED <<cartRows, gone, stale, raced>>

LoadTarget(r) ==
    /\ step[r] = "merging"
    /\ step' = [step EXCEPT ![r] = "loaded"]
    /\ \E s \in Resolved("user") : seen' = [seen EXCEPT ![r] = s]
    /\ UNCHANGED <<cartRows, op, guest, gone, stale, raced>>

-----------------------------------------------------------------------------
(* Ending. *)

\* What a request has read, and what there is to read.
HasRead(r) ==
    CASE step[r] = "idle"    -> {}
      [] step[r] = "merging" -> {"guest"}
      [] step[r] = "loaded"  -> IF op[r].kind = "sign_in" THEN Owners ELSE {op[r].owner}

Held(o) == {<<c, lines[c]>> : c \in Open(o)}

\* The session is closed; another one begins in its place.
Close(r) ==
    /\ step'  = [step  EXCEPT ![r] = "idle"]
    /\ op'    = [op    EXCEPT ![r] = NoOp]
    /\ seen'  = [seen  EXCEPT ![r] = Nothing]
    /\ guest' = [guest EXCEPT ![r] = Nothing]

\* uow.commit(), which leaves others behind with what they have read; D are
\* the <<cart, variant>> whose rows are deleted.
Commit(r, D) ==
    /\ Close(r)
    /\ gone' = [t \in Requests |->
                  IF t = r THEN {} ELSE gone[t] \cup {v \in Variants : <<seen[t].cart, v>> \in D}]
    /\ stale' = {t \in Requests \ {r} :
                    t \in stale \/ \E o \in HasRead(t) : Held(o)' # Held(o)}
    /\ raced' = (raced \/ r \in stale)

\* Whatever is raised before the commit: a validation error, stock too short,
\* a price that has changed, a row that is gone, a constraint, the process.
Abort(r) ==
    /\ step[r] # "idle"
    /\ Close(r)
    /\ gone' = [gone EXCEPT ![r] = {}]
    /\ stale' = stale \ {r}
    /\ UNCHANGED <<cartRows, raced>>

-----------------------------------------------------------------------------
(* Writing. *)

Asks(r, kind) == step[r] = "loaded" /\ op[r].kind = kind

\* Identities no row has, and no request remembers.
Fresh == {c \in Carts \ spent :
             /\ owner[c] = "none"
             /\ \A t \in Requests : c \notin {seen[t].cart, guest[t].cart}}

\* create=True: the cart a request writes to, created when there was none.
Into(r) == IF seen[r].cart = NoCart THEN Fresh ELSE {seen[r].cart}
Create(r, c) ==
    owner' = IF seen[r].cart = NoCart THEN [owner EXCEPT ![c] = op[r].owner] ELSE owner

\* The foreign key of cart_items: the row of the cart is there, or created.
Referable(r, c) == seen[r].cart = NoCart \/ owner[c] # "none"

ReadCart(r) ==
    /\ Asks(r, "read")
    /\ \E c \in Into(r) : Create(r, c)
    /\ UNCHANGED <<spent, lines, order>>
    /\ Commit(r, {})

\* add_item, a variant the cart did not have: INSERT, if still nobody has.
InsertLine(r) ==
    /\ Asks(r, "add")
    /\ seen[r].lines[op[r].variant] = 0
    /\ Cardinality(LinesIn(seen[r].lines)) < MaxLines
    /\ \E c \in Into(r) :
          /\ Referable(r, c)
          /\ lines[c][op[r].variant] = 0
          /\ lines' = [lines EXCEPT ![c][op[r].variant] = Capped(op[r].quantity)]
          /\ Create(r, c)
    /\ UNCHANGED <<spent, order>>
    /\ Commit(r, {})

\* UPDATE ... SET quantity = q of a row that was read: none if nothing
\* changes, and StaleDataError if the row is gone.
Update(r, v, q) ==
    /\ seen[r].lines[v] > 0
    /\ q # seen[r].lines[v] => v \notin gone[r]
    /\ lines' = IF q = seen[r].lines[v] THEN lines
                ELSE [lines EXCEPT ![seen[r].cart][v] = q]

\* add_item, a variant the cart had.
UpdateLine(r) ==
    /\ Asks(r, "add")
    /\ Update(r, op[r].variant, Capped(seen[r].lines[op[r].variant] + op[r].quantity))
    /\ UNCHANGED <<owner, spent, order>>
    /\ Commit(r, {})

SetQuantity(r) ==
    /\ Asks(r, "set")
    /\ op[r].quantity > 0
    /\ Update(r, op[r].variant, Capped(op[r].quantity))
    /\ UNCHANGED <<owner, spent, order>>
    /\ Commit(r, {})

\* DELETE by primary key of the rows V that were read, if they are there.
Delete(r, V) ==
    LET D == {v \in V : seen[r].lines[v] > 0 /\ v \notin gone[r]}
        c == seen[r].cart IN
    /\ lines' = [x \in Carts |->
                   IF x = c THEN [v \in Variants |-> IF v \in D THEN 0 ELSE lines[x][v]]
                   ELSE lines[x]]
    /\ UNCHANGED <<owner, spent, order>>
    /\ Commit(r, {c} \X D)

\* set_quantity to zero
RemoveLine(r) ==
    /\ Asks(r, "set")
    /\ op[r].quantity = 0
    /\ seen[r].lines[op[r].variant] > 0
    /\ Delete(r, {op[r].variant})

Clear(r) ==
    /\ Asks(r, "clear")
    /\ Delete(r, Variants)

\* Mutant: overwritten rather than summed.
Overwritten(g, u) == [v \in Variants |-> IF g[v] > 0 THEN g[v] ELSE u[v]]

\* merge_guest_cart
Folded(g, u) == [v \in Variants |-> Capped(g[v] + u[v])]

\* merge_guest_cart without a guest's cart: only the user's is created.
SignInAlone(r) ==
    /\ Asks(r, "sign_in")
    /\ guest[r].cart = NoCart
    /\ \E c \in Into(r) : Create(r, c)
    /\ UNCHANGED <<spent, lines, order>>
    /\ Commit(r, {})

\* The rows of the guest's cart are deleted with it, and by ON DELETE CASCADE
\* those that were added since.
SignInMerging(r) ==
    LET g == guest[r]
        u == seen[r].lines
        q == Folded(g.lines, u)
        Changed == {v \in Variants : q[v] # u[v]} IN
    /\ Asks(r, "sign_in")
    /\ g.cart # NoCart
    /\ \A v \in Changed : u[v] > 0 => v \notin gone[r]
    /\ \E c \in Into(r) :
          /\ \A v \in Changed : u[v] = 0 => lines[c][v] = 0
          /\ lines' = [lines EXCEPT
                         ![c] = [v \in Variants |-> IF v \in Changed THEN q[v] ELSE @[v]],
                         ![g.cart] = Empty]
          /\ owner' = [owner EXCEPT ![c] = "user", ![g.cart] = "none"]
    /\ UNCHANGED <<spent, order>>
    /\ Commit(r, {g.cart} \X Variants)

\* place_order, as far as the cart is concerned (module Fulfilment has the rest).
Checkout(r) ==
    /\ Asks(r, "checkout")
    /\ seen[r].lines # Empty
    /\ order' = seen[r].lines
    /\ spent' = spent \cup {seen[r].cart}
    /\ UNCHANGED <<owner, lines>>
    /\ Commit(r, {})

Write(r) ==
    \/ ReadCart(r)
    \/ InsertLine(r) \/ UpdateLine(r)
    \/ SetQuantity(r) \/ RemoveLine(r) \/ Clear(r)
    \/ SignInAlone(r) \/ SignInMerging(r)
    \/ Checkout(r)

CartNext ==
    \E r \in Requests :
        \/ \E w \in Ops : Load(r, w)
        \/ LoadTarget(r)
        \/ Write(r)
        \/ Abort(r)

CartSpec == CartInit /\ [][CartNext]_cartVars

-----------------------------------------------------------------------------
(* What holds. *)

\* What the shopper has in the carts that are open, as module Basket sees it.
Sum(S, v) == LET f[T \in SUBSET S] == IF T = {} THEN 0
                     ELSE LET c == CHOOSE c \in T : TRUE IN lines[c][v] + f[T \ {c}]
             IN f[S]
Contents == [o \in Owners |-> [v \in Variants |-> Sum(Open(o), v)]]

Shopper == INSTANCE Basket WITH basket <- Contents

Serves(r) == step[r] = "loaded" /\ step'[r] = "idle"

\* "One HTTP request maps to one database transaction" (shared/unit_of_work.py).
\* Until a request commits upon what others have changed since it read, every
\* commit does to the shopper's basket what module Basket says it should, at
\* one instant, and nothing else changes the basket.
ServedAtOnce ==
    /\ Shopper!BasketInit
    /\ [][\/ raced'
          \/ \E r \in Requests : Write(r) /\ Shopper!Serve(op[r])
          \/ /\ \A r \in Requests : ~Write(r)
             /\ UNCHANGED <<Contents, order>>]_cartVars

\* The shopper has one basket before sign-in and one after it: a second open
\* cart takes two requests that both found none.
OneOpenCart ==
    ~raced => \A o \in Owners : \A c, d \in Open(o) : c = d

\* The lines of a cart that is checked out are those of its order: only a
\* request that has read them before changes them.
ClosedCartsRest ==
    [][\A c \in spent : lines'[c] # lines[c] => \E r \in stale : Serves(r)]_cartVars

\* A request that is not stale has seen what there still is.
SeenIsCurrent ==
    \A r \in Requests \ stale :
        /\ "guest" \in HasRead(r) /\ op[r].kind = "sign_in" => guest[r] \in Resolved("guest")
        /\ step[r] = "loaded" => seen[r] \in Resolved(op[r].owner)

\* A row of cart_items has its cart: those of a cart that is deleted go with
\* it, and a request that has read them learns that they are gone.
RowsHaveCarts ==
    \A c \in Carts : owner[c] = "none" =>
        /\ lines[c] = Empty
        /\ \A r \in Requests : seen[r].cart = c => gone[r] = Variants

\* Nothing a request has read is gone unless it was overtaken.
GoneIsStale == ~raced => \A r \in Requests \ stale : gone[r] = {}

\* What a request remembers at each step.
Remembers ==
    \A r \in Requests :
        /\ step[r] # "idle" => op[r] \in Ops
        /\ step[r] = "merging" => op[r].kind = "sign_in"
        /\ step[r] # "loaded" => seen[r] = Nothing /\ gone[r] = {}

CartInv ==
    /\ CartTypeOK
    /\ OneOpenCart
    /\ SeenIsCurrent
    /\ RowsHaveCarts
    /\ GoneIsStale
    /\ Remembers
=============================================================================
