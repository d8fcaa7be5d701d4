# Nordmarkt: a TLA+ verification of the shop

Nordmarkt is a web shop: a FastAPI backend on Postgres and Redis, two background
workers, a Next.js storefront. This directory models what the backend does to
shared state when requests, callbacks and workers interleave, and what a shopper
and a visitor then see of it, checks that with TLC and proves the main results
with TLAPS. Paths below are relative to `src/`, and
`B/` stands for `src/backend/app/`.

## 1. Inventory of the system

| Part | Source | State | Operations | What makes it hard |
|---|---|---|---|---|
| Inventory | `B/modules/inventory` | `stock_items` (on_hand, reserved), `stock_reservations` | reserve, commit_reservation, release, release_expired, restock | Counters and reservations are two tables; reservations are read without locks and settled by several actors |
| Sweeper | `B/workers/reservation_sweeper.py` | none | sweep_once every minute | races with cancel and payment; aborted sweeps |
| Orders | `B/modules/orders`, `B/api/routers/checkout.py` | `orders`, `order_items` | place_order, mark_paid, cancel | all-or-nothing over many tables; status checked on a stale read |
| Payments | `B/modules/payments`, `B/api/routers/webhooks.py` | `payments`, `processed_webhooks` | start, capture, record_webhook | the provider retries, at any time and concurrently |
| Unit of work | `B/shared/unit_of_work.py`, `events.py` | queued events of a request | emit, commit, rollback | events and state must commit together |
| Outbox and relay | `B/shared/outbox.py`, `B/workers/outbox_relay.py` | `outbox_messages` | claim_batch, mark_published, mark_failed, the relay loop | several relays, crashes after effects, failing handlers, stop signals |
| Idempotency keys | `B/core/idempotency.py` | Redis keys | claim, complete, release | Redis and Postgres share no transaction; TTLs, crashes |
| Cart | `B/modules/cart` | `carts`, `cart_items` | resolve, merge_guest_cart, add_item, set_quantity, clear, totals | get-or-create, read-modify-write, merging at sign-in |
| Identity | `B/modules/identity`, `B/api/routers/identity.py` | `users`, `session_tokens`, `addresses` | register, login, refresh, logout, add_address | tokens sent twice or late, rotation races, a reuse detection that is never reached |
| Catalogue | `B/modules/catalog`, `B/api/routers/catalog.py`, `B/core/pagination.py`, the category page | read-only here | list_products, get_product, category_tree, breadcrumb | cursors must agree with each order; an answer is five queries |
| Money | `B/core/money.py`, `CartService.totals`, the sums of an order | none | apply_rate, totals, vat_breakdown | rounding, prices that change between queries |
| Localisation | `B/shared/localization.py`, `B/api/deps.py` | none | negotiate_locale, resolve_translation | headers at the edge of their grammar |
| Storefront | `frontend/src/components/cart-provider.tsx`, `checkout-form.tsx` | the cart on the screen | refresh, addItem, setQuantity, placeOrder | answers out of order, re-syncs that fail, prices that drift |

How they interact. Each HTTP request, and each sweep, is one `UnitOfWork`, hence
one Postgres transaction at READ COMMITTED. `POST /checkout` claims a Redis key,
resolves the cart, runs `place_order` (which reserves stock line by line) and
`PaymentService.start`, commits, and stores the response under the key. The
provider calls `POST /webhooks/payments`, which records the event, captures the
payment and marks the order paid, committing its reservations. A cancel releases
them, and so does the sweeper once they expire. Events queued on the way become
outbox rows in the same commit; relays hand them to handlers. In the browser the
cart context sends cart requests without waiting for one another, and shows
whatever answer comes; the checkout form sends the order. The catalogue is only
read: products, variants and prices change from outside the program.

`PROJECT.json` lists every component with its status, and every hazard with its
line and the properties that cover it.

## 2. Modules

* **Inventory** - counters, reservations, row locks and the three kinds of
  transactions that use them. A session is a transaction; its uncommitted writes
  are `held`, and the database variables are what is committed. `Reserve`,
  `Release` and `CommitReservation` are single `UPDATE` statements; flush and
  commit are one step (`CommitCheckout`, `CommitSettle`), since nothing another
  session can see lies between them but locks the session already holds or waits
  for. `RejectReserve` needs no lock: Postgres evaluates the `WHERE` on the
  committed row before it would wait.
* **Holds** extends Inventory with one history variable, `raced`: the reservations
  a cancel or a payment has committed upon although another transaction had settled
  them since it read them. With it the exactness of the counters can be stated of
  the whole system, up to that point; and so can what the sweeper is for, under
  fairness (`HoldsLiveSpec`).
* **Fulfilment** extends Inventory with orders, payments, webhooks, the event
  queue and the outbox rows. Each action joins an action of Inventory with what
  the same step does to the other tables, or leaves the inventory alone. The
  payers of Inventory are webhook deliveries, its cancellers cancel requests.
* **Delivery** - what consumers are promised: at-least-once delivery, in three
  actions. **Outbox** - the relays against the table, with locks, crashes,
  failures, stop signals; `Consumers` instantiates Delivery and `AtLeastOnce` is
  the refinement.
* **Idempotency** - `POST /checkout` between Redis and Postgres: claim (two Redis
  commands), the transaction as one step that succeeds, fails, or commits without
  an acknowledgement, complete, release, crash, expiry, a new cart.
* **Basket** - what the cart API promises one shopper: a basket before sign-in
  and one after it, on which each request acts at one instant. **Cart** - the
  tables and the requests that overlap on them. A request reads the open cart
  (`Load`; a sign-in reads the guest's first and the user's in `LoadTarget`) and
  commits what follows from what it read. Its writes are one step at the commit:
  they hold row locks until then, and readers pass locks. An `UPDATE` or `DELETE`
  names the rows that were read (`gone` are those deleted meanwhile: an `UPDATE`
  of one raises, a `DELETE` does not), an `INSERT` meets the unique key and the
  foreign key. Every error is `Abort`, which may also happen for no reason the
  model knows (stock, prices, a crash). `Contents` maps the tables to the basket,
  and `ServedAtOnce` is the refinement, as far as it goes.
* **Identity** - accounts, sessions and addresses. A request checks what it reads
  (`Load`), and is refused, aborted or commits (`Refuse`, `Abort`, `Write`).
  `Refuse` changes nothing: a token that was retired is still the one its row has
  the hash of, so `rotate` refuses it as expired and never gets to `_revoke_all`.
  `root` is the sign-in a session descends from.
* **Catalogue** - one visitor's listing: `Search`, `LoadVariants`, `Count`,
  `BrandFacets` and `PriceBounds` are the five queries of `list_products`, each on
  the catalogue of its own moment; `NextPage` and `LoadMore` are the two ways on
  that the storefront has, `Toggle` its brand filter, `Open` the product page.
  `Fits` is the condition all queries share, `Past` the predicate of the cursor.
* **Menu** - the category tree, the breadcrumb, the language of a request and of a
  text, each as an operator on its inputs. A category is its row: the path, depth
  and position as stored, which no constraint ties together (only the slug is
  unique), and the languages of its name. `RowOrder` is the database's
  `ORDER BY path, position`, in any collation. `OpenMenu` leaves out rows of one
  slug that are stored with a depth: the loop puts such a row below itself, and the
  answer cannot be serialised. **Visit** composes Menu and Catalogue:
  a visit opens a menu, and from a category in it a listing. **Ordering** is what
  both the database and Python do to rows: the list of a set in an order.
* **Pricing** - the sums of a cart and of an order. **Storefront** extends it with
  the cart context and the checkout form against the cart router and
  `place_order`. A request goes `sent`, `acting` (it has read the cart), `answered`
  or `failed`; a failed one is followed by a re-sync. An order is placed in three
  steps, the queries of `repricing_report`, of the variants, and the rest. Unlike
  Cart it is about what the shopper sees: one open cart, no sign-in.
* **MC\*** give the constants of the runs; **\*Proofs** hold the theorems, and
  **FiniteTheorems** what they need of sums and lists.

Definitions that begin with `\* Mutant` are deliberately wrong variants of the
definition that follows. No specification uses them: each is a plausible bug,
with which the property it is aimed at must fail.

## 3. Runs

| Run | Bounds | What it shows |
|---|---|---|
| InventoryHolds | 3 orders over 2 variants (one of two lines), stock for some, 1 cancel, 1 payer, 1 sweeper of limit 1 | the inductive invariant and each counter property under every race of checkout, cancel, payment and sweep; counters are exact and nothing is oversold **unless** a settler commits upon what was settled since it read it; what expires is settled although sweeps take one row at a time |
| FulfilmentOrders | 2 orders that compete for a unit, one with a second line; 2 deliveries of its payment, 1 other event, 1 cancel, 1 sweeper | order, payment, reservations, webhook record, acknowledgement and events agree at every commit |
| OutboxRelay | 2 relays (one stoppable), 3 messages (one with no handler), batch 2, 2 attempts | refinement of Delivery, exclusive batches, no double effect without a crash, no starvation |
| CheckoutRetries | 3 requests of one key, 1 of another, 2 carts | one order per key and cart, true answers, claims that end |
| CartShopper | 2 requests at a time, any number in succession; 2 carts, 2 variants, quantities to 2, 1 line | each commit does to the basket what Basket says, one cart is open, closed carts rest, **unless** a request commits upon what another has changed since it read |
| IdentitySessions | 2 requests at a time of 1 account, 3 sessions, 2 addresses | a sign-in has one live session, signing out ends it, one default address, **unless** a request commits upon what another has changed since it read |
| VisitListing | 3 products (two of one age), 4 variants, pages of 1 and 2, 5 queries, 2 changes during a listing; every set of 5 categories (two of one path), every header of up to 2 of 6 preferences | the inductive invariant of a visit; paging shows each product once, an answer adds up when nothing changed under it, the menu is a tree in order, the language is the one asked for |
| StorefrontCart | 2 requests at a time, 2 variants at 2 prices, of 25 and 12 % VAT, quantities to 2, 3 requests and new prices in a visit, any number of visits | the screen follows the cart, an order adds up, no different amount is charged in silence; two units at the higher price meet the threshold of free shipping exactly, and the VAT of one at the lower falls on half a unit |
| DoubleRelease | 3 orders for one variant, 1 cancel, 1 sweeper | **violated**: a reservation is released twice |
| PaidWithoutStock | 2 orders for one unit, their payments, the sweeper | **violated**: a late payment is accepted without stock |
| CancelledIsPaid | 2 orders, 2 payments, 1 cancel | **violated**: a cancelled order becomes paid |
| RetiredToken | 2 requests at a time of 1 account, 3 sessions | **violated**: a retired refresh token is presented again and no session ends |

The bounds are small because the properties are about pairs: two transactions
on one row, two deliveries of one event, two relays on one message, two requests
of one key, two answers of one cart, two pages of one listing. Each run has one
actor more than the pair (a sweeper, a third request, a checkout; in CartShopper
and IdentitySessions the requests go on without end instead), and multi-line
orders for partial failure. A third session is what a second refresh needs, two
products of one age what the tie-break of a cursor needs, three events what an
answer that is overtaken by two others needs. Deadlock is checked except
in the Idempotency runs, where every request may be over and no cart left; the
other systems never stop, because a session serves request after request. What
does not depend on a bound is proved (section 5). Two sweepers, or two cancels of
one order, are in the theorems and in no run.

The violated properties quote the code's own claims; the findings in
`PROJECT.json` give the lines. In short: `release` and `mark_paid` trust rows they
read without a lock, the order row is written without a condition on its status,
expiry does not end an order, and the reuse of a refresh token is met by the check
of `revoked_at` before anything could find it.

Several properties hold with an exception that the code really has, which the
models keep as history variables so that the exception is no wider than needed:

* `ExactClaims`, `NoOversell` and `ExpiredIsSettled` except what a cancel or a
  payment commits upon although it was settled since it was read (`raced`), which is
  the finding of DoubleRelease. After such a double release `reserved` may be less
  than what is open, and then the CHECK refuses every sweep of that reservation.
* `OneOpenCart`, `ServedAtOnce` and `ClosedCartsRest` except what a request commits
  upon what another has changed (`raced`); section 6 lists what is then lost.
* `EachOnce` excepts listings paged on in the order of ratings (`misplaced`): the
  cursor is one on `created_at` in every order, though a comment in `repository.py`
  says it is on the tuple the ORDER BY uses.
* `OneLivePerSignIn`, `SignedOutIsOver` and `OneDefault` except what a request
  commits after another has changed what it checked (`raced`).
* `ViewIsCurrent` excepts answers that crossed, a re-sync that failed as well, and
  the time after an order, which the cart context does not follow (`doubt`); the
  next request that runs alone ends each of them.
* `ChargedAsAgreed` excepts prices that change between the report and the query
  that loads the variants (`repriced`): their line is charged at the new price, in
  silence.
* `AnswerAddsUp` is about a catalogue that rests while it is read, and lets a card
  be below the bounds of prices where the code does: under a lowest price or a
  search term the bounds are those of the variants that fit, and the card shows
  the cheapest of all (`default_variant`). Of variants at 1 and 3 a search from 2
  on has the bounds 3 and 3, and a card at 1.
* `MenuIsATree` says of breadcrumbs only what holds when no two rows share a path
  and depths are those of the paths. Over a gap, where the parent is missing and
  its parent is not, the menu has a root, and the breadcrumb names the grandparent.
* `SpokenAsAsked` takes the quality of an entry as the parser reads it: 1 where the
  q stands behind a space, 0 where it cannot be read.

Where an exception is the hazard itself, the property says that nothing else has
its effect, and the hazard's note in `PROJECT.json` says so.

Two more consequences of the code, seen while modelling and not kept as runs: a
message whose handler fails eight times is dropped, and after a commit whose
`complete` is lost a retry finds no cart, and not the order.

## 4. Fairness

* A checkout that has begun ends (weak fairness of its steps together with its
  rollback): it waits only for row locks, and `statement_timeout`
  (`B/db/session.py`) bounds the wait.
* So do a cancel and a payment that have read their reservations.
* The sweeper loops forever and survives exceptions (`main`), and its steps are
  strongly fair: Postgres serves those who wait for a row lock in turn, so a sweep
  cannot be passed over for ever by settlers that take the row again and again.
  Its sweeps are assumed not to be aborted forever. Only sweeps that hold rows
  count, since an empty one that is aborted is no different from one that commits,
  and only those whose UPDATE the database accepts: one that is refused is the
  consequence of a double release, which no fairness makes good.
* A relay runs until it is told to stop, is started again after a crash
  (`Restart`), and does not crash forever. The restart is an assumption about the
  deployment: the compose file gives the relay no restart policy.
* A checkout request that has begun runs on or dies, and Redis expires claims.

Nothing is assumed of shoppers, of the provider, or of handlers succeeding.

## 5. Proofs

All theorems hold for any number of sessions, orders, lines, messages, relays,
requests, keys, carts and variants, from the named assumptions on the constants only.

* **InventoryProofs.** `InventoryInv` is inductive. The counters' properties need
  four more facts: stock rows are written by one transaction at a time
  (`ExclusiveStockRows`), what a sweep has locked stays open and its own
  (`SweepsHoldOpenRows`), where each session's work is (`CheckoutWork`,
  `SettlerWork`), and that an uncommitted total is legal whenever it commits
  (`RunningTotals`): others may commit between an `UPDATE` and its commit, but
  not to the same row. Sums over reservations are cardinalities of sets of units,
  so that the finite-set theorems apply. `ClaimsExact` and `NothingOversold` are
  about Holds: a variant without a raced reservation has seen only settlements of
  what was open, each of which moves the counter by what it closes.
* **FulfilmentProofs.** `FulfilmentInv` is inductive together with
  `InventoryInv`, and `ImplementsInventory` shows that the order flow is a
  behaviour of Inventory. `SettledHoldsNothing` rests on `ReadCoversOpen`: what a
  settler read covers all that is open when it commits, because the reservations
  of an order are all made before it can be loaded.
* **RetryProofs** is about the two components where a crash is answered by doing
  it again. `OutboxInv` is inductive; under it each relay step is a step of
  Delivery or none, which gives `DeliversAtLeastOnce`. `IdempotencyInv` is
  inductive: a key in progress has one worker, an ordered cart is never open
  again, and nobody else of the key has it loaded.
* **CartProofs.** `CartInv` is inductive because of `SeenIsCurrent`: a request that
  nobody has overtaken has read what there still is, so that it creates a cart
  only for an owner without one (`OneCartPerShopper`) and writes only to carts
  that are open (`ClosedCartsStayClosed`). That quantities stay within
  MAX_LINE_QUANTITY is part of the invariant and holds under every race.
  `RequestsServeAtOnce` is the refinement of Basket. While nobody has raced the
  basket of an owner is the contents of one cart (`ContentsAreOneCart`), what a
  request has read of it is still so and none of it is gone (`UpToDate`, from
  `GoneIsStale` and `RowsHaveCarts`), and then each kind of commit is one step of
  Basket: `AddServes`, `SetServes`, `RemoveServes`, `ClearServes`, `AloneServes`,
  `MergeServes`, `CheckoutServes`.
* **IdentityProofs.** `IdentityInv` is inductive because of `ReadIsCurrent`: a
  request that nobody has overtaken still finds the session it checked live, and
  has seen every address of its user. So a refresh that is not overtaken replaces
  the one live session of its sign-in by another, and a default address all
  earlier ones.
* **VisitProofs.** `VisitInv` is inductive, and has three parts.
  * `PagingInv`: what is shown lies ahead of the cursor or on it, and what has
    matched all along and is not shown lies behind it. `PageIsAHead` is the lemma
    about pages: a page holds all candidates ahead of its last item, by the
    cardinality of the candidates before each (`NewerOrder` makes the order strict
    and total, by the tie-break on the id).
  * `AnswersAgree`: while the catalogue rests, what each of the queries of an answer
    has brought is what it would bring again. From there `AnswersAddUp` is about one
    moment: a brand's count is the number of its matches, and the matches of a
    listing fall into those of its brands (`SumOfClasses`); the total is that of the
    first page exactly when there is no next one; and a card shows the cheapest of
    all variants of its product, one of which fits and is within the bounds, so that
    it is not above them, and below them only with a variant that does not fit.
  * `MenuHolds`: the page is the answer to what was asked. `MenusAreTrees` follows the
    loop of `category_tree` row by row (`Stage`, `PlacedKeeps`). It is right because
    the database's order is strict and linear and puts a path before all that
    continue it, so that when a row is placed, every row of its parent's path has
    been placed, and the dictionary has the last of them. A breadcrumb is that of
    the nearest category above with one entry more because a set has only one list
    in a strict order (`ListIsUnique`).
    `AnswersAreInTheirLanguage` takes the first supported entry of such a list.
* **StorefrontProofs.** `StorefrontInv` is inductive, and the argument is
  `ViewFollows`: there is a number of the last change of the cart such that every
  answer of at least this number that is whole tells the cart as it is, and such
  an answer is shown, or under way, or there is doubt. A commit that writes takes
  the next number and its own answer brings it; an answer that is shown without
  doubt is not older than what was there. `RequestsInOrder` gives what a request
  alone needs: what it read is still there when it commits. `CheckoutHolds` does
  for an order what `ViewFollows` does for the screen. `OrdersAddUp` needs of the
  protocol only that something is sold at prices there are (`GoodsAreSold`); the
  rest is that the VAT by rate sums up to the VAT of the lines (`SumOfClasses`),
  that the subtotal is a number, which decides about the shipping, and that half
  up is within half a unit, for any rate, also where the half is cut off
  (`VatRounds`, from `Quotient`).
* **FiniteTheorems** is what the others rest on: `SumFunctionOnSet` of the community
  modules takes the elements of a set in an order nobody knows, and `SumGrows` says
  that it does not matter; `SumOfClasses` sums class by class. `ListExists` and
  `ListIsUnique` say that a set has one list in a strict linear order. Both are
  inductions, over a set of numbers or of sets instead of a predicate
  (`CountingUp`, `GrowingSets`), from the least element a set of numbers has. The
  equations of the recursive functions (the sum, the loop of the tree) are proved
  from their existence in the same way (`SumsExist`, `LoopExists`).

The arguments need the assumptions on the constants and no others. Pricing takes
rates in thousandths, as the column holds them, and prices are natural numbers; an
order whose goods cost nothing ships freely. Where a VAT is exactly half a minor
unit the 28 digits of `rate / (1 + rate)` decide whether it is rounded up, which
happens at 12 % and not at 0, 6 or 25: `HalvesLost` is the set of amounts that are
rounded down, and may be any. Menu says of `RowOrder` that it is a strict order of
all rows, with a path before those that continue it and equal paths by position,
and of a header what the parser leaves of it: the q of an entry in tenths, 1
without one.

Every invariant and every action property that holds is a theorem, and so
are the refinements of Delivery, Inventory and Basket. Only model-checked: the
liveness properties (`ExpiredIsSettled`, `EverySettles`, `ClaimsEnd`), which rest on
fairness and hence on ENABLED, out of the prover's reach; and the violations, which are single
behaviours.

## 6. What is abstracted, and what is left out

* Cart: one shopper, whose browser has its cart token; prices, totals and drift
  are in Storefront instead. `raced` and `stale` are history: nothing in the code tells
  a stale commit from another (`OptimisticLock` in `B/db/base.py` has no user), so
  the races they exclude do happen. They lose additions, fold a guest's cart
  twice, open two carts or order one twice; `ServedAtOnce` shows that nothing else
  does. A cart and its lines are read at one instant, two SELECTs in the code.
* Collections of objects that were created in the same session. `cart.items` of a
  cart `resolve` has just created and `order.items` in `_serialise_order` have
  never been loaded, and SQLAlchemy's asyncio extension refuses to load them
  implicitly (MissingGreenlet). The models let such a request fail or succeed
  (`Abort`, `SerialisingFails`), so what is shown holds either way; whether it
  always fails depends on the library and is not decided here.
* One stock row per variant: `reserve` matches on the variant, and the seed makes
  one warehouse. A cart has one line per variant (`cart/models.py`, unique key).
* Quantities are small numbers; the contents of addresses, texts and snapshots are
  not represented. Time is `Lapse` and `Expire`, which may happen at any moment.
* A claim is assumed to outlast the request that holds it. A checkout longer than
  ten minutes, or a restart of Redis (which persists nothing) under a running
  checkout, breaks `OneOrderPerKeyAndCart`. Two keys for one cart do so as well,
  hence the property is stated per key.
* The sandbox gateway always accepts; a rejection is an aborted request.
* StockRanLow events, reads for display, `restock` (no caller), and the statuses
  no endpoint reaches (packing, shipped, delivered, refunded) are left out.
* The payload of an event carries no `event_id`, although `outbox.py` names it as
  the dedupe key; handlers only log, so Delivery allows any number of deliveries.

* Identity: hashing, roles and the claims of a token other than its session are
  not represented. A refresh token stands for its row. An access token is good
  until it expires, whatever becomes of its session, so `add_address` asks only
  for an active user. Accounts are disabled, and tokens expire, at any moment.
* Catalogue: images, texts, and the stock beside an offer are left out; so are the
  caches in front of the API (listings may be cached for a minute and carry no
  `Vary`). `price_bounds` replaces the columns of a statement whose first join
  then has no stated left side; how SQLAlchemy resolves this is not decided here,
  and the model takes the query its name promises. The cursor passes `created_at`
  as text to a comparison with a timestamp, which the driver may refuse: `Fail`.
  `/breadcrumb` of a path that has no row is left out: it answers with the
  categories above, or 404 without any.
* Money: one currency, SEK. A price of 0, which the table allows, is within the
  theorems and not in a run.
* Localisation: `TranslatedText`, which no endpoint uses, and the formatting of
  numbers and dates are left out.
* Storefront: the optimistic count on the badge, the address fields and the texts
  of errors are left out, as is a request that the browser has given up on and the
  server executes later. The form never accepts new prices (`accept_price_changes`
  is false) and `set_quantity` does not note a price anew, so a line whose price
  has changed must be removed or added again; other clients may accept, so the
  model lets both happen. A variant that is retired, stock that runs out, and a
  lazy load that the AsyncSession refuses are `Fail` or `AbortCheckout`. An answer
  of the checkout that is lost is the subject of Idempotency.

Not modelled at all: the pages that only render, and configuration, middleware,
logging, migrations and seed data, which keep no state that the program changes;
their settings and constraints appear as constants and guards of the modules.

## 7. Plan

Done: Inventory with Holds, Fulfilment, Outbox with Delivery, Idempotency, Cart with Basket,
Identity, Catalogue and Menu with Visit, Pricing and Storefront, and a module of
proofs for each component with state. What would come next:

1. Storefront and Idempotency composed: a checkout whose answer is lost, sent
   again by the form that still shows the cart.
2. `restock`, once something calls it, as one more writer of Inventory.
