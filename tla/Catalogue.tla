----------------------------- MODULE Catalogue -----------------------------
(***************************************************************************)
(* The product listing (backend/app/modules/catalog/repository.py, the     *)
(* handler list_products and the category page of the storefront): one     *)
(* visitor who searches, narrows by brand and pages on with cursors, while *)
(* products and variants come and go.                                      *)
(*                                                                         *)
(* An answer is put together by five queries, and READ COMMITTED gives     *)
(* each of them a snapshot of its own.                                     *)
(***************************************************************************)
EXTENDS Integers, FiniteSets, Sequences, Functions

CONSTANTS
    Products,      \* numbers in the order of products.id
    Variants,      \* rows of product_variants
    product,       \* their columns: created_at, rating_average, brand, the path of
                   \* the category, tags, and the search terms the text matches
    variant,       \* their product, their price, and the terms the sku begins with
    NoProduct,     \* no cursor
    NoBrand,       \* brand_id IS NULL
    NoTerm,        \* no search term
    Dearest,       \* max_price where none is given, above every price
    DefaultLimit,  \* 24
    MaxLimit,      \* 60
    Queries,       \* what visitors ask for
    MaxChanges     \* bound: changes of the catalogue during one listing

Sorts  == {"relevance", "newest", "rating"}
Terms  == UNION {product[p].words : p \in Products} \cup UNION {variant[v].sku : v \in Variants}
Tags   == UNION {product[p].tags : p \in Products}
Brands == {product[p].brand : p \in Products} \ {NoBrand}

\* What the parameters of list_products can say.
ListQueries ==
    [search : Terms \cup {NoTerm}, category : Seq(Nat), brands : SUBSET Brands, tags : SUBSET Tags,
     low : Nat, high : Nat, sort : Sorts, limit : Int]

ASSUME CatalogueAssumption ==
    /\ Products \subseteq Nat /\ IsFiniteSet(Products)
    /\ NoProduct \notin Products
    /\ \A p \in Products : product[p].created \in Nat /\ product[p].rating \in Nat
    /\ \A v \in Variants : variant[v].of \in Products /\ variant[v].price \in 0..Dearest
    /\ Queries \subseteq ListQueries
    /\ Dearest \in Nat
    /\ DefaultLimit \in Nat /\ MaxLimit \in Nat \ {0} /\ MaxChanges \in Nat

VARIABLES
    listed,     \* products with is_published, and no deleted_at
    onSale,     \* variants with is_active
    query,      \* the filters and the order in the address of the page
    cursor,     \* the product the cursor there was made from
    step,       \* "home", "asked", "searched", "loaded", "counted", "faceted", "shown",
                \* and "detail" or "missing" on the page of a product
    answer,     \* ProductListOut, as far as it has got
    opened,     \* ProductDetailOut: a product and its offers
    shown,      \* history: products seen in this listing
    twice,      \* history: products seen on two pages of it
    steady,     \* history: products that have matched what was asked all along
    misplaced,  \* history: paged on from a page in the order of ratings
    promised,   \* history: the brand counts beside which the visitor clicked
    changes     \* history: how often the catalogue has changed since the first request

catalogueRows == <<listed, onSale>>
listingVars   == <<shown, twice, steady, misplaced, promised, changes>>
catalogueVars == <<catalogueRows, query, cursor, step, answer, opened, listingVars>>

-----------------------------------------------------------------------------
(* The statement all queries share. *)

Under(path, root) == Len(root) <= Len(path) /\ SubSeq(path, 1, Len(root)) = root

\* The conditions of _base_statement on a row of the join.
Fits(q, v) ==
    LET p == product[variant[v].of] IN
    /\ q.search # NoTerm => q.search \in p.words \cup variant[v].sku
    /\ Under(p.path, q.category)
    /\ q.brands # {} => p.brand \in q.brands
    /\ q.tags # {} => p.tags \cap q.tags # {}
    /\ variant[v].price \in q.low..q.high

RowsOf(q, products, variants) ==
    {v \in variants : variant[v].of \in products /\ Fits(q, v)}

MatchesIn(q, products, variants) == {variant[v].of : v \in RowsOf(q, products, variants)}

Rows(q)    == RowsOf(q, listed, onSale)
Matches(q) == MatchesIn(q, listed, onSale)

\* ProductQuery with nothing but a category.
OfCategory(path) ==
    [search |-> NoTerm, category |-> path, brands |-> {}, tags |-> {},
     low |-> 0, high |-> Dearest, sort |-> "relevance", limit |-> DefaultLimit]

Unfiltered(q) == [q EXCEPT !.brands = {}]

-----------------------------------------------------------------------------
(* Order and pages. *)

Newer(x, p) ==
    \/ product[x].created > product[p].created
    \/ product[x].created = product[p].created /\ x > p

BetterRated(x, p) ==
    \/ product[x].rating > product[p].rating
    \/ product[x].rating = product[p].rating /\ x > p

\* _SORTS
Ahead(sort, x, p) == IF sort = "rating" THEN BetterRated(x, p) ELSE Newer(x, p)

\* Mutant: a cursor on created_at alone, as that of the list of orders is.
PastWithoutTies(c, p) == c = NoProduct \/ product[c].created > product[p].created

\* The predicate of the cursor, whatever the order.
Past(c, p) == c = NoProduct \/ Newer(c, p)

\* ProductQuery.__init__
Clamped(n) == IF n < 1 THEN 1 ELSE IF n > MaxLimit THEN MaxLimit ELSE n

Candidates(q, c) == {p \in Matches(q) : Past(c, p)}

Page(q, c) ==
    LET found == Candidates(q, c) IN
    {p \in found : Cardinality({x \in found : Ahead(q.sort, x, p)}) < Clamped(q.limit)}

\* next_cursor: the last of the items, when there is more behind them.
IsNext(next, q, c) ==
    IF Page(q, c) = Candidates(q, c) THEN next = NoProduct
    ELSE next \in Page(q, c) /\ \A x \in Page(q, c) \ {next} : Ahead(q.sort, x, next)

-----------------------------------------------------------------------------
(* The other parts of an answer. *)

Prices(variants) == {variant[v].price : v \in variants}
Lowest(prices)   == IF prices = {} THEN 0 ELSE CHOOSE n \in prices : \A m \in prices : n <= m
Highest(prices)  == IF prices = {} THEN 0 ELSE CHOOSE n \in prices : \A m \in prices : m <= n

\* default_variant of a product whose variants have been loaded.
PriceFrom(p) == Lowest(Prices({v \in onSale : variant[v].of = p}))

OfBrand(b, products) == {p \in products : product[p].brand = b}

\* Mutant: counted with the brand filter applied.
FacetsAsFiltered(q) ==
    [b \in {product[p].brand : p \in Matches(q)} \ {NoBrand} |->
        Cardinality(OfBrand(b, Matches(q)))]

\* brand_facets: brands of what matches without the brand filter.
Facets(q) ==
    LET found == Matches(Unfiltered(q)) IN
    [b \in {product[p].brand : p \in found} \ {NoBrand} |-> Cardinality(OfBrand(b, found))]

NoFacets == [b \in {} |-> 0]
NoAnswer ==
    [items |-> {}, next |-> NoProduct, from |-> <<>>, total |-> 0, facets |-> NoFacets,
     low |-> 0, high |-> 0]

NotOpened == [of |-> NoProduct, offers |-> {}]

Loading == step \in {"asked", "searched", "loaded", "counted", "faceted"}
Found   == step \in {"searched", "loaded", "counted", "faceted"}
Reading == step \in {"shown", "detail", "missing"}

CatalogueTypeOK ==
    /\ listed \subseteq Products
    /\ onSale \subseteq Variants
    /\ query \in ListQueries
    /\ cursor \in Products \cup {NoProduct}
    /\ step = "home" \/ Loading \/ Reading
    /\ DOMAIN answer = DOMAIN NoAnswer
    /\ answer.items \subseteq Products /\ answer.next \in Products \cup {NoProduct}
    /\ opened \in [of : Products \cup {NoProduct}, offers : SUBSET Variants]
    /\ shown \subseteq Products
    /\ twice \subseteq Products
    /\ steady \subseteq Products
    /\ misplaced \in BOOLEAN
    /\ changes \in 0..MaxChanges

CatalogueInit ==
    /\ listed = {} /\ onSale = Variants
    /\ query = OfCategory(<<>>)
    /\ cursor = NoProduct
    /\ step = "home"
    /\ answer = NoAnswer
    /\ opened = NotOpened
    /\ shown = {} /\ twice = {} /\ steady = {}
    /\ misplaced = FALSE
    /\ promised = NoFacets
    /\ changes = 0

-----------------------------------------------------------------------------
(* The visitor. *)

\* A listing begins, without a cursor.
Begin(q) ==
    /\ step' = "asked"
    /\ query' = q
    /\ cursor' = NoProduct
    /\ shown' = {} /\ twice' = {}
    /\ steady' = Matches(q)
    /\ misplaced' = FALSE
    /\ answer' = NoAnswer
    /\ UNCHANGED <<catalogueRows, opened>>

Browse(q) ==
    /\ step \in {"home", "shown"}
    /\ Begin(q)
    /\ promised' = NoFacets
    /\ changes' = 0

\* toggle: the brand changes, the cursor goes.
Toggle(b) ==
    /\ step = "shown"
    /\ b \in DOMAIN answer.facets
    /\ Begin([query EXCEPT !.brands = IF b \in @ THEN @ \ {b} ELSE @ \cup {b}])
    /\ promised' = answer.facets
    /\ UNCHANGED changes

\* The next page of what was asked, or of "asked".
Continue(asked) ==
    /\ step = "shown"
    /\ answer.next # NoProduct
    /\ step' = "asked"
    /\ query' = asked
    /\ cursor' = answer.next
    /\ misplaced' = (misplaced \/ query.sort = "rating")
    /\ promised' = NoFacets
    /\ answer' = NoAnswer
    /\ UNCHANGED <<catalogueRows, opened, shown, twice, steady, changes>>

NextPage == Continue(query)

\* The link below a category keeps the cursor, and neither brands nor order.
LoadMore ==
    /\ query = [OfCategory(query.category) EXCEPT !.brands = query.brands, !.sort = query.sort]
    /\ Continue(OfCategory(query.category))

\* get_product
Open(p) ==
    /\ step = "shown" /\ p \in answer.items
    /\ step' = IF p \in listed THEN "detail" ELSE "missing"
    /\ opened' = [of |-> p, offers |-> {v \in onSale : variant[v].of = p /\ p \in listed}]
    /\ UNCHANGED <<catalogueRows, query, cursor, answer, listingVars>>

Back ==
    /\ step \in {"detail", "missing"}
    /\ step' = "shown"
    /\ opened' = NotOpened
    /\ UNCHANGED <<catalogueRows, query, cursor, answer, listingVars>>

-----------------------------------------------------------------------------
(* The queries of list_products, one after another. *)

Answer(from, to, update) ==
    /\ step = from
    /\ step' = to
    /\ answer' = update
    /\ UNCHANGED <<catalogueRows, query, cursor, opened, steady, misplaced, promised, changes>>

Search ==
    /\ \E next \in Products \cup {NoProduct} :
          /\ IsNext(next, query, cursor)
          /\ Answer("asked", "searched",
                    [answer EXCEPT !.items = Page(query, cursor), !.next = next])
    /\ UNCHANGED <<shown, twice>>

\* The variants of the page, a SELECT ... WHERE product_id IN of its own.
LoadVariants ==
    /\ Answer("searched", "loaded",
              [answer EXCEPT !.from = [p \in answer.items |-> PriceFrom(p)]])
    /\ UNCHANGED <<shown, twice>>

Count ==
    /\ Answer("loaded", "counted", [answer EXCEPT !.total = Cardinality(Matches(query))])
    /\ UNCHANGED <<shown, twice>>

BrandFacets ==
    /\ Answer("counted", "faceted", [answer EXCEPT !.facets = Facets(query)])
    /\ UNCHANGED <<shown, twice>>

\* price_bounds, and the answer is shown.
PriceBounds ==
    LET prices == Prices(Rows(query)) IN
    /\ Answer("faceted", "shown",
              [answer EXCEPT !.low = Lowest(prices), !.high = Highest(prices)])
    /\ shown' = shown \cup answer.items
    /\ twice' = twice \cup (shown \cap answer.items)

\* A query or the process fails, and the visitor loads the page again.
Fail ==
    /\ step \in {"searched", "loaded", "counted", "faceted"}
    /\ step' = "asked"
    /\ answer' = NoAnswer
    /\ UNCHANGED <<catalogueRows, query, cursor, opened, listingVars>>

-----------------------------------------------------------------------------
(* Merchandising, from outside the program. *)

Change(products, variants) ==
    /\ listed' = products /\ onSale' = variants
    /\ steady' = steady \cap MatchesIn(query, products, variants)
    /\ changes < MaxChanges /\ changes' = changes + 1
    /\ promised' = NoFacets
    /\ UNCHANGED <<query, cursor, step, answer, opened, shown, twice, misplaced>>

Publish(p)  == p \notin listed /\ Change(listed \cup {p}, onSale)
Withdraw(p) == p \in listed /\ Change(listed \ {p}, onSale)
Retire(v)   == v \in onSale /\ Change(listed, onSale \ {v})

Visitor ==
    \/ \E q \in Queries : Browse(q)
    \/ \E b \in Brands : Toggle(b)
    \/ \E p \in Products : Open(p)
    \/ NextPage \/ LoadMore \/ Back

Handler == Search \/ LoadVariants \/ Count \/ BrandFacets \/ PriceBounds \/ Fail

CatalogueNext ==
    \/ Visitor
    \/ Handler
    \/ \E p \in Products : Publish(p) \/ Withdraw(p)
    \/ \E v \in Variants : Retire(v)

CatalogueSpec == CatalogueInit /\ [][CatalogueNext]_catalogueVars

-----------------------------------------------------------------------------
(* What holds. *)

\* Paging with cursors shows nothing twice, and shows at the end whatever has
\* matched from the first page on, while products come and go in between and
\* whether by next_cursor or by the link below a category; but not after a page
\* in the order of ratings, whose cursor is a place in the order of creation.
EachOnce ==
    ~misplaced =>
        /\ twice = {}
        /\ step = "shown" /\ answer.next = NoProduct => steady \subseteq shown

\* While the catalogue rests, the five queries of an answer agree, and so do the
\* pages a visitor goes on to: the last page is the one that completes the
\* total, the counts of the brands chosen add up to it, a click on a brand changes
\* no count, and the page of a product offers what its card says. No card is
\* above the bounds of prices. A card may be below them, but only under a lowest
\* price or a search term: the bounds are of the variants that fit what was
\* asked, and the card shows the cheapest of all, which then does not fit.
AnswerAddsUp ==
    changes = 0 /\ step \in {"shown", "detail", "missing"} =>
        LET found  == answer.facets
            picked == query.brands \cap DOMAIN found
            all    == Matches(Unfiltered(query))
        IN
        /\ cursor = NoProduct =>
              (answer.next = NoProduct <=> answer.total = Cardinality(answer.items))
        /\ query.brands # {} => answer.total = SumFunctionOnSet(found, picked)
        /\ query.brands = {} =>
              answer.total = SumFunction(found) + Cardinality(OfBrand(NoBrand, all))
        /\ promised # NoFacets => found = promised
        /\ \A p \in answer.items :
              /\ answer.from[p] <= answer.high
              /\ answer.from[p] < answer.low =>
                    /\ query.low > 0 \/ query.search # NoTerm
                    /\ \A v \in onSale :
                          variant[v].of = p /\ variant[v].price = answer.from[p]
                          => ~Fits(query, v)
        /\ step # "missing"
        /\ step = "detail" => Lowest(Prices(opened.offers)) = answer.from[opened.of]

\* What an answer under way, or on the screen, leaves for the pages behind it.
PagesInOrder ==
    /\ step # "home" => steady \subseteq Matches(query)
    /\ ~misplaced /\ Loading =>
          /\ \A p \in shown : ~Past(cursor, p)
          /\ \A p \in steady \ shown : Past(cursor, p)
    /\ ~misplaced /\ (Found \/ Reading) =>
          LET seen == shown \cup answer.items IN
          /\ answer.next = NoProduct => steady \subseteq seen
          /\ answer.next # NoProduct /\ query.sort # "rating" =>
                /\ \A p \in seen : ~Past(answer.next, p)
                /\ \A p \in steady \ seen : Past(answer.next, p)
    /\ ~misplaced /\ Found => \A p \in answer.items : Past(cursor, p)
    /\ Reading => answer.items \subseteq shown

PagingInv == CatalogueTypeOK /\ PagesInOrder /\ EachOnce

\* While the catalogue rests, what each of the queries has answered is still so, and
\* so is what the visitor was promised, and the page of a product.
AnswersAgree ==
    changes = 0 =>
        /\ Found \/ Reading =>
              answer.items = Page(query, cursor) /\ IsNext(answer.next, query, cursor)
        /\ step \in {"loaded", "counted", "faceted"} \/ Reading =>
              answer.from = [p \in answer.items |-> PriceFrom(p)]
        /\ step \in {"counted", "faceted"} \/ Reading =>
              answer.total = Cardinality(Matches(query))
        /\ step = "faceted" \/ Reading => answer.facets = Facets(query)
        /\ Reading =>
              /\ answer.low = Lowest(Prices(Rows(query)))
              /\ answer.high = Highest(Prices(Rows(query)))
        /\ promised # NoFacets => promised = Facets(query)
        /\ step # "missing"
        /\ step = "detail" =>
              /\ opened.of \in answer.items
              /\ opened.offers = {v \in onSale : variant[v].of = opened.of}

CatalogueInv == PagingInv /\ AnswersAgree
=============================================================================
