------------------------------ MODULE MCVisit ------------------------------
(* Three products, two of them of one age, four variants, and five categories. *)
EXTENDS Visit

MCProducts == 1..3
MCVariants == 1..4

MCproduct == <<
    [created |-> 1, rating |-> 2, brand |-> "b1", path |-> <<1>>, tags |-> {"t"}, words |-> {"w"}],
    [created |-> 2, rating |-> 1, brand |-> "b2", path |-> <<1, 1>>, tags |-> {}, words |-> {}],
    [created |-> 2, rating |-> 1, brand |-> "none", path |-> <<1, 2>>, tags |-> {"t"}, words |-> {"w"}] >>

MCvariant == <<
    [of |-> 1, price |-> 1, sku |-> {}],
    [of |-> 1, price |-> 3, sku |-> {}],
    [of |-> 2, price |-> 2, sku |-> {"w"}],
    [of |-> 3, price |-> 2, sku |-> {}] >>

MCWhole == [search |-> "any", category |-> <<1>>, brands |-> {}, tags |-> {},
            low |-> 0, high |-> 9, sort |-> "relevance", limit |-> 1]

\* Both ends of the limit, every filter, every order.
MCQueries == {
    MCWhole,
    [MCWhole EXCEPT !.sort = "rating"],
    [MCWhole EXCEPT !.search = "w", !.limit = 5],
    [MCWhole EXCEPT !.low = 2, !.sort = "newest", !.limit = 0],
    [MCWhole EXCEPT !.tags = {"t"}, !.high = 2, !.brands = {"b1"}] }

\* Two rows of one path, one of them stored as a root.
MCCategories == {
    [path |-> <<1>>, depth |-> 0, position |-> 0, texts |-> {"sv", "en"}],
    [path |-> <<1, 1>>, depth |-> 1, position |-> 0, texts |-> {"en"}],
    [path |-> <<1, 1>>, depth |-> 0, position |-> 1, texts |-> {"sv"}],
    [path |-> <<1, 1, 1>>, depth |-> 2, position |-> 0, texts |-> {"de"}],
    [path |-> <<1, 2>>, depth |-> 1, position |-> 0, texts |-> {}] }

MCPathPrecedes(p, q) ==
    \/ IsStrictPrefix(p, q)
    \/ \E i \in DOMAIN p \cap DOMAIN q :
          p[i] < q[i] /\ \A j \in 1..i - 1 : p[j] = q[j]

MCRowOrder ==
    {r \in MCCategories \X MCCategories :
        \/ MCPathPrecedes(r[1].path, r[2].path)
        \/ r[1].path = r[2].path /\ r[1].position < r[2].position}

MCPreferences ==
    [language : {"sv"}, form : {"q"}, tenths : {0, 5}]
      \cup [language : {"en"}, form : {"q", "spaced"}, tenths : {5}]
      \cup [language : {"en", "de"}, form : {"none"}, tenths : {10}]
      \cup [language : {"en"}, form : {"unreadable"}, tenths : {5}]
=============================================================================
