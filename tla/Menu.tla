-------------------------------- MODULE Menu --------------------------------
(***************************************************************************)
(* The menu of the shop in the language of its reader: the tree of the     *)
(* categories and the breadcrumb (backend/app/api/routers/catalog.py), the *)
(* choice of a language from the headers of a request (api/deps.py) and of *)
(* a translation from a text (shared/localization.py).                     *)
(*                                                                         *)
(* A path is the sequence of the numbers of its slugs.                     *)
(***************************************************************************)
EXTENDS Integers, SequencesExt, Ordering

CONSTANTS
    Categories,      \* rows there may be: path, depth and position as they are stored,
                     \* and the languages with a text for the name
    RowOrder,        \* ORDER BY path, position: pairs of rows, the first before the second
    Preferences,     \* entries there may be in an Accept-Language header
    Supported,       \* supported_locales
    DefaultLocale,
    NoHeader,        \* X-Locale is absent, or names no supported language
    MaxPreferences   \* bound: entries of one Accept-Language header

\* No column but the slug is unique: rows may share a path, and the depth that is
\* stored need not be that of the path. A path comes before those that continue
\* it in any collation, and rows that are equal in both keys have some order.
ASSUME MenuAssumption ==
    /\ IsFiniteSet(Categories)
    /\ \A c \in Categories : c.path \in Seq(Nat) \ {<<>>} /\ c.depth \in Nat
    /\ Linear(Categories, RowOrder)
    /\ \A c, d \in Categories :
          \/ IsStrictPrefix(c.path, d.path)
          \/ c.path = d.path /\ c.position < d.position
          => <<c, d>> \in RowOrder
    /\ \A e \in Preferences : e.tenths \in 0..10 /\ (e.form = "none" => e.tenths = 10)
    /\ DefaultLocale \in Supported /\ NoHeader \notin Supported
    /\ MaxPreferences \in Nat

-----------------------------------------------------------------------------
(* The language. *)

\* Of an entry: 10 without a parameter, and for "; q=" behind a space; 0 for a
\* number that cannot be read.
Quality(entry) ==
    CASE entry.form = "q"          -> entry.tenths
      [] entry.form = "unreadable" -> 0
      [] OTHER                     -> 10

\* Entries of one quality keep their order.
Before(i, j, header) ==
    \/ Quality(header[i]) > Quality(header[j])
    \/ Quality(header[i]) = Quality(header[j]) /\ i < j

Ranked(header) ==
    LET all    == DOMAIN header
        places == InOrder(all, {r \in all \X all : Before(r[1], r[2], header)})
    IN  [n \in DOMAIN places |-> header[places[n]].language]

FirstSupported(languages) ==
    IF \E n \in DOMAIN languages : languages[n] \in Supported
    THEN languages[SelectInSeq(languages, LAMBDA l : l \in Supported)]
    ELSE DefaultLocale

negotiate_locale(header) == FirstSupported(Ranked(header))

\* Mutant: the preferences of the browser win over the page's address.
BrowserFirst(explicit, header) ==
    IF header = <<>> /\ explicit \in Supported THEN explicit ELSE negotiate_locale(header)

\* An explicit X-Locale wins.
get_locale(explicit, header) ==
    IF explicit \in Supported THEN explicit ELSE negotiate_locale(header)

\* FALLBACK_CHAIN, and what it is for any other language.
Chain(language) == IF language = "en" THEN <<"en", "sv">> ELSE <<"sv", "en">>

\* The first of the chain with a text, then any text; "" without one.
resolve_translation(texts, language) ==
    IF Chain(language)[1] \in texts THEN Chain(language)[1]
    ELSE IF Chain(language)[2] \in texts THEN Chain(language)[2]
    ELSE IF texts # {} THEN CHOOSE l \in texts : TRUE
    ELSE ""

-----------------------------------------------------------------------------
(* The tree. *)

\* path.rsplit(".", 1)[0], which of a path of one slug is the path itself.
ParentPath(path) == IF Len(path) = 1 THEN path ELSE Front(path)

\* nodes[row.path] = node
NodesWith(nodes, row) ==
    [p \in DOMAIN nodes \cup {row.path} |-> IF p = row.path THEN row ELSE nodes[p]]

\* Mutant: the depth is not asked.
PlacedByPath(tree, row) ==
    LET nodes == NodesWith(tree.nodes, row)
        above == ParentPath(row.path)
    IN
    IF above \notin DOMAIN nodes
    THEN [tree EXCEPT !.nodes = nodes, !.roots = Append(@, row)]
    ELSE [tree EXCEPT !.nodes = nodes, !.children[nodes[above]] = Append(@, row)]

\* One turn of the loop of category_tree.
Placed(tree, row) ==
    LET nodes == NodesWith(tree.nodes, row)
        above == ParentPath(row.path)
    IN
    IF row.depth = 0 \/ above \notin DOMAIN nodes
    THEN [tree EXCEPT !.nodes = nodes, !.roots = Append(@, row)]
    ELSE [tree EXCEPT !.nodes = nodes, !.children[nodes[above]] = Append(@, row)]

Tree(rows) ==
    LET sorted == InOrder(rows, RowOrder)
        after[n \in 0..Len(sorted)] ==
            IF n = 0 THEN [nodes |-> <<>>, roots |-> <<>>, children |-> [c \in rows |-> <<>>]]
            ELSE Placed(after[n - 1], sorted[n])
    IN  after[Len(sorted)]

\* ORDER BY depth; rows of one depth come in some order.
ByDepth ==
    {r \in Categories \X Categories :
        \/ r[1].depth < r[2].depth
        \/ r[1].depth = r[2].depth /\ r \in RowOrder}

\* breadcrumb: the rows of all prefixes.
Trail(path, rows) == InOrder({c \in rows : IsPrefix(c.path, path)}, ByDepth)

-----------------------------------------------------------------------------

VARIABLES
    menu,    \* the tree that was answered last, <<>> before
    trails,  \* the breadcrumb of each path in it, as it was answered then
    names,   \* the language of the name of each row
    locale,  \* the language of the answer
    asked    \* the headers and the rows it was made from

menuVars == <<menu, trails, names, locale, asked>>

Headers == [explicit : Supported \cup {NoHeader},
            header : BoundedSeq(Preferences, MaxPreferences)]

MenuInit ==
    /\ menu = <<>> /\ trails = <<>> /\ names = <<>>
    /\ locale = DefaultLocale
    /\ asked = [explicit |-> NoHeader, header |-> <<>>, rows |-> {}]

\* category_tree, and the breadcrumb of each of its paths. A row of one slug that
\* is stored with a depth is put below itself, and such a tree cannot be written.
OpenMenu(headers, rows) ==
    /\ \A c \in rows : Len(c.path) = 1 => c.depth = 0
    /\ locale' = get_locale(headers.explicit, headers.header)
    /\ menu' = Tree(rows)
    /\ trails' = [p \in {c.path : c \in rows} |-> Trail(p, rows)]
    /\ names' = [c \in rows |-> resolve_translation(c.texts, locale')]
    /\ asked' = [explicit |-> headers.explicit, header |-> headers.header, rows |-> rows]

MenuNext == \E headers \in Headers, rows \in SUBSET Categories : OpenMenu(headers, rows)

-----------------------------------------------------------------------------
(* What holds. *)

\* The row a row is put below: the last one with the path one slug shorter.
Above(c, rows) ==
    {d \in rows : /\ c.depth # 0 /\ Len(c.path) > 1 /\ d.path = Front(c.path)
                  /\ \A e \in rows \ {d} : e.path = d.path => <<e, d>> \in RowOrder}

Below(c, rows) == {d \in rows : c \in Above(d, rows)}

\* As scripts/seed.py stores them.
Regular(rows) ==
    /\ \A c \in rows : c.depth = Len(c.path) - 1
    /\ \A c, d \in rows : c.path = d.path => c = d

Ancestors(c, rows) == {d \in rows : IsStrictPrefix(d.path, c.path)}

\* Whichever categories there are, the menu has each of them once: below the last
\* one whose path is one slug shorter, or as a root when it is stored as one or
\* there is none; and roots and children are in the order of the rows. When no
\* two rows share a path and the depths are those of the paths, a breadcrumb is
\* that of the nearest category above with the category itself behind it, also
\* over a gap, where the menu has a root.
MenuIsATree ==
    menu # <<>> =>
        LET rows == asked.rows IN
        /\ IsInOrder(menu.roots, {c \in rows : Above(c, rows) = {}}, RowOrder)
        /\ \A c \in rows : IsInOrder(menu.children[c], Below(c, rows), RowOrder)
        /\ Regular(rows) =>
              \A c \in rows :
                 /\ Ancestors(c, rows) = {} => trails[c.path] = <<c>>
                 /\ \A d \in Ancestors(c, rows) :
                       (\A e \in Ancestors(c, rows) : Len(e.path) <= Len(d.path))
                       => trails[c.path] = Append(trails[d.path], c)

\* A reader gets the language of the page's address, or else the supported one
\* the browser prefers: of those named, none has a higher quality, and none of an
\* equal one comes before; the quality is as the parser reads it, 1 where the q
\* stands behind a space and 0 where it cannot be read. Names are in the reader's
\* language if that is Swedish or English and they have a text in it, in a third
\* language only without a text in these two, and blank only without any.
SpokenAsAsked ==
    LET wanted == {i \in DOMAIN asked.header : asked.header[i].language \in Supported}
        Best(i) == \A j \in wanted \ {i} :
                      \/ Quality(asked.header[j]) < Quality(asked.header[i])
                      \/ Quality(asked.header[j]) = Quality(asked.header[i]) /\ i < j
    IN
    /\ locale \in Supported
    /\ asked.explicit \in Supported => locale = asked.explicit
    /\ asked.explicit = NoHeader /\ wanted # {} =>
          \E i \in wanted : Best(i) /\ locale = asked.header[i].language
    /\ asked.explicit = NoHeader /\ wanted = {} => locale = DefaultLocale
    /\ \A c \in asked.rows :
          /\ locale \in {"sv", "en"} \cap c.texts => names[c] = locale
          /\ {"sv", "en"} \cap c.texts # {} => names[c] \in {"sv", "en"}
          /\ c.texts # {} => names[c] \in c.texts

\* The page is the answer to what was asked.
MenuHolds ==
    /\ asked \in [explicit : Supported \cup {NoHeader},
                  header : BoundedSeq(Preferences, MaxPreferences), rows : SUBSET Categories]
    /\ \A c \in asked.rows : Len(c.path) = 1 => c.depth = 0
    /\ locale = get_locale(asked.explicit, asked.header)
    /\ menu = <<>> => asked.rows = {}
    /\ menu # <<>> =>
          /\ menu = Tree(asked.rows)
          /\ trails = [p \in {c.path : c \in asked.rows} |-> Trail(p, asked.rows)]
    /\ \A c \in asked.rows : names[c] = resolve_translation(c.texts, locale)
=============================================================================
