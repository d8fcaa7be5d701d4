---------------------------- MODULE VisitProofs ----------------------------
(***************************************************************************)
(* A visit to the shop: the menu is a tree in the language asked for,      *)
(* paging shows everything once, and what one answer says adds up.         *)
(***************************************************************************)
EXTENDS Visit, FiniteTheorems, SequenceTheorems, TLAPS

-----------------------------------------------------------------------------
(* The order of the paths. *)

\* A prefix has the members the whole begins with.
LEMMA PrefixIs ==
    ASSUME NEW s \in Seq(Nat), NEW t \in Seq(Nat)
    PROVE  IsPrefix(s, t) <=> Len(s) <= Len(t) /\ \A i \in 1..Len(s) : s[i] = t[i]
<1>1. Len(s) \in Nat /\ Len(t) \in Nat
  BY LenProperties
<1>2. /\ \A i \in 1..Len(s) : s[i] \in Nat
      /\ \A i \in 1..Len(t) : t[i] \in Nat
  BY ElementOfSeq
<1>3. SubSeq(s, 1, Len(s)) = s
  BY SubSeqFull
<1>4. ASSUME Len(s) <= Len(t)
      PROVE  SubSeq(t, 1, Len(s)) = s <=> \A i \in 1..Len(s) : s[i] = t[i]
  <2> DEFINE head == SubSeq(t, 1, Len(s))
  <2>1. \A i \in 1..Len(s) : t[i] \in Nat
    BY <1>1, <1>2, <1>4
  <2>2. /\ head \in Seq(Nat) /\ Len(head) = IF 1 <= Len(s) THEN Len(s) - 1 + 1 ELSE 0
        /\ \A i \in 1..Len(s) - 1 + 1 : head[i] = t[1 + i - 1]
    BY <1>1, <2>1, SubSeqProperties
  <2> HIDE DEF head
  <2>3. Len(head) = Len(s)
    BY <1>1, <2>2
  <2>4. \A i \in 1..Len(s) : head[i] = t[i]
    BY <1>1, <2>2
  <2>5. (\A i \in 1..Len(s) : head[i] = s[i]) => head = s
    BY <2>2, <2>3, SeqEqual
  <2> QED
    BY <2>4, <2>5 DEF head
<1> QED
  BY <1>3, <1>4 DEF IsPrefix

\* What is left of a path without its last slug.
LEMMA FrontIs ==
    ASSUME NEW s \in Seq(Nat), Len(s) > 0
    PROVE  /\ Front(s) \in Seq(Nat) /\ Len(Front(s)) = Len(s) - 1
           /\ \A i \in 1..Len(s) - 1 : Front(s)[i] = s[i]
<1> DEFINE n == Len(s) - 1
<1>1. n \in Nat /\ \A i \in 1..n : i \in 1..Len(s)
  BY LenProperties
<1>2. \A i \in 1..n : s[i] \in Nat
  BY <1>1, ElementOfSeq
<1>3. Front(s) = SubSeq(s, 1, n)
  BY DEF Front
<1> HIDE DEF n
<1>4. /\ SubSeq(s, 1, n) \in Seq(Nat)
      /\ Len(SubSeq(s, 1, n)) = IF 1 <= n THEN n - 1 + 1 ELSE 0
      /\ \A i \in 1..n - 1 + 1 : SubSeq(s, 1, n)[i] = s[1 + i - 1]
  BY <1>1, <1>2, SubSeqProperties
<1>5. Len(Front(s)) = n
  BY <1>1, <1>3, <1>4
<1>6. \A i \in 1..n : Front(s)[i] = s[i]
  BY <1>1, <1>3, <1>4
<1> QED
  BY <1>3, <1>4, <1>5, <1>6 DEF n

\* Every prefix of a path is the path itself or one of what is left of it
\* without its last slug.
LEMMA PrefixesOf ==
    ASSUME NEW s \in Seq(Nat), Len(s) > 0, NEW p \in Seq(Nat)
    PROVE  IsPrefix(p, s) <=> p = s \/ IsPrefix(p, Front(s))
<1>1. Len(s) \in Nat /\ Len(p) \in Nat
  BY LenProperties
<1>2. /\ Front(s) \in Seq(Nat) /\ Len(Front(s)) = Len(s) - 1
      /\ \A i \in 1..Len(s) - 1 : Front(s)[i] = s[i]
  BY FrontIs
<1>3. /\ IsPrefix(p, s) <=> Len(p) <= Len(s) /\ \A i \in 1..Len(p) : p[i] = s[i]
      /\ IsPrefix(p, Front(s)) <=>
            Len(p) <= Len(s) - 1 /\ \A i \in 1..Len(p) : p[i] = Front(s)[i]
  BY <1>2, PrefixIs
<1>4. ASSUME Len(p) <= Len(s) - 1
      PROVE  \A i \in 1..Len(p) : Front(s)[i] = s[i]
  <2>1. \A i \in 1..Len(p) : i \in 1..Len(s) - 1
    BY <1>1, <1>4
  <2> QED
    BY <1>2, <2>1
<1>5. IsPrefix(p, Front(s)) => IsPrefix(p, s)
  BY <1>1, <1>3, <1>4
<1>6. IsPrefix(p, s) /\ Len(p) # Len(s) => IsPrefix(p, Front(s))
  BY <1>1, <1>3, <1>4
<1>7. IsPrefix(p, s) /\ Len(p) = Len(s) => p = s
  BY <1>3, SeqEqual
<1>8. IsPrefix(s, s)
  BY <1>1, PrefixIs
<1> QED
  BY <1>5, <1>6, <1>7, <1>8

-----------------------------------------------------------------------------
(* The loop. *)

\* What some of the rows are.
LEMMA RowsAre ==
    ASSUME MenuAssumption, NEW rows \in SUBSET Categories
    PROVE  /\ IsFiniteSet(rows) /\ Linear(rows, RowOrder)
           /\ \A c \in rows : /\ c.path \in Seq(Nat) /\ Len(c.path) \in Nat /\ Len(c.path) > 0
                              /\ c.depth \in Nat
<1>1. IsFiniteSet(rows)
  BY FS_Subset DEF MenuAssumption
<1>2. Linear(rows, RowOrder)
  BY DEF MenuAssumption, Linear
<1>3. \A c \in rows : c.path \in Seq(Nat) \ {<<>>} /\ c.depth \in Nat
  BY DEF MenuAssumption
<1>4. \A c \in rows : Len(c.path) \in Nat /\ Len(c.path) > 0
  BY <1>3, EmptySeq, LenProperties
<1> QED
  BY <1>1, <1>2, <1>3, <1>4

\* A row comes behind that of its path without the last slug.
LEMMA ShorterFirst ==
    ASSUME MenuAssumption, NEW c \in Categories, NEW d \in Categories,
           Len(c.path) > 1, d.path = Front(c.path)
    PROVE  <<d, c>> \in RowOrder
<1>1. c.path \in Seq(Nat) /\ Len(c.path) \in Nat
  BY RowsAre
<1>2. d.path \in Seq(Nat) /\ Len(d.path) = Len(c.path) - 1 /\ Len(d.path) \in Nat
  BY <1>1, FrontIs
<1>3. IsPrefix(d.path, Front(c.path))
  BY <1>2, PrefixIs
<1>4. IsPrefix(d.path, c.path) /\ d.path # c.path
  BY <1>1, <1>2, <1>3, PrefixesOf
<1> QED
  BY <1>4 DEF MenuAssumption, IsStrictPrefix

\* The rows one by one, each once, and one after the other.
LEMMA SortedIs ==
    ASSUME MenuAssumption, NEW rows \in SUBSET Categories
    PROVE  LET s == InOrder(rows, RowOrder)
               n == Cardinality(rows)
           IN  /\ n \in Nat /\ Len(s) = n /\ s \in [1..n -> rows]
               /\ \A c \in rows : \E i \in 1..n : s[i] = c
               /\ \A i, j \in 1..n : /\ s[i] = s[j] => i = j
                                     /\ <<s[i], s[j]>> \in RowOrder <=> i < j
<1> DEFINE s == InOrder(rows, RowOrder)
           n == Cardinality(rows)
<1>0. IsFiniteSet(rows) /\ Linear(rows, RowOrder)
  BY RowsAre
<1>1. IsInOrder(s, rows, RowOrder)
  BY <1>0, ListExists
<1>2. n \in Nat
  BY <1>0, FS_CardinalityType
<1> HIDE DEF s
<1>3. /\ s \in [1..n -> rows]
      /\ \A c \in rows : \E i \in 1..n : s[i] = c
      /\ \A i, j \in 1..n : i < j => <<s[i], s[j]>> \in RowOrder
  BY <1>1 DEF IsInOrder
<1> HIDE DEF n
<1>4. Len(s) = n
  BY <1>2, <1>3
<1>5. ASSUME NEW i \in 1..n, NEW j \in 1..n
      PROVE  /\ s[i] = s[j] => i = j
             /\ <<s[i], s[j]>> \in RowOrder <=> i < j
  <2>1. s[i] \in rows /\ s[j] \in rows
    BY <1>3
  <2>2. /\ <<s[i], s[i]>> \notin RowOrder
        /\ ~ (<<s[i], s[j]>> \in RowOrder /\ <<s[j], s[i]>> \in RowOrder)
    BY <1>0, <2>1 DEF Linear
  <2>3. i < j \/ i = j \/ j < i
    BY <1>2
  <2>4. /\ i < j => <<s[i], s[j]>> \in RowOrder
        /\ j < i => <<s[j], s[i]>> \in RowOrder
    BY <1>3
  <2>5. CASE i < j
    BY <1>2, <2>2, <2>4, <2>5
  <2>6. CASE i = j
    BY <1>2, <2>2, <2>6
  <2>7. CASE j < i
    <3>1. ~ (i < j)
      BY <1>2, <2>7
    <3> QED
      BY <2>2, <2>4, <2>7, <3>1
  <2> QED
    BY <2>3, <2>5, <2>6, <2>7
<1> QED
  BY <1>2, <1>3, <1>4, <1>5 DEF s, n

\* f[k] is the tree after the first k rows of s.
Loops(f, s, rows, n) ==
    f = [k \in 0..n |->
            IF k = 0 THEN [nodes |-> <<>>, roots |-> <<>>, children |-> [c \in rows |-> <<>>]]
            ELSE Placed(f[k - 1], s[k])]

\* However many rows there are, the loop comes to their end.
LEMMA LoopExists ==
    ASSUME NEW s, NEW rows, NEW n \in Nat
    PROVE  \E f : Loops(f, s, rows, n)
<1> DEFINE None == [nodes |-> <<>>, roots |-> <<>>, children |-> [c \in rows |-> <<>>]]
           B == {m \in Nat : \E f : \A k \in 0..m :
                    f[k] = IF k = 0 THEN None ELSE Placed(f[k - 1], s[k])}
<1> HIDE DEF None
<1>1. 0 \in B
  <2> DEFINE f == [k \in 0..0 |-> None]
  <2>1. \A k \in 0..0 : f[k] = IF k = 0 THEN None ELSE Placed(f[k - 1], s[k])
    OBVIOUS
  <2> HIDE DEF f
  <2> QED
    BY <2>1
<1>2. ASSUME NEW m \in B PROVE m + 1 \in B
  <2>1. PICK f : \A k \in 0..m : f[k] = IF k = 0 THEN None ELSE Placed(f[k - 1], s[k])
    OBVIOUS
  <2>2. m \in Nat
    OBVIOUS
  <2> HIDE DEF B
  <2> DEFINE h == [k \in 0..m + 1 |-> IF k = m + 1 THEN Placed(f[m], s[m + 1]) ELSE f[k]]
  <2>3. \A k \in 0..m : h[k] = f[k]
    BY <2>2
  <2>4. h[m + 1] = Placed(f[m], s[m + 1])
    BY <2>2
  <2> HIDE DEF h
  <2>5. ASSUME NEW k \in 0..m + 1
        PROVE  h[k] = IF k = 0 THEN None ELSE Placed(h[k - 1], s[k])
    <3>1. CASE k = m + 1
      <4>1. k # 0 /\ k - 1 = m /\ m \in 0..m
        BY <2>2, <3>1
      <4> QED
        BY <2>3, <2>4, <3>1, <4>1
    <3>2. CASE k # m + 1
      <4>1. k \in 0..m /\ (k # 0 => k - 1 \in 0..m)
        BY <2>2, <3>2
      <4> QED
        BY <2>1, <2>3, <4>1
    <3> QED
      BY <3>1, <3>2
  <2> QED
    BY <2>2, <2>5 DEF B
<1> HIDE DEF B
<1>3. B = Nat
  BY <1>1, <1>2, CountingUp DEF B
<1>4. PICK f : \A k \in 0..n : f[k] = IF k = 0 THEN None ELSE Placed(f[k - 1], s[k])
  BY <1>3 DEF B
<1> DEFINE h == [k \in 0..n |-> f[k]]
<1>5. \A k \in 0..n : h[k] = f[k] /\ (k # 0 => h[k - 1] = f[k - 1])
  OBVIOUS
<1>6. h = [k \in 0..n |-> h[k]]
  OBVIOUS
<1> HIDE DEF h
<1>7. \A k \in 0..n : h[k] = IF k = 0 THEN None ELSE Placed(h[k - 1], s[k])
  BY <1>4, <1>5
<1>8. h = [k \in 0..n |-> IF k = 0 THEN None ELSE Placed(h[k - 1], s[k])]
  BY <1>6, <1>7
<1> QED
  BY <1>8 DEF Loops, None

\* The tree is what the loop has made after the last row.
LEMMA TreeIs ==
    ASSUME NEW rows, Len(InOrder(rows, RowOrder)) \in Nat
    PROVE  \E f : /\ Loops(f, InOrder(rows, RowOrder), rows, Len(InOrder(rows, RowOrder)))
                  /\ Tree(rows) = f[Len(InOrder(rows, RowOrder))]
<1> DEFINE s == InOrder(rows, RowOrder)
           n == Len(s)
           after[k \in 0..n] ==
              IF k = 0 THEN [nodes |-> <<>>, roots |-> <<>>, children |-> [c \in rows |-> <<>>]]
              ELSE Placed(after[k - 1], s[k])
<1>1. Tree(rows) = after[n]
  BY DEF Tree
<1>2. after = CHOOSE f : Loops(f, s, rows, n)
  BY DEF Loops
<1> HIDE DEF after
<1>3. Loops(after, s, rows, n)
  BY <1>2, LoopExists
<1> QED
  BY <1>1, <1>3

\* Lists are built by appending.
LEMMA ListsOneMore ==
    ASSUME NEW S, IsFiniteSet(S), NEW R, NEW s, IsInOrder(s, S, R),
           NEW x, x \notin S, \A y \in S : <<y, x>> \in R
    PROVE  IsInOrder(Append(s, x), S \cup {x}, R)
<1> DEFINE n == Cardinality(S)
           t == [i \in 1..n + 1 |-> IF i = n + 1 THEN x ELSE s[i]]
<1>1. IsInOrder(t, S \cup {x}, R)
  BY ListAppends
<1>2. n \in Nat /\ s \in [1..n -> S]
  BY FS_CardinalityType DEF IsInOrder
<1> HIDE DEF n
<1>3. s \in Seq(S \cup {x}) /\ Len(s) = n
  BY <1>2
<1> DEFINE u == Append(s, x)
<1>4. /\ u \in Seq(S \cup {x}) /\ Len(u) = n + 1
      /\ \A i \in 1..n : u[i] = s[i]
      /\ u[n + 1] = x
  BY <1>3, AppendProperties
<1> HIDE DEF u
<1>5. u \in [1..n + 1 -> S \cup {x}]
  BY <1>4, LenProperties
<1>6. \A i \in 1..n + 1 : u[i] = IF i = n + 1 THEN x ELSE s[i]
  BY <1>2, <1>4
<1>7. u = t
  BY <1>5, <1>6
<1> QED
  BY <1>1, <1>7 DEF u

\* A list has only members of its set.
LEMMA ListsAre ==
    ASSUME NEW rows, NEW S \in SUBSET rows, IsFiniteSet(S), NEW R, NEW s, IsInOrder(s, S, R)
    PROVE  s \in Seq(rows)
<1>1. Cardinality(S) \in Nat /\ s \in [1..Cardinality(S) -> S]
  BY FS_CardinalityType DEF IsInOrder
<1> QED
  BY <1>1

\* The list of nothing.
LEMMA ListsNothing == ASSUME NEW R PROVE IsInOrder(<<>>, {}, R)
<1>1. Cardinality({}) = 0 /\ 1..0 = {}
  BY FS_EmptySet
<1> QED
  BY <1>1 DEF IsInOrder

Tops(rows) == {c \in rows : Above(c, rows) = {}}

\* The last of the rows of S with each path.
LastOf(nodes, S) ==
    /\ DOMAIN nodes = {c.path : c \in S}
    /\ \A p \in DOMAIN nodes : nodes[p] \in S /\ nodes[p].path = p
    /\ \A c \in S : c = nodes[c.path] \/ <<c, nodes[c.path]>> \in RowOrder

\* The tree as it is once the rows of S have been placed.
Stage(tree, S, rows) ==
    /\ tree = [nodes |-> tree.nodes, roots |-> tree.roots, children |-> tree.children]
    /\ LastOf(tree.nodes, S)
    /\ IsInOrder(tree.roots, S \cap Tops(rows), RowOrder)
    /\ DOMAIN tree.children = rows
    /\ \A c \in rows : IsInOrder(tree.children[c], S \cap Below(c, rows), RowOrder)

\* The dictionary with one row more.
LEMMA NodesGrow ==
    ASSUME NEW S, NEW x, \A c \in S : <<c, x>> \in RowOrder,
           NEW nodes, LastOf(nodes, S)
    PROVE  LastOf(NodesWith(nodes, x), S \cup {x})
<1> DEFINE new == NodesWith(nodes, x)
<1>1. /\ DOMAIN new = DOMAIN nodes \cup {x.path}
      /\ \A p \in DOMAIN new : new[p] = IF p = x.path THEN x ELSE nodes[p]
  BY DEF NodesWith
<1> HIDE DEF new
<1>2. /\ DOMAIN nodes = {c.path : c \in S}
      /\ \A p \in DOMAIN nodes : nodes[p] \in S /\ nodes[p].path = p
      /\ \A c \in S : c = nodes[c.path] \/ <<c, nodes[c.path]>> \in RowOrder
  BY DEF LastOf
<1>3. DOMAIN new = {c.path : c \in S \cup {x}}
  BY <1>1, <1>2
<1>4. \A p \in DOMAIN new : new[p] \in S \cup {x} /\ new[p].path = p
  BY <1>1, <1>2
<1>5. \A c \in S \cup {x} : c = new[c.path] \/ <<c, new[c.path]>> \in RowOrder
  BY <1>1, <1>2
<1> QED
  BY <1>3, <1>4, <1>5 DEF LastOf, new

\* What the dictionary finds under the path one slug shorter is the row above.
LEMMA FoundAbove ==
    ASSUME MenuAssumption, NEW rows \in SUBSET Categories,
           NEW S \in SUBSET rows, NEW x \in rows, x \notin S,
           \A c \in S : <<c, x>> \in RowOrder,
           \A c \in rows : <<c, x>> \in RowOrder => c \in S,
           x.depth # 0, Len(x.path) > 1,
           NEW nodes, LastOf(nodes, S \cup {x})
    PROVE  /\ Front(x.path) \in DOMAIN nodes =>
                 Above(x, rows) = {nodes[Front(x.path)]} /\ nodes[Front(x.path)] \in rows
           /\ Front(x.path) \notin DOMAIN nodes => Above(x, rows) = {}
<1> DEFINE p == Front(x.path)
<1>1. \A c \in rows : c.path = p => c \in S
  BY ShorterFirst
<1>2. x.path # p
  BY RowsAre, FrontIs
<1> HIDE DEF p
<1>3. /\ DOMAIN nodes = {c.path : c \in S \cup {x}}
      /\ \A q \in DOMAIN nodes : nodes[q] \in S \cup {x} /\ nodes[q].path = q
      /\ \A c \in S \cup {x} : c = nodes[c.path] \/ <<c, nodes[c.path]>> \in RowOrder
  BY DEF LastOf
<1>4. Above(x, rows) =
        {d \in rows : d.path = p /\ \A e \in rows \ {d} : e.path = d.path => <<e, d>> \in RowOrder}
  BY DEF Above, p
<1>5. ASSUME p \in DOMAIN nodes
      PROVE  Above(x, rows) = {nodes[p]} /\ nodes[p] \in rows
  <2> DEFINE d == nodes[p]
  <2>1. d \in rows /\ d.path = p
    BY <1>3, <1>5
  <2>2. \A e \in rows : e.path = p => e = d \/ <<e, d>> \in RowOrder
    BY <1>1, <1>3
  <2> HIDE DEF d
  <2>3. d \in Above(x, rows)
    BY <1>4, <2>1, <2>2
  <2>4. \A e \in Above(x, rows) : e = d
    <3> SUFFICES ASSUME NEW e \in Above(x, rows), e # d PROVE FALSE
      OBVIOUS
    <3>1. e \in rows /\ e.path = p /\ <<d, e>> \in RowOrder
      BY <1>4, <2>1
    <3>2. <<e, d>> \in RowOrder
      BY <2>2, <3>1
    <3> QED
      BY <2>1, <3>1, <3>2, RowsAre DEF Linear
  <2> QED
    BY <2>1, <2>3, <2>4 DEF d
<1>6. ASSUME p \notin DOMAIN nodes
      PROVE  Above(x, rows) = {}
  BY <1>1, <1>3, <1>4, <1>6
<1> QED
  BY <1>5, <1>6 DEF p

\* A row goes to the end of the roots, or of the children of the row above.
LEMMA PlacedKeeps ==
    ASSUME MenuAssumption, NEW rows \in SUBSET Categories,
           NEW S \in SUBSET rows, NEW x \in rows, x \notin S,
           \A c \in S : <<c, x>> \in RowOrder,
           \A c \in rows : <<c, x>> \in RowOrder => c \in S,
           Len(x.path) = 1 => x.depth = 0,
           NEW tree, Stage(tree, S, rows)
    PROVE  Stage(Placed(tree, x), S \cup {x}, rows)
<1> DEFINE above == ParentPath(x.path)
           nodes == NodesWith(tree.nodes, x)
           new == Placed(tree, x)
<1>1. /\ tree = [nodes |-> tree.nodes, roots |-> tree.roots, children |-> tree.children]
      /\ LastOf(tree.nodes, S)
      /\ IsInOrder(tree.roots, S \cap Tops(rows), RowOrder)
      /\ DOMAIN tree.children = rows
      /\ \A c \in rows : IsInOrder(tree.children[c], S \cap Below(c, rows), RowOrder)
  BY DEF Stage
<1>2. LastOf(nodes, S \cup {x})
  BY <1>1, NodesGrow
<1>3. x.path \in Seq(Nat) /\ Len(x.path) \in Nat /\ Len(x.path) > 0 /\ IsFiniteSet(rows)
  BY RowsAre
<1>4. /\ (x.depth = 0 \/ above \notin DOMAIN nodes) => Above(x, rows) = {}
      /\ ~ (x.depth = 0 \/ above \notin DOMAIN nodes) =>
            Above(x, rows) = {nodes[above]} /\ nodes[above] \in rows
  <2>1. x.depth = 0 => Above(x, rows) = {}
    BY DEF Above
  <2>2. ASSUME x.depth # 0
        PROVE  Len(x.path) > 1 /\ above = Front(x.path)
    <3>1. Len(x.path) # 1
      BY <2>2
    <3> DEFINE m == Len(x.path)
    <3>2. m \in Nat /\ m > 0 /\ m # 1
      BY <1>3, <3>1
    <3> HIDE DEF m
    <3>3. m > 1
      BY <3>2
    <3> QED
      BY <3>1, <3>3 DEF m, ParentPath
  <2> HIDE DEF above, nodes
  <2>3. ASSUME x.depth # 0
        PROVE  /\ above \in DOMAIN nodes =>
                     Above(x, rows) = {nodes[above]} /\ nodes[above] \in rows
               /\ above \notin DOMAIN nodes => Above(x, rows) = {}
    <3>1. Len(x.path) > 1 /\ above = Front(x.path)
      BY <2>2, <2>3
    <3>2. /\ Front(x.path) \in DOMAIN nodes =>
                Above(x, rows) = {nodes[Front(x.path)]} /\ nodes[Front(x.path)] \in rows
          /\ Front(x.path) \notin DOMAIN nodes => Above(x, rows) = {}
      BY <1>2, <2>3, <3>1, FoundAbove
    <3> QED
      BY <3>1, <3>2
  <2> QED
    BY <2>1, <2>3
<1>5. new = IF x.depth = 0 \/ above \notin DOMAIN nodes
            THEN [tree EXCEPT !.nodes = nodes, !.roots = Append(@, x)]
            ELSE [tree EXCEPT !.nodes = nodes, !.children[nodes[above]] = Append(@, x)]
  BY DEF Placed
<1> HIDE DEF above, nodes, new
<1>6. \A T \in SUBSET S : IsFiniteSet(T) /\ x \notin T /\ \A y \in T : <<y, x>> \in RowOrder
  BY <1>3, FS_Subset
<1>7. CASE x.depth = 0 \/ above \notin DOMAIN nodes
  <2>1. Above(x, rows) = {}
    BY <1>4, <1>7
  <2>2. new = [nodes |-> nodes, roots |-> Append(tree.roots, x), children |-> tree.children]
    BY <1>1, <1>5, <1>7
  <2>3. new.nodes = nodes /\ new.roots = Append(tree.roots, x) /\ new.children = tree.children
    BY <2>2
  <2>4. (S \cup {x}) \cap Tops(rows) = (S \cap Tops(rows)) \cup {x}
    BY <2>1 DEF Tops
  <2>5. IsInOrder(Append(tree.roots, x), (S \cup {x}) \cap Tops(rows), RowOrder)
    <3> DEFINE T == S \cap Tops(rows)
    <3>1. T \in SUBSET S
      OBVIOUS
    <3> HIDE DEF T
    <3>2. IsFiniteSet(T) /\ x \notin T /\ \A y \in T : <<y, x>> \in RowOrder
      BY <1>6, <3>1
    <3>3. IsInOrder(Append(tree.roots, x), T \cup {x}, RowOrder)
      BY <1>1, <3>2, ListsOneMore DEF T
    <3> QED
      BY <2>4, <3>3 DEF T
  <2>6. \A c \in rows : (S \cup {x}) \cap Below(c, rows) = S \cap Below(c, rows)
    BY <2>1 DEF Below
  <2>7. \A c \in rows : IsInOrder(new.children[c], (S \cup {x}) \cap Below(c, rows), RowOrder)
    BY <1>1, <2>3, <2>6
  <2>8. Stage(new, S \cup {x}, rows)
    BY <1>1, <1>2, <2>2, <2>3, <2>5, <2>7 DEF Stage
  <2> QED
    BY <2>8 DEF new
<1>8. CASE ~ (x.depth = 0 \/ above \notin DOMAIN nodes)
  <2> DEFINE d == nodes[above]
             below == [tree.children EXCEPT ![d] = Append(@, x)]
  <2>1. Above(x, rows) = {d} /\ d \in rows
    BY <1>4, <1>8
  <2>2. new = [nodes |-> nodes, roots |-> tree.roots, children |-> below]
    BY <1>1, <1>5, <1>8
  <2> HIDE DEF d
  <2>3. /\ DOMAIN below = rows /\ below[d] = Append(tree.children[d], x)
        /\ \A c \in rows : c # d => below[c] = tree.children[c]
    BY <1>1, <2>1
  <2> HIDE DEF below
  <2>4. new.nodes = nodes /\ new.roots = tree.roots /\ new.children = below
    BY <2>2
  <2>5. (S \cup {x}) \cap Tops(rows) = S \cap Tops(rows)
    BY <2>1 DEF Tops
  <2>6. (S \cup {x}) \cap Below(d, rows) = (S \cap Below(d, rows)) \cup {x}
    BY <2>1 DEF Below
  <2>7. \A c \in rows : c # d => (S \cup {x}) \cap Below(c, rows) = S \cap Below(c, rows)
    BY <2>1 DEF Below
  <2>8. IsInOrder(Append(tree.children[d], x), (S \cup {x}) \cap Below(d, rows), RowOrder)
    <3> DEFINE T == S \cap Below(d, rows)
    <3>1. T \in SUBSET S
      OBVIOUS
    <3>2. IsInOrder(tree.children[d], T, RowOrder)
      BY <1>1, <2>1
    <3> HIDE DEF T
    <3>3. IsFiniteSet(T) /\ x \notin T /\ \A y \in T : <<y, x>> \in RowOrder
      BY <1>6, <3>1
    <3>4. IsInOrder(Append(tree.children[d], x), T \cup {x}, RowOrder)
      BY <3>2, <3>3, ListsOneMore
    <3> QED
      BY <2>6, <3>4 DEF T
  <2>9. \A c \in rows : IsInOrder(below[c], (S \cup {x}) \cap Below(c, rows), RowOrder)
    BY <1>1, <2>3, <2>7, <2>8
  <2>10. Stage(new, S \cup {x}, rows)
    BY <1>1, <1>2, <2>2, <2>3, <2>4, <2>5, <2>9 DEF Stage
  <2> QED
    BY <2>10 DEF new
<1> QED
  BY <1>7, <1>8

\* The tree of the categories, whichever there are.
LEMMA TreeIsComplete ==
    ASSUME MenuAssumption, NEW rows \in SUBSET Categories,
           \A c \in rows : Len(c.path) = 1 => c.depth = 0
    PROVE  Stage(Tree(rows), rows, rows)
<1> DEFINE s == InOrder(rows, RowOrder)
           n == Cardinality(rows)
           S(k) == {s[i] : i \in 1..k}
<1>2. /\ n \in Nat /\ Len(s) = n /\ s \in [1..n -> rows]
      /\ \A c \in rows : \E i \in 1..n : s[i] = c
      /\ \A i, j \in 1..n : s[i] = s[j] => i = j
      /\ \A i, j \in 1..n : <<s[i], s[j]>> \in RowOrder <=> i < j
  BY SortedIs
<1>3. PICK f : Loops(f, s, rows, n) /\ Tree(rows) = f[n]
  BY <1>2, TreeIs
<1> HIDE DEF s, n
<1>4. /\ f[0] = [nodes |-> <<>>, roots |-> <<>>, children |-> [c \in rows |-> <<>>]]
      /\ \A k \in 1..n : f[k] = Placed(f[k - 1], s[k])
  <2> DEFINE None == [nodes |-> <<>>, roots |-> <<>>, children |-> [c \in rows |-> <<>>]]
  <2>1. f = [k \in 0..n |-> IF k = 0 THEN None ELSE Placed(f[k - 1], s[k])]
    BY <1>3 DEF Loops
  <2> HIDE DEF None
  <2>2. 0 \in 0..n /\ \A k \in 1..n : k \in 0..n /\ k # 0
    BY <1>2
  <2>3. f[0] = None
    BY <2>1, <2>2
  <2>4. \A k \in 1..n : f[k] = Placed(f[k - 1], s[k])
    BY <2>1, <2>2
  <2> QED
    BY <2>3, <2>4 DEF None
<1>5. Stage(f[0], S(0), rows)
  <2>1. S(0) = {}
    OBVIOUS
  <2> HIDE DEF S
  <2>2. f[0] = [nodes |-> f[0].nodes, roots |-> f[0].roots, children |-> f[0].children]
    BY <1>4
  <2>3. f[0].nodes = <<>> /\ f[0].roots = <<>> /\ f[0].children = [c \in rows |-> <<>>]
    BY <1>4
  <2>4. LastOf(<<>>, {})
    <3>1. DOMAIN <<>> = {}
      OBVIOUS
    <3> QED
      BY <3>1 DEF LastOf
  <2>5. DOMAIN f[0].children = rows /\ \A c \in rows : f[0].children[c] = <<>>
    BY <2>3
  <2>6. IsInOrder(f[0].roots, {} \cap Tops(rows), RowOrder)
    BY <2>3, ListsNothing
  <2>7. \A c \in rows : IsInOrder(f[0].children[c], {} \cap Below(c, rows), RowOrder)
    BY <2>5, ListsNothing
  <2> QED
    BY <2>1, <2>2, <2>3, <2>4, <2>5, <2>6, <2>7 DEF Stage
<1>6. ASSUME NEW k \in 1..n, Stage(f[k - 1], S(k - 1), rows)
      PROVE  Stage(f[k], S(k), rows)
  <2> DEFINE x == s[k]
  <2>1. x \in rows /\ S(k - 1) \in SUBSET rows
    BY <1>2
  <2>2. x \notin S(k - 1)
    BY <1>2
  <2>3. S(k) = S(k - 1) \cup {x}
    <3>1. \A i \in 1..k : i = k \/ i \in 1..k - 1
      BY <1>2
    <3>2. k \in 1..k /\ \A i \in 1..k - 1 : i \in 1..k
      BY <1>2
    <3> QED
      BY <3>1, <3>2
  <2>4. \A c \in S(k - 1) : <<c, x>> \in RowOrder
    <3>1. \A i \in 1..k - 1 : i \in 1..n /\ i < k
      BY <1>2
    <3> QED
      BY <1>2, <3>1
  <2>5. \A c \in rows : <<c, x>> \in RowOrder => c \in S(k - 1)
    <3> SUFFICES ASSUME NEW c \in rows, <<c, x>> \in RowOrder PROVE c \in S(k - 1)
      OBVIOUS
    <3>1. PICK i \in 1..n : s[i] = c
      BY <1>2
    <3>2. i < k
      BY <1>2, <3>1
    <3>3. i \in 1..k - 1
      BY <1>2, <3>2
    <3> QED
      BY <3>1, <3>3
  <2> HIDE DEF S, x
  <2>6. Stage(Placed(f[k - 1], x), S(k - 1) \cup {x}, rows)
    BY <1>6, <2>1, <2>2, <2>4, <2>5, PlacedKeeps
  <2> QED
    BY <1>4, <2>3, <2>6 DEF x
<1> HIDE DEF S
<1> DEFINE B == {k \in Nat : k <= n => Stage(f[k], S(k), rows)}
<1>7. 0 \in B
  BY <1>5
<1>8. ASSUME NEW k \in B PROVE k + 1 \in B
  <2>1. CASE k + 1 <= n
    <3>1. k + 1 \in 1..n /\ k = (k + 1) - 1 /\ k <= n
      BY <1>2, <2>1
    <3>2. Stage(f[k], S(k), rows)
      BY <3>1
    <3> QED
      BY <1>6, <3>1, <3>2
  <2> QED
    BY <2>1
<1> HIDE DEF B
<1>9. B = Nat
  BY <1>7, <1>8, CountingUp DEF B
<1>10. Stage(f[n], S(n), rows)
  BY <1>2, <1>9 DEF B
<1>11. S(n) = rows
  BY <1>2 DEF S
<1> QED
  BY <1>3, <1>10, <1>11

-----------------------------------------------------------------------------
(* The breadcrumb. *)

\* The rows of a breadcrumb.
UpTo(path, rows) == {c \in rows : IsPrefix(c.path, path)}

\* ORDER BY depth is an order of the rows of a breadcrumb.
LEMMA TrailIsList ==
    ASSUME MenuAssumption, NEW rows \in SUBSET Categories, NEW path
    PROVE  /\ IsFiniteSet(UpTo(path, rows)) /\ Linear(UpTo(path, rows), ByDepth)
           /\ IsInOrder(Trail(path, rows), UpTo(path, rows), ByDepth)
<1> DEFINE U == UpTo(path, rows)
<1>1. U \in SUBSET Categories
  BY DEF UpTo
<1>2. Trail(path, rows) = InOrder(U, ByDepth)
  BY DEF Trail, UpTo
<1> HIDE DEF U
<1>3. IsFiniteSet(U) /\ Linear(U, RowOrder) /\ \A c \in U : c.depth \in Nat
  BY <1>1, RowsAre
<1>4. \A c, d \in U : <<c, d>> \in ByDepth <=>
         c.depth < d.depth \/ (c.depth = d.depth /\ <<c, d>> \in RowOrder)
  BY <1>1 DEF ByDepth
<1>5. Linear(U, ByDepth)
  <2>1. ASSUME NEW c \in U
        PROVE  <<c, c>> \notin ByDepth
    <3>1. <<c, c>> \notin RowOrder /\ ~ (c.depth < c.depth)
      BY <1>3 DEF Linear
    <3> QED
      BY <1>4, <3>1
  <2>2. ASSUME NEW c \in U, NEW d \in U, NEW e \in U, <<c, d>> \in ByDepth, <<d, e>> \in ByDepth
        PROVE  <<c, e>> \in ByDepth
    <3>1. /\ c.depth \in Nat /\ d.depth \in Nat /\ e.depth \in Nat
          /\ c.depth < d.depth \/ (c.depth = d.depth /\ <<c, d>> \in RowOrder)
          /\ d.depth < e.depth \/ (d.depth = e.depth /\ <<d, e>> \in RowOrder)
      BY <1>3, <1>4, <2>2
    <3>2. <<c, d>> \in RowOrder /\ <<d, e>> \in RowOrder => <<c, e>> \in RowOrder
      BY <1>3 DEF Linear
    <3>3. c.depth < e.depth \/ (c.depth = e.depth /\ <<c, e>> \in RowOrder)
      BY <3>1, <3>2
    <3> QED
      BY <1>4, <3>3
  <2>3. ASSUME NEW c \in U, NEW d \in U
        PROVE  c = d \/ <<c, d>> \in ByDepth \/ <<d, c>> \in ByDepth
    <3>1. c = d \/ <<c, d>> \in RowOrder \/ <<d, c>> \in RowOrder
      BY <1>3 DEF Linear
    <3>2. c.depth < d.depth \/ c.depth = d.depth \/ d.depth < c.depth
      BY <1>3
    <3> QED
      BY <1>4, <3>1, <3>2
  <2> QED
    BY <2>1, <2>2, <2>3 DEF Linear
<1> QED
  BY <1>2, <1>3, <1>5, ListExists DEF U

\* Of two prefixes of one path the shorter is a prefix of the longer.
LEMMA PrefixesNest ==
    ASSUME NEW p \in Seq(Nat), NEW q \in Seq(Nat), NEW r \in Seq(Nat),
           IsPrefix(p, r), IsPrefix(q, r), Len(p) <= Len(q)
    PROVE  IsPrefix(p, q)
<1>1. Len(p) \in Nat /\ Len(q) \in Nat
  BY LenProperties
<1>2. /\ \A i \in 1..Len(p) : p[i] = r[i]
      /\ \A i \in 1..Len(q) : q[i] = r[i]
  BY PrefixIs
<1>3. \A i \in 1..Len(p) : i \in 1..Len(q)
  BY <1>1
<1> QED
  BY <1>2, <1>3, PrefixIs

\* A prefix of a prefix is one.
LEMMA PrefixesGoOn ==
    ASSUME NEW p \in Seq(Nat), NEW q \in Seq(Nat), NEW r \in Seq(Nat),
           IsPrefix(p, q), IsPrefix(q, r)
    PROVE  IsPrefix(p, r)
<1>1. Len(p) \in Nat /\ Len(q) \in Nat /\ Len(r) \in Nat
  BY LenProperties
<1>2. /\ Len(p) <= Len(q) /\ Len(q) <= Len(r)
      /\ \A i \in 1..Len(p) : p[i] = q[i]
      /\ \A i \in 1..Len(q) : q[i] = r[i]
  BY PrefixIs
<1>3. \A i \in 1..Len(p) : i \in 1..Len(q)
  BY <1>1, <1>2
<1> QED
  BY <1>1, <1>2, <1>3, PrefixIs

\* Without a category above, a breadcrumb is the category; else it is that of the
\* nearest, and the category.
LEMMA TrailGoesOn ==
    ASSUME MenuAssumption, NEW rows \in SUBSET Categories, Regular(rows), NEW c \in rows
    PROVE  /\ Ancestors(c, rows) = {} => Trail(c.path, rows) = <<c>>
           /\ \A d \in Ancestors(c, rows) :
                 (\A e \in Ancestors(c, rows) : Len(e.path) <= Len(d.path))
                 => Trail(c.path, rows) = Append(Trail(d.path, rows), c)
<1> DEFINE A == Ancestors(c, rows)
<1>1. /\ \A d \in rows : d.path \in Seq(Nat) /\ Len(d.path) \in Nat /\ d.depth = Len(d.path) - 1
      /\ \A d, e \in rows : d.path = e.path => d = e
  BY RowsAre DEF Regular
<1>2. \A d \in A : d \in rows /\ IsPrefix(d.path, c.path) /\ d.path # c.path
  BY DEF Ancestors, IsStrictPrefix
<1>3. UpTo(c.path, rows) = A \cup {c} /\ c \notin A
  <2>1. IsPrefix(c.path, c.path)
    BY <1>1, PrefixIs
  <2> QED
    BY <1>1, <2>1 DEF UpTo, Ancestors, IsStrictPrefix
<1>4. \A d \in A : <<d, c>> \in ByDepth
  <2> SUFFICES ASSUME NEW d \in A PROVE <<d, c>> \in ByDepth
    OBVIOUS
  <2>1. /\ d \in rows /\ d.path \in Seq(Nat) /\ c.path \in Seq(Nat)
        /\ IsPrefix(d.path, c.path) /\ d.path # c.path
        /\ Len(d.path) \in Nat /\ Len(c.path) \in Nat
    BY <1>1, <1>2
  <2>2. Len(d.path) <= Len(c.path) /\ \A i \in 1..Len(d.path) : d.path[i] = c.path[i]
    BY <2>1, PrefixIs
  <2>3. Len(d.path) # Len(c.path)
    BY <2>1, <2>2, SeqEqual
  <2>4. d.depth < c.depth
    BY <1>1, <2>1, <2>2, <2>3
  <2> QED
    BY <2>1, <2>4 DEF ByDepth
<1>5. /\ IsFiniteSet(A \cup {c}) /\ Linear(A \cup {c}, ByDepth)
      /\ IsInOrder(Trail(c.path, rows), A \cup {c}, ByDepth)
  BY <1>3, TrailIsList
<1>6. IsFiniteSet(A)
  BY <1>5, FS_Subset
<1> HIDE DEF A
<1>7. ASSUME NEW s, IsInOrder(s, A, ByDepth)
      PROVE  Trail(c.path, rows) = Append(s, c)
  <2>1. IsInOrder(Append(s, c), A \cup {c}, ByDepth)
    BY <1>3, <1>4, <1>6, <1>7, ListsOneMore
  <2> QED
    BY <1>5, <2>1, ListIsUnique
<1>8. ASSUME A = {}
      PROVE  Trail(c.path, rows) = <<c>>
  <2>1. Append(<<>>, c) = <<c>>
    OBVIOUS
  <2> QED
    BY <1>7, <1>8, <2>1, ListsNothing
<1>9. ASSUME NEW d \in A, \A e \in A : Len(e.path) <= Len(d.path)
      PROVE  Trail(c.path, rows) = Append(Trail(d.path, rows), c)
  <2>1. d \in rows /\ d.path \in Seq(Nat) /\ c.path \in Seq(Nat) /\ IsPrefix(d.path, c.path)
    BY <1>1, <1>2
  <2>2. ASSUME NEW e \in A PROVE e \in UpTo(d.path, rows)
    <3>1. e \in rows /\ e.path \in Seq(Nat) /\ IsPrefix(e.path, c.path)
      BY <1>1, <1>2
    <3>2. IsPrefix(e.path, d.path)
      BY <1>9, <2>1, <3>1, PrefixesNest
    <3> QED
      BY <3>1, <3>2 DEF UpTo
  <2>3. ASSUME NEW e \in UpTo(d.path, rows) PROVE e \in A
    <3>1. e \in rows /\ e.path \in Seq(Nat) /\ IsPrefix(e.path, d.path)
      BY <1>1 DEF UpTo
    <3>2. IsPrefix(e.path, c.path)
      BY <2>1, <3>1, PrefixesGoOn
    <3>3. e \in A \cup {c}
      BY <1>3, <3>1, <3>2 DEF UpTo
    <3>4. e # c
      <4> SUFFICES ASSUME e = c PROVE FALSE
        OBVIOUS
      <4>1. Len(c.path) <= Len(d.path)
        BY <2>1, <3>1, PrefixIs
      <4>2. Len(d.path) <= Len(c.path) /\ \A i \in 1..Len(d.path) : d.path[i] = c.path[i]
        BY <2>1, PrefixIs
      <4>3. Len(d.path) = Len(c.path)
        BY <1>1, <2>1, <4>1, <4>2
      <4>4. d.path = c.path
        BY <2>1, <4>2, <4>3, SeqEqual
      <4> QED
        BY <1>2, <4>4
    <3> QED
      BY <3>3, <3>4
  <2>4. UpTo(d.path, rows) = A
    BY <2>2, <2>3
  <2>5. IsInOrder(Trail(d.path, rows), A, ByDepth)
    BY <2>4, TrailIsList
  <2> QED
    BY <1>7, <2>5
<1> QED
  BY <1>8, <1>9 DEF A

\* The menu and its breadcrumbs are what they should be.
LEMMA MenuIsWellBuilt == MenuAssumption /\ MenuHolds => MenuIsATree
<1> SUFFICES ASSUME MenuAssumption, MenuHolds, menu # <<>>
             PROVE  MenuIsATree
  BY DEF MenuIsATree
<1> DEFINE rows == asked.rows
           tops == {c \in rows : Above(c, rows) = {}}
<1>1. /\ rows \in SUBSET Categories /\ \A c \in rows : Len(c.path) = 1 => c.depth = 0
      /\ menu = Tree(rows) /\ trails = [p \in {c.path : c \in rows} |-> Trail(p, rows)]
  BY DEF MenuHolds
<1> HIDE DEF rows
<1>2. Stage(menu, rows, rows)
  BY <1>1, TreeIsComplete
<1>3. Tops(rows) = tops /\ rows \cap tops = tops
  BY DEF Tops
<1>4. \A c \in rows : rows \cap Below(c, rows) = Below(c, rows)
  BY DEF Below
<1>5. IsInOrder(menu.roots, tops, RowOrder)
  BY <1>2, <1>3 DEF Stage
<1>6. \A c \in rows : IsInOrder(menu.children[c], Below(c, rows), RowOrder)
  BY <1>2, <1>4 DEF Stage
<1>7. \A c \in rows : trails[c.path] = Trail(c.path, rows)
  BY <1>1
<1>8. ASSUME Regular(rows), NEW c \in rows
      PROVE  /\ Ancestors(c, rows) = {} => trails[c.path] = <<c>>
             /\ \A d \in Ancestors(c, rows) :
                   (\A e \in Ancestors(c, rows) : Len(e.path) <= Len(d.path))
                   => trails[c.path] = Append(trails[d.path], c)
  <2>1. \A d \in Ancestors(c, rows) : d \in rows
    BY DEF Ancestors
  <2> QED
    BY <1>1, <1>7, <1>8, <2>1, TrailGoesOn
<1> QED
  BY <1>5, <1>6, <1>8 DEF MenuIsATree, rows

-----------------------------------------------------------------------------
(* The language. *)

\* The places of a header in the order of preference.
ByPreference(header) ==
    LET all == DOMAIN header IN {r \in all \X all : Before(r[1], r[2], header)}

\* The quality of an entry is a number.
LEMMA QualityIs ==
    ASSUME MenuAssumption, NEW e \in Preferences
    PROVE  Quality(e) \in Nat
<1>1. e.tenths \in 0..10 /\ (e.form = "none" => e.tenths = 10)
  BY DEF MenuAssumption
<1>2. CASE e.form = "q"
  BY <1>1, <1>2 DEF Quality
<1>3. CASE e.form = "unreadable"
  BY <1>1, <1>3 DEF Quality
<1>4. CASE e.form \notin {"q", "unreadable"}
  BY <1>1, <1>4 DEF Quality
<1> QED
  BY <1>2, <1>3, <1>4

\* Entries can be ranked, since those of one quality keep their order.
LEMMA PreferencesAreList ==
    ASSUME MenuAssumption, NEW header \in BoundedSeq(Preferences, MaxPreferences)
    PROVE  /\ header \in Seq(Preferences) /\ DOMAIN header = 1..Len(header) /\ Len(header) \in Nat
           /\ LET places == InOrder(DOMAIN header, ByPreference(header)) IN
              /\ places \in [1..Len(header) -> 1..Len(header)]
              /\ \A i \in 1..Len(header) : \E n \in 1..Len(header) : places[n] = i
              /\ \A m, n \in 1..Len(header) : m < n => Before(places[m], places[n], header)
<1> DEFINE n == Len(header)
           R == ByPreference(header)
<1>1. header \in Seq(Preferences)
  <2>1. PICK m \in 0..MaxPreferences : header \in [1..m -> Preferences]
    BY DEF BoundedSeq, SeqOf
  <2>2. m \in Nat
    BY <2>1 DEF MenuAssumption
  <2> QED
    BY <2>1, <2>2, SeqDef
<1>2. DOMAIN header = 1..n /\ n \in Nat /\ \A i \in 1..n : header[i] \in Preferences
  BY <1>1, LenProperties, ElementOfSeq
<1>3. \A i, j \in 1..n : <<i, j>> \in R <=> Before(i, j, header)
  BY <1>2 DEF ByPreference
<1> HIDE DEF n, R
<1>4. \A i \in 1..n : Quality(header[i]) \in Nat /\ i \in Nat
  BY <1>2, QualityIs
<1>5. Linear(1..n, R)
  BY <1>3, <1>4 DEF Linear, Before
<1>6. IsFiniteSet(1..n) /\ Cardinality(1..n) = n
  BY <1>2, FS_Interval
<1>7. IsInOrder(InOrder(1..n, R), 1..n, R)
  BY <1>5, <1>6, ListExists
<1>8. LET places == InOrder(1..n, R) IN
      /\ places \in [1..n -> 1..n]
      /\ \A i \in 1..n : \E k \in 1..n : places[k] = i
      /\ \A i, j \in 1..n : i < j => <<places[i], places[j]>> \in R
  <2> DEFINE places == InOrder(1..n, R)
  <2> HIDE DEF places
  <2>1. /\ places \in [1..n -> 1..n]
        /\ \A i \in 1..n : \E k \in 1..n : places[k] = i
        /\ \A i, j \in 1..n : i < j => <<places[i], places[j]>> \in R
    BY <1>6, <1>7 DEF IsInOrder, places
  <2> QED
    BY <2>1 DEF places
<1> QED
  BY <1>1, <1>2, <1>3, <1>8 DEF n, R

\* The first supported language of a list is that of its first place with one.
LEMMA FirstSupportedIs ==
    ASSUME NEW L, NEW languages \in Seq(L)
    PROVE  \/ /\ FirstSupported(languages) = DefaultLocale
              /\ \A k \in 1..Len(languages) : languages[k] \notin Supported
           \/ \E n \in 1..Len(languages) :
                 /\ languages[n] \in Supported /\ FirstSupported(languages) = languages[n]
                 /\ \A k \in 1..Len(languages) : languages[k] \in Supported => n <= k
<1>1. DOMAIN languages = 1..Len(languages) /\ Len(languages) \in Nat
  BY LenProperties
<1> DEFINE I == {n \in 1..Len(languages) : languages[n] \in Supported}
<1>2. CASE I = {}
  BY <1>1, <1>2 DEF FirstSupported
<1>3. CASE I # {}
  <2>1. I \in SUBSET Nat
    BY <1>1
  <2>2. \E n \in I : \A k \in I : n <= k
    BY <1>3, <2>1, LeastNumber
  <2>3. SelectInSeq(languages, LAMBDA l : l \in Supported) = Min(I)
    BY <1>3 DEF SelectInSeq
  <2>4. Min(I) \in I /\ \A k \in I : Min(I) <= k
    BY <2>2 DEF Min
  <2>5. FirstSupported(languages) = languages[Min(I)]
    BY <1>1, <1>3, <2>3 DEF FirstSupported
  <2> QED
    BY <2>4, <2>5
<1> QED
  BY <1>2, <1>3

\* The language of a header.
LEMMA NegotiatedIs ==
    ASSUME MenuAssumption, NEW header \in BoundedSeq(Preferences, MaxPreferences)
    PROVE  \/ /\ negotiate_locale(header) = DefaultLocale
              /\ \A i \in 1..Len(header) : header[i].language \notin Supported
           \/ \E j \in 1..Len(header) :
                 /\ header[j].language \in Supported
                 /\ negotiate_locale(header) = header[j].language
                 /\ \A i \in 1..Len(header) :
                       header[i].language \in Supported => i = j \/ Before(j, i, header)
<1> DEFINE places == InOrder(DOMAIN header, ByPreference(header))
           n == Len(header)
           languages == [k \in DOMAIN places |-> header[places[k]].language]
<1>1. DOMAIN header = 1..n /\ n \in Nat
  BY PreferencesAreList
<1>2. /\ places \in [1..n -> 1..n]
      /\ \A i \in 1..n : \E k \in 1..n : places[k] = i
      /\ \A m, k \in 1..n : m < k => Before(places[m], places[k], header)
  BY PreferencesAreList
<1>3. negotiate_locale(header) = FirstSupported(languages)
  BY DEF negotiate_locale, Ranked, ByPreference
<1> HIDE DEF places, n
<1>4. languages \in [1..n -> {languages[k] : k \in 1..n}]
  BY <1>2
<1>5. \A k \in 1..n : languages[k] = header[places[k]].language /\ places[k] \in 1..n
  BY <1>2
<1> HIDE DEF languages
<1>6. /\ languages \in Seq({languages[k] : k \in 1..n}) /\ Len(languages) = n
  BY <1>1, <1>4
<1>7. CASE /\ FirstSupported(languages) = DefaultLocale
           /\ \A k \in 1..n : languages[k] \notin Supported
  <2>1. \A i \in 1..n : header[i].language \notin Supported
    <3> TAKE i \in 1..n
    <3>1. PICK k \in 1..n : places[k] = i
      BY <1>2
    <3> QED
      BY <1>5, <1>7, <3>1
  <2> QED
    BY <1>3, <1>7, <2>1 DEF n
<1>8. ASSUME NEW m \in 1..n, languages[m] \in Supported, FirstSupported(languages) = languages[m],
             \A k \in 1..n : languages[k] \in Supported => m <= k
      PROVE  \E j \in 1..n :
                 /\ header[j].language \in Supported
                 /\ negotiate_locale(header) = header[j].language
                 /\ \A i \in 1..n : header[i].language \in Supported => i = j \/ Before(j, i, header)
  <2> DEFINE j == places[m]
  <2>1. j \in 1..n /\ languages[m] = header[j].language
    BY <1>5
  <2>2. ASSUME NEW i \in 1..n, header[i].language \in Supported
        PROVE  i = j \/ Before(j, i, header)
    <3>1. PICK k \in 1..n : places[k] = i
      BY <1>2
    <3>2. m <= k
      BY <1>5, <1>8, <2>2, <3>1
    <3>3. m = k \/ m < k
      BY <1>1, <3>2
    <3> QED
      BY <1>2, <3>1, <3>3
  <2> HIDE DEF j
  <2> QED
    BY <1>3, <1>8, <2>1, <2>2
<1> QED
  BY <1>6, <1>7, <1>8, FirstSupportedIs DEF n

\* What a reader is answered in.
LEMMA MenuIsSpoken == MenuAssumption /\ MenuHolds => SpokenAsAsked
<1> SUFFICES ASSUME MenuAssumption, MenuHolds
             PROVE  SpokenAsAsked
  OBVIOUS
<1> DEFINE header == asked.header
           wanted == {i \in DOMAIN header : header[i].language \in Supported}
           Best(i) == \A j \in wanted \ {i} :
                         \/ Quality(header[j]) < Quality(header[i])
                         \/ Quality(header[j]) = Quality(header[i]) /\ i < j
<1>1. /\ asked.explicit \in Supported \cup {NoHeader}
      /\ header \in BoundedSeq(Preferences, MaxPreferences)
      /\ locale = get_locale(asked.explicit, header)
      /\ \A c \in asked.rows : names[c] = resolve_translation(c.texts, locale)
  BY DEF MenuHolds
<1>2. DOMAIN header = 1..Len(header) /\ Len(header) \in Nat /\ header \in Seq(Preferences)
  BY <1>1, PreferencesAreList
<1>3. /\ asked.explicit \in Supported => locale = asked.explicit
      /\ asked.explicit = NoHeader => locale = negotiate_locale(header)
  BY <1>1 DEF get_locale, MenuAssumption
<1>4. negotiate_locale(header) \in Supported
  BY <1>1, NegotiatedIs DEF MenuAssumption
<1>5. locale \in Supported
  BY <1>1, <1>3, <1>4
<1>6. ASSUME asked.explicit = NoHeader, wanted = {}
      PROVE  locale = DefaultLocale
  BY <1>1, <1>2, <1>3, <1>6, NegotiatedIs
<1>7. ASSUME asked.explicit = NoHeader, wanted # {}
      PROVE  \E i \in wanted : Best(i) /\ locale = header[i].language
  <2>1. PICK i \in wanted : TRUE
    BY <1>7
  <2>2. i \in 1..Len(header) /\ header[i].language \in Supported
    BY <1>2
  <2>3. PICK j \in 1..Len(header) :
            /\ header[j].language \in Supported
            /\ negotiate_locale(header) = header[j].language
            /\ \A k \in 1..Len(header) :
                  header[k].language \in Supported => k = j \/ Before(j, k, header)
    BY <1>1, <2>2, NegotiatedIs
  <2>4. j \in wanted
    BY <1>2, <2>3
  <2>5. \A k \in wanted \ {j} : Before(j, k, header)
    BY <1>2, <2>3
  <2>6. \A k \in wanted : Quality(header[k]) \in Nat
    <3>1. \A k \in 1..Len(header) : header[k] \in Preferences
      BY <1>2, ElementOfSeq
    <3> QED
      BY <1>2, <3>1, QualityIs
  <2>7. Best(j)
    BY <2>4, <2>5, <2>6 DEF Before
  <2> QED
    BY <1>3, <1>7, <2>3, <2>4, <2>7
<1>8. ASSUME NEW c \in asked.rows
      PROVE  /\ locale \in {"sv", "en"} \cap c.texts => names[c] = locale
             /\ {"sv", "en"} \cap c.texts # {} => names[c] \in {"sv", "en"}
             /\ c.texts # {} => names[c] \in c.texts
  <2>1. names[c] = resolve_translation(c.texts, locale)
    BY <1>1
  <2>2. Chain(locale) = IF locale = "en" THEN <<"en", "sv">> ELSE <<"sv", "en">>
    BY DEF Chain
  <2>3. locale = "en" => Chain(locale)[1] = "en" /\ Chain(locale)[2] = "sv"
    BY <2>2
  <2>4. locale # "en" => Chain(locale)[1] = "sv" /\ Chain(locale)[2] = "en"
    BY <2>2
  <2> QED
    BY <2>1, <2>3, <2>4 DEF resolve_translation
<1> QED
  BY <1>3, <1>5, <1>6, <1>7, <1>8 DEF SpokenAsAsked

\* Without headers the answer is in the default language.
LEMMA NothingAsked ==
    MenuAssumption => /\ <<>> \in BoundedSeq(Preferences, MaxPreferences)
                      /\ get_locale(NoHeader, <<>>) = DefaultLocale
<1> SUFFICES ASSUME MenuAssumption
             PROVE  /\ <<>> \in BoundedSeq(Preferences, MaxPreferences)
                    /\ get_locale(NoHeader, <<>>) = DefaultLocale
  OBVIOUS
<1>1. 0 \in 0..MaxPreferences /\ <<>> \in [1..0 -> Preferences]
  BY DEF MenuAssumption
<1>2. <<>> \in BoundedSeq(Preferences, MaxPreferences)
  BY <1>1 DEF BoundedSeq, SeqOf
<1>3. negotiate_locale(<<>>) = DefaultLocale
  <2>1. ~ \E j \in 1..Len(<<>>) : TRUE
    OBVIOUS
  <2> QED
    BY <1>2, <2>1, NegotiatedIs
<1> QED
  BY <1>2, <1>3 DEF get_locale, MenuAssumption

\* No menu, nothing asked.
LEMMA MenuInitHolds == MenuAssumption /\ MenuInit => MenuHolds
<1> SUFFICES ASSUME MenuAssumption, MenuInit
             PROVE  MenuHolds
  OBVIOUS
<1>1. /\ asked.explicit = NoHeader /\ asked.header = <<>> /\ asked.rows = {}
      /\ menu = <<>> /\ locale = DefaultLocale
      /\ asked = [explicit |-> NoHeader, header |-> <<>>, rows |-> {}]
  BY DEF MenuInit
<1>2. asked \in [explicit : Supported \cup {NoHeader},
                 header : BoundedSeq(Preferences, MaxPreferences), rows : SUBSET Categories]
  BY <1>1, NothingAsked
<1> QED
  BY <1>1, <1>2, NothingAsked DEF MenuHolds

\* Nor after the menu is left.
LEMMA CloseMenuHolds == MenuAssumption /\ CloseMenu => MenuHolds'
<1> SUFFICES ASSUME MenuAssumption, CloseMenu
             PROVE  MenuHolds'
  OBVIOUS
<1>1. /\ asked'.explicit = NoHeader /\ asked'.header = <<>> /\ asked'.rows = {}
      /\ menu' = <<>> /\ locale' = DefaultLocale
      /\ asked' = [explicit |-> NoHeader, header |-> <<>>, rows |-> {}]
  BY DEF CloseMenu
<1>2. asked' \in [explicit : Supported \cup {NoHeader},
                  header : BoundedSeq(Preferences, MaxPreferences), rows : SUBSET Categories]
  BY <1>1, NothingAsked
<1> QED
  BY <1>1, <1>2, NothingAsked DEF MenuHolds

\* The menu that opens has all its categories.
LEMMA OpenMenuHolds ==
    ASSUME MenuAssumption, NEW headers \in Headers, NEW rows \in SUBSET Categories,
           OpenMenu(headers, rows)
    PROVE  MenuHolds'
<1>1. /\ asked'.explicit = headers.explicit /\ asked'.header = headers.header
      /\ asked'.rows = rows
      /\ asked' = [explicit |-> headers.explicit, header |-> headers.header, rows |-> rows]
      /\ \A c \in rows : Len(c.path) = 1 => c.depth = 0
      /\ menu' = Tree(rows) /\ trails' = [p \in {c.path : c \in rows} |-> Trail(p, rows)]
      /\ locale' = get_locale(headers.explicit, headers.header)
      /\ names' = [c \in rows |-> resolve_translation(c.texts, locale')]
  BY DEF OpenMenu
<1>2. asked' \in [explicit : Supported \cup {NoHeader},
                  header : BoundedSeq(Preferences, MaxPreferences), rows : SUBSET Categories]
  BY <1>1 DEF Headers
<1>3. menu' # <<>>
  <2>1. Stage(menu', rows, rows)
    BY <1>1, TreeIsComplete
  <2>2. menu' = [nodes |-> menu'.nodes, roots |-> menu'.roots, children |-> menu'.children]
    BY <2>1 DEF Stage
  <2>3. "nodes" \in DOMAIN menu'
    BY <2>2
  <2> QED
    BY <2>3
<1>4. \A c \in rows : names'[c] = resolve_translation(c.texts, locale')
  BY <1>1
<1> QED
  BY <1>1, <1>2, <1>3, <1>4 DEF MenuHolds

\* The menu leads to its categories.
LEMMA MenuLeads ==
    ASSUME MenuAssumption, MenuHolds, menu # <<>>, NEW path \in DOMAIN menu.nodes
    PROVE  path \in Seq(Nat)
<1>1. /\ asked.rows \in SUBSET Categories /\ menu = Tree(asked.rows)
      /\ \A c \in asked.rows : Len(c.path) = 1 => c.depth = 0
  BY DEF MenuHolds
<1>2. Stage(menu, asked.rows, asked.rows)
  BY <1>1, TreeIsComplete
<1>3. DOMAIN menu.nodes = {c.path : c \in asked.rows}
  BY <1>2 DEF Stage, LastOf
<1>4. \A c \in asked.rows : c.path \in Seq(Nat)
  BY <1>1, RowsAre
<1> QED
  BY <1>3, <1>4

USE CatalogueAssumption

-----------------------------------------------------------------------------
(* The order of creation, and what a cursor of it leaves. *)

\* Newer is a strict total order on the products.
LEMMA NewerOrder ==
    ASSUME NEW x \in Products, NEW y \in Products, NEW z \in Products
    PROVE  /\ Newer(x, y) /\ Newer(y, z) => Newer(x, z)
           /\ ~(Newer(x, y) /\ Newer(y, x))
           /\ x = y \/ Newer(x, y) \/ Newer(y, x)
  <1>1. /\ product[x].created \in Nat /\ product[y].created \in Nat
        /\ product[z].created \in Nat /\ x \in Nat /\ y \in Nat /\ z \in Nat
    OBVIOUS
  <1> QED  BY <1>1 DEF Newer

\* What matches is listed.
LEMMA MatchesAreListed ==
    ASSUME NEW q, NEW products, NEW variants
    PROVE  MatchesIn(q, products, variants) \subseteq products
  BY DEF MatchesIn, RowsOf

\* A category alone matches whatever it matched with brands chosen.
LEMMA WiderWithoutBrands ==
    ASSUME query \in ListQueries,
           query = [OfCategory(query.category) EXCEPT !.brands = query.brands,
                                                      !.sort = query.sort]
    PROVE  /\ OfCategory(query.category) \in ListQueries
           /\ Matches(query) \subseteq Matches(OfCategory(query.category))
  <1> DEFINE wide == OfCategory(query.category)
  <1>1. wide \in ListQueries
    BY DEF OfCategory, ListQueries, Sorts
  <1>2. /\ query.search = NoTerm /\ query.tags = {} /\ query.low = 0 /\ query.high = Dearest
        /\ wide.search = NoTerm /\ wide.tags = {} /\ wide.low = 0 /\ wide.high = Dearest
        /\ wide.brands = {} /\ wide.category = query.category
    BY DEF OfCategory
  <1>3. ASSUME NEW v \in Variants, Fits(query, v)
        PROVE  Fits(wide, v)
    BY <1>2, <1>3 DEF Fits
  <1>4. Rows(query) \cap Variants \subseteq Rows(wide)
    BY <1>3 DEF Rows, RowsOf
  <1>5. ASSUME NEW v \in onSale, Fits(query, v)
        PROVE  Fits(wide, v)
    BY <1>2, <1>5 DEF Fits
  <1> QED  BY <1>1, <1>5 DEF Matches, MatchesIn, RowsOf

\* A page of the order of creation is what comes first of it: no candidate
\* behind the cursor it ends with is on the page, and every other one is.
LEMMA PageIsAHead ==
    ASSUME NEW q \in ListQueries, q.sort # "rating", listed \subseteq Products,
           NEW c, NEW next \in Products, next # NoProduct, IsNext(next, q, c)
    PROVE  \A p \in Candidates(q, c) : p \in Page(q, c) <=> ~Past(next, p)
  <1> DEFINE found == Candidates(q, c)
             Earlier(p) == {x \in found : Ahead(q.sort, x, p)}
  <1>1. found \subseteq Products /\ IsFiniteSet(found)
    <2>1. found \subseteq Products
      BY MatchesAreListed DEF Candidates, Matches
    <2> QED  BY <2>1, FS_Subset
  <1>2. /\ next \in Page(q, c) /\ next \in found
        /\ \A x \in Page(q, c) \ {next} : Newer(x, next)
    BY DEF IsNext, Page, Ahead
  <1>3. \A p \in found : Earlier(p) = {x \in found : Newer(x, p)}
    BY DEF Ahead
  <1>4. \A p \in found : p \in Page(q, c) <=> Cardinality(Earlier(p)) < Clamped(q.limit)
    BY DEF Page
  <1>5. Clamped(q.limit) \in Nat
    BY DEF Clamped, ListQueries
  <1>6. \A p \in found : IsFiniteSet(Earlier(p)) /\ Cardinality(Earlier(p)) \in Nat
    BY <1>1, FS_Subset, FS_CardinalityType
  <1>7. ASSUME NEW p \in found, Newer(p, next)
        PROVE  p \in Page(q, c)
    <2>1. ASSUME NEW x \in found, Newer(x, p)
          PROVE  Newer(x, next)
      BY <2>1, <1>1, <1>2, <1>7, NewerOrder
    <2>2. Earlier(p) \subseteq Earlier(next)
      BY <2>1, <1>2, <1>3
    <2>3. Cardinality(Earlier(p)) <= Cardinality(Earlier(next))
      BY <2>2, <1>2, <1>6, FS_Subset
    <2> HIDE DEF found, Earlier
    <2> QED  BY <2>3, <1>2, <1>4, <1>5, <1>6, <1>7
  <1>8. ASSUME NEW p \in found
        PROVE  p \in Page(q, c) <=> ~Newer(next, p)
    <2>1. CASE p = next
      BY <2>1, <1>2, NewerOrder
    <2>2. CASE p # next
      BY <2>2, <1>1, <1>2, <1>7, <1>8, NewerOrder
    <2> QED  BY <2>1, <2>2
  <1> QED  BY <1>8 DEF Past

-----------------------------------------------------------------------------
(* The visitor's steps. *)

\* At first nothing is shown.
LEMMA PagingInit == CatalogueInit => PagingInv
  <1> SUFFICES ASSUME CatalogueInit PROVE PagingInv
    OBVIOUS
  <1>1. OfCategory(<<>>) \in ListQueries
    BY DEF OfCategory, ListQueries, Sorts
  <1>2. CatalogueTypeOK
    <2>1. query \in ListQueries
      BY <1>1 DEF CatalogueInit
    <2>2. answer.items = {} /\ answer.next = NoProduct /\ DOMAIN answer = DOMAIN NoAnswer
      BY DEF CatalogueInit, NoAnswer
    <2>3. opened \in [of : Products \cup {NoProduct}, offers : SUBSET Variants]
      BY DEF CatalogueInit, NotOpened
    <2>4. changes \in 0..MaxChanges
      BY DEF CatalogueInit
    <2> QED  BY <2>1, <2>2, <2>3, <2>4 DEF CatalogueInit, CatalogueTypeOK
  <1>3. PagesInOrder /\ EachOnce
    BY DEF CatalogueInit, PagesInOrder, EachOnce, Loading, Found, Reading
  <1> QED  BY <1>2, <1>3 DEF PagingInv

\* A listing that begins has shown nothing, and all that matches is steady.
LEMMA BeginKeeps ==
    ASSUME PagingInv, NEW q \in ListQueries, Begin(q), changes' \in 0..MaxChanges
    PROVE  PagingInv'
  <1>1. Matches(q) \subseteq Products
    BY MatchesAreListed DEF Matches, PagingInv, CatalogueTypeOK
  <1>2. Matches(q) = Matches(query)'
    BY DEF Begin, Matches, catalogueRows
  <1>3. CatalogueTypeOK'
    BY <1>1 DEF Begin, PagingInv, CatalogueTypeOK, catalogueRows, NoAnswer, Loading
  <1>4. PagesInOrder' /\ EachOnce'
    BY <1>2 DEF Begin, PagesInOrder, EachOnce, Loading, Found, Reading, Past
  <1> QED  BY <1>3, <1>4 DEF PagingInv

\* A new listing, from an address or a link.
LEMMA BrowseKeeps ==
    ASSUME PagingInv, NEW q \in ListQueries, Browse(q)
    PROVE  PagingInv'
  BY BeginKeeps DEF Browse

\* A listing with one brand more or less.
LEMMA ToggleKeeps ==
    ASSUME PagingInv, NEW b \in Brands, Toggle(b)
    PROVE  PagingInv'
  <1> DEFINE q == [query EXCEPT !.brands = IF b \in @ THEN @ \ {b} ELSE @ \cup {b}]
  <1>1. q \in ListQueries
    BY DEF PagingInv, CatalogueTypeOK, ListQueries
  <1>2. Begin(q) /\ changes' \in 0..MaxChanges
    BY DEF Toggle, PagingInv, CatalogueTypeOK
  <1> HIDE DEF q
  <1> QED  BY <1>1, <1>2, BeginKeeps

\* The cursor divides what has been seen from what is still to come.
LEMMA ContinueKeeps ==
    ASSUME PagingInv, NEW q \in ListQueries, Continue(q),
           Matches(query) \subseteq Matches(q)
    PROVE  PagingInv'
  <1>1. CatalogueTypeOK'
    BY DEF Continue, PagingInv, CatalogueTypeOK, catalogueRows, NoAnswer, Loading
  <1>2. Matches(q) = Matches(query)'
    BY DEF Continue, Matches, catalogueRows
  <1>3. step = "shown" /\ steady \subseteq Matches(query)
    BY DEF Continue, PagingInv, PagesInOrder
  <1>4. ASSUME ~misplaced'
        PROVE  /\ \A p \in shown : ~Past(answer.next, p)
               /\ \A p \in steady \ shown : Past(answer.next, p)
    <2>1. ~misplaced /\ query.sort # "rating" /\ answer.next # NoProduct
      BY <1>4 DEF Continue, PagingInv, CatalogueTypeOK
    <2>2. shown \cup answer.items = shown
      BY <1>3 DEF PagingInv, PagesInOrder, Reading
    <2> QED  BY <2>1, <2>2, <1>3 DEF PagingInv, PagesInOrder, Reading
  <1>5. PagesInOrder'
    BY <1>2, <1>3, <1>4 DEF Continue, PagesInOrder, Loading, Found, Reading, Past
  <1>6. EachOnce'
    BY DEF Continue, PagingInv, CatalogueTypeOK, EachOnce
  <1> QED  BY <1>1, <1>5, <1>6 DEF PagingInv

\* The next page of the same listing.
LEMMA NextPageKeeps ==
    ASSUME PagingInv, NextPage
    PROVE  PagingInv'
  BY ContinueKeeps DEF NextPage, PagingInv, CatalogueTypeOK

\* The next page without the brands and the order.
LEMMA LoadMoreKeeps ==
    ASSUME PagingInv, LoadMore
    PROVE  PagingInv'
  BY ContinueKeeps, WiderWithoutBrands DEF LoadMore, PagingInv, CatalogueTypeOK

\* The page of a product is read beside the listing.
LEMMA OpenKeeps ==
    ASSUME PagingInv, (\E p \in Products : Open(p)) \/ Back
    PROVE  PagingInv'
  <1>1. UNCHANGED <<listed, onSale, query, cursor, answer, shown, twice, steady, misplaced, changes>>
    BY DEF Open, Back, catalogueRows, listingVars
  <1>2. Reading /\ Reading' /\ ~Loading' /\ ~Found' /\ step' # "home"
    BY DEF Open, Back, Reading, Loading, Found
  <1>3. opened' \in [of : Products \cup {NoProduct}, offers : SUBSET Variants]
    BY DEF Open, Back, NotOpened, PagingInv, CatalogueTypeOK
  <1>4. CatalogueTypeOK'
    BY <1>1, <1>2, <1>3 DEF PagingInv, CatalogueTypeOK
  <1>5. PagesInOrder'
    BY <1>1, <1>2 DEF PagingInv, PagesInOrder, Matches, Past, Reading
  <1>6. EachOnce'
    BY <1>1, <1>2 DEF PagingInv, PagesInOrder, EachOnce
  <1> QED  BY <1>4, <1>5, <1>6 DEF PagingInv

-----------------------------------------------------------------------------
(* The handler's queries, and the catalogue's changes. *)

\* The page found divides the steady products into seen and still to come.
LEMMA SearchKeeps ==
    ASSUME PagingInv, Search
    PROVE  PagingInv'
  <1> PICK next \in Products \cup {NoProduct} :
         /\ IsNext(next, query, cursor)
         /\ Answer("asked", "searched",
                   [answer EXCEPT !.items = Page(query, cursor), !.next = next])
    BY DEF Search
  <1>1. /\ step = "asked" /\ step' = "searched"
        /\ UNCHANGED <<listed, onSale, query, cursor, opened, steady, misplaced, changes,
                       shown, twice>>
    BY DEF Search, Answer, catalogueRows
  <1>2. /\ answer'.items = Page(query, cursor) /\ answer'.next = next
        /\ DOMAIN answer' = DOMAIN answer
    BY DEF Answer, PagingInv, CatalogueTypeOK, NoAnswer
  <1>3. Candidates(query, cursor) \subseteq Products /\ Page(query, cursor) \subseteq Candidates(query, cursor)
    BY MatchesAreListed DEF Candidates, Matches, Page, PagingInv, CatalogueTypeOK
  <1>4. CatalogueTypeOK'
    BY <1>1, <1>2, <1>3 DEF PagingInv, CatalogueTypeOK, Loading, NoAnswer
  <1>5. steady \subseteq Matches(query) /\ Matches(query)' = Matches(query)
    BY <1>1 DEF PagingInv, PagesInOrder, Matches
  <1>6. ASSUME ~misplaced
        PROVE  /\ \A p \in shown : p \in Products /\ ~Past(cursor, p)
               /\ \A p \in steady \ shown : Past(cursor, p) /\ p \in Candidates(query, cursor)
    BY <1>1, <1>5, <1>6 DEF PagingInv, CatalogueTypeOK, PagesInOrder, Loading, Candidates
  <1>7. ASSUME ~misplaced, next = NoProduct
        PROVE  steady \subseteq shown \cup Page(query, cursor)
    BY <1>3, <1>6, <1>7 DEF IsNext
  <1>8. ASSUME ~misplaced, next # NoProduct, query.sort # "rating"
        PROVE  /\ \A p \in shown \cup Page(query, cursor) : ~Past(next, p)
               /\ \A p \in steady \ (shown \cup Page(query, cursor)) : Past(next, p)
    <2>1. \A p \in Candidates(query, cursor) : p \in Page(query, cursor) <=> ~Past(next, p)
      BY <1>8, PageIsAHead DEF PagingInv, CatalogueTypeOK
    <2>2. next \in Candidates(query, cursor) /\ next \in Products
      BY <1>8, <1>3 DEF IsNext
    <2>3. ASSUME NEW p \in shown
          PROVE  ~Past(next, p)
      <3>1. p \in Products /\ ~Past(cursor, p) /\ Past(cursor, next)
        BY <1>6, <1>8, <2>2 DEF Candidates
      <3>2. cursor \in Products /\ ~Newer(cursor, p) /\ Newer(cursor, next)
        BY <3>1 DEF Past, PagingInv, CatalogueTypeOK
      <3>3. ~Newer(next, p)
        BY <3>1, <3>2, <2>2, NewerOrder
      <3> QED  BY <3>3, <1>8 DEF Past
    <2> QED  BY <2>1, <2>3, <1>3, <1>6, <1>8
  <1>9. ASSUME ~misplaced
        PROVE  \A p \in Page(query, cursor) : Past(cursor, p)
    BY <1>3 DEF Candidates
  <1>10. PagesInOrder'
    BY <1>1, <1>2, <1>5, <1>6, <1>7, <1>8, <1>9 DEF PagesInOrder, Past, Loading, Found, Reading
  <1>11. EachOnce'
    BY <1>1 DEF PagingInv, EachOnce
  <1> QED  BY <1>4, <1>10, <1>11 DEF PagingInv

\* The queries about the page, its total, its brands and its prices.
LEMMA AnswerKeeps ==
    ASSUME PagingInv, LoadVariants \/ Count \/ BrandFacets
    PROVE  PagingInv'
  <1>1. /\ Found /\ Found' /\ Loading' /\ ~Reading' /\ step' # "home" /\ step' # "shown"
        /\ UNCHANGED <<listed, onSale, query, cursor, opened, steady, misplaced, changes,
                       shown, twice>>
    BY DEF LoadVariants, Count, BrandFacets, Answer, catalogueRows, Found, Loading, Reading
  <1>2. /\ answer'.items = answer.items /\ answer'.next = answer.next
        /\ DOMAIN answer' = DOMAIN answer
    <2>1. DOMAIN answer = DOMAIN NoAnswer
      BY DEF PagingInv, CatalogueTypeOK
    <2>2. CASE LoadVariants
      BY <2>1, <2>2 DEF LoadVariants, Answer, NoAnswer
    <2>3. CASE Count
      BY <2>1, <2>3 DEF Count, Answer, NoAnswer
    <2>4. CASE BrandFacets
      BY <2>1, <2>4 DEF BrandFacets, Answer, NoAnswer
    <2> QED  BY <2>2, <2>3, <2>4
  <1>3. CatalogueTypeOK'
    BY <1>1, <1>2 DEF PagingInv, CatalogueTypeOK, NoAnswer
  <1>4. PagesInOrder'
    BY <1>1, <1>2 DEF PagingInv, PagesInOrder, Matches, Past, Loading, Found
  <1>5. EachOnce'
    BY <1>1 DEF PagingInv, EachOnce
  <1> QED  BY <1>3, <1>4, <1>5 DEF PagingInv

\* What is shown now was shown on no page before: it is behind the cursor.
LEMMA PriceBoundsKeeps ==
    ASSUME PagingInv, PriceBounds
    PROVE  PagingInv'
  <1>1. /\ step = "faceted" /\ step' = "shown"
        /\ UNCHANGED <<listed, onSale, query, cursor, opened, steady, misplaced, changes>>
        /\ shown' = shown \cup answer.items
        /\ twice' = twice \cup (shown \cap answer.items)
    BY DEF PriceBounds, Answer, catalogueRows
  <1>2. /\ answer'.items = answer.items /\ answer'.next = answer.next
        /\ DOMAIN answer' = DOMAIN answer
    BY DEF PriceBounds, Answer, NoAnswer, PagingInv, CatalogueTypeOK
  <1>3. CatalogueTypeOK'
    BY <1>1, <1>2 DEF PagingInv, CatalogueTypeOK, Reading, NoAnswer
  <1>4. shown' \cup answer'.items = shown \cup answer.items
    BY <1>1, <1>2
  <1>5. PagesInOrder'
    BY <1>1, <1>2, <1>4 DEF PagingInv, PagesInOrder, Matches, Past, Loading, Found, Reading
  <1>6. EachOnce'
    BY <1>1, <1>2 DEF PagingInv, PagesInOrder, EachOnce, Loading, Found
  <1> QED  BY <1>3, <1>5, <1>6 DEF PagingInv

LEMMA FailKeeps ==
    ASSUME PagingInv, Fail
    PROVE  PagingInv'
  <1>1. /\ Loading /\ Loading' /\ ~Found' /\ ~Reading' /\ step' = "asked" /\ step # "home"
        /\ answer' = NoAnswer
        /\ UNCHANGED <<listed, onSale, query, cursor, opened, steady, misplaced, changes,
                       shown, twice>>
    BY DEF Fail, catalogueRows, listingVars, Loading, Found, Reading
  <1>2. CatalogueTypeOK'
    BY <1>1 DEF PagingInv, CatalogueTypeOK, NoAnswer
  <1>3. PagesInOrder'
    BY <1>1 DEF PagingInv, PagesInOrder, Matches, Past
  <1>4. EachOnce'
    BY <1>1 DEF PagingInv, EachOnce
  <1> QED  BY <1>2, <1>3, <1>4 DEF PagingInv

\* A change of the catalogue can only make fewer products steady.
LEMMA ChangeKeeps ==
    ASSUME PagingInv, NEW products \in SUBSET Products, NEW variants \in SUBSET Variants,
           Change(products, variants)
    PROVE  PagingInv'
  <1>1. /\ steady' \subseteq steady /\ steady' \subseteq Matches(query)'
        /\ UNCHANGED <<query, cursor, step, answer, opened, shown, twice, misplaced>>
    BY DEF Change, Matches
  <1>2. changes' \in 0..MaxChanges
    BY DEF Change, PagingInv, CatalogueTypeOK
  <1>3. CatalogueTypeOK'
    BY <1>1, <1>2 DEF Change, PagingInv, CatalogueTypeOK, Loading, Reading
  <1>4. PagesInOrder'
    BY <1>1 DEF PagingInv, PagesInOrder, Past, Loading, Found, Reading
  <1>5. EachOnce'
    BY <1>1 DEF PagingInv, EachOnce
  <1> QED  BY <1>3, <1>4, <1>5 DEF PagingInv

\* Every step of the listing.
LEMMA PagingStep == PagingInv /\ [CatalogueNext]_catalogueVars => PagingInv'
  <1> SUFFICES ASSUME PagingInv, [CatalogueNext]_catalogueVars
               PROVE  PagingInv'
    OBVIOUS
  <1>1. CASE Visitor
    BY <1>1, BrowseKeeps, ToggleKeeps, OpenKeeps, NextPageKeeps, LoadMoreKeeps DEF Visitor
  <1>2. CASE Handler
    BY <1>2, SearchKeeps, AnswerKeeps, PriceBoundsKeeps, FailKeeps DEF Handler
  <1>3. CASE \E p \in Products : Publish(p) \/ Withdraw(p)
    BY <1>3, ChangeKeeps DEF Publish, Withdraw, PagingInv, CatalogueTypeOK
  <1>4. CASE \E v \in Variants : Retire(v)
    BY <1>4, ChangeKeeps DEF Retire, PagingInv, CatalogueTypeOK
  <1>5. CASE UNCHANGED catalogueVars
    BY <1>5 DEF catalogueVars, catalogueRows, listingVars, PagingInv, CatalogueTypeOK,
                PagesInOrder, EachOnce, Matches, Past, Loading, Found, Reading
  <1> QED  BY <1>1, <1>2, <1>3, <1>4, <1>5 DEF CatalogueNext

-----------------------------------------------------------------------------
(* Lowest and highest. *)

\* Of any numbers there is a lowest.
LEMMA LowestIs ==
    ASSUME NEW S \in SUBSET Nat, S # {}
    PROVE  Lowest(S) \in S /\ \A n \in S : Lowest(S) <= n
<1>1. \E m \in S : \A k \in S : m <= k
  BY LeastNumber
<1> QED
  BY <1>1 DEF Lowest

\* And a highest, below a bound.
LEMMA HighestIs ==
    ASSUME NEW b \in Nat, NEW S \in SUBSET (0..b), S # {}
    PROVE  Highest(S) \in S /\ \A n \in S : n <= Highest(S)
<1> DEFINE T == {n \in Nat : \A m \in S : m <= n}
<1>1. T \in SUBSET Nat /\ b \in T
  OBVIOUS
<1>2. \E n \in T : \A k \in T : n <= k
  BY <1>1, LeastNumber
<1>3. PICK n \in Nat : (\A m \in S : m <= n) /\ \A k \in T : n <= k
  BY <1>2
<1>4. n \in S
  <2> SUFFICES ASSUME n \notin S PROVE FALSE
    OBVIOUS
  <2>1. \A m \in S : m \in Nat /\ m < n
    BY <1>3
  <2>2. PICK s \in S : s < n
    BY <2>1
  <2>3. n # 0 /\ n - 1 \in Nat
    BY <2>1, <2>2
  <2>4. n - 1 \in T
    BY <2>1, <2>3
  <2> QED
    BY <1>3, <2>3, <2>4
<1> QED
  BY <1>3, <1>4 DEF Highest

-----------------------------------------------------------------------------
(* One answer. *)

\* What the queries say depends on nothing but the catalogue.
LEMMA SameAnswers ==
    ASSUME UNCHANGED <<listed, onSale, query, cursor>>
    PROVE  /\ Page(query, cursor)' = Page(query, cursor)
           /\ \A n : IsNext(n, query, cursor)' <=> IsNext(n, query, cursor)
           /\ \A p : PriceFrom(p)' = PriceFrom(p)
           /\ Matches(query)' = Matches(query)
           /\ Facets(query)' = Facets(query)
           /\ Rows(query)' = Rows(query)
<1>1. /\ Matches(query)' = Matches(query)
      /\ Rows(query)' = Rows(query)
  BY DEF Matches, Rows
<1>2. Facets(query)' = Facets(query)
  BY DEF Facets, Matches
<1>3. \A p : PriceFrom(p)' = PriceFrom(p)
  BY DEF PriceFrom
<1>4. Candidates(query, cursor)' = Candidates(query, cursor)
  BY <1>1 DEF Candidates, Matches
<1>5. Page(query, cursor)' = Page(query, cursor)
  BY <1>4 DEF Page, Candidates, Matches
<1>6. \A n : IsNext(n, query, cursor)' <=> IsNext(n, query, cursor)
  BY <1>4, <1>5 DEF IsNext
<1> QED
  BY <1>1, <1>2, <1>3, <1>5, <1>6

\* A listing that begins has no answer yet, and may have been promised counts.
LEMMA BeginAgrees ==
    ASSUME NEW q, Begin(q), changes' = 0 /\ promised' # NoFacets => promised' = Facets(query)'
    PROVE  AnswersAgree'
<1>1. step' = "asked"
  BY DEF Begin
<1> QED
  BY <1>1 DEF AnswersAgree, Found, Reading

\* A click on a brand is promised the counts beside it, which do not depend on the
\* brands chosen.
LEMMA ToggleAgrees ==
    ASSUME PagingInv, AnswersAgree, NEW b \in Brands, Toggle(b)
    PROVE  AnswersAgree'
<1> DEFINE q == [query EXCEPT !.brands = IF b \in @ THEN @ \ {b} ELSE @ \cup {b}]
<1>1. /\ Begin(q) /\ step = "shown" /\ promised' = answer.facets /\ changes' = changes
      /\ query' = q /\ listed' = listed /\ onSale' = onSale
  BY DEF Toggle, Begin, catalogueRows
<1>2. Unfiltered(q) = Unfiltered(query)
  <2>1. query \in ListQueries
    BY DEF PagingInv, CatalogueTypeOK
  <2> QED
    BY <2>1 DEF Unfiltered, ListQueries
<1> HIDE DEF q
<1>3. Facets(query)' = Facets(query)
  <2>1. Unfiltered(query)' = Unfiltered(query)
    BY <1>1, <1>2 DEF Unfiltered
  <2> QED
    BY <1>1, <2>1 DEF Facets, Matches
<1>4. changes = 0 => answer.facets = Facets(query)
  BY <1>1 DEF AnswersAgree, Reading
<1> QED
  BY <1>1, <1>3, <1>4, BeginAgrees

\* The next page is asked for, with no promise.
LEMMA ContinueAgrees ==
    ASSUME NEW q, Continue(q)
    PROVE  AnswersAgree'
<1>1. step' = "asked" /\ promised' = NoFacets
  BY DEF Continue
<1> QED
  BY <1>1 DEF AnswersAgree, Found, Reading

\* What is on the page is listed, while the catalogue rests.
LEMMA OpenAgrees ==
    ASSUME AnswersAgree, NEW p \in Products, Open(p)
    PROVE  AnswersAgree'
<1>1. /\ step = "shown" /\ p \in answer.items
      /\ step' = IF p \in listed THEN "detail" ELSE "missing"
      /\ opened' = [of |-> p, offers |-> {v \in onSale : variant[v].of = p /\ p \in listed}]
      /\ UNCHANGED <<listed, onSale, query, cursor, answer, promised, changes>>
  BY DEF Open, catalogueRows, listingVars
<1> SUFFICES ASSUME changes = 0 PROVE AnswersAgree'
  BY <1>1 DEF AnswersAgree
<1>2. answer.items = Page(query, cursor)
  BY <1>1 DEF AnswersAgree, Reading
<1>3. p \in listed
  BY <1>1, <1>2, MatchesAreListed DEF Page, Candidates, Matches
<1>4. step' = "detail" /\ opened'.of = p /\ opened'.offers = {v \in onSale : variant[v].of = p}
  BY <1>1, <1>3
<1>5. /\ Reading' /\ Reading
  BY <1>1, <1>4 DEF Reading
<1> QED
  BY <1>1, <1>4, <1>5, SameAnswers DEF AnswersAgree

\* The page of the listing is still as it was.
LEMMA BackAgrees ==
    ASSUME AnswersAgree, Back
    PROVE  AnswersAgree'
<1>1. /\ step' = "shown" /\ Reading /\ Reading'
      /\ UNCHANGED <<listed, onSale, query, cursor, answer, promised, changes>>
  BY DEF Back, catalogueRows, listingVars, Reading
<1> QED
  BY <1>1, SameAnswers DEF AnswersAgree

\* Each query of the handler answers about the catalogue as it is, and leaves the
\* answers of those before it.
LEMMA HandlerAgrees ==
    ASSUME PagingInv, AnswersAgree, Handler
    PROVE  AnswersAgree'
<1>1. /\ UNCHANGED <<listed, onSale, query, cursor, promised, changes>>
      /\ step' \in {"asked", "searched", "loaded", "counted", "faceted", "shown"}
      /\ step # "missing" /\ step # "detail" /\ step' # "missing" /\ step' # "detail"
  BY DEF Handler, Search, LoadVariants, Count, BrandFacets, PriceBounds, Fail, Answer,
         catalogueRows, listingVars
<1> SUFFICES ASSUME changes = 0 PROVE AnswersAgree'
  BY <1>1 DEF AnswersAgree
<1>2. DOMAIN answer = DOMAIN NoAnswer
  BY DEF PagingInv, CatalogueTypeOK
<1>3. promised' # NoFacets => promised' = Facets(query)'
  BY <1>1, SameAnswers DEF AnswersAgree
<1>4. CASE Search
  <2>1. /\ step' = "searched" /\ answer'.items = Page(query, cursor)
        /\ IsNext(answer'.next, query, cursor)
    BY <1>2, <1>4 DEF Search, Answer, NoAnswer
  <2> QED
    BY <1>1, <1>3, <2>1, SameAnswers DEF AnswersAgree, Found, Reading
<1>5. CASE LoadVariants
  <2>1. /\ step = "searched" /\ step' = "loaded"
        /\ answer'.items = answer.items /\ answer'.next = answer.next
        /\ answer'.from = [p \in answer.items |-> PriceFrom(p)]
    BY <1>2, <1>5 DEF LoadVariants, Answer, NoAnswer
  <2> QED
    BY <1>1, <1>3, <2>1, SameAnswers DEF AnswersAgree, Found, Reading
<1>6. CASE Count
  <2>1. /\ step = "loaded" /\ step' = "counted"
        /\ answer'.items = answer.items /\ answer'.next = answer.next
        /\ answer'.from = answer.from /\ answer'.total = Cardinality(Matches(query))
    BY <1>2, <1>6 DEF Count, Answer, NoAnswer
  <2> QED
    BY <1>1, <1>3, <2>1, SameAnswers DEF AnswersAgree, Found, Reading
<1>7. CASE BrandFacets
  <2>1. /\ step = "counted" /\ step' = "faceted"
        /\ answer'.items = answer.items /\ answer'.next = answer.next
        /\ answer'.from = answer.from /\ answer'.total = answer.total
        /\ answer'.facets = Facets(query)
    BY <1>2, <1>7 DEF BrandFacets, Answer, NoAnswer
  <2> QED
    BY <1>1, <1>3, <2>1, SameAnswers DEF AnswersAgree, Found, Reading
<1>8. CASE PriceBounds
  <2>1. /\ step = "faceted" /\ step' = "shown"
        /\ answer'.items = answer.items /\ answer'.next = answer.next
        /\ answer'.from = answer.from /\ answer'.total = answer.total
        /\ answer'.facets = answer.facets
        /\ answer'.low = Lowest(Prices(Rows(query)))
        /\ answer'.high = Highest(Prices(Rows(query)))
    BY <1>2, <1>8 DEF PriceBounds, Answer, NoAnswer
  <2> QED
    BY <1>1, <1>3, <2>1, SameAnswers DEF AnswersAgree, Found, Reading
<1>9. CASE Fail
  <2>1. step' = "asked"
    BY <1>9 DEF Fail
  <2> QED
    BY <1>3, <2>1 DEF AnswersAgree, Found, Reading
<1> QED
  BY <1>4, <1>5, <1>6, <1>7, <1>8, <1>9 DEF Handler

\* Every step of the listing. A change is the end of the rest.
LEMMA AgreeStep ==
    PagingInv /\ AnswersAgree /\ [CatalogueNext]_catalogueVars => AnswersAgree'
<1> SUFFICES ASSUME PagingInv, AnswersAgree, [CatalogueNext]_catalogueVars
             PROVE  AnswersAgree'
  OBVIOUS
<1>1. ASSUME NEW q \in Queries, Browse(q) PROVE AnswersAgree'
  BY <1>1, BeginAgrees DEF Browse
<1>2. CASE \/ \E b \in Brands : Toggle(b)
           \/ \E p \in Products : Open(p)
           \/ NextPage \/ LoadMore \/ Back
  BY <1>2, ToggleAgrees, OpenAgrees, ContinueAgrees, BackAgrees DEF NextPage, LoadMore
<1>3. ASSUME NEW products, NEW variants, Change(products, variants) PROVE AnswersAgree'
  <2>1. changes' = changes + 1 /\ changes \in Nat
    BY <1>3 DEF Change, PagingInv, CatalogueTypeOK
  <2> QED
    BY <2>1 DEF AnswersAgree
<1>4. CASE \/ \E p \in Products : Publish(p) \/ Withdraw(p)
           \/ \E v \in Variants : Retire(v)
  BY <1>3, <1>4 DEF Publish, Withdraw, Retire
<1>5. CASE UNCHANGED catalogueVars
  <2>1. UNCHANGED <<listed, onSale, query, cursor, step, answer, opened, promised, changes>>
    BY <1>5 DEF catalogueVars, catalogueRows, listingVars
  <2> QED
    BY <2>1, SameAnswers DEF AnswersAgree, Found, Reading
<1> QED
  BY <1>1, <1>2, <1>4, <1>5, HandlerAgrees DEF CatalogueNext, Visitor

-----------------------------------------------------------------------------
(* What agrees adds up. *)

\* What matches is a finite part of what matches under any brand: that of the
\* brands chosen.
LEMMA MatchesByBrand ==
    ASSUME PagingInv
    PROVE  /\ Matches(query) \subseteq Products /\ IsFiniteSet(Matches(query))
           /\ Matches(Unfiltered(query)) \subseteq Products
           /\ IsFiniteSet(Matches(Unfiltered(query)))
           /\ query.brands = {} => Matches(query) = Matches(Unfiltered(query))
           /\ query.brands # {} =>
                 Matches(query) = {p \in Matches(Unfiltered(query)) : product[p].brand \in query.brands}
<1>1. query \in ListQueries /\ listed \subseteq Products
  BY DEF PagingInv, CatalogueTypeOK
<1>2. /\ Matches(query) \subseteq Products /\ Matches(Unfiltered(query)) \subseteq Products
  BY <1>1, MatchesAreListed DEF Matches
<1>3. IsFiniteSet(Matches(query)) /\ IsFiniteSet(Matches(Unfiltered(query)))
  BY <1>2, FS_Subset
<1> DEFINE wide == Unfiltered(query)
<1>4. /\ wide.search = query.search /\ wide.category = query.category /\ wide.tags = query.tags
      /\ wide.low = query.low /\ wide.high = query.high /\ wide.brands = {}
  BY <1>1 DEF Unfiltered, ListQueries
<1> HIDE DEF wide
<1>5. \A v : Fits(query, v) <=>
                /\ Fits(wide, v)
                /\ query.brands # {} => product[variant[v].of].brand \in query.brands
  BY <1>4 DEF Fits
<1>6. \A p : p \in Matches(query) <=>
                /\ p \in Matches(wide)
                /\ query.brands # {} => product[p].brand \in query.brands
  BY <1>5 DEF Matches, MatchesIn, RowsOf
<1> QED
  BY <1>2, <1>3, <1>6 DEF wide

\* There are as many brands as products, at most.
LEMMA BrandsAreFew == IsFiniteSet(Brands)
<1> DEFINE B == {S \in SUBSET Products : IsFiniteSet({product[p].brand : p \in S})}
<1>1. {} \in B
  <2>1. {product[p].brand : p \in {}} = {}
    OBVIOUS
  <2> QED
    BY <2>1, FS_EmptySet
<1>2. ASSUME NEW S \in B, NEW x \in Products \ S
      PROVE  S \cup {x} \in B
  <2>1. {product[p].brand : p \in S \cup {x}} = {product[p].brand : p \in S} \cup {product[x].brand}
    OBVIOUS
  <2>2. IsFiniteSet({product[p].brand : p \in S} \cup {product[x].brand})
    BY FS_AddElement
  <2> QED
    BY <2>1, <2>2
<1>0. B \in SUBSET SUBSET Products /\ IsFiniteSet(Products)
  OBVIOUS
<1> HIDE DEF B
<1>3. Products \in B
  BY <1>0, <1>1, <1>2, GrowingSets
<1>4. IsFiniteSet({product[p].brand : p \in Products})
  BY <1>3 DEF B
<1> QED
  BY <1>4, FS_Subset DEF Brands

\* The products of a part of the brands, counted brand by brand.
LEMMA CountedByBrand ==
    ASSUME NEW all, IsFiniteSet(all), NEW facets, NEW K \in SUBSET Brands,
           \A b \in K : facets[b] = Cardinality(OfBrand(b, all))
    PROVE  SumFunctionOnSet(facets, K) = Cardinality({p \in all : product[p].brand \in K})
<1> DEFINE S     == {p \in all : product[p].brand \in K}
           one   == [p \in S |-> 1]
           class == [p \in S |-> product[p].brand]
           in    == [b \in K |-> OfBrand(b, all)]
<1>1. IsFiniteSet(S)
  BY FS_Subset
<1>2. \A T \in SUBSET S : SumFunctionOnSet(one, T) = Cardinality(T)
  BY <1>1, CardinalityIsSum
<1>3. \A b \in K : in[b] \in SUBSET S
  BY DEF OfBrand
<1>4. Classes(in, class, S, K)
  BY <1>3 DEF Classes, OfBrand
<1>5. \A b \in K : facets[b] = SumFunctionOnSet(one, in[b])
  BY <1>2, <1>3
<1>6. IsFiniteSet(K)
  BY BrandsAreFew, FS_Subset
<1>7. \A p \in S : one[p] \in Int
  OBVIOUS
<1> HIDE DEF S, one, class, in
<1>8. SumFunctionOnSet(facets, K) = SumFunctionOnSet(one, S)
  BY <1>1, <1>4, <1>5, <1>6, <1>7, SumOfClasses
<1> QED
  BY <1>2, <1>8 DEF S

\* The counts of the brands chosen add up to the total; without a choice, those of
\* all brands and what has no brand do.
LEMMA FacetsAddUp ==
    ASSUME PagingInv
    PROVE  /\ query.brands # {} =>
                 Cardinality(Matches(query))
                   = SumFunctionOnSet(Facets(query), query.brands \cap DOMAIN Facets(query))
           /\ query.brands = {} =>
                 Cardinality(Matches(query))
                   = SumFunction(Facets(query))
                       + Cardinality(OfBrand(NoBrand, Matches(Unfiltered(query))))
<1> DEFINE all == Matches(Unfiltered(query))
           K   == {product[p].brand : p \in all} \ {NoBrand}
<1>1. /\ all \subseteq Products /\ IsFiniteSet(all)
      /\ query.brands \subseteq Brands
  BY MatchesByBrand DEF PagingInv, CatalogueTypeOK, ListQueries
<1>2. K \subseteq Brands
  BY <1>1 DEF Brands
<1>3. DOMAIN Facets(query) = K /\ \A b \in K : Facets(query)[b] = Cardinality(OfBrand(b, all))
  BY DEF Facets
<1> HIDE DEF all
<1>4. ASSUME query.brands # {}
      PROVE  Cardinality(Matches(query))
               = SumFunctionOnSet(Facets(query), query.brands \cap DOMAIN Facets(query))
  <2> DEFINE picked == query.brands \cap K
  <2>1. \A p \in all : product[p].brand \in query.brands <=> product[p].brand \in picked
    BY <1>1 DEF Brands
  <2>2. Matches(query) = {p \in all : product[p].brand \in picked}
    BY <1>4, <2>1, MatchesByBrand DEF all
  <2>3. picked \in SUBSET Brands /\ \A b \in picked : Facets(query)[b] = Cardinality(OfBrand(b, all))
    BY <1>2, <1>3
  <2>4. query.brands \cap DOMAIN Facets(query) = picked
    BY <1>3
  <2> HIDE DEF picked, K
  <2> QED
    BY <1>1, <2>2, <2>3, <2>4, CountedByBrand
<1>5. ASSUME query.brands = {}
      PROVE  Cardinality(Matches(query)) = SumFunction(Facets(query)) + Cardinality(OfBrand(NoBrand, all))
  <2> DEFINE branded == {p \in all : product[p].brand \in K}
             plain   == OfBrand(NoBrand, all)
  <2>1. Matches(query) = all
    BY <1>5, MatchesByBrand DEF all
  <2>2. branded = all \ plain /\ all \cap plain = plain
    BY DEF OfBrand
  <2>3. Cardinality(branded) = Cardinality(all) - Cardinality(plain)
    BY <1>1, <2>2, FS_Difference
  <2>4. SumFunction(Facets(query)) = SumFunctionOnSet(Facets(query), K)
    BY <1>3 DEF SumFunction
  <2>5. SumFunctionOnSet(Facets(query), K) = Cardinality(branded)
    <3> HIDE DEF K
    <3> QED
      BY <1>1, <1>2, <1>3, CountedByBrand
  <2>6. Cardinality(all) \in Nat /\ Cardinality(plain) \in Nat
    BY <1>1, FS_Subset, FS_CardinalityType DEF OfBrand
  <2> HIDE DEF K, branded, plain
  <2> QED
    BY <2>1, <2>3, <2>4, <2>5, <2>6 DEF plain
<1> QED
  BY <1>4, <1>5 DEF all

\* A first page is all there is exactly when it has as many as the total.
LEMMA TotalTells ==
    ASSUME PagingInv, NEW next \in Products \cup {NoProduct}, IsNext(next, query, NoProduct)
    PROVE  next = NoProduct <=> Cardinality(Matches(query)) = Cardinality(Page(query, NoProduct))
<1>1. Candidates(query, NoProduct) = Matches(query)
  BY DEF Candidates, Past
<1>2. Page(query, NoProduct) \subseteq Matches(query)
  BY <1>1 DEF Page
<1>3. Cardinality(Matches(query)) = Cardinality(Page(query, NoProduct))
        <=> Page(query, NoProduct) = Matches(query)
  BY <1>2, MatchesByBrand, FS_Subset
<1>4. NoProduct \notin Page(query, NoProduct)
  BY <1>2, MatchesByBrand
<1> QED
  BY <1>1, <1>3, <1>4 DEF IsNext

\* A card shows the price of the cheapest offer, which is not above the highest one
\* that matches; nor below the lowest when no price and no word is asked for.
LEMMA CardsWithinBounds ==
    ASSUME PagingInv, NEW p \in Matches(query)
    PROVE  /\ PriceFrom(p) <= Highest(Prices(Rows(query)))
           /\ PriceFrom(p) < Lowest(Prices(Rows(query))) =>
                 /\ query.low > 0 \/ query.search # NoTerm
                 /\ \A w \in onSale : variant[w].of = p /\ variant[w].price = PriceFrom(p)
                                     => ~Fits(query, w)
<1> DEFINE offers == {v \in onSale : variant[v].of = p}
<1>1. /\ query \in ListQueries /\ onSale \subseteq Variants
  BY DEF PagingInv, CatalogueTypeOK
<1>2. PICK v \in onSale : variant[v].of = p /\ p \in listed /\ Fits(query, v)
  BY DEF Matches, MatchesIn, RowsOf
<1>3. v \in offers /\ v \in Rows(query) /\ Rows(query) \subseteq Variants
  BY <1>1, <1>2 DEF Rows, RowsOf
<1>4. \A w \in Variants : variant[w].price \in 0..Dearest
  OBVIOUS
<1>5. /\ Prices(offers) \in SUBSET (0..Dearest) /\ Prices(Rows(query)) \in SUBSET (0..Dearest)
      /\ variant[v].price \in Prices(offers) /\ variant[v].price \in Prices(Rows(query))
  BY <1>1, <1>3, <1>4 DEF Prices
<1>6. /\ Lowest(Prices(offers)) \in Prices(offers)
      /\ Lowest(Prices(offers)) <= variant[v].price
  <2>1. \A n \in 0..Dearest : n \in Nat
    OBVIOUS
  <2> HIDE DEF offers
  <2>2. Prices(offers) \in SUBSET Nat /\ Prices(offers) # {}
    BY <1>5, <2>1
  <2> QED
    BY <1>5, <2>2, LowestIs
<1>7. variant[v].price <= Highest(Prices(Rows(query))) /\ Highest(Prices(Rows(query))) \in Nat
  <2> DEFINE S == Prices(Rows(query))
  <2>1. /\ S \in SUBSET (0..Dearest) /\ variant[v].price \in S
        /\ \A n \in 0..Dearest : n \in Nat
    BY <1>5
  <2> HIDE DEF S
  <2>2. Dearest \in Nat /\ S # {}
    BY <2>1
  <2>3. Highest(S) \in S /\ \A n \in S : n <= Highest(S)
    BY <2>1, <2>2, HighestIs
  <2>4. Highest(S) \in Nat
    BY <2>1, <2>2, <2>3
  <2> QED
    BY <2>1, <2>3, <2>4 DEF S
<1>8. PriceFrom(p) = Lowest(Prices(offers))
  BY DEF PriceFrom
<1>9. PriceFrom(p) \in Nat /\ variant[v].price \in Nat
  BY <1>5, <1>6, <1>8
<1>10. ASSUME NEW w \in onSale, variant[w].of = p, variant[w].price = PriceFrom(p), Fits(query, w)
       PROVE  /\ Lowest(Prices(Rows(query))) <= PriceFrom(p)
              /\ Lowest(Prices(Rows(query))) \in Nat
  <2> DEFINE S == Prices(Rows(query))
  <2>1. w \in Rows(query)
    BY <1>2, <1>10 DEF Rows, RowsOf
  <2>2. variant[w].price \in S /\ S \in SUBSET Nat
    BY <1>5, <2>1 DEF Prices
  <2> HIDE DEF S
  <2>3. Lowest(S) \in S /\ Lowest(S) <= variant[w].price
    BY <2>2, LowestIs
  <2> QED
    BY <1>10, <2>2, <2>3 DEF S
<1>11. ASSUME query.low = 0, query.search = NoTerm
       PROVE  /\ Lowest(Prices(Rows(query))) <= PriceFrom(p)
              /\ Lowest(Prices(Rows(query))) \in Nat
  <2>1. PICK w \in offers : variant[w].price = PriceFrom(p)
    BY <1>6, <1>8 DEF Prices
  <2>2. variant[w].price \in Nat /\ variant[w].price <= variant[v].price /\ variant[v].price \in Nat
    BY <1>1, <1>2, <1>4, <1>6, <1>8, <2>1
  <2>3. query.low \in Nat /\ query.high \in Nat
    BY <1>1 DEF ListQueries
  <2>4. variant[v].price \in query.low..query.high
    BY <1>2 DEF Fits
  <2>5. variant[w].price \in query.low..query.high
    BY <1>11, <2>2, <2>3, <2>4
  <2>6. Fits(query, w)
    BY <1>2, <1>11, <2>1, <2>5 DEF Fits
  <2> QED
    BY <1>10, <2>1, <2>6
<1>12. query.low \in Nat
  BY <1>1 DEF ListQueries
<1> HIDE DEF offers
<1>13. ASSUME PriceFrom(p) < Lowest(Prices(Rows(query)))
       PROVE  /\ query.low > 0 \/ query.search # NoTerm
              /\ \A w \in onSale : variant[w].of = p /\ variant[w].price = PriceFrom(p)
                                  => ~Fits(query, w)
  <2> DEFINE low == Lowest(Prices(Rows(query)))
             from == PriceFrom(p)
  <2>1. from \in Nat /\ from < low
    BY <1>9, <1>13
  <2>2. ASSUME NEW w \in onSale, variant[w].of = p, variant[w].price = PriceFrom(p), Fits(query, w)
        PROVE  FALSE
    <3>1. low <= from /\ low \in Nat
      BY <1>10, <2>2
    <3> HIDE DEF low, from
    <3> QED
      BY <2>1, <3>1
  <2>3. ASSUME query.low = 0, query.search = NoTerm
        PROVE  FALSE
    <3>1. low <= from /\ low \in Nat
      BY <1>11, <2>3
    <3> HIDE DEF low, from
    <3> QED
      BY <2>1, <3>1
  <2>4. query.low > 0 \/ query.search # NoTerm
    BY <1>12, <2>3
  <2> QED
    BY <2>2, <2>4
<1> QED
  BY <1>6, <1>7, <1>8, <1>9, <1>13

\* The parts of an answer that agree add up.
LEMMA AgreementAddsUp == PagingInv /\ AnswersAgree => AnswerAddsUp
<1> SUFFICES ASSUME PagingInv, AnswersAgree, changes = 0, Reading
             PROVE  AnswerAddsUp
  BY DEF AnswerAddsUp, Reading
<1>1. /\ answer.items = Page(query, cursor) /\ IsNext(answer.next, query, cursor)
      /\ answer.from = [p \in answer.items |-> PriceFrom(p)]
      /\ answer.total = Cardinality(Matches(query))
      /\ answer.facets = Facets(query)
      /\ answer.low = Lowest(Prices(Rows(query)))
      /\ answer.high = Highest(Prices(Rows(query)))
      /\ promised # NoFacets => promised = Facets(query)
      /\ step # "missing"
      /\ step = "detail" =>
            /\ opened.of \in answer.items
            /\ opened.offers = {v \in onSale : variant[v].of = opened.of}
  BY DEF AnswersAgree
<1>2. answer.next \in Products \cup {NoProduct} /\ answer.items \subseteq Matches(query)
  BY <1>1 DEF PagingInv, CatalogueTypeOK, Page, Candidates
<1>3. cursor = NoProduct =>
         (answer.next = NoProduct <=> answer.total = Cardinality(answer.items))
  BY <1>1, <1>2, TotalTells
<1>4. /\ query.brands # {} =>
            answer.total = SumFunctionOnSet(answer.facets, query.brands \cap DOMAIN answer.facets)
      /\ query.brands = {} =>
            answer.total = SumFunction(answer.facets)
                             + Cardinality(OfBrand(NoBrand, Matches(Unfiltered(query))))
  BY <1>1, FacetsAddUp
<1>5. \A p \in answer.items :
         /\ answer.from[p] <= answer.high
         /\ answer.from[p] < answer.low =>
               /\ query.low > 0 \/ query.search # NoTerm
               /\ \A v \in onSale : variant[v].of = p /\ variant[v].price = answer.from[p]
                                   => ~Fits(query, v)
  BY <1>1, <1>2, CardsWithinBounds
<1>6. step = "detail" => Lowest(Prices(opened.offers)) = answer.from[opened.of]
  BY <1>1 DEF PriceFrom
<1> QED
  BY <1>1, <1>3, <1>4, <1>5, <1>6 DEF AnswerAddsUp

-----------------------------------------------------------------------------
(* The visit. *)

\* Before the first answer nothing has been said.
LEMMA CatalogueInitHolds == CatalogueInit => CatalogueInv
<1> SUFFICES ASSUME CatalogueInit
             PROVE  CatalogueInv
  OBVIOUS
<1>1. AnswersAgree
  BY DEF CatalogueInit, AnswersAgree, Found, Reading
<1> QED
  BY <1>1, PagingInit DEF CatalogueInv

\* Every step of the listing keeps both parts.
LEMMA CatalogueStep == CatalogueInv /\ [CatalogueNext]_catalogueVars => CatalogueInv'
  BY PagingStep, AgreeStep DEF CatalogueInv

\* A category of the menu is a listing like any other.
LEMMA EnterKeeps ==
    ASSUME MenuAssumption, VisitInv, Enter
    PROVE  VisitInv'
<1>1. menu # <<>> /\ CloseMenu
  BY DEF Enter, CloseMenu
<1>2. PICK path \in DOMAIN menu.nodes : Browse(OfCategory(path))
  BY DEF Enter
<1>3. path \in Seq(Nat)
  BY <1>1, MenuLeads DEF VisitInv
<1>4. OfCategory(path) \in ListQueries
  BY <1>3 DEF OfCategory, ListQueries, Sorts
<1>5. PagingInv'
  BY <1>2, <1>4, BrowseKeeps DEF VisitInv, CatalogueInv
<1>6. AnswersAgree'
  BY <1>2, BeginAgrees DEF Browse
<1> QED
  BY <1>1, <1>5, <1>6, CloseMenuHolds DEF VisitInv, CatalogueInv

\* Every step of a visit.
LEMMA VisitStep == MenuAssumption /\ VisitInv /\ [VisitNext]_visitVars => VisitInv'
<1> SUFFICES ASSUME MenuAssumption, VisitInv, [VisitNext]_visitVars
             PROVE  VisitInv'
  OBVIOUS
<1>1. CASE Home
  <2>1. CatalogueInv'
    BY <1>1, CatalogueStep DEF Home, VisitInv
  <2>2. PICK headers \in Headers, rows \in SUBSET Categories : OpenMenu(headers, rows)
    BY <1>1 DEF Home, MenuNext
  <2> QED
    BY <2>1, <2>2, OpenMenuHolds DEF VisitInv
<1>2. CASE Enter
  BY <1>2, EnterKeeps
<1>3. CASE Leave
  BY <1>3, CatalogueStep, CloseMenuHolds DEF Leave, VisitInv
<1>4. ASSUME UNCHANGED menuVars
      PROVE  MenuHolds'
  BY <1>4 DEF menuVars, MenuHolds, VisitInv
<1>5. CASE Listing
  BY <1>4, <1>5, CatalogueStep DEF Listing, VisitInv
<1>6. CASE UNCHANGED visitVars
  BY <1>4, <1>6, CatalogueStep DEF visitVars, VisitInv
<1> QED
  BY <1>1, <1>2, <1>3, <1>5, <1>6 DEF VisitNext

\* What the pages of a visit say is what was asked of the rows there were, and
\* what has been paged through is all that came before the cursor: for any
\* categories, products and variants, and any limits of headers and pages.
THEOREM VisitInvariance == VisitSpec => []VisitInv
<1>1. VisitInit => VisitInv
  BY CatalogueInitHolds, MenuInitHolds, MenuAssumption DEF VisitInit, VisitInv
<1>2. VisitInv /\ [VisitNext]_visitVars => VisitInv'
  BY VisitStep, MenuAssumption
<1> QED
  BY <1>1, <1>2, PTL DEF VisitSpec

\* A visitor who pages on in the order of creation sees nothing twice and
\* misses nothing that was there all along (repository.search).
THEOREM PagingShowsEachOnce == VisitSpec => []EachOnce
<1>1. VisitInv => EachOnce
  BY DEF VisitInv, CatalogueInv, PagingInv
<1> QED
  BY VisitInvariance, <1>1, PTL

\* The parts of one answer agree although each is a query of its own, while the
\* catalogue rests: the total and the cursor, the total and the counts of the
\* brands, a card and its page; no card is above the bounds of prices, and one
\* below them shows a variant that does not fit what was asked, which takes a
\* lowest price or a search term (CatalogService.list, default_variant).
THEOREM AnswersAddUp == VisitSpec => []AnswerAddsUp
<1>1. VisitInv => AnswerAddsUp
  BY AgreementAddsUp DEF VisitInv, CatalogueInv
<1> QED
  BY VisitInvariance, <1>1, PTL

\* One loop over the rows in their order builds the whole tree: each row once,
\* below the last row whose path is one slug shorter, or as a root if it is stored
\* as one or there is none, roots and children in the order of the rows. Where no
\* two rows share a path and the depths are those of the paths, a breadcrumb is
\* that of the nearest category above, and the category (category_tree,
\* breadcrumb). For any rows and any collation that puts a path before those
\* that continue it.
THEOREM MenusAreTrees == VisitSpec => []MenuIsATree
<1>1. VisitInv => MenuIsATree
  BY MenuIsWellBuilt, MenuAssumption DEF VisitInv
<1> QED
  BY VisitInvariance, <1>1, PTL

\* The language is that of the page's address, or else the first of the best
\* supported one of the browser, by the qualities as the parser reads them, or the
\* default one (get_locale, negotiate_locale). A name is in it if it is Swedish or
\* English and the name has a text in it, in a third language only without a text
\* in these two, and blank only without any (resolve_translation).
THEOREM AnswersAreInTheirLanguage == VisitSpec => []SpokenAsAsked
<1>1. VisitInv => SpokenAsAsked
  BY MenuIsSpoken, MenuAssumption DEF VisitInv
<1> QED
  BY VisitInvariance, <1>1, PTL
=============================================================================
