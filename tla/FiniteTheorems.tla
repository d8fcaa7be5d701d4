---------------------------- MODULE FiniteTheorems ----------------------------
(***************************************************************************)
(* Sums and lists of finite sets, by induction over them.                  *)
(*                                                                         *)
(* SumFunctionOnSet takes the elements of a set in an order nobody knows;  *)
(* it does not matter.  InOrder takes them in the order of a relation;     *)
(* when that is a strict linear order, there is one such list.             *)
(***************************************************************************)
EXTENDS Ordering, Functions, FiniteSetTheorems, WellFoundedInduction

-----------------------------------------------------------------------------
(* Induction, for sets instead of predicates. *)

\* Among any numbers there is a least one.
LEMMA LeastNumber ==
    ASSUME NEW S \in SUBSET Nat, S # {}
    PROVE  \E m \in S : \A k \in S : m <= k
<1>1. PICK m \in S : \A k \in S : ~ (<<k, m>> \in OpToRel(<, Nat))
  BY NatLessThanWellFounded, WFMin
<1>2. ASSUME NEW k \in S
      PROVE  m <= k
  <2>1. k \in Nat /\ m \in Nat
    OBVIOUS
  <2>2. ~ (k < m)
    BY <1>1, <2>1 DEF OpToRel
  <2> QED
    BY <2>1, <2>2
<1> QED
  BY <1>2

\* What holds for 0 and goes from each number to the next holds for all.
LEMMA CountingUp ==
    ASSUME NEW B \in SUBSET Nat, 0 \in B, \A n \in B : n + 1 \in B
    PROVE  B = Nat
<1> SUFFICES ASSUME Nat \ B # {} PROVE FALSE
  OBVIOUS
<1>1. PICK m \in Nat \ B : \A k \in Nat \ B : m <= k
  BY LeastNumber
<1>2. m # 0 /\ m - 1 \in Nat
  OBVIOUS
<1>3. m - 1 \in B
  BY <1>1, <1>2
<1> QED
  BY <1>2, <1>3

\* What holds of the empty set, and goes from each subset to any with one
\* element more, holds of a finite set.
LEMMA GrowingSets ==
    ASSUME NEW S, IsFiniteSet(S), NEW B \in SUBSET SUBSET S, {} \in B,
           \A T \in B : \A x \in S \ T : T \cup {x} \in B
    PROVE  S \in B
<1> DEFINE N == {n \in Nat : \A T \in SUBSET S : Cardinality(T) = n => T \in B}
<1>1. \A T \in SUBSET S : IsFiniteSet(T) /\ Cardinality(T) \in Nat
  BY FS_Subset, FS_CardinalityType
<1>2. 0 \in N
  BY <1>1, FS_EmptySet
<1>3. ASSUME NEW n \in N PROVE n + 1 \in N
  <2> SUFFICES ASSUME NEW T \in SUBSET S, Cardinality(T) = n + 1
               PROVE  T \in B
    OBVIOUS
  <2>1. T # {}
    BY FS_EmptySet
  <2>2. PICK x \in T : TRUE
    BY <2>1
  <2>3. Cardinality(T \ {x}) = n
    BY <1>1, FS_RemoveElement
  <2>4. T \ {x} \in B
    BY <2>3
  <2>5. (T \ {x}) \cup {x} = T
    OBVIOUS
  <2> QED
    BY <2>4, <2>5
<1> HIDE DEF N
<1>4. N = Nat
  BY <1>2, <1>3, CountingUp DEF N
<1> QED
  BY <1>1, <1>4 DEF N

-----------------------------------------------------------------------------
(* The equation of the sum. *)

\* The element that is taken next.
First(T) == CHOOSE x \in T : TRUE

\* g is the sum of f on the subsets of S.
Sums(g, f, S) ==
    g = [T \in SUBSET S |-> IF T = {} THEN 0 ELSE f[First(T)] + g[T \ {First(T)}]]

\* There is such a function.
LEMMA SumsExist ==
    ASSUME NEW f, NEW S, IsFiniteSet(S)
    PROVE  \E g : Sums(g, f, S)
<1> DEFINE Next(g) == [T \in SUBSET S |-> IF T = {} THEN 0 ELSE f[First(T)] + g[T \ {First(T)}]]
           N == {n \in Nat : \E g : \A T \in SUBSET S : Cardinality(T) <= n => g[T] = Next(g)[T]}
<1>1. \A T \in SUBSET S : IsFiniteSet(T) /\ Cardinality(T) \in Nat
  BY FS_Subset, FS_CardinalityType
<1>2. \A T \in SUBSET S : T # {} =>
         First(T) \in T /\ T \ {First(T)} \in SUBSET S /\ Cardinality(T \ {First(T)}) = Cardinality(T) - 1
  BY <1>1, FS_RemoveElement DEF First
<1>3. 0 \in N
  <2> DEFINE g == [T \in SUBSET S |-> 0]
  <2>1. \A T \in SUBSET S : Cardinality(T) <= 0 => g[T] = Next(g)[T]
    BY <1>1, FS_EmptySet
  <2> HIDE DEF g, Next
  <2> QED
    BY <2>1
<1>4. ASSUME NEW n \in N PROVE n + 1 \in N
  <2>1. PICK g : \A T \in SUBSET S : Cardinality(T) <= n => g[T] = Next(g)[T]
    OBVIOUS
  <2> DEFINE h == Next(g)
  <2>2. ASSUME NEW T \in SUBSET S, Cardinality(T) <= n + 1
        PROVE  h[T] = Next(h)[T]
    <3>1. CASE T = {}
      BY <3>1
    <3>2. CASE T # {}
      <4> DEFINE U == T \ {First(T)}
      <4>1. U \in SUBSET S /\ Cardinality(U) <= n
        BY <1>1, <1>2, <2>2, <3>2
      <4>2. h[U] = g[U]
        BY <2>1, <4>1
      <4>3. h[T] = f[First(T)] + g[U] /\ Next(h)[T] = f[First(T)] + h[U]
        <5> HIDE DEF h
        <5>1. Next(h)[T] = f[First(T)] + h[U]
          BY <3>2
        <5>2. h[T] = f[First(T)] + g[U]
          BY <3>2 DEF h
        <5> QED
          BY <5>1, <5>2
      <4> QED
        BY <4>2, <4>3
    <3> QED
      BY <3>1, <3>2
  <2> HIDE DEF h, Next
  <2> QED
    BY <2>2
<1> HIDE DEF N
<1>5. N = Nat
  BY <1>3, <1>4, CountingUp DEF N
<1>6. PICK g : \A T \in SUBSET S : Cardinality(T) <= Cardinality(S) => g[T] = Next(g)[T]
  BY <1>1, <1>5 DEF N
<1>7. \A T \in SUBSET S : g[T] = Next(g)[T]
  BY <1>1, <1>6, FS_Subset
<1> DEFINE h == [T \in SUBSET S |-> g[T]]
<1>8. \A T \in SUBSET S : h[T] = Next(h)[T]
  BY <1>2, <1>7
<1>9. h = Next(h)
  BY <1>8
<1> HIDE DEF h
<1> QED
  BY <1>9 DEF Sums

\* The sum on the subsets of a set is the sum on those of a part of it.
LEMMA SumsAgree ==
    ASSUME NEW f, NEW S, IsFiniteSet(S), NEW T \in SUBSET S,
           NEW g, NEW h, Sums(g, f, S), Sums(h, f, T)
    PROVE  h[T] = g[T]
<1> DEFINE N == {n \in Nat : \A U \in SUBSET T : Cardinality(U) = n => h[U] = g[U]}
<1>1. \A U \in SUBSET T : U \in SUBSET S /\ IsFiniteSet(U) /\ Cardinality(U) \in Nat
  BY FS_Subset, FS_CardinalityType
<1>2. \A U \in SUBSET T : U # {} =>
         /\ g[U] = f[First(U)] + g[U \ {First(U)}]
         /\ h[U] = f[First(U)] + h[U \ {First(U)}]
  BY <1>1 DEF Sums
<1>3. 0 \in N
  <2>1. g[{}] = 0 /\ h[{}] = 0
    BY DEF Sums
  <2> QED
    BY <1>1, <2>1, FS_EmptySet
<1>4. ASSUME NEW n \in N PROVE n + 1 \in N
  <2> SUFFICES ASSUME NEW U \in SUBSET T, Cardinality(U) = n + 1
               PROVE  h[U] = g[U]
    OBVIOUS
  <2>1. U # {}
    <3>1. n \in Nat
      OBVIOUS
    <3> HIDE DEF N
    <3> QED
      BY <3>1, FS_EmptySet
  <2>2. First(U) \in U
    BY <2>1 DEF First
  <2>3. Cardinality(U \ {First(U)}) = n
    BY <1>1, <2>2, FS_RemoveElement
  <2>4. h[U \ {First(U)}] = g[U \ {First(U)}]
    BY <2>3
  <2> QED
    BY <1>2, <2>1, <2>4
<1> HIDE DEF N
<1>5. N = Nat
  BY <1>3, <1>4, CountingUp DEF N
<1> QED
  BY <1>1, <1>5 DEF N

\* SumFunctionOnSet is that function.
LEMMA SumIs ==
    ASSUME NEW f, NEW S, IsFiniteSet(S), NEW g, Sums(g, f, S), NEW T \in SUBSET S
    PROVE  SumFunctionOnSet(f, T) = g[T]
<1> DEFINE iter[s \in SUBSET T] == IF s = {} THEN 0
                                   ELSE LET x == CHOOSE x \in s : TRUE IN f[x] + iter[s \ {x}]
<1>1. SumFunctionOnSet(f, T) = iter[T]
  BY DEF SumFunctionOnSet, FoldFunctionOnSet, MapThenFoldSet
<1>2. iter = CHOOSE h : Sums(h, f, T)
  BY DEF Sums, First
<1> HIDE DEF iter
<1>3. Sums(iter, f, T)
  BY <1>2, FS_Subset, SumsExist
<1> QED
  BY <1>1, <1>3, SumsAgree

-----------------------------------------------------------------------------
(* Sums. *)

\* The empty sum.
LEMMA SumOfNothing == ASSUME NEW f PROVE SumFunctionOnSet(f, {}) = 0
<1>1. IsFiniteSet({})
  BY FS_EmptySet
<1>2. PICK g : Sums(g, f, {})
  BY <1>1, SumsExist
<1>3. g[{}] = 0
  BY <1>2 DEF Sums
<1>4. SumFunctionOnSet(f, {}) = g[{}]
  BY <1>1, <1>2, SumIs
<1> QED
  BY <1>3, <1>4

\* A sum is its first element and the rest.
LEMMA SumTakesFirst ==
    ASSUME NEW f, NEW S, IsFiniteSet(S), S # {}
    PROVE  SumFunctionOnSet(f, S) = f[First(S)] + SumFunctionOnSet(f, S \ {First(S)})
<1>1. PICK g : Sums(g, f, S)
  BY SumsExist
<1>2. SumFunctionOnSet(f, S) = g[S] /\ SumFunctionOnSet(f, S \ {First(S)}) = g[S \ {First(S)}]
  BY <1>1, SumIs
<1>3. g[S] = f[First(S)] + g[S \ {First(S)}]
  BY <1>1 DEF Sums
<1> QED
  BY <1>2, <1>3

\* A sum of integers is an integer, and takes its elements in any order.
LEMMA SumTakesAny ==
    ASSUME NEW f, NEW S, IsFiniteSet(S), \A x \in S : f[x] \in Int
    PROVE  \A T \in SUBSET S :
              /\ SumFunctionOnSet(f, T) \in Int
              /\ \A x \in T : SumFunctionOnSet(f, T) = f[x] + SumFunctionOnSet(f, T \ {x})
<1> DEFINE sum(T) == SumFunctionOnSet(f, T)
           P(T) == sum(T) \in Int /\ \A x \in T : sum(T) = f[x] + sum(T \ {x})
           N == {n \in Nat : \A T \in SUBSET S : Cardinality(T) <= n => P(T)}
<1>1. \A T \in SUBSET S : IsFiniteSet(T) /\ Cardinality(T) \in Nat
  BY FS_Subset, FS_CardinalityType
<1>2. P({})
  BY SumOfNothing
<1>3. \A T \in SUBSET S : T # {} =>
         /\ First(T) \in T
         /\ sum(T) = f[First(T)] + sum(T \ {First(T)})
  BY <1>1, SumTakesFirst DEF First
<1> HIDE DEF sum
<1>4. 0 \in N
  <2>1. \A T \in SUBSET S : Cardinality(T) <= 0 => T = {}
    BY <1>1, FS_EmptySet
  <2> HIDE DEF P
  <2> QED
    BY <1>2, <2>1
<1>5. ASSUME NEW n \in N PROVE n + 1 \in N
  <2>1. \A T \in SUBSET S : Cardinality(T) <= n => P(T)
    OBVIOUS
  <2>2. ASSUME NEW T \in SUBSET S, Cardinality(T) <= n + 1
        PROVE  P(T)
    <3>1. CASE T = {}
      BY <1>2, <3>1
    <3>2. CASE T # {}
      <4> DEFINE c == First(T)
      <4>1. c \in T /\ sum(T) = f[c] + sum(T \ {c})
        BY <1>3, <3>2
      <4> HIDE DEF c
      <4>2. \A x \in T : T \ {x} \in SUBSET S /\ Cardinality(T \ {x}) <= n
        BY <1>1, <2>2, FS_RemoveElement
      <4>3. \A x \in T : P(T \ {x})
        BY <2>1, <4>2
      <4>4. sum(T) \in Int
        BY <4>1, <4>3
      <4>5. ASSUME NEW x \in T, x # c
            PROVE  sum(T) = f[x] + sum(T \ {x})
        <5>1. sum(T \ {c}) = f[x] + sum((T \ {c}) \ {x})
          BY <4>1, <4>3, <4>5
        <5>2. sum(T \ {x}) = f[c] + sum((T \ {x}) \ {c})
          BY <4>1, <4>3, <4>5
        <5>3. (T \ {x}) \ {c} = (T \ {c}) \ {x}
          OBVIOUS
        <5>4. P(T \ {c}) /\ P(T \ {x})
          BY <4>1, <4>3
        <5>5. sum((T \ {c}) \ {x}) \in Int
          <6>1. (T \ {c}) \ {x} \in SUBSET S /\ Cardinality((T \ {c}) \ {x}) <= n
            <7>1. IsFiniteSet(T \ {c}) /\ Cardinality(T \ {c}) \in Nat /\ Cardinality(T \ {c}) <= n
              BY <1>1, <4>1, <4>2
            <7>2. Cardinality((T \ {c}) \ {x}) = Cardinality(T \ {c}) - 1
              BY <4>5, <7>1, FS_RemoveElement
            <7> QED
              BY <7>1, <7>2
          <6> QED
            BY <2>1, <6>1
        <5> QED
          BY <4>1, <5>1, <5>2, <5>3, <5>5
      <4> QED
        BY <4>1, <4>4, <4>5
    <3> QED
      BY <3>1, <3>2
  <2> HIDE DEF P
  <2> QED
    BY <2>2
<1> HIDE DEF N, P
<1>6. N = Nat
  BY <1>4, <1>5, CountingUp DEF N
<1>7. \A T \in SUBSET S : P(T)
  <2>1. \A T \in SUBSET S : Cardinality(T) \in N /\ Cardinality(T) <= Cardinality(T)
    BY <1>1, <1>6
  <2> QED
    BY <2>1 DEF N
<1> QED
  BY <1>7 DEF P, sum

\* Sums grow element by element.
THEOREM SumGrows ==
    ASSUME NEW f, NEW S, IsFiniteSet(S), \A x \in S : f[x] \in Int
    PROVE  /\ SumFunctionOnSet(f, {}) = 0
           /\ \A T \in SUBSET S : SumFunctionOnSet(f, T) \in Int
           /\ \A T \in SUBSET S : \A x \in S \ T :
                 SumFunctionOnSet(f, T \cup {x}) = f[x] + SumFunctionOnSet(f, T)
<1>1. SumFunctionOnSet(f, {}) = 0
  BY SumOfNothing
<1>2. \A T \in SUBSET S : SumFunctionOnSet(f, T) \in Int
  BY SumTakesAny
<1>3. ASSUME NEW T \in SUBSET S, NEW x \in S \ T
      PROVE  SumFunctionOnSet(f, T \cup {x}) = f[x] + SumFunctionOnSet(f, T)
  <2>1. SumFunctionOnSet(f, T \cup {x}) = f[x] + SumFunctionOnSet(f, (T \cup {x}) \ {x})
    BY SumTakesAny
  <2>2. (T \cup {x}) \ {x} = T
    OBVIOUS
  <2> QED
    BY <2>1, <2>2
<1> QED
  BY <1>1, <1>2, <1>3

\* Functions that agree have one sum.
THEOREM SumsOfAlike ==
    ASSUME NEW f, NEW h, NEW S, IsFiniteSet(S), \A x \in S : f[x] \in Int /\ h[x] = f[x]
    PROVE  SumFunctionOnSet(h, S) = SumFunctionOnSet(f, S)
<1> DEFINE B == {T \in SUBSET S : SumFunctionOnSet(h, T) = SumFunctionOnSet(f, T)}
<1>1. {} \in B
  BY SumOfNothing
<1>2. ASSUME NEW T \in B, NEW x \in S \ T
      PROVE  T \cup {x} \in B
  <2>1. SumFunctionOnSet(f, T \cup {x}) = f[x] + SumFunctionOnSet(f, T)
    BY SumGrows
  <2>2. SumFunctionOnSet(h, T \cup {x}) = h[x] + SumFunctionOnSet(h, T)
    BY SumGrows
  <2> QED
    BY <2>1, <2>2
<1> HIDE DEF B
<1>3. S \in B
  BY <1>1, <1>2, GrowingSets DEF B
<1> QED
  BY <1>3 DEF B

\* What counts nothing can be left out.
THEOREM SumWithoutZeros ==
    ASSUME NEW f, NEW S, IsFiniteSet(S), \A x \in S : f[x] \in Int,
           NEW R \in SUBSET S, \A x \in S \ R : f[x] = 0
    PROVE  SumFunctionOnSet(f, S) = SumFunctionOnSet(f, R)
<1> DEFINE B == {T \in SUBSET S : SumFunctionOnSet(f, T) = SumFunctionOnSet(f, T \cap R)}
<1>1. {} \in B
  <2>1. {} \cap R = {}
    OBVIOUS
  <2> QED
    BY <2>1
<1>2. ASSUME NEW T \in B, NEW x \in S \ T
      PROVE  T \cup {x} \in B
  <2>1. SumFunctionOnSet(f, T \cup {x}) = f[x] + SumFunctionOnSet(f, T)
    BY SumGrows
  <2>2. ASSUME x \in R
        PROVE  SumFunctionOnSet(f, T \cup {x}) = SumFunctionOnSet(f, (T \cup {x}) \cap R)
    <3>1. (T \cup {x}) \cap R = (T \cap R) \cup {x}
      BY <2>2
    <3>2. SumFunctionOnSet(f, (T \cap R) \cup {x}) = f[x] + SumFunctionOnSet(f, T \cap R)
      BY SumGrows
    <3>3. SumFunctionOnSet(f, T) = SumFunctionOnSet(f, T \cap R)
      OBVIOUS
    <3> HIDE DEF B
    <3> QED
      BY <2>1, <3>1, <3>2, <3>3
  <2>3. ASSUME x \notin R
        PROVE  SumFunctionOnSet(f, T \cup {x}) = SumFunctionOnSet(f, (T \cup {x}) \cap R)
    <3>1. (T \cup {x}) \cap R = T \cap R
      BY <2>3
    <3>2. f[x] = 0 /\ SumFunctionOnSet(f, T) \in Int
      BY <2>3, SumGrows
    <3>3. SumFunctionOnSet(f, T) = SumFunctionOnSet(f, T \cap R)
      OBVIOUS
    <3>4. SumFunctionOnSet(f, T \cup {x}) = SumFunctionOnSet(f, T)
      BY <2>1, <3>2
    <3> HIDE DEF B
    <3> QED
      BY <3>1, <3>3, <3>4
  <2> QED
    BY <2>2, <2>3
<1> HIDE DEF B
<1>3. S \in B
  BY <1>1, <1>2, GrowingSets DEF B
<1>4. S \cap R = R
  OBVIOUS
<1> QED
  BY <1>3, <1>4 DEF B

\* A sum of naturals is one, and no element exceeds it.
THEOREM SumOfNaturals ==
    ASSUME NEW f, NEW S, IsFiniteSet(S), \A x \in S : f[x] \in Nat
    PROVE  /\ SumFunctionOnSet(f, S) \in Nat
           /\ \A x \in S : f[x] <= SumFunctionOnSet(f, S)
<1>1. ASSUME NEW R \in SUBSET S
      PROVE  SumFunctionOnSet(f, R) \in Nat
  <2> DEFINE B == {T \in SUBSET R : SumFunctionOnSet(f, T) \in Nat}
  <2>1. {} \in B
    BY SumOfNothing
  <2>2. ASSUME NEW T \in B, NEW x \in R \ T
        PROVE  T \cup {x} \in B
    <3>1. SumFunctionOnSet(f, T \cup {x}) = f[x] + SumFunctionOnSet(f, T)
      BY SumGrows
    <3>2. f[x] \in Nat /\ SumFunctionOnSet(f, T) \in Nat
      OBVIOUS
    <3>3. SumFunctionOnSet(f, T \cup {x}) \in Nat
      BY <3>1, <3>2
    <3> QED
      BY <3>3
  <2> HIDE DEF B
  <2>3. R \in B
    BY <2>1, <2>2, FS_Subset, GrowingSets DEF B
  <2> QED
    BY <2>3 DEF B
<1>2. ASSUME NEW x \in S
      PROVE  f[x] <= SumFunctionOnSet(f, S)
  <2>1. SumFunctionOnSet(f, S) = f[x] + SumFunctionOnSet(f, S \ {x})
    BY SumTakesAny
  <2>2. SumFunctionOnSet(f, S \ {x}) \in Nat
    BY <1>1
  <2> QED
    BY <2>1, <2>2
<1> QED
  BY <1>1, <1>2

\* The part in[k] of S for each class k in K.
Classes(in, class, S, K) ==
    /\ \A x \in S : class[x] \in K
    /\ \A k \in K : in[k] \in SUBSET S /\ \A x \in S : x \in in[k] <=> class[x] = k

\* A sum is the sum of the sums of its classes.
THEOREM SumOfClasses ==
    ASSUME NEW f, NEW S, IsFiniteSet(S), \A x \in S : f[x] \in Int,
           NEW K, IsFiniteSet(K), NEW class, NEW in, Classes(in, class, S, K),
           NEW sums, \A k \in K : sums[k] = SumFunctionOnSet(f, in[k])
    PROVE  SumFunctionOnSet(sums, K) = SumFunctionOnSet(f, S)
<1>0. \A x \in S : class[x] \in K
  BY DEF Classes
<1> DEFINE part(T) == [k \in K |-> SumFunctionOnSet(f, {x \in T : class[x] = k})]
           B == {T \in SUBSET S : SumFunctionOnSet(part(T), K) = SumFunctionOnSet(f, T)}
<1>1. \A T \in SUBSET S : \A k \in K : part(T)[k] \in Int
  <2>1. \A T \in SUBSET S : \A k \in K : {x \in T : class[x] = k} \in SUBSET S
    OBVIOUS
  <2> QED
    BY <2>1, SumTakesAny
<1>2. {} \in B
  <2>1. \A k \in K : part({})[k] = 0
    <3>1. \A k \in K : {x \in {} : class[x] = k} = {}
      OBVIOUS
    <3> QED
      BY <3>1, SumOfNothing
  <2> HIDE DEF part
  <2>2. SumFunctionOnSet(part({}), K) = SumFunctionOnSet(part({}), {})
    BY <2>1, SumWithoutZeros
  <2> QED
    BY <2>2, SumOfNothing
<1>3. ASSUME NEW T \in B, NEW x \in S \ T
      PROVE  T \cup {x} \in B
  <2> DEFINE c == class[x]
             U == T \cup {x}
  <2>1. c \in K
    BY <1>0
  <2>2. part(U)[c] = f[x] + part(T)[c]
    <3>1. {y \in U : class[y] = c} = {y \in T : class[y] = c} \cup {x}
      OBVIOUS
    <3>2. SumFunctionOnSet(f, {y \in T : class[y] = c} \cup {x})
             = f[x] + SumFunctionOnSet(f, {y \in T : class[y] = c})
      <4> DEFINE R == {y \in T : class[y] = c}
      <4>1. R \in SUBSET S /\ x \in S \ R
        OBVIOUS
      <4> HIDE DEF R
      <4>2. SumFunctionOnSet(f, R \cup {x}) = f[x] + SumFunctionOnSet(f, R)
        BY <4>1, SumGrows
      <4> QED
        BY <4>2 DEF R
    <3> QED
      BY <2>1, <3>1, <3>2
  <2>3. \A k \in K \ {c} : part(U)[k] = part(T)[k]
    <3>1. \A k \in K \ {c} : {y \in U : class[y] = k} = {y \in T : class[y] = k}
      OBVIOUS
    <3> QED
      BY <3>1
  <2>4. U \in SUBSET S
    OBVIOUS
  <2>5. SumFunctionOnSet(f, U) = f[x] + SumFunctionOnSet(f, T)
    BY SumGrows
  <2>6. f[x] \in Int /\ SumFunctionOnSet(f, T) \in Int /\ T \in SUBSET S
    BY SumTakesAny
  <2> HIDE DEF part, c, U
  <2>0. \A k \in K : part(U)[k] \in Int /\ part(T)[k] \in Int
    BY <1>1, <2>4, <2>6
  <2>7. SumFunctionOnSet(part(U), K) = part(U)[c] + SumFunctionOnSet(part(U), K \ {c})
    <3>1. \A k \in K : part(U)[k] \in Int
      BY <2>0
    <3> QED
      BY <2>1, <3>1, SumTakesAny
  <2>8. SumFunctionOnSet(part(T), K) = part(T)[c] + SumFunctionOnSet(part(T), K \ {c})
    <3>1. \A k \in K : part(T)[k] \in Int
      BY <2>0
    <3> QED
      BY <2>1, <3>1, SumTakesAny
  <2>9. SumFunctionOnSet(part(U), K \ {c}) = SumFunctionOnSet(part(T), K \ {c})
    <3>1. IsFiniteSet(K \ {c})
      BY FS_RemoveElement
    <3> QED
      BY <2>0, <2>3, <3>1, SumsOfAlike
  <2>10. SumFunctionOnSet(part(T), K \ {c}) \in Int /\ part(T)[c] \in Int
    BY <1>1, <2>1, <2>6, SumTakesAny
  <2>11. SumFunctionOnSet(part(T), K) = SumFunctionOnSet(f, T)
    OBVIOUS
  <2>12. SumFunctionOnSet(part(U), K) = SumFunctionOnSet(f, U)
    BY <2>2, <2>5, <2>6, <2>7, <2>8, <2>9, <2>10, <2>11
  <2> QED
    BY <2>4, <2>12 DEF U
<1> HIDE DEF B
<1>4. S \in B
  BY <1>2, <1>3, GrowingSets DEF B
<1>5. \A k \in K : part(S)[k] \in Int /\ sums[k] = part(S)[k]
  <2>1. \A k \in K : in[k] = {x \in S : class[x] = k}
    BY DEF Classes
  <2> QED
    BY <1>1, <2>1
<1> HIDE DEF part
<1>6. SumFunctionOnSet(sums, K) = SumFunctionOnSet(part(S), K)
  BY <1>5, SumsOfAlike
<1> QED
  BY <1>4, <1>6 DEF B

\* A cardinality is a sum of ones.
THEOREM CardinalityIsSum ==
    ASSUME NEW S, IsFiniteSet(S), NEW f, \A x \in S : f[x] = 1
    PROVE  \A T \in SUBSET S : SumFunctionOnSet(f, T) = Cardinality(T)
<1> SUFFICES ASSUME NEW R \in SUBSET S
             PROVE  SumFunctionOnSet(f, R) = Cardinality(R)
  OBVIOUS
<1> DEFINE B == {T \in SUBSET R : SumFunctionOnSet(f, T) = Cardinality(T)}
<1>0. IsFiniteSet(R)
  BY FS_Subset
<1>1. {} \in B
  BY SumOfNothing, FS_EmptySet
<1>2. ASSUME NEW T \in B, NEW x \in R \ T
      PROVE  T \cup {x} \in B
  <2>1. SumFunctionOnSet(f, T \cup {x}) = f[x] + SumFunctionOnSet(f, T)
    BY SumGrows
  <2>2. Cardinality(T \cup {x}) = Cardinality(T) + 1 /\ Cardinality(T) \in Nat
    BY <1>0, FS_Subset, FS_AddElement, FS_CardinalityType
  <2> QED
    BY <2>1, <2>2
<1> HIDE DEF B
<1>3. R \in B
  BY <1>0, <1>1, <1>2, GrowingSets DEF B
<1> QED
  BY <1>3 DEF B

-----------------------------------------------------------------------------
(* Lists. *)

\* What has an order has a last member.
LEMMA LastMember ==
    ASSUME NEW S, IsFiniteSet(S), S # {}, NEW R, Linear(S, R)
    PROVE  \E m \in S : \A y \in S \ {m} : <<y, m>> \in R
<1> DEFINE B == {T \in SUBSET S : T = {} \/ \E m \in T : \A y \in T \ {m} : <<y, m>> \in R}
<1>1. {} \in B /\ B \in SUBSET SUBSET S
  OBVIOUS
<1>2. ASSUME NEW T \in B, NEW x \in S \ T
      PROVE  T \cup {x} \in B
  <2>1. CASE T = {}
    BY <2>1
  <2>2. CASE T # {}
    <3>1. PICK m \in T : \A y \in T \ {m} : <<y, m>> \in R
      BY <2>2
    <3>2. CASE <<x, m>> \in R
      BY <3>1, <3>2
    <3>3. CASE <<m, x>> \in R
      <4>1. \A y \in T : <<y, x>> \in R
        BY <3>1, <3>3 DEF Linear
      <4> QED
        BY <4>1
    <3> QED
      BY <3>2, <3>3 DEF Linear
  <2> QED
    BY <2>1, <2>2
<1> HIDE DEF B
<1>3. S \in B
  BY <1>1, <1>2, GrowingSets
<1> QED
  BY <1>3 DEF B

\* A member behind all others goes to the end of the list.
THEOREM ListAppends ==
    ASSUME NEW S, IsFiniteSet(S), NEW R, NEW s, IsInOrder(s, S, R),
           NEW x, x \notin S, \A y \in S : <<y, x>> \in R
    PROVE  IsInOrder([i \in 1..Cardinality(S) + 1 |-> IF i = Cardinality(S) + 1 THEN x ELSE s[i]],
                     S \cup {x}, R)
<1> DEFINE n == Cardinality(S)
           t == [i \in 1..n + 1 |-> IF i = n + 1 THEN x ELSE s[i]]
<1>1. n \in Nat /\ Cardinality(S \cup {x}) = n + 1
  BY FS_CardinalityType, FS_AddElement
<1> HIDE DEF n
<1>2. /\ DOMAIN s = 1..n /\ \A i \in 1..n : s[i] \in S
      /\ \A y \in S : \E i \in 1..n : s[i] = y
      /\ \A i, j \in 1..n : i < j => <<s[i], s[j]>> \in R
  BY DEF IsInOrder, n
<1>3. DOMAIN t = 1..n + 1 /\ t[n + 1] = x /\ \A i \in 1..n : t[i] = s[i] /\ i \in 1..n + 1
  BY <1>1
<1>4. \A i \in 1..n + 1 : i = n + 1 \/ i \in 1..n
  BY <1>1
<1>5. n + 1 \in 1..n + 1
  BY <1>1
<1> HIDE DEF t
<1>6. t \in [1..n + 1 -> S \cup {x}]
  <2>1. \A i \in 1..n + 1 : t[i] \in S \cup {x}
    BY <1>2, <1>3, <1>4
  <2>2. t = [i \in DOMAIN t |-> t[i]]
    BY DEF t
  <2> QED
    BY <1>3, <2>1, <2>2
<1>7. \A y \in S \cup {x} : \E i \in 1..n + 1 : t[i] = y
  BY <1>2, <1>3, <1>5
<1>8. ASSUME NEW i \in 1..n + 1, NEW j \in 1..n + 1, i < j
      PROVE  <<t[i], t[j]>> \in R
  <2>1. i \in 1..n
    BY <1>1, <1>8
  <2>2. CASE j = n + 1
    BY <1>2, <1>3, <2>1, <2>2
  <2>3. CASE j \in 1..n
    BY <1>2, <1>3, <1>8, <2>1, <2>3
  <2> QED
    BY <1>4, <2>2, <2>3
<1>9. IsInOrder(t, S \cup {x}, R)
  BY <1>1, <1>3, <1>6, <1>7, <1>8 DEF IsInOrder
<1> QED
  BY <1>9 DEF t, n

\* There is a list of what has an order, and InOrder is one.
THEOREM ListExists ==
    ASSUME NEW S, IsFiniteSet(S), NEW R, Linear(S, R)
    PROVE  IsInOrder(InOrder(S, R), S, R)
<1> DEFINE N == {n \in Nat : \A T \in SUBSET S : Cardinality(T) = n => \E s : IsInOrder(s, T, R)}
<1>1. \A T \in SUBSET S : IsFiniteSet(T) /\ Cardinality(T) \in Nat
  BY FS_Subset, FS_CardinalityType
<1>2. 0 \in N
  <2>1. \A T \in SUBSET S : Cardinality(T) = 0 => T = {}
    BY <1>1, FS_EmptySet
  <2>2. IsInOrder([i \in {} |-> i], {}, R)
    <3>1. Cardinality({}) = 0 /\ 1..0 = {}
      BY FS_EmptySet
    <3> QED
      BY <3>1 DEF IsInOrder
  <2> QED
    BY <2>1, <2>2
<1>3. ASSUME NEW n \in N PROVE n + 1 \in N
  <2> SUFFICES ASSUME NEW T \in SUBSET S, Cardinality(T) = n + 1
               PROVE  \E s : IsInOrder(s, T, R)
    OBVIOUS
  <2>1. n \in Nat
    OBVIOUS
  <2>2. IsFiniteSet(T) /\ T # {} /\ Linear(T, R)
    <3>1. T # {}
      BY <2>1, FS_EmptySet
    <3> QED
      BY <1>1, <3>1 DEF Linear
  <2>3. PICK m \in T : \A y \in T \ {m} : <<y, m>> \in R
    BY <2>2, LastMember
  <2>4. Cardinality(T \ {m}) = n /\ IsFiniteSet(T \ {m})
    BY <2>1, <2>2, FS_RemoveElement
  <2>5. PICK s : IsInOrder(s, T \ {m}, R)
    BY <2>4
  <2>6. (T \ {m}) \cup {m} = T
    OBVIOUS
  <2> DEFINE U == T \ {m}
             t == [i \in 1..Cardinality(U) + 1 |-> IF i = Cardinality(U) + 1 THEN m ELSE s[i]]
  <2>7. IsFiniteSet(U) /\ IsInOrder(s, U, R) /\ m \notin U /\ \A y \in U : <<y, m>> \in R
    BY <2>3, <2>4, <2>5
  <2>8. U \cup {m} = T
    BY <2>6
  <2> HIDE DEF N, U
  <2>9. IsInOrder(t, U \cup {m}, R)
    BY <2>7, ListAppends
  <2> QED
    BY <2>8, <2>9
<1> HIDE DEF N
<1>4. N = Nat
  BY <1>2, <1>3, CountingUp DEF N
<1>5. PICK s : IsInOrder(s, S, R)
  BY <1>1, <1>4 DEF N
<1>6. s \in [1..Cardinality(S) -> S]
  BY <1>5 DEF IsInOrder
<1> QED
  BY <1>5, <1>6 DEF InOrder

\* There is no other.
THEOREM ListIsUnique ==
    ASSUME NEW S, IsFiniteSet(S), NEW R, Linear(S, R),
           NEW s, IsInOrder(s, S, R), NEW t, IsInOrder(t, S, R)
    PROVE  s = t
<1> DEFINE n == Cardinality(S)
           D == {i \in 1..n : s[i] # t[i]}
<1>1. n \in Nat
  BY FS_CardinalityType
<1>2. /\ s \in [1..n -> S] /\ t \in [1..n -> S]
      /\ \A x \in S : \E i \in 1..n : s[i] = x
      /\ \A x \in S : \E i \in 1..n : t[i] = x
      /\ \A i, j \in 1..n : i < j => <<s[i], s[j]>> \in R
      /\ \A i, j \in 1..n : i < j => <<t[i], t[j]>> \in R
  BY DEF IsInOrder
<1> HIDE DEF n
<1> SUFFICES ASSUME D # {} PROVE FALSE
  <2>1. D = {} => \A i \in 1..n : s[i] = t[i]
    OBVIOUS
  <2>2. s = [i \in 1..n |-> s[i]] /\ t = [i \in 1..n |-> t[i]]
    BY <1>2
  <2> QED
    BY <2>1, <2>2
<1>3. D \in SUBSET Nat
  BY <1>1
<1>4. PICK d \in D : \A k \in D : d <= k
  BY <1>3, LeastNumber
<1>5. d \in 1..n /\ s[d] # t[d] /\ \A k \in 1..n : k < d => s[k] = t[k]
  BY <1>1, <1>3, <1>4
<1> HIDE DEF D
<1>6. PICK j \in 1..n : t[j] = s[d]
  BY <1>2, <1>5
<1>7. PICK k \in 1..n : s[k] = t[d]
  BY <1>2, <1>5
<1>8. s[d] \in S /\ t[d] \in S
  BY <1>2, <1>5
<1>9. j > d
  <2>1. ~ (j < d)
    BY <1>2, <1>5, <1>6, <1>8 DEF Linear
  <2>2. j # d
    BY <1>5, <1>6
  <2> QED
    BY <1>1, <1>5, <2>1, <2>2
<1>10. k > d
  <2>1. ~ (k < d)
    BY <1>2, <1>5, <1>7, <1>8 DEF Linear
  <2>2. k # d
    BY <1>5, <1>7
  <2> QED
    BY <1>1, <1>5, <2>1, <2>2
<1>11. d < j /\ d < k
  BY <1>1, <1>5, <1>9, <1>10
<1>12. <<t[d], s[d]>> \in R /\ <<s[d], t[d]>> \in R
  BY <1>2, <1>5, <1>6, <1>7, <1>11
<1> QED
  BY <1>8, <1>12 DEF Linear
==============================================================================
