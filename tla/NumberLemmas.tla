------------------------------ MODULE NumberLemmas ------------------------------
(***************************************************************************)
(* Least and largest numbers of a set; circles in a finite set; induction  *)
(* over the numbers, for a set of numbers in the place of a predicate of   *)
(* theirs; and that a recursion on a size has a solution                   *)
(* (RecursionExists), for an equation f = B[f] in the place of an          *)
(* operator.                                                               *)
(***************************************************************************)
EXTENDS Integers, FiniteSetTheorems, WellFoundedInduction, TLAPS

\* The order of the numbers, as a set of pairs.
Below == {p \in Nat \X Nat : p[1] < p[2]}

\* A set of numbers has a smallest one.
LEMMA SmallestOfSome ==
  ASSUME NEW S \in SUBSET Nat, S # {}
  PROVE  \E m \in S : \A k \in S : m <= k
  <1>1. IsWellFoundedOn(Below, Nat)
    BY NatLessThanWellFounded, Zenon DEF OpToRel, Below
  <1>2. PICK m \in S : \A k \in S : <<k, m>> \notin Below
    BY <1>1, WFMin
  <1>3. \A k \in S : ~(k < m)
    BY <1>2 DEF Below
  <1> QED
    BY <1>3

\* Induction over the numbers, for a set instead of a predicate.
LEMMA SetInduction ==
  ASSUME NEW S, 0 \in S, \A n \in Nat : n \in S => n + 1 \in S
  PROVE  Nat \subseteq S
  <1> SUFFICES ASSUME Nat \ S # {} PROVE FALSE
    OBVIOUS
  <1>1. PICK m \in Nat \ S : \A k \in Nat \ S : m <= k
    BY SmallestOfSome
  <1>2. m # 0 /\ m - 1 \in Nat /\ m - 1 \in S
    BY <1>1
  <1> QED
    BY <1>1, <1>2

\* A function from a finite set to itself goes round in a circle somewhere: some of
\* the set it maps onto itself.
LEMMA CircleInFinite ==
  ASSUME NEW S, IsFiniteSet(S), S # {}, NEW f \in [S -> S]
  PROVE  \E C \in SUBSET S : C # {} /\ {f[x] : x \in C} = C
  <1> DEFINE Closed == {C \in SUBSET S : C # {} /\ \A x \in C : f[x] \in C}
             Sizes == {Cardinality(C) : C \in Closed}
  <1>1. \A C \in Closed : IsFiniteSet(C) /\ Cardinality(C) \in Nat
    BY FS_Subset, FS_CardinalityType
  <1>2. S \in Closed
    OBVIOUS
  <1>3. Sizes \in SUBSET Nat /\ Sizes # {}
    BY <1>1, <1>2
  <1>4. PICK m \in Sizes : \A k \in Sizes : m <= k
    BY <1>3, SmallestOfSome
  <1>5. PICK C \in Closed : Cardinality(C) = m
    BY <1>4
  <1>6. PICK D : D = {f[x] : x \in C}
    OBVIOUS
  <1>7. D \subseteq C /\ D \in Closed
    BY <1>5, <1>6
  <1>8. Cardinality(D) <= Cardinality(C) /\ (Cardinality(C) = Cardinality(D) => C = D)
    <2>1. IsFiniteSet(C) /\ D \in SUBSET C
      BY <1>1, <1>5, <1>7
    <2> QED
      BY <2>1, FS_Subset
  <1>9. Cardinality(C) <= Cardinality(D)
    BY <1>4, <1>5, <1>7
  <1>10. D = C
    BY <1>1, <1>5, <1>7, <1>8, <1>9
  <1>11. C \in SUBSET S /\ C # {}
    BY <1>5
  <1> QED
    BY <1>6, <1>10, <1>11

\* A finite set of numbers has a largest one.
LEMMA LargestOfSome ==
  ASSUME NEW S \in SUBSET Nat, IsFiniteSet(S), S # {}
  PROVE  \E m \in S : \A k \in S : k <= m
  <1> DEFINE Bounded(T) == T # {} => \E m \in T : \A k \in T : k <= m
             Sizes == {n \in Nat : \A T \in SUBSET Nat :
                         IsFiniteSet(T) /\ Cardinality(T) = n => Bounded(T)}
  <1>1. 0 \in Sizes
    BY FS_EmptySet
  <1>2. ASSUME NEW n \in Nat, n \in Sizes
        PROVE  n + 1 \in Sizes
    <2> SUFFICES ASSUME NEW T \in SUBSET Nat, IsFiniteSet(T), Cardinality(T) = n + 1
                 PROVE  Bounded(T)
      OBVIOUS
    <2> SUFFICES ASSUME NEW x \in T PROVE Bounded(T)
      OBVIOUS
    <2>1. IsFiniteSet(T \ {x}) /\ Cardinality(T \ {x}) = Cardinality(T) - 1
      BY FS_RemoveElement, Zenon
    <2>2. Bounded(T \ {x})
      BY <1>2, <2>1
    <2> QED
      BY <2>2
  <1> HIDE DEF Sizes
  <1>3. Nat \subseteq Sizes
    BY <1>1, <1>2, SetInduction
  <1> QED
    BY <1>3, FS_CardinalityType DEF Sizes

\* A recursion has a solution when each value needs only those of smaller arguments: B
\* makes of a function of S to V the function that the recursion says.
Local(B, S, V, size) ==
  \A f, g \in [S -> V] : \A t \in S :
    (\A u \in S : size[u] < size[t] => f[u] = g[u]) => B[f][t] = B[g][t]

SolvesUpto(B, S, V, size, n) ==
  {f \in [S -> V] : \A t \in S : size[t] < n => f[t] = B[f][t]}

LEMMA RecursionAgrees ==
  ASSUME NEW S, NEW V, NEW size \in [S -> Nat], NEW B, Local(B, S, V, size),
         NEW n \in Nat, NEW f \in SolvesUpto(B, S, V, size, n),
         NEW g \in SolvesUpto(B, S, V, size, n)
  PROVE  \A t \in S : size[t] < n => f[t] = g[t]
  <1> DEFINE Good == {k \in Nat : \A t \in S : size[t] < k /\ k <= n => f[t] = g[t]}
  <1>1. 0 \in Good
    OBVIOUS
  <1>2. ASSUME NEW k \in Nat, k \in Good
        PROVE  k + 1 \in Good
    <2> SUFFICES ASSUME NEW t \in S, size[t] < k + 1, k + 1 <= n PROVE f[t] = g[t]
      OBVIOUS
    <2>1. \A u \in S : size[u] < size[t] => f[u] = g[u]
      <3>1. \A u \in S : size[u] \in Nat
        OBVIOUS
      <3> QED
        BY <1>2, <3>1
    <2>2. B[f][t] = B[g][t]
      BY <2>1 DEF Local, SolvesUpto
    <2> QED
      BY <2>2 DEF SolvesUpto
  <1> HIDE DEF Good
  <1>3. n \in Good
    BY <1>1, <1>2, SetInduction
  <1> QED
    BY <1>3 DEF Good

LEMMA RecursionGoesOn ==
  ASSUME NEW S, NEW V, NEW size \in [S -> Nat], NEW B \in [[S -> V] -> [S -> V]],
         Local(B, S, V, size), NEW start \in V
  PROVE  \A n \in Nat : SolvesUpto(B, S, V, size, n) # {}
  <1> DEFINE Good == {n \in Nat : SolvesUpto(B, S, V, size, n) # {}}
  <1>1. 0 \in Good
    <2>1. [t \in S |-> start] \in SolvesUpto(B, S, V, size, 0)
      BY DEF SolvesUpto
    <2> QED
      BY <2>1
  <1>2. ASSUME NEW n \in Nat, n \in Good
        PROVE  n + 1 \in Good
    <2>1. PICK f \in SolvesUpto(B, S, V, size, n) : TRUE
      BY <1>2
    <2>2. f \in [S -> V] /\ \A t \in S : size[t] < n => f[t] = B[f][t]
      BY <2>1 DEF SolvesUpto
    <2>3. PICK g : g = [t \in S |-> B[f][t]]
      OBVIOUS
    <2>4. g \in [S -> V]
      BY <2>2, <2>3
    <2>5. ASSUME NEW t \in S, size[t] < n + 1 PROVE g[t] = B[g][t]
      <3>1. \A u \in S : size[u] < size[t] => f[u] = g[u]
        <4>1. \A u \in S : size[u] \in Nat
          OBVIOUS
        <4>2. \A u \in S : size[u] < size[t] => size[u] < n
          BY <2>5, <4>1
        <4> QED
          BY <2>2, <2>3, <4>2
      <3>2. B[f][t] = B[g][t]
        BY <2>2, <2>4, <3>1 DEF Local
      <3> QED
        BY <2>3, <3>2
    <2>6. g \in SolvesUpto(B, S, V, size, n + 1)
      BY <2>4, <2>5 DEF SolvesUpto
    <2> QED
      BY <2>6
  <1> HIDE DEF Good
  <1>3. Nat \subseteq Good
    BY <1>1, <1>2, SetInduction
  <1> QED
    BY <1>3 DEF Good

Recursion(B, S, V, size) ==
  /\ size \in [S -> Nat]
  /\ B \in [[S -> V] -> [S -> V]]
  /\ Local(B, S, V, size)
  /\ V # {}

LEMMA RecursionExists ==
  ASSUME NEW B, NEW S, NEW V, NEW size, Recursion(B, S, V, size)
  PROVE  \E f \in [S -> V] : f = B[f]
  <1>a. /\ size \in [S -> Nat] /\ B \in [[S -> V] -> [S -> V]] /\ Local(B, S, V, size)
    BY DEF Recursion
  <1>b. PICK start \in V : TRUE
    BY DEF Recursion
  <1> DEFINE G(n) == CHOOSE f \in SolvesUpto(B, S, V, size, n) : TRUE
  <1>1. \A n \in Nat : G(n) \in SolvesUpto(B, S, V, size, n)
    <2> TAKE n \in Nat
    <2>1. SolvesUpto(B, S, V, size, n) # {}
      BY <1>a, <1>b, RecursionGoesOn
    <2> QED
      BY <2>1
  <1> DEFINE F == [t \in S |-> G(size[t] + 1)[t]]
  <1> HIDE DEF G
  <1>2. \A t \in S : size[t] \in Nat /\ size[t] + 1 \in Nat /\ G(size[t] + 1) \in [S -> V]
    BY <1>1, <1>a DEF SolvesUpto
  <1>3. F \in [S -> V]
    BY <1>2
  <1>4. ASSUME NEW t \in S PROVE F[t] = B[F][t]
    <2>1. PICK g \in SolvesUpto(B, S, V, size, size[t] + 1) : g = G(size[t] + 1)
      BY <1>1, <1>2
    <2>2. g \in [S -> V] /\ g[t] = B[g][t]
      BY <1>2, <2>1 DEF SolvesUpto
    <2>3. ASSUME NEW u \in S, size[u] < size[t] PROVE F[u] = g[u]
      <3>1. PICK h \in SolvesUpto(B, S, V, size, size[u] + 1) : h = G(size[u] + 1)
        BY <1>1, <1>2
      <3>2. g \in SolvesUpto(B, S, V, size, size[u] + 1)
        <4>1. \A v \in S : size[v] < size[u] + 1 => size[v] < size[t] + 1
          BY <1>2, <2>3
        <4>2. \A v \in S : size[v] < size[t] + 1 => g[v] = B[g][v]
          BY <2>1 DEF SolvesUpto
        <4> QED
          BY <2>2, <4>1, <4>2 DEF SolvesUpto
      <3>3. h[u] = g[u]
        <4>1. PICK n \in Nat : n = size[u] + 1 /\ size[u] < n
          BY <1>2
        <4>2. h \in SolvesUpto(B, S, V, size, n) /\ g \in SolvesUpto(B, S, V, size, n)
          BY <3>2, <4>1
        <4>3. \A v \in S : size[v] < n => h[v] = g[v]
          BY <1>a, <4>2, RecursionAgrees
        <4> QED
          BY <4>1, <4>3
      <3> QED
        BY <3>1, <3>3
    <2>4. B[F][t] = B[g][t]
      BY <1>3, <1>a, <2>2, <2>3 DEF Local
    <2> QED
      BY <2>1, <2>2, <2>4
  <1>5. F = B[F]
    <2>1. B[F] \in [S -> V]
      BY <1>3, <1>a
    <2> HIDE DEF F
    <2> QED
      BY <1>3, <1>4, <2>1
  <1> HIDE DEF F
  <1> QED
    BY <1>3, <1>5
===============================================================================
