------------------------------ MODULE SetLemmas ------------------------------
(***************************************************************************)
(* Facts about sets of numbers and sums that the proofs of several modules *)
(* need: smallest and largest members, induction over the numbers and over *)
(* finite sets, the increasing enumeration of a set, and the sum of a      *)
(* function over a set.  An induction is stated for a set, the set of      *)
(* numbers or of sets that have the property, and comes from WFMin of the  *)
(* library.                                                                *)
(***************************************************************************)
EXTENDS Integers, FiniteSets, Functions, WellFoundedInduction, FiniteSetTheorems, TLAPS

LEMMA LessThan == \E R : IsWellFoundedOn(R, Nat) /\ \A x, y \in Nat : x < y => <<x, y>> \in R
<1>1. \A x, y \in Nat : x < y => <<x, y>> \in OpToRel(<, Nat)
  BY DEF OpToRel
<1>2. QED
  BY <1>1, NatLessThanWellFounded, Zenon

\* A set of numbers has a smallest member ...
LEMMA SmallestIn ==
  ASSUME NEW S, S \subseteq Nat, S # {}
  PROVE  \E m \in S : \A k \in S : m <= k
<1>1. ASSUME NEW R, IsWellFoundedOn(R, Nat), \A x, y \in Nat : x < y => <<x, y>> \in R
      PROVE  \E m \in S : \A k \in S : m <= k
  <2>1. IsWellFoundedOn(R, Nat)
    BY <1>1
  <2>2. \E m \in S : \A k \in S : ~(<<k, m>> \in R)
    BY <2>1, WFMin
  <2>3. \A k, m \in S : k < m => <<k, m>> \in R
    BY <1>1
  <2>4. \A k, m \in S : k < m \/ m <= k
    OBVIOUS
  <2>5. QED
    BY <2>2, <2>3, <2>4
<1>2. QED
  BY <1>1, LessThan

\* ... and a largest one if it is bounded.
LEMMA LargestIn ==
  ASSUME NEW S, S \subseteq Nat, S # {}, NEW b \in Nat, \A k \in S : k <= b
  PROVE  \E m \in S : \A k \in S : k <= m
<1> DEFINE T == {b - k : k \in S}
<1>1. T \subseteq Nat /\ T # {}
  <2>1. \A k \in S : b - k \in Nat
    OBVIOUS
  <2>2. PICK k \in S : TRUE
    OBVIOUS
  <2>3. b - k \in T
    BY <2>2
  <2>4. QED
    BY <2>1, <2>3
<1>2. PICK t \in T : \A k \in T : t <= k
  BY <1>1, SmallestIn
<1>3. PICK m \in S : t = b - m
  BY <1>2
<1>4. ASSUME NEW k \in S PROVE k <= m
  <2>1. b - k \in T
    OBVIOUS
  <2>2. b - m <= b - k
    BY <2>1, <1>2, <1>3
  <2>3. k \in Nat /\ m \in Nat
    OBVIOUS
  <2>4. QED
    BY <2>2, <2>3
<1>5. QED
  BY <1>3, <1>4

\* A set that has 0, and with a number the next one, has all numbers.
LEMMA Inductive ==
  ASSUME NEW S, 0 \in S, \A n \in Nat : n \in S => n + 1 \in S
  PROVE  Nat \subseteq S
<1> DEFINE T == Nat \ S
<1>1. SUFFICES ASSUME T # {} PROVE FALSE
  OBVIOUS
<1>2. PICK m \in T : \A k \in T : m <= k
  BY <1>1, SmallestIn
<1>3. m # 0 /\ m - 1 \in Nat /\ m - 1 \notin T
  BY <1>2
<1>4. QED
  BY <1>3

\* The members of a bounded set of positive numbers can be put in order.
LEMMA Ordered ==
  ASSUME NEW n \in Nat, NEW S, S \subseteq 1..n
  PROVE  /\ IsFiniteSet(S)
         /\ \E f \in [1..Cardinality(S) -> S] : \A i, j \in DOMAIN f : i < j => f[i] < f[j]
<1> DEFINE Sorted(T) == /\ IsFiniteSet(T)
                        /\ \E f \in [1..Cardinality(T) -> T] :
                             \A i, j \in 1..Cardinality(T) : i < j => f[i] < f[j]
           Good == {k \in Nat : \A T \in SUBSET (1..k) : Sorted(T)}
<1>1. 0 \in Good
  <2>1. Sorted({})
    <3>1. IsFiniteSet({}) /\ Cardinality({}) = 0
      BY FS_EmptySet
    <3>2. [i \in 1..0 |-> 0] \in [1..0 -> {}]
      OBVIOUS
    <3>3. QED
      BY <3>1, <3>2
  <2>2. \A T \in SUBSET (1..0) : T = {}
    OBVIOUS
  <2>3. QED
    BY <2>1, <2>2
<1>2. ASSUME NEW k \in Nat, k \in Good PROVE k + 1 \in Good
  <2>1. SUFFICES ASSUME NEW T \in SUBSET (1..(k + 1)) PROVE Sorted(T)
    OBVIOUS
  <2>2. CASE k + 1 \notin T
    <3>1. T \in SUBSET (1..k)
      BY <2>2
    <3>2. QED
      BY <3>1, <1>2
  <2>3. CASE k + 1 \in T
    <3> DEFINE U == T \ {k + 1}
               c == Cardinality(U)
    <3>1. U \in SUBSET (1..k)
      OBVIOUS
    <3>2. Sorted(U)
      BY <3>1, <1>2
    <3>3. PICK f \in [1..c -> U] : \A i, j \in 1..c : i < j => f[i] < f[j]
      BY <3>2
    <3>4. IsFiniteSet(U) /\ c \in Nat
      BY <3>2, FS_CardinalityType
    <3>5. T = U \cup {k + 1}
      BY <2>3
    <3>6. IsFiniteSet(T) /\ Cardinality(T) = c + 1
      <4>1. k + 1 \notin U
        OBVIOUS
      <4> HIDE DEF U
      <4>2. QED
        BY <4>1, <3>4, <3>5, FS_AddElement
    <3> HIDE DEF c
    <3> DEFINE g == [i \in 1..(c + 1) |-> IF i <= c THEN f[i] ELSE k + 1]
    <3>7. g \in [1..(c + 1) -> T]
      BY <3>3, <3>4, <3>5
    <3>8. ASSUME NEW i \in 1..(c + 1), NEW j \in 1..(c + 1), i < j
          PROVE  g[i] < g[j]
      <4>1. i \in 1..c /\ f[i] \in U /\ f[i] < k + 1
        <5>1. i \in 1..c
          BY <3>8, <3>4
        <5>2. f[i] \in U
          BY <5>1, <3>3
        <5>3. \A x \in U : x < k + 1
          BY <3>1
        <5>4. QED
          BY <5>1, <5>2, <5>3
      <4>2. CASE j \in 1..c
        BY <4>1, <4>2, <3>3, <3>8, <3>4
      <4>3. CASE j = c + 1
        BY <4>1, <4>3, <3>4
      <4>4. QED
        BY <4>2, <4>3, <3>4
    <3> HIDE DEF g
    <3>9. QED
      BY <3>6, <3>7, <3>8
  <2>4. QED
    BY <2>2, <2>3
<1> HIDE DEF Good
<1>3. Nat \subseteq Good
  BY <1>1, <1>2, Inductive
<1> USE DEF Good
<1>4. Sorted(S)
  BY <1>3
<1>5. QED
  BY <1>4

-----------------------------------------------------------------------------
(* Sums.  SumFunctionOnSet(v, S) takes the members of S in the order of    *)
(* CHOOSE, by a recursive function on the subsets of S.                    *)

Pick(s) == CHOOSE x \in s : TRUE
NextSum(v, g, s) == IF s = {} THEN 0 ELSE v[Pick(s)] + g[s \ {Pick(s)}]
IsSum(v, g, S) == \A s \in SUBSET S : g[s] = NextSum(v, g, s)
SubsetsUpTo(S, n) == {s \in SUBSET S : IsFiniteSet(s) /\ Cardinality(s) <= n}

\* What is left when a member is taken out of a set
LEMMA PickOne ==
  ASSUME NEW s, IsFiniteSet(s), s # {}
  PROVE  /\ Pick(s) \in s
         /\ IsFiniteSet(s \ {Pick(s)})
         /\ Cardinality(s) \in Nat \ {0}
         /\ Cardinality(s \ {Pick(s)}) = Cardinality(s) - 1
<1>1. Pick(s) \in s
  BY DEF Pick
<1>2. Cardinality(s) \in Nat \ {0}
  BY FS_CardinalityType, FS_EmptySet
<1>3. QED
  BY <1>1, <1>2, FS_RemoveElement

LEMMA NoneLeft ==
  ASSUME NEW S
  PROVE  SubsetsUpTo(S, 0) = {{}}
<1>1. IsFiniteSet({}) /\ Cardinality({}) = 0
  BY FS_EmptySet
<1>2. ASSUME NEW s, IsFiniteSet(s), Cardinality(s) <= 0 PROVE s = {}
  BY <1>2, FS_EmptySet, FS_CardinalityType
<1>3. QED
  BY <1>1, <1>2 DEF SubsetsUpTo

LEMMA OneLess ==
  ASSUME NEW S, NEW n \in Nat, NEW s \in SubsetsUpTo(S, n + 1), s # {}
  PROVE  Pick(s) \in S /\ s \ {Pick(s)} \in SubsetsUpTo(S, n)
<1>1. IsFiniteSet(s) /\ Cardinality(s) <= n + 1 /\ s \subseteq S
  BY DEF SubsetsUpTo
<1>2. /\ Pick(s) \in s /\ IsFiniteSet(s \ {Pick(s)})
      /\ Cardinality(s) \in Nat \ {0}
      /\ Cardinality(s \ {Pick(s)}) = Cardinality(s) - 1
  BY <1>1, PickOne
<1>3. Cardinality(s \ {Pick(s)}) <= n
  BY <1>1, <1>2
<1>4. QED
  BY <1>1, <1>2, <1>3 DEF SubsetsUpTo

\* The recursive function exists ...
LEMMA SumExists ==
  ASSUME NEW S, IsFiniteSet(S), NEW v, \A x \in S : v[x] \in Int
  PROVE  \E g \in [SUBSET S -> Int] : IsSum(v, g, S)
<1> DEFINE Good == {n \in Nat : \E g \in [SubsetsUpTo(S, n) -> Int] :
                                  \A s \in SubsetsUpTo(S, n) : g[s] = NextSum(v, g, s)}
<1>1. 0 \in Good
  <2> DEFINE g == [s \in {{}} |-> 0]
  <2>1. g \in [{{}} -> Int] /\ g[{}] = 0
    OBVIOUS
  <2> HIDE DEF g
  <2>2. QED
    BY <2>1, NoneLeft DEF NextSum
<1>2. ASSUME NEW n \in Nat, n \in Good PROVE n + 1 \in Good
  <2>1. PICK g \in [SubsetsUpTo(S, n) -> Int] : \A s \in SubsetsUpTo(S, n) : g[s] = NextSum(v, g, s)
    BY <1>2
  <2> DEFINE h == [s \in SubsetsUpTo(S, n + 1) |-> NextSum(v, g, s)]
  <2>2. ASSUME NEW s \in SubsetsUpTo(S, n + 1), s # {}
        PROVE  s \ {Pick(s)} \in SubsetsUpTo(S, n) /\ v[Pick(s)] \in Int
    BY <2>2, OneLess
  <2>3. ASSUME NEW s \in SubsetsUpTo(S, n + 1)
        PROVE  NextSum(v, g, s) \in Int
    BY <2>1, <2>2 DEF NextSum
  <2>4. h \in [SubsetsUpTo(S, n + 1) -> Int]
    BY <2>3
  <2>5. ASSUME NEW s \in SubsetsUpTo(S, n) PROVE h[s] = g[s]
    <3>1. s \in SubsetsUpTo(S, n + 1)
      BY FS_CardinalityType DEF SubsetsUpTo
    <3>2. QED
      BY <3>1, <2>1
  <2>6. ASSUME NEW s \in SubsetsUpTo(S, n + 1) PROVE h[s] = NextSum(v, h, s)
    BY <2>2, <2>5 DEF NextSum
  <2> HIDE DEF h
  <2>7. QED
    BY <2>4, <2>6
<1> HIDE DEF Good
<1>3. Cardinality(S) \in Good
  BY <1>1, <1>2, Inductive, FS_CardinalityType
<1> USE DEF Good
<1>4. SubsetsUpTo(S, Cardinality(S)) = SUBSET S
  BY FS_Subset DEF SubsetsUpTo
<1>5. QED
  BY <1>3, <1>4 DEF IsSum

\* ... and two of them agree where both are defined.
LEMMA SumUnique ==
  ASSUME NEW S, NEW T, IsFiniteSet(S), T \subseteq S, NEW v, NEW g, NEW h,
         IsSum(v, g, S), IsSum(v, h, T)
  PROVE  g[T] = h[T]
<1> DEFINE Good == {n \in Nat : \A s \in SubsetsUpTo(T, n) : g[s] = h[s]}
<1>1. 0 \in Good
  BY NoneLeft DEF NextSum, IsSum
<1>2. ASSUME NEW n \in Nat, n \in Good PROVE n + 1 \in Good
  <2>1. SUFFICES ASSUME NEW s \in SubsetsUpTo(T, n + 1) PROVE g[s] = h[s]
    OBVIOUS
  <2>2. g[s] = NextSum(v, g, s) /\ h[s] = NextSum(v, h, s)
    BY DEF SubsetsUpTo, IsSum
  <2>3. CASE s = {}
    BY <2>2, <2>3 DEF NextSum
  <2>4. CASE s # {}
    <3>1. s \ {Pick(s)} \in SubsetsUpTo(T, n)
      BY <2>4, OneLess
    <3>2. g[s \ {Pick(s)}] = h[s \ {Pick(s)}]
      BY <3>1, <1>2
    <3>3. QED
      BY <2>2, <2>4, <3>2 DEF NextSum
  <2>5. QED
    BY <2>3, <2>4
<1> HIDE DEF Good
<1>3. IsFiniteSet(T) /\ Cardinality(T) \in Nat
  BY FS_Subset, FS_CardinalityType
<1>4. Cardinality(T) \in Good
  BY <1>1, <1>2, <1>3, Inductive
<1> USE DEF Good
<1>5. QED
  BY <1>3, <1>4 DEF SubsetsUpTo

LEMMA SumIs ==
  ASSUME NEW S, IsFiniteSet(S), NEW v, \A x \in S : v[x] \in Int
  PROVE  \E g \in [SUBSET S -> Int] : IsSum(v, g, S) /\ SumFunctionOnSet(v, S) = g[S]
<1> DEFINE Iter(g) == [s \in SUBSET S |-> IF s = {} THEN 0
                                          ELSE LET x == CHOOSE x \in s : TRUE
                                               IN  v[x] + g[s \ {x}]]
<1>1. PICK g \in [SUBSET S -> Int] : IsSum(v, g, S)
  BY SumExists
<1>2. \E f : f = Iter(f)
  <2>1. g = Iter(g)
    BY <1>1 DEF IsSum, NextSum, Pick
  <2> HIDE DEF Iter
  <2>2. QED
    BY <2>1
<1>3. SumFunctionOnSet(v, S) = (CHOOSE f : f = Iter(f))[S]
  BY DEF SumFunctionOnSet, FoldFunctionOnSet, MapThenFoldSet
<1> DEFINE c == CHOOSE f : f = Iter(f)
<1>4. c = Iter(c)
  <2> HIDE DEF Iter
  <2>1. QED
    BY <1>2
<1> HIDE DEF c
<1>5. IsSum(v, c, S)
  BY <1>4 DEF IsSum, NextSum, Pick
<1>6. c[S] = g[S]
  <2>1. S \subseteq S
    OBVIOUS
  <2>2. QED
    BY <1>1, <1>5, <2>1, SumUnique
<1>7. SumFunctionOnSet(v, S) = c[S]
  BY <1>3 DEF c
<1>8. QED
  BY <1>1, <1>6, <1>7

\* No member, no sum; otherwise take one out.
LEMMA SumNone ==
  ASSUME NEW v
  PROVE  SumFunctionOnSet(v, {}) = 0
<1>1. PICK g \in [SUBSET {} -> Int] : IsSum(v, g, {}) /\ SumFunctionOnSet(v, {}) = g[{}]
  BY FS_EmptySet, SumIs
<1>2. QED
  BY <1>1 DEF IsSum, NextSum

LEMMA SumPick ==
  ASSUME NEW S, IsFiniteSet(S), S # {}, NEW v, \A x \in S : v[x] \in Int
  PROVE  /\ SumFunctionOnSet(v, S) \in Int
         /\ SumFunctionOnSet(v, S \ {Pick(S)}) \in Int
         /\ SumFunctionOnSet(v, S) = v[Pick(S)] + SumFunctionOnSet(v, S \ {Pick(S)})
<1> DEFINE T == S \ {Pick(S)}
<1>1. IsFiniteSet(T) /\ T \subseteq S /\ \A x \in T : v[x] \in Int
  BY PickOne
<1>2. PICK g \in [SUBSET S -> Int] : IsSum(v, g, S) /\ SumFunctionOnSet(v, S) = g[S]
  BY SumIs
<1>3. PICK h \in [SUBSET T -> Int] : IsSum(v, h, T) /\ SumFunctionOnSet(v, T) = h[T]
  BY <1>1, SumIs
<1>4. g[T] = h[T]
  BY <1>1, <1>2, <1>3, SumUnique
<1>5. g[S] = v[Pick(S)] + g[T]
  BY <1>2 DEF IsSum, NextSum
<1>6. g[S] \in Int /\ h[T] \in Int
  BY <1>2, <1>3
<1>7. QED
  BY <1>2, <1>3, <1>4, <1>5, <1>6

\* A collection of subsets of S that has {}, and with each set the one with one more
\* member, has S.
LEMMA FiniteInduction ==
  ASSUME NEW S, IsFiniteSet(S), NEW G, {} \in G,
         \A T \in SUBSET S : T # {} /\ T \ {Pick(T)} \in G => T \in G
  PROVE  S \in G
<1> DEFINE Good == {n \in Nat : \A T \in SubsetsUpTo(S, n) : T \in G}
<1>1. 0 \in Good
  BY NoneLeft
<1>2. ASSUME NEW n \in Nat, n \in Good PROVE n + 1 \in Good
  <2>1. ASSUME NEW T \in SubsetsUpTo(S, n + 1), T # {} PROVE T \in G
    <3>1. T \ {Pick(T)} \in G
      BY <1>2, <2>1, OneLess
    <3>2. QED
      BY <2>1, <3>1 DEF SubsetsUpTo
  <2>2. \A T \in SubsetsUpTo(S, n + 1) : T \in G
    BY <2>1, Zenon
  <2>3. QED
    BY <2>2
<1> HIDE DEF Good
<1>3. Cardinality(S) \in Good
  BY <1>1, <1>2, Inductive, FS_CardinalityType
<1> USE DEF Good
<1>4. S \in SubsetsUpTo(S, Cardinality(S))
  BY FS_CardinalityType DEF SubsetsUpTo
<1>5. QED
  BY <1>3, <1>4

\* Every member may be the one that is taken out.
LEMMA SumTake ==
  ASSUME NEW S, IsFiniteSet(S), NEW v, \A x \in S : v[x] \in Int
  PROVE  /\ SumFunctionOnSet(v, S) \in Int
         /\ \A x \in S : /\ SumFunctionOnSet(v, S \ {x}) \in Int
                         /\ SumFunctionOnSet(v, S) = v[x] + SumFunctionOnSet(v, S \ {x})
<1> DEFINE Sum(T) == SumFunctionOnSet(v, T)
           Taken(T) == /\ Sum(T) \in Int
                       /\ \A x \in T : Sum(T \ {x}) \in Int /\ Sum(T) = v[x] + Sum(T \ {x})
           Good == {n \in Nat : \A T \in SubsetsUpTo(S, n) : Taken(T)}
<1>1. 0 \in Good
  <2>1. SumFunctionOnSet(v, {}) \in Int
    BY SumNone
  <2>2. Taken({})
    BY <2>1
  <2> HIDE DEF Taken
  <2>3. QED
    BY <2>2, NoneLeft
<1>2. ASSUME NEW n \in Nat, n \in Good PROVE n + 1 \in Good
  <2>0. Taken({})
    <3>1. SumFunctionOnSet(v, {}) \in Int
      BY SumNone
    <3>2. QED
      BY <3>1
  <2>1. SUFFICES ASSUME NEW T \in SubsetsUpTo(S, n + 1), T # {} PROVE Taken(T)
    <3> HIDE DEF Taken
    <3>1. QED
      BY <2>0
  <2> DEFINE p == Pick(T)
  <2>2. T \subseteq S /\ IsFiniteSet(T) /\ p \in T /\ \A x \in T : v[x] \in Int
    BY <2>1, PickOne DEF SubsetsUpTo
  <2>3. Sum(T) \in Int /\ Sum(T \ {p}) \in Int /\ Sum(T) = v[p] + Sum(T \ {p})
    BY <2>1, <2>2, SumPick
  <2>4. ASSUME NEW x \in T
        PROVE  T \ {x} \in SubsetsUpTo(S, n)
    <3>1. IsFiniteSet(T \ {x}) /\ Cardinality(T \ {x}) = Cardinality(T) - 1
      BY <2>2, FS_RemoveElement
    <3>2. Cardinality(T) \in Nat /\ Cardinality(T) <= n + 1
      BY <2>2, FS_CardinalityType DEF SubsetsUpTo
    <3>3. QED
      BY <2>2, <3>1, <3>2 DEF SubsetsUpTo
  <2> HIDE DEF p, Sum
  <2>5. ASSUME NEW x \in T, x # p
        PROVE  Sum(T \ {x}) \in Int /\ Sum(T) = v[x] + Sum(T \ {x})
    <3> DEFINE U == T \ {x}
               V == T \ {p}
               W == T \ {x, p}
    <3>1. Taken(U) /\ Taken(V)
      BY <1>2, <2>2, <2>4
    <3>2. p \in U /\ x \in V /\ U \ {p} = W /\ V \ {x} = W
      BY <2>2, <2>5
    <3> HIDE DEF U, V, W
    <3>3. Sum(U) = v[p] + Sum(W) /\ Sum(V) = v[x] + Sum(W) /\ Sum(W) \in Int /\ Sum(U) \in Int
      BY <3>1, <3>2
    <3>4. Sum(T) = v[p] + Sum(V)
      BY <2>3 DEF V
    <3>5. v[p] \in Int /\ v[x] \in Int
      BY <2>2
    <3>6. Sum(T) = v[x] + Sum(U)
      BY <3>3, <3>4, <3>5
    <3>7. QED
      BY <3>3, <3>6 DEF U
  <2>6. QED
    BY <2>2, <2>3, <2>5
<1> HIDE DEF Good
<1>3. Cardinality(S) \in Good
  BY <1>1, <1>2, Inductive, FS_CardinalityType
<1> USE DEF Good
<1>4. S \in SubsetsUpTo(S, Cardinality(S))
  BY FS_CardinalityType DEF SubsetsUpTo
<1>5. QED
  BY <1>3, <1>4

\* A sum of numbers is 0 if and only if all of them are.
LEMMA SumOfNats ==
  ASSUME NEW S, IsFiniteSet(S), NEW v, \A x \in S : v[x] \in Nat
  PROVE  /\ SumFunctionOnSet(v, S) \in Nat
         /\ SumFunctionOnSet(v, S) = 0 <=> \A x \in S : v[x] = 0
<1> DEFINE Sum(T) == SumFunctionOnSet(v, T)
           G == {T \in SUBSET S : Sum(T) \in Nat /\ (Sum(T) = 0 <=> \A x \in T : v[x] = 0)}
<1>1. {} \in G
  BY SumNone
<1>2. ASSUME NEW T \in SUBSET S, T # {}, T \ {Pick(T)} \in G
      PROVE  T \in G
  <2> DEFINE p == Pick(T)
             U == T \ {p}
  <2>1. IsFiniteSet(T) /\ p \in T /\ \A x \in T : v[x] \in Int
    BY <1>2, FS_Subset, PickOne
  <2>2. Sum(T) = v[p] + Sum(U)
    BY <2>1, <1>2, SumPick
  <2>3. v[p] \in Nat /\ Sum(U) \in Nat /\ (Sum(U) = 0 <=> \A x \in U : v[x] = 0)
    BY <1>2, <2>1
  <2>4. T = U \cup {p}
    BY <2>1
  <2> HIDE DEF p, U, Sum
  <2>5. Sum(T) \in Nat /\ (Sum(T) = 0 <=> v[p] = 0 /\ Sum(U) = 0)
    BY <2>2, <2>3
  <2>6. QED
    BY <2>3, <2>4, <2>5
<1> HIDE DEF G
<1>3. S \in G
  BY <1>1, <1>2, FiniteInduction
<1> USE DEF G
<1>4. QED
  BY <1>3

\* A sum depends on the values of the members only.
LEMMA SumSame ==
  ASSUME NEW S, IsFiniteSet(S), NEW v, NEW w, \A x \in S : v[x] \in Int /\ w[x] = v[x]
  PROVE  SumFunctionOnSet(w, S) = SumFunctionOnSet(v, S)
<1> DEFINE G == {T \in SUBSET S : SumFunctionOnSet(w, T) = SumFunctionOnSet(v, T)}
<1>1. {} \in G
  BY SumNone
<1>2. ASSUME NEW T \in SUBSET S, T # {}, T \ {Pick(T)} \in G
      PROVE  T \in G
  <2>1. IsFiniteSet(T) /\ Pick(T) \in T /\ \A x \in T : v[x] \in Int /\ w[x] \in Int
    BY <1>2, FS_Subset, PickOne
  <2>2. SumFunctionOnSet(v, T) = v[Pick(T)] + SumFunctionOnSet(v, T \ {Pick(T)})
    BY <2>1, <1>2, SumPick
  <2>3. SumFunctionOnSet(w, T) = w[Pick(T)] + SumFunctionOnSet(w, T \ {Pick(T)})
    BY <2>1, <1>2, SumPick
  <2>4. w[Pick(T)] = v[Pick(T)]
    BY <2>1
  <2>5. QED
    BY <1>2, <2>2, <2>3, <2>4
<1> HIDE DEF G
<1>3. S \in G
  BY <1>1, <1>2, FiniteInduction
<1> USE DEF G
<1>4. QED
  BY <1>3
=============================================================================
