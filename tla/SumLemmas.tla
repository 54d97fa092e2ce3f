------------------------------- MODULE SumLemmas -------------------------------
(***************************************************************************)
(* Sums over finite sets: what SumFunctionOnSet of the community modules   *)
(* gives.  It is a recursive function on the subsets of the set summed     *)
(* over; that such a function exists, and every fact about it, is shown by *)
(* induction over the subsets, with a set for the induction predicate.     *)
(***************************************************************************)
EXTENDS Integers, FiniteSets, Functions, FiniteSetTheorems, NaturalsInduction,
        WellFoundedInduction, TLAPS

-----------------------------------------------------------------------------
(* Induction over a set instead of a predicate.                              *)

\* A set of numbers that is not empty has a least element.
LEMMA LeastNumber ==
    ASSUME NEW S \in SUBSET Nat, S # {}
    PROVE  \E m \in S : \A n \in S : m <= n
  <1>1. IsWellFoundedOn({p \in Nat \X Nat : p[1] < p[2]}, Nat)
    BY NatLessThanWellFounded DEF OpToRel
  <1>2. PICK m \in S : \A n \in S : <<n, m>> \notin {p \in Nat \X Nat : p[1] < p[2]}
    BY <1>1, WFMin, Zenon
  <1>3. \A n \in S : m <= n
    <2>1. TAKE n \in S
    <2>2. <<n, m>> \notin {p \in Nat \X Nat : p[1] < p[2]} /\ n \in Nat /\ m \in Nat
      BY <1>2
    <2> QED
      BY <2>2
  <1> QED
    BY <1>3

\* A set of subsets that holds each subset whose own proper subsets it holds,
\* holds them all.
LEMMA SubsetInduction ==
    ASSUME NEW S, IsFiniteSet(S), NEW G,
           \A T \in SUBSET S : (\A U \in SUBSET T : U # T => U \in G) => T \in G
    PROVE  \A T \in SUBSET S : T \in G
  <1> DEFINE Bad == {T \in SUBSET S : T \notin G}
             Sizes == {Cardinality(T) : T \in Bad}
  <1> SUFFICES ASSUME Bad # {} PROVE FALSE
    OBVIOUS
  <1>1. \A T \in SUBSET S : IsFiniteSet(T) /\ Cardinality(T) \in Nat
    BY FS_Subset, FS_CardinalityType
  <1>2. Sizes \in SUBSET Nat /\ Sizes # {}
    BY <1>1
  <1>3. PICK m \in Sizes : \A n \in Sizes : m <= n
    BY <1>2, LeastNumber
  <1>4. PICK T \in Bad : Cardinality(T) = m
    OBVIOUS
  <1>5. ASSUME NEW U \in SUBSET T, U # T
        PROVE  U \in G
    <2>1. IsFiniteSet(T) /\ IsFiniteSet(U) /\ Cardinality(U) \in Nat /\ Cardinality(T) \in Nat
      BY <1>1
    <2>2. Cardinality(U) <= Cardinality(T) /\ Cardinality(U) # Cardinality(T)
      BY <1>5, <2>1, FS_Subset
    <2>3. Cardinality(U) \notin Sizes
      BY <1>3, <1>4, <2>1, <2>2
    <2> QED
      BY <2>3
  <1> QED
    BY <1>5

-----------------------------------------------------------------------------
(* The sum as a recursive function.                                          *)

Pick(s) == CHOOSE x \in s : TRUE

\* h is the recursion on the sets of D.
Recursion(f, D, h) == h = [s \in D |-> IF s = {} THEN 0 ELSE f[Pick(s)] + h[s \ {Pick(s)}]]

Sums(f, S) == CHOOSE h : Recursion(f, SUBSET S, h)

LEMMA SumIsRecursive ==
    ASSUME NEW f, NEW S
    PROVE  SumFunctionOnSet(f, S) = Sums(f, S)[S]
  BY Zenon DEF Sums, SumFunctionOnSet, FoldFunctionOnSet, MapThenFoldSet, Recursion, Pick

LEMMA PickIsIn ==
    ASSUME NEW s, s # {}
    PROVE  Pick(s) \in s
  BY DEF Pick

\* The recursion exists on the subsets of at most n elements, for each n.
LEMMA RecursionExists ==
    ASSUME NEW f, NEW S, IsFiniteSet(S)
    PROVE  \E h : Recursion(f, SUBSET S, h)
  <1> DEFINE Upto(n) == {s \in SUBSET S : Cardinality(s) <= n}
             Bad == {n \in Nat : ~ \E h : Recursion(f, Upto(n), h)}
  <1>1. \A s \in SUBSET S : IsFiniteSet(s) /\ Cardinality(s) \in Nat /\ Cardinality(s) <= Cardinality(S)
    BY FS_Subset, FS_CardinalityType
  <1>2. \A s \in SUBSET S : s # {} => /\ s \ {Pick(s)} \in SUBSET S
                                      /\ Cardinality(s \ {Pick(s)}) = Cardinality(s) - 1
    BY <1>1, PickIsIn, FS_RemoveElement
  <1>3. \E h : Recursion(f, Upto(0), h)
    <2> DEFINE h == [s \in Upto(0) |-> 0]
    <2>1. \A s \in Upto(0) : s = {}
      BY <1>1, FS_EmptySet
    <2>2. h = [s \in Upto(0) |-> IF s = {} THEN 0 ELSE f[Pick(s)] + h[s \ {Pick(s)}]]
      BY <2>1, Zenon
    <2> QED
      BY <2>2, Zenon DEF Recursion
  <1>4. ASSUME NEW n \in Nat, NEW h, Recursion(f, Upto(n), h)
        PROVE  \E g : Recursion(f, Upto(n + 1), g)
    <2> DEFINE g == [s \in Upto(n + 1) |-> IF s = {} THEN 0 ELSE f[Pick(s)] + h[s \ {Pick(s)}]]
    <2>1. \A s \in Upto(n) : h[s] = IF s = {} THEN 0 ELSE f[Pick(s)] + h[s \ {Pick(s)}]
      BY <1>4, Zenon DEF Recursion
    <2>2. \A s \in Upto(n) : s \in Upto(n + 1)
      BY <1>1
    <2>3. \A s \in Upto(n) : g[s] = h[s]
      BY <2>1, <2>2, Zenon
    <2>4. \A s \in Upto(n + 1) : s # {} => s \ {Pick(s)} \in Upto(n)
      <3> SUFFICES ASSUME NEW s \in SUBSET S, Cardinality(s) <= n + 1, s # {}
                   PROVE  s \ {Pick(s)} \in SUBSET S /\ Cardinality(s \ {Pick(s)}) <= n
        OBVIOUS
      <3> QED
        BY <1>1, <1>2
    <2>5. g = [s \in Upto(n + 1) |-> IF s = {} THEN 0 ELSE f[Pick(s)] + g[s \ {Pick(s)}]]
      <3>1. \A s \in Upto(n + 1) : s # {} => h[s \ {Pick(s)}] = g[s \ {Pick(s)}]
        BY <2>3, <2>4, Zenon
      <3> QED
        BY <3>1, Zenon
    <2> QED
      BY <2>5, Zenon DEF Recursion
  <1>5. Bad = {}
    <2> SUFFICES ASSUME Bad # {} PROVE FALSE
      OBVIOUS
    <2>1. PICK m \in Bad : \A n \in Bad : m <= n
      BY LeastNumber
    <2>2. m # 0 /\ m \in Nat /\ m - 1 \notin Bad
      <3>1. 0 \notin Bad /\ Bad \in SUBSET Nat
        BY <1>3
      <3> HIDE DEF Bad
      <3> QED
        BY <2>1, <3>1
    <2>3. m - 1 \in Nat /\ (m - 1) + 1 = m
      BY <2>2
    <2>4. \E h : Recursion(f, Upto(m - 1), h)
      BY <2>2, <2>3
    <2>5. \E g : Recursion(f, Upto((m - 1) + 1), g)
      BY <1>4, <2>3, <2>4
    <2> QED
      BY <2>1, <2>3, <2>5
  <1>6. Cardinality(S) \in Nat /\ Upto(Cardinality(S)) = SUBSET S
    BY <1>1
  <1> QED
    BY <1>5, <1>6

\* The sum over a set takes out the element that is picked first; which, the
\* lemmas below make irrelevant.
LEMMA SumUnfolds ==
    ASSUME NEW f, NEW S, IsFiniteSet(S)
    PROVE  SumFunctionOnSet(f, S)
             = IF S = {} THEN 0 ELSE f[Pick(S)] + SumFunctionOnSet(f, S \ {Pick(S)})
  <1> DEFINE h(T) == Sums(f, T)
  <1>1. ASSUME NEW T \in SUBSET S
        PROVE  Recursion(f, SUBSET T, h(T)) /\ SumFunctionOnSet(f, T) = h(T)[T]
    <2>1. \E k : Recursion(f, SUBSET T, k)
      BY FS_Subset, RecursionExists
    <2> QED
      BY <2>1, SumIsRecursive, Zenon DEF Sums
  <1> HIDE DEF h
  <1>2. ASSUME NEW T \in SUBSET S, NEW U \in SUBSET T
        PROVE  h(T)[U] = IF U = {} THEN 0 ELSE f[Pick(U)] + h(T)[U \ {Pick(U)}]
    <2> DEFINE k == h(T)
    <2>1. k = [s \in SUBSET T |-> IF s = {} THEN 0 ELSE f[Pick(s)] + k[s \ {Pick(s)}]]
      BY <1>1, Zenon DEF Recursion
    <2> HIDE DEF k
    <2>2. k[U] = IF U = {} THEN 0 ELSE f[Pick(U)] + k[U \ {Pick(U)}]
      BY <2>1, Zenon
    <2> QED
      BY <2>2 DEF k
  <1>3. ASSUME NEW T \in SUBSET S
        PROVE  \A U \in SUBSET T : h(S)[U] = h(T)[U]
    <2> DEFINE G == {U \in SUBSET T : h(S)[U] = h(T)[U]}
    <2>1. IsFiniteSet(T)
      BY FS_Subset
    <2>2. ASSUME NEW U \in SUBSET T, \A V \in SUBSET U : V # U => V \in G
          PROVE  U \in G
      <3>1. h(S)[U] = IF U = {} THEN 0 ELSE f[Pick(U)] + h(S)[U \ {Pick(U)}]
        BY <1>2
      <3>2. h(T)[U] = IF U = {} THEN 0 ELSE f[Pick(U)] + h(T)[U \ {Pick(U)}]
        BY <1>2
      <3>3. U # {} => U \ {Pick(U)} \in G
        BY <2>2, PickIsIn
      <3> QED
        BY <3>1, <3>2, <3>3
    <2>3. \A U \in SUBSET T : U \in G
      <3> HIDE DEF G
      <3> QED
        BY <2>1, <2>2, SubsetInduction
    <2> QED
      BY <2>3
  <1>4. h(S)[S] = IF S = {} THEN 0 ELSE f[Pick(S)] + h(S)[S \ {Pick(S)}]
    BY <1>2
  <1>5. h(S)[S \ {Pick(S)}] = h(S \ {Pick(S)})[S \ {Pick(S)}]
    BY <1>3
  <1>6. /\ SumFunctionOnSet(f, S) = h(S)[S]
        /\ SumFunctionOnSet(f, S \ {Pick(S)}) = h(S \ {Pick(S)})[S \ {Pick(S)}]
    BY <1>1
  <1> QED
    BY <1>4, <1>5, <1>6, Zenon

\* Of whole numbers, any element may be taken out first.
LEMMA SumTakesOut ==
    ASSUME NEW f, NEW S, IsFiniteSet(S), \A x \in S : f[x] \in Int
    PROVE  /\ SumFunctionOnSet(f, S) \in Int
           /\ \A x \in S : SumFunctionOnSet(f, S) = f[x] + SumFunctionOnSet(f, S \ {x})
  <1> DEFINE Sum(T) == SumFunctionOnSet(f, T)
             Good(T) == Sum(T) \in Int /\ \A x \in T : Sum(T) = f[x] + Sum(T \ {x})
             G == {T \in SUBSET S : Good(T)}
  <1>1. \A T \in SUBSET S : Sum(T) = IF T = {} THEN 0 ELSE f[Pick(T)] + Sum(T \ {Pick(T)})
    BY FS_Subset, SumUnfolds
  <1> HIDE DEF Sum
  <1>2. ASSUME NEW T \in SUBSET S, \A U \in SUBSET T : U # T => U \in G
        PROVE  T \in G
    <2>1. CASE T = {}
      BY <1>1, <2>1
    <2>2. CASE T # {}
      <3> DEFINE c == Pick(T)
      <3>1. c \in T /\ f[c] \in Int /\ T \ {c} \in SUBSET T /\ T \ {c} # T
        BY <2>2, PickIsIn
      <3> HIDE DEF c
      <3>2. Sum(T) = f[c] + Sum(T \ {c}) /\ Good(T \ {c})
        BY <1>1, <1>2, <2>2, <3>1 DEF c
      <3>3. Sum(T) \in Int
        BY <3>1, <3>2
      <3>4. ASSUME NEW x \in T, x # c
            PROVE  Sum(T) = f[x] + Sum(T \ {x})
        <4>1. T \ {x} \in SUBSET T /\ T \ {x} # T /\ c \in T \ {x} /\ x \in T \ {c} /\ f[x] \in Int
          BY <3>1, <3>4
        <4>2. Good(T \ {x})
          BY <1>2, <4>1
        <4>3. Sum(T \ {x}) = f[c] + Sum((T \ {x}) \ {c}) /\ Sum(T \ {c}) = f[x] + Sum((T \ {c}) \ {x})
          BY <3>2, <4>1, <4>2
        <4>4. (T \ {x}) \ {c} = (T \ {c}) \ {x}
          OBVIOUS
        <4>5. Good((T \ {c}) \ {x})
          <5>1. (T \ {c}) \ {x} \in SUBSET T /\ (T \ {c}) \ {x} # T
            BY <3>1
          <5> QED
            BY <1>2, <5>1
        <4> QED
          BY <3>1, <3>2, <4>1, <4>3, <4>4, <4>5
      <3> QED
        BY <3>2, <3>3, <3>4
    <2> QED
      BY <2>1, <2>2
  <1>3. S \in G
    <2> HIDE DEF G
    <2> QED
      BY <1>2, SubsetInduction
  <1> QED
    BY <1>3 DEF Sum

-----------------------------------------------------------------------------
(* What follows for sums of whole numbers.                                   *)

\* Induction by taking elements out one at a time.
LEMMA TakeOutInduction ==
    ASSUME NEW S, IsFiniteSet(S), NEW G, {} \in G,
           \A T \in SUBSET S : \A x \in T : T \ {x} \in G => T \in G
    PROVE  S \in G
  <1>1. ASSUME NEW T \in SUBSET S, \A U \in SUBSET T : U # T => U \in G
        PROVE  T \in G
    <2>1. CASE T = {}
      BY <2>1
    <2>2. CASE T # {}
      <3>1. PICK x \in T : TRUE
        BY <2>2
      <3>2. T \ {x} \in SUBSET T /\ T \ {x} # T
        BY <3>1
      <3> QED
        BY <1>1, <3>2
    <2> QED
      BY <2>1, <2>2
  <1> QED
    BY <1>1, SubsetInduction

LEMMA SumOfNone ==
    ASSUME NEW f
    PROVE  SumFunctionOnSet(f, {}) = 0
  BY FS_EmptySet, SumUnfolds

LEMMA SumAdds ==
    ASSUME NEW S, IsFiniteSet(S), NEW x, x \notin S, NEW f, f[x] \in Int, \A y \in S : f[y] \in Int
    PROVE  SumFunctionOnSet(f, S \cup {x}) = f[x] + SumFunctionOnSet(f, S)
  <1>1. IsFiniteSet(S \cup {x}) /\ \A y \in S \cup {x} : f[y] \in Int
    BY FS_AddElement
  <1>2. (S \cup {x}) \ {x} = S
    OBVIOUS
  <1> QED
    BY <1>1, <1>2, SumTakesOut

\* Larger summands, and linear combinations.
LEMMA SumBelow ==
    ASSUME NEW S, IsFiniteSet(S), NEW f, NEW g,
           \A x \in S : f[x] \in Int /\ g[x] \in Int /\ f[x] <= g[x]
    PROVE  SumFunctionOnSet(f, S) <= SumFunctionOnSet(g, S)
  <1> DEFINE G == {T \in SUBSET S : SumFunctionOnSet(f, T) <= SumFunctionOnSet(g, T)}
  <1>1. {} \in G
    BY SumOfNone
  <1>2. ASSUME NEW T \in SUBSET S, NEW x \in T, T \ {x} \in G
        PROVE  T \in G
    <2>1. IsFiniteSet(T) /\ IsFiniteSet(T \ {x})
      BY FS_Subset
    <2>2. /\ SumFunctionOnSet(f, T) = f[x] + SumFunctionOnSet(f, T \ {x})
          /\ SumFunctionOnSet(g, T) = g[x] + SumFunctionOnSet(g, T \ {x})
          /\ SumFunctionOnSet(f, T \ {x}) \in Int /\ SumFunctionOnSet(g, T \ {x}) \in Int
      BY <2>1, SumTakesOut
    <2>3. f[x] \in Int /\ g[x] \in Int /\ f[x] <= g[x]
      OBVIOUS
    <2> QED
      BY <1>2, <2>2, <2>3
  <1>3. S \in G
    <2> HIDE DEF G
    <2> QED
      BY <1>1, <1>2, TakeOutInduction
  <1> QED
    BY <1>3

LEMMA SumAlike ==
    ASSUME NEW S, IsFiniteSet(S), NEW f, NEW g, \A x \in S : f[x] \in Int /\ f[x] = g[x]
    PROVE  SumFunctionOnSet(f, S) = SumFunctionOnSet(g, S)
  <1>1. /\ SumFunctionOnSet(f, S) <= SumFunctionOnSet(g, S)
        /\ SumFunctionOnSet(g, S) <= SumFunctionOnSet(f, S)
    BY SumBelow
  <1>2. SumFunctionOnSet(f, S) \in Int /\ SumFunctionOnSet(g, S) \in Int
    BY SumTakesOut
  <1> QED
    BY <1>1, <1>2

LEMMA SumLinear ==
    ASSUME NEW S, IsFiniteSet(S), NEW f, NEW g, NEW h, NEW k \in Int,
           \A x \in S : f[x] \in Int /\ g[x] \in Int /\ h[x] = k * f[x] + g[x]
    PROVE  SumFunctionOnSet(h, S) = k * SumFunctionOnSet(f, S) + SumFunctionOnSet(g, S)
  <1> DEFINE G == {T \in SUBSET S :
                     SumFunctionOnSet(h, T) = k * SumFunctionOnSet(f, T) + SumFunctionOnSet(g, T)}
  <1>1. {} \in G
    BY SumOfNone
  <1>2. ASSUME NEW T \in SUBSET S, NEW x \in T, T \ {x} \in G
        PROVE  T \in G
    <2>1. IsFiniteSet(T) /\ IsFiniteSet(T \ {x}) /\ \A y \in T : h[y] \in Int
      BY FS_Subset
    <2>2. /\ SumFunctionOnSet(f, T) = f[x] + SumFunctionOnSet(f, T \ {x})
          /\ SumFunctionOnSet(g, T) = g[x] + SumFunctionOnSet(g, T \ {x})
          /\ SumFunctionOnSet(h, T) = h[x] + SumFunctionOnSet(h, T \ {x})
          /\ SumFunctionOnSet(f, T \ {x}) \in Int /\ SumFunctionOnSet(g, T \ {x}) \in Int
          /\ SumFunctionOnSet(h, T \ {x}) \in Int
      BY <2>1, SumTakesOut
    <2>3. f[x] \in Int /\ g[x] \in Int /\ h[x] = k * f[x] + g[x]
      OBVIOUS
    <2>4. k * (f[x] + SumFunctionOnSet(f, T \ {x})) = k * f[x] + k * SumFunctionOnSet(f, T \ {x})
      BY <2>2, <2>3
    <2> QED
      BY <1>2, <2>2, <2>3, <2>4
  <1>3. S \in G
    <2> HIDE DEF G
    <2> QED
      BY <1>1, <1>2, TakeOutInduction
  <1> QED
    BY <1>3

LEMMA SumOfNaturals ==
    ASSUME NEW S, IsFiniteSet(S), NEW f, \A x \in S : f[x] \in Nat
    PROVE  SumFunctionOnSet(f, S) \in Nat
  <1> DEFINE G == {T \in SUBSET S : SumFunctionOnSet(f, T) \in Nat}
  <1>2. {} \in G
    BY SumOfNone
  <1>3. ASSUME NEW T \in SUBSET S, NEW x \in T, T \ {x} \in G
        PROVE  T \in G
    <2>1. IsFiniteSet(T) /\ f[x] \in Nat
      BY FS_Subset
    <2>2. SumFunctionOnSet(f, T) = f[x] + SumFunctionOnSet(f, T \ {x})
      BY <2>1, SumTakesOut
    <2> QED
      BY <1>3, <2>1, <2>2
  <1>4. S \in G
    <2> HIDE DEF G
    <2> QED
      BY <1>2, <1>3, TakeOutInduction
  <1> QED
    BY <1>4

\* One summand changes.
LEMMA SumChanges ==
    ASSUME NEW S, IsFiniteSet(S), NEW f, NEW g, NEW x \in S,
           \A y \in S : f[y] \in Int /\ g[y] \in Int, \A y \in S \ {x} : g[y] = f[y]
    PROVE  SumFunctionOnSet(g, S) = SumFunctionOnSet(f, S) + g[x] - f[x]
  <1>1. IsFiniteSet(S \ {x})
    BY FS_Subset
  <1>2. SumFunctionOnSet(g, S \ {x}) = SumFunctionOnSet(f, S \ {x})
    BY <1>1, SumAlike
  <1>3. /\ SumFunctionOnSet(f, S) = f[x] + SumFunctionOnSet(f, S \ {x})
        /\ SumFunctionOnSet(g, S) = g[x] + SumFunctionOnSet(g, S \ {x})
        /\ SumFunctionOnSet(f, S \ {x}) \in Int /\ f[x] \in Int /\ g[x] \in Int
    BY <1>1, SumTakesOut
  <1> QED
    BY <1>2, <1>3

LEMMA OneMore ==
    ASSUME NEW k \in Int, NEW c \in Nat, NEW d \in Nat, d = c - 1, NEW sum \in Int, NEW y \in Int,
           sum <= k * d, y <= k
    PROVE  y + sum <= k * c
  <1>1. k * (c - 1) = k * c - k /\ k * c \in Int
    OBVIOUS
  <1> QED
    BY <1>1

\* No summand is more than k.
LEMMA SumAtMost ==
    ASSUME NEW S, IsFiniteSet(S), NEW f, NEW k \in Int, \A x \in S : f[x] \in Int /\ f[x] <= k
    PROVE  SumFunctionOnSet(f, S) <= k * Cardinality(S)
  <1> DEFINE G == {T \in SUBSET S : SumFunctionOnSet(f, T) <= k * Cardinality(T)}
  <1>1. {} \in G
    BY SumOfNone, FS_EmptySet
  <1>2. ASSUME NEW T \in SUBSET S, NEW x \in T, T \ {x} \in G
        PROVE  T \in G
    <2>1. IsFiniteSet(T) /\ IsFiniteSet(T \ {x}) /\ f[x] \in Int /\ f[x] <= k
      BY FS_Subset
    <2>2. /\ SumFunctionOnSet(f, T) = f[x] + SumFunctionOnSet(f, T \ {x})
          /\ SumFunctionOnSet(f, T \ {x}) \in Int
      BY <2>1, SumTakesOut
    <2>3. Cardinality(T) \in Nat /\ Cardinality(T \ {x}) = Cardinality(T) - 1
      BY <2>1, FS_CardinalityType, FS_RemoveElement
    <2>4. SumFunctionOnSet(f, T \ {x}) <= k * Cardinality(T \ {x})
      BY <1>2
    <2> QED
      BY <2>1, <2>2, <2>3, <2>4, OneMore
  <1>3. S \in G
    <2> HIDE DEF G
    <2> QED
      BY <1>1, <1>2, TakeOutInduction
  <1> QED
    BY <1>3

LEMMA SumOfZeros ==
    ASSUME NEW S, IsFiniteSet(S), NEW f, \A x \in S : f[x] = 0
    PROVE  SumFunctionOnSet(f, S) = 0
  <1>1. SumFunctionOnSet(f, S) = (-1) * SumFunctionOnSet(f, S) + SumFunctionOnSet(f, S)
    BY SumLinear
  <1>2. SumFunctionOnSet(f, S) \in Int
    BY SumTakesOut
  <1> QED
    BY <1>1, <1>2

LEMMA SumScaled ==
    ASSUME NEW S, IsFiniteSet(S), NEW f, NEW h, NEW k \in Int,
           \A x \in S : f[x] \in Int /\ h[x] = k * f[x]
    PROVE  SumFunctionOnSet(h, S) = k * SumFunctionOnSet(f, S)
  <1> DEFINE z == [x \in S |-> 0]
  <1>1. \A x \in S : z[x] = 0
    OBVIOUS
  <1> HIDE DEF z
  <1>2. SumFunctionOnSet(z, S) = 0
    BY <1>1, SumOfZeros
  <1>3. \A x \in S : k * f[x] \in Int
    OBVIOUS
  <1>4. SumFunctionOnSet(h, S) = k * SumFunctionOnSet(f, S) + SumFunctionOnSet(z, S)
    <2>1. \A x \in S : f[x] \in Int /\ z[x] \in Int /\ h[x] = k * f[x] + z[x]
      BY <1>1, <1>3
    <2> QED
      BY <2>1, SumLinear
  <1>5. SumFunctionOnSet(f, S) \in Int
    BY SumTakesOut
  <1>6. k * SumFunctionOnSet(f, S) \in Int
    BY <1>5
  <1> QED
    BY <1>2, <1>4, <1>6

\* Ones add up to how many they are.
LEMMA SumCounts ==
    ASSUME NEW S, IsFiniteSet(S), NEW C \in SUBSET S, NEW f,
           \A x \in S : f[x] = IF x \in C THEN 1 ELSE 0
    PROVE  SumFunctionOnSet(f, S) = Cardinality(C)
  <1> DEFINE G == {T \in SUBSET S : SumFunctionOnSet(f, T) = Cardinality(C \cap T)}
  <1>1. {} \in G
    <2>1. C \cap {} = {}
      OBVIOUS
    <2> QED
      BY <2>1, SumOfNone, FS_EmptySet
  <1>2. ASSUME NEW T \in SUBSET S, NEW x \in T, T \ {x} \in G
        PROVE  T \in G
    <2>1. IsFiniteSet(T) /\ IsFiniteSet(C \cap T) /\ \A y \in T : f[y] \in Int
      BY FS_Subset
    <2>2. SumFunctionOnSet(f, T) = f[x] + SumFunctionOnSet(f, T \ {x})
      BY <2>1, SumTakesOut
    <2>3. C \cap (T \ {x}) = (C \cap T) \ {x}
      OBVIOUS
    <2>4. Cardinality(C \cap (T \ {x})) = IF x \in C THEN Cardinality(C \cap T) - 1 ELSE Cardinality(C \cap T)
      BY <2>1, <2>3, FS_RemoveElement
    <2>5. Cardinality(C \cap T) \in Nat
      BY <2>1, FS_CardinalityType
    <2> QED
      BY <1>2, <2>2, <2>4, <2>5
  <1>3. S \in G
    <2> HIDE DEF G
    <2> QED
      BY <1>1, <1>2, TakeOutInduction
  <1>4. C \cap S = C
    OBVIOUS
  <1> QED
    BY <1>3, <1>4

\* A sum of naturals is no less than each.
LEMMA SumAboveEach ==
    ASSUME NEW S, IsFiniteSet(S), NEW f, \A x \in S : f[x] \in Nat, NEW x \in S
    PROVE  f[x] <= SumFunctionOnSet(f, S)
  <1>1. IsFiniteSet(S \ {x})
    BY FS_Subset
  <1>2. SumFunctionOnSet(f, S) = f[x] + SumFunctionOnSet(f, S \ {x})
    BY SumTakesOut
  <1>3. SumFunctionOnSet(f, S \ {x}) \in Nat
    BY <1>1, SumOfNaturals
  <1> QED
    BY <1>2, <1>3

\* The sum over two sets that share nothing.
LEMMA SumOfTwoSets ==
    ASSUME NEW S, IsFiniteSet(S), NEW D, IsFiniteSet(D), S \cap D = {}, NEW f,
           \A x \in S \cup D : f[x] \in Int
    PROVE  SumFunctionOnSet(f, S \cup D) = SumFunctionOnSet(f, S) + SumFunctionOnSet(f, D)
  <1> DEFINE G == {T \in SUBSET D :
                     SumFunctionOnSet(f, S \cup T) = SumFunctionOnSet(f, S) + SumFunctionOnSet(f, T)}
  <1>1. {} \in G
    <2>1. S \cup {} = S /\ SumFunctionOnSet(f, S) \in Int
      BY SumTakesOut
    <2> QED
      BY <2>1, SumOfNone
  <1>2. ASSUME NEW T \in SUBSET D, NEW x \in T, T \ {x} \in G
        PROVE  T \in G
    <2>1. IsFiniteSet(T) /\ IsFiniteSet(T \ {x})
      BY FS_Subset
    <2>2. IsFiniteSet(S \cup T) /\ x \in S \cup T /\ (S \cup T) \ {x} = S \cup (T \ {x})
      BY <2>1, FS_Union
    <2>3. SumFunctionOnSet(f, S \cup T) = f[x] + SumFunctionOnSet(f, S \cup (T \ {x}))
      BY <2>2, SumTakesOut
    <2>4. SumFunctionOnSet(f, T) = f[x] + SumFunctionOnSet(f, T \ {x})
      BY <2>1, SumTakesOut
    <2>5. SumFunctionOnSet(f, S) \in Int /\ SumFunctionOnSet(f, T \ {x}) \in Int /\ f[x] \in Int
      BY <2>1, SumTakesOut
    <2> QED
      BY <1>2, <2>3, <2>4, <2>5
  <1>3. D \in G
    <2> HIDE DEF G
    <2> QED
      BY <1>1, <1>2, TakeOutInduction
  <1> QED
    BY <1>3

LEMMA SumIsOnSet ==
    \A f : SumFunction(f) = SumFunctionOnSet(f, DOMAIN f)
  BY DEF SumFunction

LEMMA SumWith ==
    ASSUME NEW D, IsFiniteSet(D), NEW x, x \notin D, NEW f, NEW g,
           \A y \in D : f[y] \in Int, \A y \in D : g[y] = f[y], g[x] \in Int
    PROVE  SumFunctionOnSet(g, D \cup {x}) = SumFunctionOnSet(f, D) + g[x]
  <1>1. \A y \in D : g[y] \in Int
    OBVIOUS
  <1>2. SumFunctionOnSet(g, D \cup {x}) = g[x] + SumFunctionOnSet(g, D)
    BY <1>1, SumAdds
  <1>3. SumFunctionOnSet(f, D) = SumFunctionOnSet(g, D)
    BY SumAlike
  <1>4. SumFunctionOnSet(f, D) \in Int
    BY SumTakesOut
  <1> QED
    BY <1>2, <1>3, <1>4

LEMMA SumWithout ==
    ASSUME NEW D, IsFiniteSet(D), NEW x \in D, NEW f, NEW g,
           \A y \in D : f[y] \in Int, \A y \in D \ {x} : g[y] = f[y]
    PROVE  SumFunctionOnSet(g, D \ {x}) = SumFunctionOnSet(f, D) - f[x]
  <1>1. SumFunctionOnSet(f, D) = f[x] + SumFunctionOnSet(f, D \ {x}) /\ f[x] \in Int
    BY SumTakesOut
  <1>2. IsFiniteSet(D \ {x})
    BY FS_RemoveElement
  <1>3. SumFunctionOnSet(f, D \ {x}) = SumFunctionOnSet(g, D \ {x})
    BY <1>2, SumAlike
  <1>4. SumFunctionOnSet(f, D \ {x}) \in Int
    BY <1>2, SumTakesOut
  <1> QED
    BY <1>1, <1>3, <1>4

\* The values of a function on a finite set have a least and a greatest one.
LEMMA FiniteExtremes ==
    ASSUME NEW S, IsFiniteSet(S), S # {}, NEW f, \A x \in S : f[x] \in Int
    PROVE  /\ \E m \in S : \A x \in S : f[x] <= f[m]
           /\ \E m \in S : \A x \in S : f[m] <= f[x]
  <1> DEFINE Has(T) == /\ \E m \in T : \A x \in T : f[x] <= f[m]
                       /\ \E m \in T : \A x \in T : f[m] <= f[x]
             G == {T \in SUBSET S : T # {} => Has(T)}
  <1>1. {} \in G
    OBVIOUS
  <1>2. ASSUME NEW T \in SUBSET S, NEW y \in T, T \ {y} \in G
        PROVE  T \in G
    <2>1. \A x \in T : f[x] \in Int
      OBVIOUS
    <2>2. CASE T = {y}
      <3>1. Has(T)
        BY <2>1, <2>2
      <3> QED
        BY <3>1
    <2>3. CASE T # {y}
      <3>1. Has(T \ {y})
        BY <1>2, <2>3
      <3>2. PICK m \in T \ {y} : \A x \in T \ {y} : f[x] <= f[m]
        BY <3>1
      <3>3. PICK k \in T \ {y} : \A x \in T \ {y} : f[k] <= f[x]
        BY <3>1
      <3>4. \E n \in T : \A x \in T : f[x] <= f[n]
        <4>1. CASE f[y] <= f[m]
          <5>1. \A x \in T : f[x] <= f[m]
            BY <2>1, <3>2, <4>1
          <5> QED
            BY <5>1
        <4>2. CASE f[y] > f[m]
          <5>1. \A x \in T : f[x] <= f[y]
            BY <2>1, <3>2, <4>2
          <5> QED
            BY <5>1
        <4> QED
          BY <2>1, <4>1, <4>2
      <3>5. \E n \in T : \A x \in T : f[n] <= f[x]
        <4>1. CASE f[k] <= f[y]
          <5>1. \A x \in T : f[k] <= f[x]
            BY <2>1, <3>3, <4>1
          <5> QED
            BY <5>1
        <4>2. CASE f[k] > f[y]
          <5>1. \A x \in T : f[y] <= f[x]
            BY <2>1, <3>3, <4>2
          <5> QED
            BY <5>1
        <4> QED
          BY <2>1, <4>1, <4>2
      <3> QED
        BY <3>4, <3>5
    <2> QED
      BY <2>2, <2>3
  <1>3. S \in G
    <2> HIDE DEF G
    <2> QED
      BY <1>1, <1>2, TakeOutInduction
  <1> QED
    BY <1>3

-----------------------------------------------------------------------------
(* Division.                                                                 *)

LEMMA DividesInto ==
    ASSUME NEW x \in Int, NEW d \in Nat, d > 0
    PROVE  /\ x \div d \in Int /\ x % d \in Int /\ d * (x \div d) \in Int
           /\ x = d * (x \div d) + (x % d) /\ 0 <= x % d /\ x % d < d
  OBVIOUS

LEMMA NoRest ==
    ASSUME NEW d \in Nat, d > 0, NEW k \in Int
    PROVE  (d * k) % d = 0
  <1> DEFINE y == d * k
             q == y \div d
             r == y % d
  <1>1. y \in Int
    OBVIOUS
  <1> HIDE DEF y
  <1>2. q \in Int /\ r \in Int /\ d * q \in Int /\ y = d * q + r /\ 0 <= r /\ r < d
    BY <1>1, DividesInto
  <1> HIDE DEF q, r
  <1>3. r = d * (k - q)
    <2>1. d * (k - q) = d * k - d * q
      BY <1>2
    <2> QED
      BY <1>2, <2>1 DEF y
  <1>4. k - q = 0
    <2> DEFINE e == k - q
    <2>1. e \in Int
      BY <1>2
    <2> HIDE DEF e
    <2>2. ~(e >= 1)
      <3> SUFFICES ASSUME e >= 1 PROVE FALSE
        OBVIOUS
      <3>1. d * e >= d
        BY <2>1
      <3> QED
        BY <1>2, <1>3, <3>1 DEF e
    <2>3. ~(e <= -1)
      <3> SUFFICES ASSUME e <= -1 PROVE FALSE
        OBVIOUS
      <3>1. d * e <= d * (-1) /\ d * (-1) = -d
        BY <2>1
      <3> QED
        BY <1>2, <1>3, <3>1 DEF e
    <2>4. e = 0
      BY <2>1, <2>2, <2>3
    <2> QED
      BY <2>4 DEF e
  <1>5. r = 0
    BY <1>3, <1>4
  <1> QED
    BY <1>5 DEF r, y

\* Multiples of a step differ by whole steps.
LEMMA StepsApart ==
    ASSUME NEW d \in Nat, d > 0, NEW x \in Int, x % d = 0
    PROVE  /\ (x + d) % d = 0
           /\ \A y \in Int : y % d = 0 /\ y < x => y + d <= x
  <1>1. x \div d \in Int /\ x = d * (x \div d)
    <2>1. x \div d \in Int /\ d * (x \div d) \in Int /\ x = d * (x \div d) + (x % d)
      BY DividesInto
    <2> QED
      BY <2>1
  <1> DEFINE k == x \div d
  <1> HIDE DEF k
  <1>2. k \in Int /\ x = d * k
    BY <1>1 DEF k
  <1>3. (x + d) % d = 0
    <2>1. k + 1 \in Int /\ x + d = d * (k + 1)
      BY <1>2
    <2> QED
      BY <2>1, NoRest
  <1>4. ASSUME NEW y \in Int, y % d = 0, y < x
        PROVE  y + d <= x
    <2> DEFINE j == y \div d
    <2>1. j \in Int /\ y = d * j
      <3>1. y \div d \in Int /\ d * (y \div d) \in Int /\ y = d * (y \div d) + (y % d)
        BY DividesInto
      <3> QED
        BY <1>4, <3>1
    <2> HIDE DEF j
    <2>2. j + 1 <= k
      <3> SUFFICES ASSUME k <= j PROVE FALSE
        BY <1>2, <2>1
      <3>1. d * k <= d * j
        BY <1>2, <2>1
      <3> QED
        BY <1>2, <1>4, <2>1, <3>1
    <2>3. d * (j + 1) <= d * k /\ d * (j + 1) = d * j + d
      BY <1>2, <2>1, <2>2
    <2> QED
      BY <1>2, <2>1, <2>3
  <1> QED
    BY <1>3, <1>4

-----------------------------------------------------------------------------
(* Recursion over an interval, and induction along it.                       *)

\* What goes over from each number to the next holds at the end.
LEMMA IntervalInduction ==
    ASSUME NEW m \in Nat, NEW G, 0 \in G, \A i \in 1 .. m : i - 1 \in G => i \in G
    PROVE  \A i \in 0 .. m : i \in G
  <1> DEFINE Missing == {i \in 0 .. m : i \notin G}
  <1> SUFFICES ASSUME Missing # {} PROVE FALSE
    OBVIOUS
  <1>1. Missing \in SUBSET Nat
    OBVIOUS
  <1>2. PICK least \in Missing : \A i \in Missing : least <= i
    BY <1>1, LeastNumber
  <1>3. least \in 0 .. m /\ least \notin G
    BY <1>2
  <1>4. least \in 1 .. m /\ least - 1 \in 0 .. m
    BY <1>3
  <1>5. least - 1 \in G
    <2>1. least - 1 \notin Missing
      BY <1>2, <1>3, <1>4
    <2> QED
      BY <1>4, <2>1
  <1> QED
    BY <1>3, <1>4, <1>5

\* A list of steps, each defined on what the one before it may give.
Steps(f, first, step, m) ==
    f = [i \in 0 .. m |-> IF i = 0 THEN first ELSE step[<<i, f[i - 1]>>]]

LEMMA IntervalRecursion ==
    ASSUME NEW m \in Nat, NEW first, NEW step
    PROVE  \E f : Steps(f, first, step, m)
  <1> DEFINE G == {n \in 0 .. m : \E f : Steps(f, first, step, n)}
  <1>1. 0 \in G
    <2> DEFINE f == [i \in 0 .. 0 |-> first]
    <2>1. \A i \in 0 .. 0 : i = 0
      OBVIOUS
    <2>2. f = [i \in 0 .. 0 |-> IF i = 0 THEN first ELSE step[<<i, f[i - 1]>>]]
      BY <2>1
    <2>3. Steps(f, first, step, 0)
      BY <2>2, Zenon DEF Steps
    <2> QED
      BY <2>3
  <1>2. ASSUME NEW n \in 1 .. m, n - 1 \in G
        PROVE  n \in G
    <2>1. PICK f : Steps(f, first, step, n - 1)
      BY <1>2
    <2> DEFINE g == [i \in 0 .. n |-> IF i = n THEN step[<<n, f[n - 1]>>] ELSE f[i]]
    <2>2. /\ n - 1 \in 0 .. n - 1 /\ n - 1 \in 0 .. n /\ n - 1 # n
          /\ 0 .. n = (0 .. n - 1) \cup {n} /\ n \notin 0 .. n - 1 /\ n # 0
      OBVIOUS
    <2>3. \A i \in 0 .. n - 1 : f[i] = IF i = 0 THEN first ELSE step[<<i, f[i - 1]>>]
      BY <2>1 DEF Steps
    <2>4. \A i \in 0 .. n - 1 : i # 0 => i - 1 \in 0 .. n - 1
      OBVIOUS
    <2>5. /\ g[n] = step[<<n, f[n - 1]>>]
          /\ \A i \in 0 .. n - 1 : g[i] = f[i]
      BY <2>2
    <2> DEFINE h == [i \in 0 .. n |-> IF i = 0 THEN first ELSE step[<<i, g[i - 1]>>]]
    <2>6. ASSUME NEW i \in 0 .. n PROVE g[i] = h[i]
      <3>1. CASE i = n
        BY <2>2, <2>5, <3>1
      <3>2. CASE i \in 0 .. n - 1
        <4>1. h[i] = IF i = 0 THEN first ELSE step[<<i, g[i - 1]>>]
          OBVIOUS
        <4> HIDE DEF g, h
        <4> QED
          BY <2>3, <2>4, <2>5, <3>2, <4>1
      <3> QED
        BY <2>2, <3>1, <3>2
    <2>7. g = h
      BY <2>6
    <2> HIDE DEF g
    <2>8. Steps(g, first, step, n)
      BY <2>7 DEF Steps
    <2> QED
      BY <2>8
  <1>3. m \in G
    <2>1. \A i \in 0 .. m : i \in G
      <3> HIDE DEF G
      <3> QED
        BY <1>1, <1>2, IntervalInduction
    <2> QED
      BY <2>1
  <1> QED
    BY <1>3
=============================================================================
