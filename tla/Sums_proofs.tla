----------------------------- MODULE Sums_proofs -----------------------------
(***************************************************************************)
(* What SumFunctionOnSet and SumFunction of the community module Functions *)
(* compute, for every finite set: they are folds that take the members in  *)
(* an order nobody knows, and the invariants about money and stock need    *)
(* that the order does not matter.                                         *)
(*                                                                         *)
(* The induction is over a SET of naturals or of subsets rather than over  *)
(* a predicate, so that a lemma states it without an operator parameter.   *)
(***************************************************************************)
EXTENDS Integers, FiniteSets, Functions, FiniteSetTheorems, TLAPS

-----------------------------------------------------------------------------
(* Induction. *)

\* A set with 0 and with the successor of each natural in it has them all.
LEMMA NaturalSetInduction ==
  ASSUME NEW T, 0 \in T, \A n \in Nat : n \in T => n + 1 \in T
  PROVE  Nat \subseteq T
  <1> SUFFICES ASSUME ~(Nat \subseteq T) PROVE FALSE
    OBVIOUS
  <1> DEFINE Rest == Nat \ T
             Less == OpToRel(<, Nat)
  <1>1. Rest \subseteq Nat /\ Rest # {}
    OBVIOUS
  <1>2. IsWellFoundedOn(Less, Nat)
    BY NatLessThanWellFounded, Zenon
  <1>3. \A i, j \in Nat : i < j => <<i, j>> \in Less
    BY DEF OpToRel
  <1> HIDE DEF Rest, Less
  <1>4. PICK n \in Rest : \A m \in Rest : <<m, n>> \notin Less
    BY <1>1, <1>2, WFMin, Zenon
  <1> USE DEF Rest
  <1>5. n # 0 /\ n - 1 \in Nat /\ n - 1 < n
    BY <1>4
  <1>6. n - 1 \in T
    BY <1>3, <1>4, <1>5
  <1> QED
    BY <1>4, <1>5, <1>6

\* A set of subsets that a subset of S joins as soon as all that are properly
\* within it have joined, has every subset of S.
LEMMA SubsetInduction ==
  ASSUME NEW S, IsFiniteSet(S), NEW T,
         \A s \in SUBSET S : (\A r \in SUBSET s : r # s => r \in T) => s \in T
  PROVE  SUBSET S \subseteq T
  <1> DEFINE N == {n \in Nat : \A s \in SUBSET S : Cardinality(s) < n => s \in T}
  <1>1. \A s \in SUBSET S : IsFiniteSet(s) /\ Cardinality(s) \in Nat
    BY FS_Subset, FS_CardinalityType
  <1>2. 0 \in N
    BY <1>1
  <1>3. ASSUME NEW n \in Nat, n \in N PROVE n + 1 \in N
    <2> SUFFICES ASSUME NEW s \in SUBSET S, Cardinality(s) < n + 1 PROVE s \in T
      OBVIOUS
    <2>1. ASSUME NEW r \in SUBSET s, r # s PROVE r \in T
      <3>1. IsFiniteSet(s) /\ Cardinality(s) \in Nat /\ Cardinality(r) \in Nat
        BY <1>1
      <3>2. Cardinality(r) <= Cardinality(s) /\ Cardinality(r) # Cardinality(s)
        BY <2>1, <3>1, FS_Subset
      <3>3. Cardinality(r) < n
        BY <3>1, <3>2
      <3> QED
        BY <1>3, <3>3
    <2> QED
      BY <2>1
  <1> HIDE DEF N
  <1>4. Nat \subseteq N
    BY <1>2, <1>3, NaturalSetInduction
  <1> USE DEF N
  <1>5. ASSUME NEW s \in SUBSET S PROVE s \in T
    <2>1. Cardinality(s) \in Nat /\ Cardinality(s) + 1 \in Nat
      BY <1>1
    <2>2. Cardinality(s) + 1 \in N
      BY <1>4, <2>1
    <2> QED
      BY <2>1, <2>2
  <1> QED
    BY <1>5

-----------------------------------------------------------------------------
(* The fold behind a sum. *)

First(s) == CHOOSE x \in s : TRUE

Unfold(f, S, g) ==
  [s \in SUBSET S |-> IF s = {} THEN 0 ELSE f[First(s)] + g[s \ {First(s)}]]

LEMMA FirstIsMember == ASSUME NEW s, s # {} PROVE First(s) \in s
  BY DEF First

\* The fold is well defined: its equation has a solution.
LEMMA UnfoldHasSolution ==
  ASSUME NEW f, NEW S, IsFiniteSet(S)
  PROVE  \E g : g = Unfold(f, S, g)
  <1> DEFINE N == {n \in Nat : \E g : \A s \in SUBSET S :
                     Cardinality(s) < n => g[s] = Unfold(f, S, g)[s]}
  <1>1. \A s \in SUBSET S : IsFiniteSet(s) /\ Cardinality(s) \in Nat
    BY FS_Subset, FS_CardinalityType
  <1>2. 0 \in N
    BY <1>1
  <1>3. ASSUME NEW n \in Nat, n \in N PROVE n + 1 \in N
    <2>1. PICK g : \A s \in SUBSET S : Cardinality(s) < n => g[s] = Unfold(f, S, g)[s]
      BY <1>3
    <2> DEFINE h == Unfold(f, S, g)
    <2>2. ASSUME NEW s \in SUBSET S, Cardinality(s) < n + 1
          PROVE  h[s] = Unfold(f, S, h)[s]
      <3>1. CASE s = {}
        BY <3>1 DEF Unfold
      <3>2. CASE s # {}
        <4> DEFINE t == s \ {First(s)}
        <4>1. First(s) \in s /\ t \in SUBSET S
          BY <3>2, FirstIsMember
        <4>2. Cardinality(t) = Cardinality(s) - 1
          BY <1>1, <4>1, FS_RemoveElement
        <4>3. Cardinality(t) < n
          BY <1>1, <2>2, <4>2
        <4>4. g[t] = h[t]
          BY <2>1, <4>1, <4>3
        <4> HIDE DEF t, h
        <4>5. h[s] = f[First(s)] + g[t]
          BY <3>2 DEF Unfold, h, t
        <4>6. Unfold(f, S, h)[s] = f[First(s)] + h[t]
          BY <3>2 DEF Unfold, t
        <4> QED
          BY <4>4, <4>5, <4>6
      <3> QED
        BY <3>1, <3>2
    <2> QED
      BY <2>2
  <1> HIDE DEF N
  <1>4. Nat \subseteq N
    BY <1>2, <1>3, NaturalSetInduction
  <1>5. Cardinality(S) + 1 \in N
    BY <1>1, <1>4
  <1>6. PICK g : \A s \in SUBSET S :
                   Cardinality(s) < Cardinality(S) + 1 => g[s] = Unfold(f, S, g)[s]
    BY <1>5 DEF N
  <1>7. \A s \in SUBSET S : Cardinality(s) < Cardinality(S) + 1
    BY <1>1, FS_Subset
  <1> DEFINE h == Unfold(f, S, g)
  <1>8. \A s \in SUBSET S : g[s] = h[s]
    BY <1>6, <1>7
  <1>9. h = Unfold(f, S, h)
    <2>1. \A s \in SUBSET S : s \ {First(s)} \in SUBSET S
      OBVIOUS
    <2> QED
      BY <1>8, <2>1 DEF Unfold
  <1> QED
    BY <1>9

\* A sum is the value of such a solution at the whole set.
LEMMA SumIsFold ==
  ASSUME NEW f, NEW S, IsFiniteSet(S)
  PROVE  \E g : g = Unfold(f, S, g) /\ SumFunctionOnSet(f, S) = g[S]
  <1> DEFINE h == CHOOSE g : g = Unfold(f, S, g)
  <1>1. SumFunctionOnSet(f, S) = h[S]
    BY DEF SumFunctionOnSet, FoldFunctionOnSet, MapThenFoldSet, Unfold, First
  <1>2. h = Unfold(f, S, h)
    BY UnfoldHasSolution
  <1> QED
    BY <1>1, <1>2

\* Solutions agree wherever they and the functions they sum are both defined.
LEMMA UnfoldIsUnique ==
  ASSUME NEW S, IsFiniteSet(S), NEW A, NEW B, S \subseteq A, S \subseteq B,
         NEW f, NEW e, \A x \in S : f[x] = e[x],
         NEW g, g = Unfold(f, A, g), NEW h, h = Unfold(e, B, h)
  PROVE  g[S] = h[S]
  <1> DEFINE T == {s \in SUBSET S : g[s] = h[s]}
  <1>1. ASSUME NEW s \in SUBSET S, \A r \in SUBSET s : r # s => r \in T
        PROVE  s \in T
    <2>1. s \in SUBSET A /\ s \in SUBSET B
      OBVIOUS
    <2>2. CASE s = {}
      <3>1. g[s] = 0 /\ h[s] = 0
        BY <2>1, <2>2 DEF Unfold
      <3> QED
        BY <3>1
    <2>3. CASE s # {}
      <3> DEFINE t == s \ {First(s)}
      <3>1. First(s) \in s /\ t \in SUBSET s /\ t # s
        BY <2>3, FirstIsMember
      <3>2. g[t] = h[t]
        BY <1>1, <3>1
      <3> HIDE DEF t
      <3>3. g[s] = f[First(s)] + g[t]
        BY <2>1, <2>3 DEF Unfold, t
      <3>4. h[s] = e[First(s)] + h[t]
        BY <2>1, <2>3 DEF Unfold, t
      <3>5. f[First(s)] = e[First(s)]
        BY <3>1
      <3> QED
        BY <3>2, <3>3, <3>4, <3>5
    <2> QED
      BY <2>2, <2>3
  <1> HIDE DEF T
  <1>2. SUBSET S \subseteq T
    BY <1>1, SubsetInduction
  <1> QED
    BY <1>2 DEF T

-----------------------------------------------------------------------------
(* The laws of sums. *)

LEMMA SumCongruence ==
  ASSUME NEW S, IsFiniteSet(S), NEW f, NEW e, \A x \in S : f[x] = e[x]
  PROVE  SumFunctionOnSet(f, S) = SumFunctionOnSet(e, S)
  <1>1. PICK g : g = Unfold(f, S, g) /\ SumFunctionOnSet(f, S) = g[S]
    BY SumIsFold
  <1>2. PICK h : h = Unfold(e, S, h) /\ SumFunctionOnSet(e, S) = h[S]
    BY SumIsFold
  <1>3. g[S] = h[S]
    BY <1>1, <1>2, UnfoldIsUnique
  <1> QED
    BY <1>1, <1>2, <1>3

LEMMA SumOfNone ==
  ASSUME NEW f
  PROVE  SumFunctionOnSet(f, {}) = 0
  <1>1. PICK g : g = Unfold(f, {}, g) /\ SumFunctionOnSet(f, {}) = g[{}]
    BY SumIsFold, FS_EmptySet
  <1>2. g[{}] = 0
    BY <1>1 DEF Unfold
  <1> QED
    BY <1>1, <1>2

\* The member the fold takes first, and the rest.
LEMMA SumTakesFirst ==
  ASSUME NEW S, IsFiniteSet(S), S # {}, NEW f
  PROVE  SumFunctionOnSet(f, S) = f[First(S)] + SumFunctionOnSet(f, S \ {First(S)})
  <1> DEFINE t == S \ {First(S)}
  <1>1. PICK g : g = Unfold(f, S, g) /\ SumFunctionOnSet(f, S) = g[S]
    BY SumIsFold
  <1>2. t \subseteq S /\ t \subseteq t /\ IsFiniteSet(t)
    BY FS_Subset
  <1>3. g[S] = f[First(S)] + g[t]
    BY <1>1 DEF Unfold
  <1> HIDE DEF t
  <1>4. PICK h : h = Unfold(f, t, h) /\ SumFunctionOnSet(f, t) = h[t]
    BY <1>2, SumIsFold
  <1>5. g[t] = h[t]
    BY <1>1, <1>2, <1>4, UnfoldIsUnique
  <1> QED
    BY <1>1, <1>3, <1>4, <1>5 DEF t

LEMMA SumIsInteger ==
  ASSUME NEW S, IsFiniteSet(S), NEW f, \A x \in S : f[x] \in Int
  PROVE  SumFunctionOnSet(f, S) \in Int
  <1> DEFINE T == {s \in SUBSET S : SumFunctionOnSet(f, s) \in Int}
  <1>1. ASSUME NEW s \in SUBSET S, \A r \in SUBSET s : r # s => r \in T
        PROVE  s \in T
    <2>1. CASE s = {}
      BY <2>1, SumOfNone
    <2>2. CASE s # {}
      <3> DEFINE t == s \ {First(s)}
      <3>1. First(s) \in s /\ t \in SUBSET s /\ t # s
        BY <2>2, FirstIsMember
      <3>2. SumFunctionOnSet(f, t) \in Int /\ f[First(s)] \in Int
        BY <1>1, <3>1
      <3>3. SumFunctionOnSet(f, s) = f[First(s)] + SumFunctionOnSet(f, t)
        BY <2>2, FS_Subset, SumTakesFirst
      <3> QED
        BY <3>2, <3>3
    <2> QED
      BY <2>1, <2>2
  <1> HIDE DEF T
  <1>2. SUBSET S \subseteq T
    BY <1>1, SubsetInduction
  <1> QED
    BY <1>2 DEF T

\* Any member may be taken out first: the order does not matter.
LEMMA SumTakesAny ==
  ASSUME NEW S, IsFiniteSet(S), NEW f, \A x \in S : f[x] \in Int, NEW a \in S
  PROVE  SumFunctionOnSet(f, S) = f[a] + SumFunctionOnSet(f, S \ {a})
  <1> DEFINE sum(s) == SumFunctionOnSet(f, s)
             T == {s \in SUBSET S : \A x \in s : sum(s) = f[x] + sum(s \ {x})}
  <1>0. \A s \in SUBSET S : IsFiniteSet(s) /\ sum(s) \in Int
    BY FS_Subset, SumIsInteger
  <1>1. ASSUME NEW s \in SUBSET S, \A r \in SUBSET s : r # s => r \in T
        PROVE  s \in T
    <2> SUFFICES ASSUME NEW x \in s PROVE sum(s) = f[x] + sum(s \ {x})
      OBVIOUS
    <2> DEFINE y == First(s)
    <2>1. y \in s
      BY FirstIsMember
    <2>2. sum(s) = f[y] + sum(s \ {y})
      BY <1>0, SumTakesFirst
    <2> HIDE DEF y
    <2>3. CASE x = y
      BY <2>2, <2>3
    <2>4. CASE x # y
      <3> DEFINE rest == s \ {x, y}
      <3>1. s \ {y} \in T /\ x \in s \ {y} /\ s \ {x} \in T /\ y \in s \ {x}
        BY <1>1, <2>1, <2>4
      <3>2. (s \ {y}) \ {x} = rest /\ (s \ {x}) \ {y} = rest
        OBVIOUS
      <3>3. sum(s \ {y}) = f[x] + sum(rest) /\ sum(s \ {x}) = f[y] + sum(rest)
        BY <3>1, <3>2
      <3>4. sum(rest) \in Int /\ f[x] \in Int /\ f[y] \in Int
        BY <1>0, <2>1
      <3> HIDE DEF sum, rest
      <3> QED
        BY <2>2, <3>3, <3>4
    <2> QED
      BY <2>3, <2>4
  <1> HIDE DEF T
  <1>2. SUBSET S \subseteq T
    BY <1>1, SubsetInduction
  <1> QED
    BY <1>2 DEF T

LEMMA SumOfZeros ==
  ASSUME NEW S, IsFiniteSet(S), NEW f, \A x \in S : f[x] = 0
  PROVE  SumFunctionOnSet(f, S) = 0
  <1> DEFINE T == {s \in SUBSET S : SumFunctionOnSet(f, s) = 0}
  <1>1. ASSUME NEW s \in SUBSET S, \A r \in SUBSET s : r # s => r \in T
        PROVE  s \in T
    <2>1. CASE s = {}
      BY <2>1, SumOfNone
    <2>2. CASE s # {}
      <3> DEFINE t == s \ {First(s)}
      <3>1. First(s) \in s /\ t \in SUBSET s /\ t # s
        BY <2>2, FirstIsMember
      <3>2. SumFunctionOnSet(f, t) = 0 /\ f[First(s)] = 0
        BY <1>1, <3>1
      <3>3. SumFunctionOnSet(f, s) = f[First(s)] + SumFunctionOnSet(f, t)
        BY <2>2, FS_Subset, SumTakesFirst
      <3> QED
        BY <3>2, <3>3
    <2> QED
      BY <2>1, <2>2
  <1> HIDE DEF T
  <1>2. SUBSET S \subseteq T
    BY <1>1, SubsetInduction
  <1> QED
    BY <1>2 DEF T

LEMMA SumIsMonotone ==
  ASSUME NEW S, IsFiniteSet(S), NEW f, NEW e,
         \A x \in S : f[x] \in Int /\ e[x] \in Int /\ f[x] <= e[x]
  PROVE  SumFunctionOnSet(f, S) <= SumFunctionOnSet(e, S)
  <1> DEFINE T == {s \in SUBSET S : SumFunctionOnSet(f, s) <= SumFunctionOnSet(e, s)}
  <1>0. \A s \in SUBSET S : /\ IsFiniteSet(s)
                            /\ SumFunctionOnSet(f, s) \in Int
                            /\ SumFunctionOnSet(e, s) \in Int
    BY FS_Subset, SumIsInteger
  <1>1. ASSUME NEW s \in SUBSET S, \A r \in SUBSET s : r # s => r \in T
        PROVE  s \in T
    <2>1. CASE s = {}
      BY <2>1, SumOfNone
    <2>2. CASE s # {}
      <3> DEFINE t == s \ {First(s)}
      <3>1. First(s) \in s /\ t \in SUBSET s /\ t # s
        BY <2>2, FirstIsMember
      <3>2. /\ SumFunctionOnSet(f, t) <= SumFunctionOnSet(e, t)
            /\ SumFunctionOnSet(f, t) \in Int /\ SumFunctionOnSet(e, t) \in Int
        BY <1>0, <1>1, <3>1
      <3>3. /\ SumFunctionOnSet(f, s) = f[First(s)] + SumFunctionOnSet(f, t)
            /\ SumFunctionOnSet(e, s) = e[First(s)] + SumFunctionOnSet(e, t)
        BY <1>0, <2>2, SumTakesFirst
      <3> HIDE DEF t
      <3>4. f[First(s)] \in Int /\ e[First(s)] \in Int /\ f[First(s)] <= e[First(s)]
        BY <3>1
      <3> QED
        BY <3>2, <3>3, <3>4
    <2> QED
      BY <2>1, <2>2
  <1> HIDE DEF T
  <1>2. SUBSET S \subseteq T
    BY <1>1, SubsetInduction
  <1> QED
    BY <1>2 DEF T

LEMMA SumIsNatural ==
  ASSUME NEW S, IsFiniteSet(S), NEW f, \A x \in S : f[x] \in Nat
  PROVE  SumFunctionOnSet(f, S) \in Nat
  <1> DEFINE none == [x \in S |-> 0]
  <1>1. \A x \in S : none[x] \in Int /\ f[x] \in Int /\ none[x] <= f[x] /\ none[x] = 0
    OBVIOUS
  <1> HIDE DEF none
  <1>2. SumFunctionOnSet(none, S) <= SumFunctionOnSet(f, S)
    BY <1>1, SumIsMonotone
  <1>3. SumFunctionOnSet(none, S) = 0
    BY <1>1, SumOfZeros
  <1>4. SumFunctionOnSet(f, S) \in Int
    BY <1>1, SumIsInteger
  <1> QED
    BY <1>2, <1>3, <1>4

\* One more member.
LEMMA SumAdds ==
  ASSUME NEW S, IsFiniteSet(S), NEW a, a \notin S, NEW f, NEW e,
         \A x \in S : f[x] \in Int /\ e[x] = f[x], e[a] \in Int
  PROVE  SumFunctionOnSet(e, S \cup {a}) = e[a] + SumFunctionOnSet(f, S)
  <1> DEFINE T == S \cup {a}
  <1>1. IsFiniteSet(T)
    BY FS_AddElement
  <1>2. /\ a \in T /\ T \ {a} = S
        /\ \A x \in T : e[x] \in Int
    OBVIOUS
  <1> HIDE DEF T
  <1>3. SumFunctionOnSet(e, T) = e[a] + SumFunctionOnSet(e, S)
    BY <1>1, <1>2, SumTakesAny
  <1>4. SumFunctionOnSet(e, S) = SumFunctionOnSet(f, S)
    BY SumCongruence
  <1> QED
    BY <1>3, <1>4 DEF T

\* One member with another value.
LEMMA SumChanges ==
  ASSUME NEW S, IsFiniteSet(S), NEW a \in S, NEW f, NEW e,
         \A x \in S : f[x] \in Int /\ e[x] \in Int,
         \A x \in S : x # a => e[x] = f[x]
  PROVE  SumFunctionOnSet(e, S) = SumFunctionOnSet(f, S) - f[a] + e[a]
  <1> DEFINE R == S \ {a}
  <1>1. SumFunctionOnSet(e, S) = e[a] + SumFunctionOnSet(e, R)
    BY SumTakesAny
  <1>2. SumFunctionOnSet(f, S) = f[a] + SumFunctionOnSet(f, R)
    BY SumTakesAny
  <1>3. IsFiniteSet(R) /\ \A x \in R : f[x] \in Int /\ e[x] = f[x]
    BY FS_Subset
  <1>4. SumFunctionOnSet(e, R) = SumFunctionOnSet(f, R)
    BY <1>3, SumCongruence
  <1>5. SumFunctionOnSet(f, R) \in Int
    BY <1>3, SumIsInteger
  <1>6. f[a] \in Int /\ e[a] \in Int
    OBVIOUS
  <1> HIDE DEF R
  <1> QED
    BY <1>1, <1>2, <1>4, <1>5, <1>6

\* A sum of differences is the difference of the sums.
LEMMA SumOfDifferences ==
  ASSUME NEW S, IsFiniteSet(S), NEW f, NEW e, NEW d,
         \A x \in S : f[x] \in Int /\ e[x] \in Int /\ d[x] = f[x] - e[x]
  PROVE  SumFunctionOnSet(d, S) = SumFunctionOnSet(f, S) - SumFunctionOnSet(e, S)
  <1> DEFINE sum(g, s) == SumFunctionOnSet(g, s)
             T == {s \in SUBSET S : sum(d, s) = sum(f, s) - sum(e, s)}
  <1>0. \A s \in SUBSET S : IsFiniteSet(s) /\ sum(f, s) \in Int /\ sum(e, s) \in Int
    BY FS_Subset, SumIsInteger
  <1>1. ASSUME NEW s \in SUBSET S, \A r \in SUBSET s : r # s => r \in T
        PROVE  s \in T
    <2>1. CASE s = {}
      BY <2>1, SumOfNone
    <2>2. CASE s # {}
      <3> DEFINE t == s \ {First(s)}
      <3>1. First(s) \in s /\ t \in SUBSET s /\ t # s
        BY <2>2, FirstIsMember
      <3>2. sum(d, t) = sum(f, t) - sum(e, t) /\ sum(f, t) \in Int /\ sum(e, t) \in Int
        BY <1>0, <1>1, <3>1
      <3>3. \A g : sum(g, s) = g[First(s)] + sum(g, t)
        BY <1>0, <2>2, SumTakesFirst
      <3> HIDE DEF t, sum
      <3>4. /\ f[First(s)] \in Int /\ e[First(s)] \in Int
            /\ d[First(s)] = f[First(s)] - e[First(s)]
        BY <3>1
      <3>5. /\ sum(d, s) = d[First(s)] + sum(d, t)
            /\ sum(f, s) = f[First(s)] + sum(f, t)
            /\ sum(e, s) = e[First(s)] + sum(e, t)
        BY <3>3
      <3> QED
        BY <3>2, <3>4, <3>5
    <2> QED
      BY <2>1, <2>2
  <1> HIDE DEF T
  <1>2. SUBSET S \subseteq T
    BY <1>1, SubsetInduction
  <1> QED
    BY <1>2 DEF T

\* More members of which none is negative make no smaller sum.
LEMMA SumGrows ==
  ASSUME NEW R, IsFiniteSet(R), NEW S \in SUBSET R, NEW f,
         \A x \in S : f[x] \in Int, \A x \in R \ S : f[x] \in Nat
  PROVE  SumFunctionOnSet(f, S) <= SumFunctionOnSet(f, R)
  <1> DEFINE More == R \ S
             T == {s \in SUBSET More : SumFunctionOnSet(f, S) <= SumFunctionOnSet(f, S \cup s)}
  <1>0. /\ IsFiniteSet(More) /\ IsFiniteSet(S)
        /\ \A s \in SUBSET R : IsFiniteSet(s) /\ SumFunctionOnSet(f, s) \in Int
    BY FS_Subset, SumIsInteger
  <1>1. ASSUME NEW s \in SUBSET More, \A r \in SUBSET s : r # s => r \in T
        PROVE  s \in T
    <2>1. CASE s = {}
      <3>1. S \cup s = S /\ SumFunctionOnSet(f, S) \in Int
        BY <1>0, <2>1
      <3> QED
        BY <3>1
    <2>2. CASE s # {}
      <3> DEFINE a == First(s)
                 t == s \ {a}
      <3>1. a \in s /\ t \in SUBSET s /\ t # s
        BY <2>2, FirstIsMember
      <3>2. /\ S \cup s \in SUBSET R /\ S \cup t \in SUBSET R /\ a \notin S
            /\ (S \cup s) \ {a} = S \cup t /\ a \in S \cup s /\ f[a] \in Nat
        BY <3>1
      <3>3. SumFunctionOnSet(f, S) <= SumFunctionOnSet(f, S \cup t)
        BY <1>1, <3>1
      <3> HIDE DEF t, a
      <3>4. SumFunctionOnSet(f, S \cup s) = f[a] + SumFunctionOnSet(f, S \cup t)
        <4>1. \A x \in S \cup s : f[x] \in Int
          BY <3>2
        <4> QED
          BY <1>0, <3>2, <4>1, SumTakesAny
      <3>5. /\ SumFunctionOnSet(f, S) \in Int
            /\ SumFunctionOnSet(f, S \cup t) \in Int
        BY <1>0, <3>2
      <3>6. SumFunctionOnSet(f, S) <= SumFunctionOnSet(f, S \cup s)
        BY <3>2, <3>3, <3>4, <3>5
      <3> QED
        BY <3>6
    <2> QED
      BY <2>1, <2>2
  <1>2. S \cup More = R
    OBVIOUS
  <1> HIDE DEF T, More
  <1>3. SUBSET More \subseteq T
    BY <1>0, <1>1, SubsetInduction
  <1>4. More \in T
    BY <1>3
  <1> QED
    BY <1>2, <1>4 DEF T
==============================================================================
