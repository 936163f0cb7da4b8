------------------------------ MODULE SumProofs ------------------------------
(***************************************************************************)
(* What the modules' sums over finite sets are: SumFunction and            *)
(* SumFunctionOnSet of the community modules fold + over a set in an order *)
(* CHOOSE picks.  Here: the fold exists, whatever the set; any element may *)
(* be taken out first; the sum of naturals is a natural; the sum depends   *)
(* on the function's values on the set alone.                              *)
(*                                                                         *)
(* Induction is by a least counterexample, for a property given as the set *)
(* of the subsets that have it.                                            *)
(***************************************************************************)
EXTENDS Integers, FiniteSets, Functions, TLAPS, FiniteSetTheorems, WellFoundedInduction

\* A nonempty set of natural numbers has a least member.
LEMMA LeastMember ==
    ASSUME NEW S, S \subseteq Nat, S # {}
    PROVE  \E n \in S : \A m \in S : n =< m
<1> DEFINE R == OpToRel(<, Nat)
<1>1. IsWellFoundedOn(R, Nat)
  BY NatLessThanWellFounded
<1>2. \A y, z \in Nat : y < z => <<y, z>> \in R
  BY DEF OpToRel
<1> HIDE DEF R
<1>3. PICK n \in S : \A m \in S : ~ (<<m, n>> \in R)
  BY <1>1, WFMin
<1>4. \A m \in S : n =< m
  <2> TAKE m \in S
  <2>1. ~ (m < n)
    BY <1>2, <1>3
  <2> QED BY <2>1
<1> QED BY <1>4

\* Induction over the subsets of a finite set: P holds of all of them if it
\* holds of each whose subsets with one element less it holds of.
LEMMA SubsetInduction ==
    ASSUME NEW S, IsFiniteSet(S), NEW P,
           \A T \in SUBSET S : (\A x \in T : T \ {x} \in P) => T \in P
    PROVE  \A T \in SUBSET S : T \in P
<1> SUFFICES ASSUME NEW T0 \in SUBSET S, T0 \notin P PROVE FALSE
  OBVIOUS
<1> DEFINE Sizes == {Cardinality(T) : T \in {U \in SUBSET S : U \notin P}}
<1>1. \A T \in SUBSET S : IsFiniteSet(T) /\ Cardinality(T) \in Nat
  BY FS_Subset, FS_CardinalityType
<1>2. Sizes \subseteq Nat /\ Sizes # {}
  BY <1>1
<1>3. PICK n \in Sizes : \A m \in Sizes : n =< m
  BY <1>2, LeastMember
<1>4. PICK T \in SUBSET S : T \notin P /\ Cardinality(T) = n
  BY <1>3
<1>5. PICK x \in T : T \ {x} \notin P
  BY <1>4
<1>6. Cardinality(T \ {x}) = n - 1
  BY <1>1, <1>4, FS_RemoveElement
<1>7. n - 1 \in Sizes
  BY <1>5, <1>6
<1>8. n \in Nat
  BY <1>2
<1> HIDE DEF Sizes
<1>9. n =< n - 1
  BY <1>3, <1>7
<1> QED BY <1>8, <1>9

-------------------------------------------------------------------------------
\* The element the fold takes first, and what it makes of the subsets of S.
Pick(T) == CHOOSE x \in T : TRUE
IsFold(g, f, S) ==
    g = [T \in SUBSET S |-> IF T = {} THEN 0 ELSE f[Pick(T)] + g[T \ {Pick(T)}]]

\* The sum is the fold's value for the whole set.
LEMMA SumIsFold ==
    ASSUME NEW f, NEW S
    PROVE  SumFunctionOnSet(f, S) = (CHOOSE g : IsFold(g, f, S))[S]
BY DEF SumFunctionOnSet, FoldFunctionOnSet, MapThenFoldSet, IsFold, Pick

\* What is picked from a set is in it.
LEMMA Picked ==
    ASSUME NEW T, T # {}
    PROVE  Pick(T) \in T
BY DEF Pick

\* Two folds agree where both are defined.
LEMMA FoldUnique ==
    ASSUME NEW f, NEW S, IsFiniteSet(S), NEW R \in SUBSET S,
           NEW g, IsFold(g, f, S), NEW h, IsFold(h, f, R)
    PROVE  \A T \in SUBSET R : g[T] = h[T]
<1> DEFINE P == {T \in SUBSET R : g[T] = h[T]}
<1>1. IsFiniteSet(R)
  BY FS_Subset
<1>2. ASSUME NEW T \in SUBSET R, \A x \in T : T \ {x} \in P
      PROVE  T \in P
  <2>1. /\ g[T] = IF T = {} THEN 0 ELSE f[Pick(T)] + g[T \ {Pick(T)}]
        /\ h[T] = IF T = {} THEN 0 ELSE f[Pick(T)] + h[T \ {Pick(T)}]
    BY DEF IsFold
  <2>2. CASE T = {}
    BY <2>1, <2>2
  <2>3. CASE T # {}
    BY <1>2, <2>1, <2>3, Picked
  <2> QED BY <2>2, <2>3
<1> HIDE DEF P
<1>3. \A T \in SUBSET R : T \in P
  BY <1>1, <1>2, SubsetInduction
<1> QED BY <1>3 DEF P

\* There is a fold.  It is put together from those of sets one smaller
\* (Cut is the set of the subsets with at most n elements).
LEMMA FoldExists ==
    ASSUME NEW f, NEW S, IsFiniteSet(S)
    PROVE  \E g : IsFold(g, f, S)
<1> DEFINE Cut(n) == {T \in SUBSET S : Cardinality(T) =< n}
           Good(g, n) == g = [T \in Cut(n) |-> IF T = {} THEN 0
                                               ELSE f[Pick(T)] + g[T \ {Pick(T)}]]
           Bad == {n \in Nat : ~ \E g : Good(g, n)}
<1>1. \A T \in SUBSET S : /\ IsFiniteSet(T) /\ Cardinality(T) \in Nat
                          /\ Cardinality(T) =< Cardinality(S)
                          /\ Cardinality(T) = 0 <=> T = {}
  BY FS_Subset, FS_CardinalityType, FS_EmptySet
<1>2. \A T \in SUBSET S : \A x \in T : /\ T \ {x} \in SUBSET S
                                       /\ Cardinality(T \ {x}) = Cardinality(T) - 1
  BY <1>1, FS_RemoveElement
<1>3. 0 \notin Bad
  <2> DEFINE g == [T \in Cut(0) |-> 0]
  <2>1. \A T \in Cut(0) : T = {}
    BY <1>1
  <2>2. Good(g, 0)
    BY <2>1
  <2> QED BY <2>2
<1>4. ASSUME NEW n \in Nat, n \notin Bad
      PROVE  n + 1 \notin Bad
  <2>1. PICK g : Good(g, n)
    BY <1>4
  <2> DEFINE h == [T \in Cut(n + 1) |-> IF T = {} THEN 0 ELSE f[Pick(T)] + g[T \ {Pick(T)}]]
  <2>2. Cut(n) \subseteq Cut(n + 1)
    BY <1>1
  <2>3. \A T \in Cut(n) : h[T] = g[T]
    BY <2>1, <2>2
  <2>4. \A T \in Cut(n + 1) : T # {} => T \ {Pick(T)} \in Cut(n)
    BY <1>1, <1>2, Picked
  <2>5. Good(h, n + 1)
    BY <2>3, <2>4
  <2> QED BY <2>5
<1>5. Bad = {}
  <2> SUFFICES ASSUME Bad # {} PROVE FALSE
    OBVIOUS
  <2> HIDE DEF Good
  <2>1. PICK n \in Bad : \A m \in Bad : n =< m
    BY LeastMember
  <2>2. n \in Nat /\ n # 0
    BY <1>3
  <2>3. n - 1 \in Nat /\ n - 1 \notin Bad /\ (n - 1) + 1 = n
    <3> HIDE DEF Bad
    <3> QED BY <2>1, <2>2
  <2>4. (n - 1) + 1 \notin Bad
    BY <1>4, <2>3
  <2> QED BY <2>3, <2>4
<1>6. Cardinality(S) \in Nat /\ Cut(Cardinality(S)) = SUBSET S
  BY <1>1
<1>7. PICK g : Good(g, Cardinality(S))
  BY <1>5, <1>6
<1> QED BY <1>6, <1>7 DEF IsFold

-------------------------------------------------------------------------------
\* The recursion of the sum.
LEMMA SumUnfold ==
    ASSUME NEW f, NEW S, IsFiniteSet(S)
    PROVE  SumFunctionOnSet(f, S) =
              IF S = {} THEN 0 ELSE f[Pick(S)] + SumFunctionOnSet(f, S \ {Pick(S)})
<1> DEFINE R == S \ {Pick(S)}
           g == CHOOSE k : IsFold(k, f, S)
           h == CHOOSE k : IsFold(k, f, R)
<1>1. IsFiniteSet(R)
  BY FS_Subset
<1>2. IsFold(g, f, S) /\ IsFold(h, f, R)
  BY <1>1, FoldExists
<1>3. SumFunctionOnSet(f, S) = g[S] /\ SumFunctionOnSet(f, R) = h[R]
  BY SumIsFold
<1> HIDE DEF g, h
<1>4. ASSUME NEW k, NEW l, IsFold(k, f, S), IsFold(l, f, R)
      PROVE  k[R] = l[R]
  <2> HIDE DEF R
  <2>1. R \in SUBSET S
    BY DEF R
  <2>2. \A T \in SUBSET R : k[T] = l[T]
    BY <1>4, <2>1, FoldUnique
  <2> QED BY <2>2
<1>5. g[S] = IF S = {} THEN 0 ELSE f[Pick(S)] + g[R]
  BY <1>2 DEF IsFold
<1>6. g[R] = h[R]
  BY <1>2, <1>4
<1> QED BY <1>3, <1>5, <1>6

\* Nothing sums to zero.
LEMMA SumEmpty == \A f : SumFunctionOnSet(f, {}) = 0
BY SumUnfold, FS_EmptySet

\* The sum depends on what the function is on the set.
LEMMA SumAgree ==
    ASSUME NEW S, IsFiniteSet(S), NEW f, NEW g, \A x \in S : f[x] = g[x]
    PROVE  SumFunctionOnSet(f, S) = SumFunctionOnSet(g, S)
<1> DEFINE P == {T \in SUBSET S : SumFunctionOnSet(f, T) = SumFunctionOnSet(g, T)}
<1>1. ASSUME NEW T \in SUBSET S, \A x \in T : T \ {x} \in P
      PROVE  T \in P
  <2>1. IsFiniteSet(T)
    BY FS_Subset
  <2>2. CASE T = {}
    BY <2>2, SumEmpty
  <2>3. CASE T # {}
    <3>1. Pick(T) \in T
      BY <2>3, Picked
    <3>2. /\ SumFunctionOnSet(f, T) = f[Pick(T)] + SumFunctionOnSet(f, T \ {Pick(T)})
          /\ SumFunctionOnSet(g, T) = g[Pick(T)] + SumFunctionOnSet(g, T \ {Pick(T)})
      BY <2>1, <2>3, SumUnfold
    <3> QED BY <1>1, <3>1, <3>2
  <2> QED BY <2>2, <2>3
<1> HIDE DEF P
<1>2. \A T \in SUBSET S : T \in P
  BY <1>1, SubsetInduction
<1> QED BY <1>2 DEF P

\* Integers sum to an integer.
LEMMA SumInt ==
    ASSUME NEW S, IsFiniteSet(S), NEW f, \A x \in S : f[x] \in Int
    PROVE  SumFunctionOnSet(f, S) \in Int
<1> DEFINE P == {T \in SUBSET S : SumFunctionOnSet(f, T) \in Int}
<1>1. ASSUME NEW T \in SUBSET S, \A x \in T : T \ {x} \in P
      PROVE  T \in P
  <2>1. IsFiniteSet(T)
    BY FS_Subset
  <2>2. CASE T = {}
    BY <2>2, SumEmpty
  <2>3. CASE T # {}
    <3>1. Pick(T) \in T
      BY <2>3, Picked
    <3>2. SumFunctionOnSet(f, T) = f[Pick(T)] + SumFunctionOnSet(f, T \ {Pick(T)})
      BY <2>1, <2>3, SumUnfold
    <3> QED BY <1>1, <3>1, <3>2
  <2> QED BY <2>2, <2>3
<1> HIDE DEF P
<1>2. \A T \in SUBSET S : T \in P
  BY <1>1, SubsetInduction
<1> QED BY <1>2 DEF P

\* Naturals sum to a natural.
LEMMA SumNat ==
    ASSUME NEW S, IsFiniteSet(S), NEW f, \A x \in S : f[x] \in Nat
    PROVE  SumFunctionOnSet(f, S) \in Nat
<1> DEFINE P == {T \in SUBSET S : SumFunctionOnSet(f, T) \in Nat}
<1>1. ASSUME NEW T \in SUBSET S, \A x \in T : T \ {x} \in P
      PROVE  T \in P
  <2>1. IsFiniteSet(T)
    BY FS_Subset
  <2>2. CASE T = {}
    BY <2>2, SumEmpty
  <2>3. CASE T # {}
    <3>1. Pick(T) \in T
      BY <2>3, Picked
    <3>2. SumFunctionOnSet(f, T) = f[Pick(T)] + SumFunctionOnSet(f, T \ {Pick(T)})
      BY <2>1, <2>3, SumUnfold
    <3> QED BY <1>1, <3>1, <3>2
  <2> QED BY <2>2, <2>3
<1> HIDE DEF P
<1>2. \A T \in SUBSET S : T \in P
  BY <1>1, SubsetInduction
<1> QED BY <1>2 DEF P

\* Any element may be taken out first.
LEMMA SumTakeOut ==
    ASSUME NEW S, IsFiniteSet(S), NEW f, \A x \in S : f[x] \in Int, NEW a \in S
    PROVE  SumFunctionOnSet(f, S) = f[a] + SumFunctionOnSet(f, S \ {a})
<1> DEFINE Sum(T) == SumFunctionOnSet(f, T)
           P == {T \in SUBSET S : \A x \in T : Sum(T) = f[x] + Sum(T \ {x})}
<1>1. \A T \in SUBSET S : IsFiniteSet(T) /\ Sum(T) \in Int
  BY FS_Subset, SumInt
<1>2. \A T \in SUBSET S : T # {} => Sum(T) = f[Pick(T)] + Sum(T \ {Pick(T)})
  BY <1>1, SumUnfold
<1> HIDE DEF Sum
<1>3. ASSUME NEW T \in SUBSET S, \A x \in T : T \ {x} \in P
      PROVE  T \in P
  <2>1. ASSUME NEW x \in T
        PROVE  Sum(T) = f[x] + Sum(T \ {x})
    <3> DEFINE c == Pick(T)
               Q == (T \ {x}) \ {c}
    <3>1. c \in T
      BY Picked
    <3>2. Sum(T) = f[c] + Sum(T \ {c})
      BY <1>2
    <3> HIDE DEF c
    <3>3. CASE c # x
      <4>1. Sum(T \ {c}) = f[x] + Sum(Q)
        <5>1. (T \ {c}) \ {x} = Q
          OBVIOUS
        <5> QED BY <1>3, <3>1, <3>3, <5>1
      <4>2. Sum(T \ {x}) = f[c] + Sum(Q)
        BY <1>3, <3>1, <3>3
      <4>3. f[c] \in Int /\ f[x] \in Int /\ Sum(Q) \in Int
        BY <1>1, <3>1
      <4> QED BY <3>2, <4>1, <4>2, <4>3
    <3> QED BY <3>2, <3>3
  <2> QED BY <2>1
<1> HIDE DEF P
<1>4. \A T \in SUBSET S : T \in P
  BY <1>3, SubsetInduction
<1> QED BY <1>4 DEF P, Sum

\* A new element adds its value.
LEMMA SumPutIn ==
    ASSUME NEW S, IsFiniteSet(S), NEW f, NEW a, a \notin S,
           \A x \in S \cup {a} : f[x] \in Int
    PROVE  SumFunctionOnSet(f, S \cup {a}) = SumFunctionOnSet(f, S) + f[a]
<1> DEFINE U == S \cup {a}
<1>1. IsFiniteSet(U) /\ U \ {a} = S /\ a \in U /\ \A x \in U : f[x] \in Int
  BY FS_AddElement
<1> HIDE DEF U
<1>2. SumFunctionOnSet(f, U) = f[a] + SumFunctionOnSet(f, U \ {a})
  BY <1>1, SumTakeOut
<1>3. SumFunctionOnSet(f, U) = f[a] + SumFunctionOnSet(f, S)
  BY <1>1, <1>2, Zenon
<1>4. SumFunctionOnSet(f, S) \in Int
  BY SumInt
<1>5. f[a] \in Int
  BY <1>1
<1> QED BY <1>3, <1>4, <1>5 DEF U

\* A sum of zeros.
LEMMA SumOfZeros ==
    ASSUME NEW S, IsFiniteSet(S), NEW f, \A x \in S : f[x] = 0
    PROVE  SumFunctionOnSet(f, S) = 0
<1> DEFINE P == {T \in SUBSET S : SumFunctionOnSet(f, T) = 0}
<1>1. ASSUME NEW T \in SUBSET S, \A x \in T : T \ {x} \in P
      PROVE  T \in P
  <2>1. IsFiniteSet(T)
    BY FS_Subset
  <2>2. CASE T = {}
    BY <2>2, SumEmpty
  <2>3. CASE T # {}
    <3>1. Pick(T) \in T
      BY <2>3, Picked
    <3>2. SumFunctionOnSet(f, T) = f[Pick(T)] + SumFunctionOnSet(f, T \ {Pick(T)})
      BY <2>1, <2>3, SumUnfold
    <3> QED BY <1>1, <3>1, <3>2
  <2> QED BY <2>2, <2>3
<1> HIDE DEF P
<1>2. \A T \in SUBSET S : T \in P
  BY <1>1, SubsetInduction
<1> QED BY <1>2 DEF P

\* At most one element enters, leaves or gets another value: the sum changes
\* by the difference.
LEMMA SumChange ==
    ASSUME NEW S, IsFiniteSet(S), NEW T, IsFiniteSet(T), NEW a, S \ {a} = T \ {a},
           NEW f, NEW g, f[a] \in Int, g[a] \in Int,
           \A x \in S \ {a} : f[x] \in Int /\ g[x] = f[x],
           a \notin S => f[a] = 0, a \notin T => g[a] = 0
    PROVE  SumFunctionOnSet(g, T) = SumFunctionOnSet(f, S) + (g[a] - f[a])
<1> DEFINE R == S \ {a}
<1>1. IsFiniteSet(R) /\ a \notin R
  BY FS_Subset
<1>2. ASSUME NEW U, IsFiniteSet(U), U \ {a} = R, NEW h, h[a] \in Int, \A x \in R : h[x] \in Int,
             a \notin U => h[a] = 0
      PROVE  SumFunctionOnSet(h, U) = SumFunctionOnSet(h, R) + h[a]
  <2>1. SumFunctionOnSet(h, R) \in Int
    BY <1>1, <1>2, SumInt
  <2>2. CASE a \in U
    <3>1. \A x \in U : h[x] \in Int
      BY <1>2
    <3>2. SumFunctionOnSet(h, U) = h[a] + SumFunctionOnSet(h, U \ {a})
      BY <1>2, <2>2, <3>1, SumTakeOut
    <3> HIDE DEF R
    <3>3. SumFunctionOnSet(h, U) = h[a] + SumFunctionOnSet(h, R)
      BY <1>2, <3>2, Zenon
    <3> QED BY <1>2, <2>1, <3>3
  <2>3. CASE a \notin U
    <3>1. U = R
      BY <1>2, <2>3
    <3> QED BY <1>2, <2>1, <2>3, <3>1
  <2> QED BY <2>2, <2>3
<1>3. T \ {a} = R /\ \A x \in R : f[x] \in Int /\ g[x] \in Int /\ f[x] = g[x]
  OBVIOUS
<1>4. SumFunctionOnSet(f, S) = SumFunctionOnSet(f, R) + f[a]
  BY <1>2, <1>3
<1> HIDE DEF R
<1>5. SumFunctionOnSet(g, T) = SumFunctionOnSet(g, R) + g[a]
  BY <1>2, <1>3
<1>6. SumFunctionOnSet(f, R) = SumFunctionOnSet(g, R) /\ SumFunctionOnSet(f, R) \in Int
  BY <1>1, <1>3, SumAgree, SumInt
<1> QED BY <1>4, <1>5, <1>6
=============================================================================
