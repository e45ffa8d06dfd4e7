------------------------------ MODULE SumTheorems ------------------------------
(***************************************************************************)
(* Lemmas about the sum of a function over a finite set (SumFunctionOnSet  *)
(* of the community modules), for the theorems about budgets, usage and    *)
(* the depth of the queue.                                                 *)
(*                                                                         *)
(* The sum is a recursive function on the subsets of the set, which takes  *)
(* one element after the other by CHOOSE.  That this function exists, and  *)
(* that the order makes no difference, is shown on a smallest set for      *)
(* which it would not be so.                                               *)
(***************************************************************************)
EXTENDS Integers, Functions, FiniteSetTheorems, WellFoundedInduction, TLAPS

Chosen(S) == CHOOSE x \in S : TRUE

\* g is the recursive function that sums f over the subsets of S.
Sums(f, S, g) ==
  g = [T \in SUBSET S |-> IF T = {} THEN 0 ELSE f[Chosen(T)] + g[T \ {Chosen(T)}]]

SumsOf(f, S) == CHOOSE g : Sums(f, S, g)

LEMMA ChosenIs == ASSUME NEW S, S # {} PROVE Chosen(S) \in S
BY DEF Chosen

LEMMA SumIs == ASSUME NEW f, NEW S PROVE SumFunctionOnSet(f, S) = SumsOf(f, S)[S]
BY DEF SumFunctionOnSet, FoldFunctionOnSet, MapThenFoldSet, SumsOf, Sums, Chosen

\* Of the subsets of a finite set that have a property, one has no smaller one.
LEMMA SmallestSubset ==
  ASSUME NEW S, IsFiniteSet(S), NEW X, X \subseteq SUBSET S, X # {}
  PROVE  \E T \in X : \A U \in SUBSET T : U # T => U \notin X
<1>1. IsWellFoundedOn(StrictSubsetOrdering(S), SUBSET S)
  BY FS_StrictSubsetOrderingWellFounded, FS_FiniteSubsetsOfFinite
<1>2. PICK T \in X : \A U \in X : ~(<<U, T>> \in StrictSubsetOrdering(S))
  BY <1>1, WFMin
<1>3. ASSUME NEW U \in SUBSET T, U # T, U \in X PROVE FALSE
  <2>1. U \in SUBSET S /\ T \in SUBSET S
    OBVIOUS
  <2>2. <<U, T>> \in StrictSubsetOrdering(S)
    BY <1>3, <2>1 DEF StrictSubsetOrdering
  <2> QED
    BY <1>2, <1>3, <2>2
<1> QED
  BY <1>3

\* What a set has as soon as all its smaller subsets have it, every finite set has.
LEMMA SubsetInduction ==
  ASSUME NEW S, IsFiniteSet(S), NEW X,
         \A T \in SUBSET S : (\A U \in SUBSET T : U # T => U \in X) => T \in X
  PROVE  S \in X
<1> DEFINE Others == {T \in SUBSET S : T \notin X}
<1> SUFFICES ASSUME Others # {} PROVE FALSE
  <2>1. S \in SUBSET S
    OBVIOUS
  <2> QED BY <2>1
<1>1. PICK T \in Others : \A U \in SUBSET T : U # T => U \notin Others
  <2>1. Others \subseteq SUBSET S
    OBVIOUS
  <2> HIDE DEF Others
  <2> QED BY <2>1, SmallestSubset
<1>2. T \in SUBSET S /\ T \notin X /\ \A U \in SUBSET T : U # T => U \in X
  BY <1>1
<1> QED BY <1>2

LEMMA SumsRecur ==
  ASSUME NEW f, NEW S, NEW g, Sums(f, S, g), NEW T \in SUBSET S
  PROVE  g[T] = IF T = {} THEN 0 ELSE f[Chosen(T)] + g[T \ {Chosen(T)}]
<1> DEFINE F(h) == [U \in SUBSET S |-> IF U = {} THEN 0 ELSE f[Chosen(U)] + h[U \ {Chosen(U)}]]
<1>1. g = F(g)
  BY DEF Sums
<1>2. F(g)[T] = IF T = {} THEN 0 ELSE f[Chosen(T)] + g[T \ {Chosen(T)}]
  OBVIOUS
<1> QED
  BY ONLY <1>1, <1>2

\* Two such functions agree where both are defined.
LEMMA SumsAgree ==
  ASSUME NEW f, NEW S, NEW T, IsFiniteSet(T), T \subseteq S,
         NEW g, Sums(f, S, g), NEW h, Sums(f, T, h)
  PROVE  \A U \in SUBSET T : g[U] = h[U]
<1> DEFINE X == {U \in SUBSET T : g[U] # h[U]}
<1> SUFFICES ASSUME X # {} PROVE FALSE
  OBVIOUS
<1>1. PICK U \in X : \A V \in SUBSET U : V # U => V \notin X
  <2>1. X \subseteq SUBSET T
    OBVIOUS
  <2> HIDE DEF X
  <2> QED BY <2>1, SmallestSubset
<1>2. /\ g[U] = IF U = {} THEN 0 ELSE f[Chosen(U)] + g[U \ {Chosen(U)}]
      /\ h[U] = IF U = {} THEN 0 ELSE f[Chosen(U)] + h[U \ {Chosen(U)}]
  <2>1. U \in SUBSET S /\ U \in SUBSET T
    OBVIOUS
  <2> QED BY <2>1, SumsRecur
<1>3. U # {} => g[U \ {Chosen(U)}] = h[U \ {Chosen(U)}]
  BY <1>1, ChosenIs
<1> QED
  BY <1>2, <1>3

\* The recursive function exists.
LEMMA SumsExist ==
  ASSUME NEW f, NEW S, IsFiniteSet(S)
  PROVE  Sums(f, S, SumsOf(f, S))
<1> DEFINE X == {T \in SUBSET S : ~Sums(f, T, SumsOf(f, T))}
<1> SUFFICES ASSUME X # {} PROVE FALSE
  OBVIOUS
<1>1. PICK T \in X : \A U \in SUBSET T : U # T => U \notin X
  <2>1. X \subseteq SUBSET S
    OBVIOUS
  <2> HIDE DEF X
  <2> QED BY <2>1, SmallestSubset
<1>2. \A U \in SUBSET T : U # T => Sums(f, U, SumsOf(f, U))
  BY <1>1
<1>3. T \in SUBSET S /\ IsFiniteSet(T) /\ ~Sums(f, T, SumsOf(f, T))
  BY FS_Subset
<1> HIDE DEF X
<1> DEFINE g == [U \in SUBSET T |->
                   IF U = {} THEN 0
                   ELSE f[Chosen(U)] + SumsOf(f, U \ {Chosen(U)})[U \ {Chosen(U)}]]
<1>4. ASSUME NEW U \in SUBSET T, U # T
      PROVE  g[U] = SumsOf(f, U)[U]
  <2>1. Sums(f, U, SumsOf(f, U)) /\ U \in SUBSET U
    BY <1>2, <1>4
  <2>2. SumsOf(f, U)[U] = IF U = {} THEN 0
                          ELSE f[Chosen(U)] + SumsOf(f, U)[U \ {Chosen(U)}]
    BY <2>1, SumsRecur
  <2>3. CASE U # {}
    <3> DEFINE V == U \ {Chosen(U)}
    <3>1. V \subseteq U /\ V \in SUBSET T /\ V # T /\ V \in SUBSET V
      BY <2>3, ChosenIs
    <3>2. Sums(f, V, SumsOf(f, V)) /\ IsFiniteSet(V)
      BY <1>2, <1>3, <3>1, FS_Subset
    <3>3. SumsOf(f, U)[V] = SumsOf(f, V)[V]
      BY <2>1, <3>1, <3>2, SumsAgree
    <3> QED BY <2>2, <2>3, <3>3
  <2> QED BY <2>2, <2>3
<1>5. Sums(f, T, g)
  <2>1. ASSUME NEW U \in SUBSET T
        PROVE  g[U] = IF U = {} THEN 0 ELSE f[Chosen(U)] + g[U \ {Chosen(U)}]
    <3> DEFINE V == U \ {Chosen(U)}
    <3>1. CASE U # {}
      <4>1. V \in SUBSET T /\ V # T
        BY <3>1, ChosenIs
      <4>2. g[V] = SumsOf(f, V)[V]
        BY <4>1, <1>4
      <4>3. g[U] = f[Chosen(U)] + SumsOf(f, V)[V]
        BY <3>1
      <4> QED BY <3>1, <4>2, <4>3
    <3> QED BY <3>1
  <2>2. g = [U \in SUBSET T |-> g[U]]
    OBVIOUS
  <2> HIDE DEF g
  <2>3. [U \in SUBSET T |-> g[U]]
          = [U \in SUBSET T |-> IF U = {} THEN 0 ELSE f[Chosen(U)] + g[U \ {Chosen(U)}]]
    BY <2>1
  <2> QED BY ONLY <2>2, <2>3 DEF Sums
<1> QED
  BY <1>3, <1>5 DEF SumsOf

-----------------------------------------------------------------------------
(* What the sum is, for any order in which the elements are taken. *)

LEMMA SumOfNone == ASSUME NEW f PROVE SumFunctionOnSet(f, {}) = 0
<1>1. IsFiniteSet({})
  BY FS_EmptySet
<1>2. Sums(f, {}, SumsOf(f, {})) /\ {} \in SUBSET {}
  BY <1>1, SumsExist
<1>3. SumsOf(f, {})[{}] = 0
  BY <1>2, SumsRecur
<1> QED BY <1>3, SumIs

\* It takes the chosen element, and the sum of the others.
LEMMA SumTakes ==
  ASSUME NEW f, NEW S, IsFiniteSet(S), S # {}
  PROVE  SumFunctionOnSet(f, S)
           = f[Chosen(S)] + SumFunctionOnSet(f, S \ {Chosen(S)})
<1> DEFINE T == S \ {Chosen(S)}
<1>1. T \subseteq S /\ T \in SUBSET S /\ T \in SUBSET T /\ S \in SUBSET S /\ IsFiniteSet(T)
  BY FS_Subset
<1>2. Sums(f, S, SumsOf(f, S)) /\ Sums(f, T, SumsOf(f, T))
  BY <1>1, SumsExist
<1>3. SumsOf(f, S)[S] = f[Chosen(S)] + SumsOf(f, S)[T]
  BY <1>1, <1>2, SumsRecur
<1>4. SumsOf(f, S)[T] = SumsOf(f, T)[T]
  <2> HIDE DEF T
  <2> QED BY <1>1, <1>2, SumsAgree
<1> QED BY <1>3, <1>4, SumIs

LEMMA SumTyped ==
  ASSUME NEW f, NEW S, IsFiniteSet(S), \A x \in S : f[x] \in Int
  PROVE  SumFunctionOnSet(f, S) \in Int
<1> DEFINE X == {T \in SUBSET S : SumFunctionOnSet(f, T) \in Int}
<1>1. ASSUME NEW T \in SUBSET S, \A U \in SUBSET T : U # T => U \in X
      PROVE  T \in X
  <2>1. CASE T = {}
    BY <2>1, SumOfNone
  <2>2. CASE T # {}
    <3>1. Chosen(T) \in T /\ f[Chosen(T)] \in Int /\ IsFiniteSet(T)
      BY <2>2, ChosenIs, FS_Subset
    <3>2. SumFunctionOnSet(f, T \ {Chosen(T)}) \in Int
      BY <1>1, <3>1
    <3> QED BY <2>2, <3>1, <3>2, SumTakes
  <2> QED BY <2>1, <2>2
<1>2. S \in X
  <2> HIDE DEF X
  <2> QED BY <1>1, SubsetInduction
<1> QED BY <1>2

\* Any element may be taken, not only the chosen one.
LEMMA SumRemoves ==
  ASSUME NEW f, NEW S, IsFiniteSet(S), \A x \in S : f[x] \in Int, NEW e \in S
  PROVE  SumFunctionOnSet(f, S) = f[e] + SumFunctionOnSet(f, S \ {e})
<1> DEFINE Total(T) == SumFunctionOnSet(f, T)
<1> DEFINE X == {T \in SUBSET S : \A x \in T : Total(T) = f[x] + Total(T \ {x})}
<1>1. ASSUME NEW T \in SUBSET S, \A U \in SUBSET T : U # T => U \in X
      PROVE  T \in X
  <2> SUFFICES ASSUME NEW x \in T PROVE Total(T) = f[x] + Total(T \ {x})
    OBVIOUS
  <2> DEFINE y == Chosen(T)
             V == (T \ {y}) \ {x}
  <2>1. IsFiniteSet(T) /\ T # {}
    BY FS_Subset
  <2>2. y \in T /\ Total(T) = f[y] + Total(T \ {y})
    BY <2>1, ChosenIs, SumTakes
  <2>3. CASE x = y
    BY <2>2, <2>3
  <2>4. CASE x # y
    <3>1. /\ T \ {y} \in SUBSET T /\ T \ {y} # T /\ x \in T \ {y}
          /\ T \ {x} \in SUBSET T /\ T \ {x} # T /\ y \in T \ {x}
          /\ (T \ {x}) \ {y} = V /\ V \subseteq S
      BY <2>2, <2>4
    <3>2. T \ {y} \in X /\ T \ {x} \in X
      BY <1>1, <3>1
    <3>3. Total(T \ {y}) = f[x] + Total(V)
      BY <3>1, <3>2
    <3>4. Total(T \ {x}) = f[y] + Total(V)
      BY <3>1, <3>2
    <3>5. IsFiniteSet(V)
      BY <3>1, FS_Subset
    <3>6. f[x] \in Int /\ f[y] \in Int /\ Total(V) \in Int
      BY <2>2, <3>1, <3>5, SumTyped
    <3> HIDE DEF Total, y, V
    <3> QED BY <2>2, <3>3, <3>4, <3>6
  <2> QED BY <2>3, <2>4
<1>2. S \in X
  <2> HIDE DEF X
  <2> QED BY <1>1, SubsetInduction
<1> QED BY <1>2

LEMMA SumAdds ==
  ASSUME NEW f, NEW S, IsFiniteSet(S), NEW e, e \notin S,
         f[e] \in Int, \A x \in S : f[x] \in Int
  PROVE  SumFunctionOnSet(f, S \cup {e}) = SumFunctionOnSet(f, S) + f[e]
<1> DEFINE T == S \cup {e}
<1>1. IsFiniteSet(T)
  BY FS_AddElement
<1>2. (\A x \in T : f[x] \in Int) /\ e \in T /\ T \ {e} = S
  OBVIOUS
<1>3. SumFunctionOnSet(f, T) = f[e] + SumFunctionOnSet(f, T \ {e})
  <2> HIDE DEF T
  <2> QED BY <1>1, <1>2, SumRemoves
<1>4. SumFunctionOnSet(f, S) \in Int
  BY SumTyped
<1>5. SumFunctionOnSet(f, T) = f[e] + SumFunctionOnSet(f, S)
  BY <1>2, <1>3
<1> HIDE DEF T
<1> QED BY <1>4, <1>5 DEF T

\* No summand that grows makes the sum smaller, whatever the function is elsewhere.
LEMMA SumMonotone ==
  ASSUME NEW f, NEW g, NEW S, IsFiniteSet(S),
         \A x \in S : f[x] \in Int /\ g[x] \in Int /\ f[x] <= g[x]
  PROVE  SumFunctionOnSet(f, S) <= SumFunctionOnSet(g, S)
<1> DEFINE X == {T \in SUBSET S : SumFunctionOnSet(f, T) <= SumFunctionOnSet(g, T)}
<1>1. ASSUME NEW T \in SUBSET S, \A U \in SUBSET T : U # T => U \in X
      PROVE  T \in X
  <2>1. CASE T = {}
    BY <2>1, SumOfNone
  <2>2. CASE T # {}
    <3> DEFINE y == Chosen(T)
               V == T \ {y}
    <3>1. y \in T /\ IsFiniteSet(T) /\ f[y] \in Int /\ g[y] \in Int /\ f[y] <= g[y]
      BY <2>2, ChosenIs, FS_Subset
    <3>2. V \in SUBSET T /\ V # T /\ V \subseteq S /\ IsFiniteSet(V)
      BY <3>1, FS_Subset
    <3>3. SumFunctionOnSet(f, V) <= SumFunctionOnSet(g, V)
      BY <1>1, <3>2
    <3>4. SumFunctionOnSet(f, V) \in Int /\ SumFunctionOnSet(g, V) \in Int
      BY <3>2, SumTyped
    <3>5. /\ SumFunctionOnSet(f, T) = f[y] + SumFunctionOnSet(f, V)
          /\ SumFunctionOnSet(g, T) = g[y] + SumFunctionOnSet(g, V)
      BY <2>2, <3>1, SumTakes
    <3> HIDE DEF y, V
    <3>6. SumFunctionOnSet(f, T) <= SumFunctionOnSet(g, T)
      BY <3>1, <3>3, <3>4, <3>5
    <3> QED BY <3>6
  <2> QED BY <2>1, <2>2
<1>2. S \in X
  <2> HIDE DEF X
  <2> QED BY <1>1, SubsetInduction
<1> QED BY <1>2

\* Summands that grow by one at most add no more than there are elements.
LEMMA SumGrowsByOnes ==
  ASSUME NEW f, NEW g, NEW S, IsFiniteSet(S),
         \A x \in S : f[x] \in Int /\ g[x] \in Int /\ g[x] <= f[x] + 1
  PROVE  SumFunctionOnSet(g, S) <= SumFunctionOnSet(f, S) + Cardinality(S)
<1> DEFINE X == {T \in SUBSET S : SumFunctionOnSet(g, T) <= SumFunctionOnSet(f, T) + Cardinality(T)}
<1>1. ASSUME NEW T \in SUBSET S, \A U \in SUBSET T : U # T => U \in X
      PROVE  T \in X
  <2>1. CASE T = {}
    <3>1. Cardinality({}) = 0
      BY FS_EmptySet
    <3> QED BY <2>1, <3>1, SumOfNone
  <2>2. CASE T # {}
    <3> DEFINE y == Chosen(T)
               V == T \ {y}
    <3>1. y \in T /\ IsFiniteSet(T) /\ f[y] \in Int /\ g[y] \in Int /\ g[y] <= f[y] + 1
      BY <2>2, ChosenIs, FS_Subset
    <3>2. V \in SUBSET T /\ V # T /\ V \subseteq S /\ IsFiniteSet(V)
      BY <3>1, FS_Subset
    <3>3. SumFunctionOnSet(g, V) <= SumFunctionOnSet(f, V) + Cardinality(V)
      BY <1>1, <3>2
    <3>4. SumFunctionOnSet(f, V) \in Int /\ SumFunctionOnSet(g, V) \in Int
      BY <3>2, SumTyped
    <3>5. /\ SumFunctionOnSet(f, T) = f[y] + SumFunctionOnSet(f, V)
          /\ SumFunctionOnSet(g, T) = g[y] + SumFunctionOnSet(g, V)
      BY <2>2, <3>1, SumTakes
    <3>6. Cardinality(V) = Cardinality(T) - 1 /\ Cardinality(T) \in Nat
      BY <3>1, FS_RemoveElement, FS_CardinalityType
    <3> HIDE DEF y, V
    <3>7. SumFunctionOnSet(g, T) <= SumFunctionOnSet(f, T) + Cardinality(T)
      BY <3>1, <3>3, <3>4, <3>5, <3>6
    <3> QED BY <3>7
  <2> QED BY <2>1, <2>2
<1>2. S \in X
  <2> HIDE DEF X
  <2> QED BY <1>1, SubsetInduction
<1> QED BY <1>2

LEMMA SumEqual ==
  ASSUME NEW f, NEW g, NEW S, IsFiniteSet(S),
         \A x \in S : f[x] \in Int /\ f[x] = g[x]
  PROVE  SumFunctionOnSet(f, S) = SumFunctionOnSet(g, S)
<1>1. \A x \in S : f[x] \in Int /\ g[x] \in Int /\ f[x] <= g[x] /\ g[x] <= f[x]
  OBVIOUS
<1>2. SumFunctionOnSet(f, S) <= SumFunctionOnSet(g, S)
  BY <1>1, SumMonotone
<1>3. SumFunctionOnSet(g, S) <= SumFunctionOnSet(f, S)
  BY <1>1, SumMonotone
<1>4. SumFunctionOnSet(f, S) \in Int /\ SumFunctionOnSet(g, S) \in Int
  BY <1>1, SumTyped
<1> QED BY <1>2, <1>3, <1>4

LEMMA SumIsNatural ==
  ASSUME NEW f, NEW S, IsFiniteSet(S), \A x \in S : f[x] \in Nat
  PROVE  SumFunctionOnSet(f, S) \in Nat
<1> DEFINE X == {T \in SUBSET S : SumFunctionOnSet(f, T) \in Nat}
<1>1. ASSUME NEW T \in SUBSET S, \A U \in SUBSET T : U # T => U \in X
      PROVE  T \in X
  <2>1. CASE T = {}
    BY <2>1, SumOfNone
  <2>2. CASE T # {}
    <3>1. Chosen(T) \in T /\ f[Chosen(T)] \in Nat /\ IsFiniteSet(T)
      BY <2>2, ChosenIs, FS_Subset
    <3>2. SumFunctionOnSet(f, T \ {Chosen(T)}) \in Nat
      BY <1>1, <3>1
    <3> QED BY <2>2, <3>1, <3>2, SumTakes
  <2> QED BY <2>1, <2>2
<1>2. S \in X
  <2> HIDE DEF X
  <2> QED BY <1>1, SubsetInduction
<1> QED BY <1>2

LEMMA SumOfZeros ==
  ASSUME NEW f, NEW S, IsFiniteSet(S), \A x \in S : f[x] = 0
  PROVE  SumFunctionOnSet(f, S) = 0
<1> DEFINE X == {T \in SUBSET S : SumFunctionOnSet(f, T) = 0}
<1>1. ASSUME NEW T \in SUBSET S, \A U \in SUBSET T : U # T => U \in X
      PROVE  T \in X
  <2>1. CASE T = {}
    BY <2>1, SumOfNone
  <2>2. CASE T # {}
    <3>1. Chosen(T) \in T /\ f[Chosen(T)] = 0 /\ IsFiniteSet(T)
      BY <2>2, ChosenIs, FS_Subset
    <3>2. SumFunctionOnSet(f, T \ {Chosen(T)}) = 0
      BY <1>1, <3>1
    <3> QED BY <2>2, <3>1, <3>2, SumTakes
  <2> QED BY <2>1, <2>2
<1>2. S \in X
  <2> HIDE DEF X
  <2> QED BY <1>1, SubsetInduction
<1> QED BY <1>2

\* The sum over two sets that have no element in common.
LEMMA SumOfUnion ==
  ASSUME NEW f, NEW R, NEW S, IsFiniteSet(R), IsFiniteSet(S), R \cap S = {},
         \A x \in R \cup S : f[x] \in Int
  PROVE  SumFunctionOnSet(f, R \cup S) = SumFunctionOnSet(f, R) + SumFunctionOnSet(f, S)
<1> DEFINE Total(T) == SumFunctionOnSet(f, T)
<1> DEFINE X == {T \in SUBSET S : Total(R \cup T) = Total(R) + Total(T)}
<1>1. ASSUME NEW T \in SUBSET S, \A U \in SUBSET T : U # T => U \in X
      PROVE  T \in X
  <2>1. Total(R) \in Int
    BY SumTyped
  <2>2. CASE T = {}
    <3>1. R \cup T = R /\ Total(T) = 0
      BY <2>2, SumOfNone
    <3> HIDE DEF Total
    <3> QED BY <2>1, <3>1
  <2>3. CASE T # {}
    <3> DEFINE y == Chosen(T)
               V == T \ {y}
    <3>1. y \in T /\ y \in R \cup T /\ IsFiniteSet(T) /\ f[y] \in Int
      BY <2>3, ChosenIs, FS_Subset
    <3>2. V \in SUBSET T /\ V # T /\ V \subseteq S /\ IsFiniteSet(V) /\ (R \cup T) \ {y} = R \cup V
      BY <3>1, FS_Subset
    <3>3. IsFiniteSet(R \cup T) /\ \A x \in R \cup T : f[x] \in Int
      BY <3>1, FS_Union
    <3>4. Total(R \cup V) = Total(R) + Total(V) /\ Total(V) \in Int
      BY <1>1, <3>2, SumTyped
    <3>5. Total(T) = f[y] + Total(V) /\ Total(R \cup T) = f[y] + Total(R \cup V)
      BY <3>1, <3>2, <3>3, SumRemoves
    <3>6. Total(R \cup T) = Total(R) + Total(T)
      <4> HIDE DEF Total, y, V
      <4> QED BY <2>1, <3>1, <3>4, <3>5
    <3> QED BY <3>6
  <2> QED BY <2>2, <2>3
<1>2. S \in X
  <2> HIDE DEF X
  <2> QED BY <1>1, SubsetInduction
<1> QED BY <1>2

\* Of naturals, a part never sums to more than the whole.
LEMMA SumOfSubset ==
  ASSUME NEW f, NEW S, IsFiniteSet(S), NEW R \in SUBSET S, \A x \in S : f[x] \in Nat
  PROVE  SumFunctionOnSet(f, R) <= SumFunctionOnSet(f, S)
<1> DEFINE Q == S \ R
<1>1. IsFiniteSet(R) /\ IsFiniteSet(Q) /\ R \cap Q = {} /\ R \cup Q = S
  BY FS_Subset
<1>2. SumFunctionOnSet(f, S) = SumFunctionOnSet(f, R) + SumFunctionOnSet(f, Q)
  <2>1. \A x \in R \cup Q : f[x] \in Int
    OBVIOUS
  <2> HIDE DEF Q
  <2> QED BY <1>1, <2>1, SumOfUnion
<1>3. SumFunctionOnSet(f, R) \in Nat /\ SumFunctionOnSet(f, Q) \in Nat
  BY <1>1, SumIsNatural
<1> QED BY <1>2, <1>3

=============================================================================
