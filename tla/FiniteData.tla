------------------------------ MODULE FiniteData ------------------------------
(***************************************************************************)
(* Facts about finite data that the proofs of several components need: a   *)
(* set of naturals has a least element, a finite set in an order has a     *)
(* greatest one, and the sum over a finite set is what one expects of it,  *)
(* whatever the order in which the community module folds it.              *)
(*                                                                         *)
(* An induction over a finite set S is over the set `good` of the subsets  *)
(* of S for which the claim holds: SubsetInduction.                        *)
(***************************************************************************)
EXTENDS Integers, FiniteSets, Functions, FiniteSetTheorems, TLAPS

(* A set of subsets of a finite set has a minimal one. *)
LEMMA MinimalSubset ==
    ASSUME NEW S, IsFiniteSet(S), NEW T \in SUBSET (SUBSET S), T # {}
    PROVE  \E U \in T : \A V \in T : V \subseteq U => V = U
<1> DEFINE R == StrictSubsetOrdering(S)
<1>1. IsWellFoundedOn(R, FiniteSubsetsOf(S))
  BY FS_StrictSubsetOrderingWellFounded
<1>2. T \subseteq FiniteSubsetsOf(S)
  BY FS_FiniteSubsetsOfFinite
<1>3. \E U \in T : \A V \in T : ~ (<<V, U>> \in R)
  <2> HIDE DEF R
  <2> QED BY <1>1, <1>2, WFMin, Zenon
<1>4. QED
  BY <1>3 DEF StrictSubsetOrdering

(* What holds of a subset as soon as it holds of all smaller ones, holds   *)
(* of the whole set, if that is finite. *)
LEMMA SubsetInduction ==
    ASSUME NEW S, IsFiniteSet(S), NEW good,
           \A U \in SUBSET S :
              (\A V \in SUBSET U : V # U => V \in good) => U \in good
    PROVE  S \in good
<1> SUFFICES ASSUME S \notin good
             PROVE  FALSE
  OBVIOUS
<1>1. \A T \in SUBSET (SUBSET S) : T # {} =>
         \E U \in T : \A V \in T : V \subseteq U => V = U
  BY MinimalSubset
<1> DEFINE T == {U \in SUBSET S : U \notin good}
<1>2. T \in SUBSET (SUBSET S) /\ S \in T
  OBVIOUS
<1>3. PICK U \in T : \A V \in T : V \subseteq U => V = U
  <2> HIDE DEF T
  <2> QED BY <1>1, <1>2
<1>4. QED
  BY <1>3

(* A set of naturals has a least element. *)
LEMMA LeastNatural ==
    ASSUME NEW S \in SUBSET Nat, S # {}
    PROVE  \E n \in S : \A m \in S : n <= m
<1> SUFFICES ASSUME \A n \in S : \E m \in S : m < n
             PROVE  FALSE
  OBVIOUS
<1>1. PICK b \in S : TRUE
  OBVIOUS
<1> DEFINE I == 0 .. b
           good == {U \in SUBSET I : \A n \in S : U # 0 .. n}
<1>2. IsFiniteSet(I)
  BY FS_Interval
<1>3. ASSUME NEW U \in SUBSET I, \A V \in SUBSET U : V # U => V \in good
      PROVE  U \in good
  <2> SUFFICES ASSUME NEW n \in S, U = 0 .. n
               PROVE  FALSE
    OBVIOUS
  <2>1. PICK m \in S : m < n
    OBVIOUS
  <2>2. 0 .. m \in SUBSET U /\ n \in U /\ n \notin 0 .. m
    BY <2>1
  <2>3. 0 .. m \in good
    BY <1>3, <2>2
  <2>4. QED
    BY <2>3
<1>4. I \in good
  <2> HIDE DEF I, good
  <2>1. QED
    BY <1>2, <1>3, SubsetInduction
<1>5. QED
  BY <1>1, <1>4

(* A finite set has a greatest element in a transitive order that compares *)
(* any two of its elements. *)
LEMMA GreatestElement ==
    ASSUME NEW S, IsFiniteSet(S), S # {}, NEW R,
           \A x, y \in S : x = y \/ <<x, y>> \in R \/ <<y, x>> \in R,
           \A x, y, z \in S : <<x, y>> \in R /\ <<y, z>> \in R => <<x, z>> \in R
    PROVE  \E x \in S : \A y \in S \ {x} : <<x, y>> \in R
<1> DEFINE Has(U) == \E x \in U : \A y \in U \ {x} : <<x, y>> \in R
           good == {U \in SUBSET S : U = {} \/ Has(U)}
<1>1. ASSUME NEW U \in SUBSET S, \A V \in SUBSET U : V # U => V \in good,
             NEW u \in U
      PROVE  Has(U)
  <2> DEFINE V == U \ {u}
  <2>1. V \in good
    BY <1>1
  <2>2. CASE V = {}
    BY <2>2
  <2>3. CASE V # {}
    <3>1. PICK x \in V : \A y \in V \ {x} : <<x, y>> \in R
      BY <2>1, <2>3
    <3>2. CASE <<x, u>> \in R
      <4>1. \A y \in U \ {x} : <<x, y>> \in R
        BY <3>1, <3>2
      <4>2. QED
        BY <3>1, <4>1
    <3>3. CASE <<u, x>> \in R
      <4>1. ASSUME NEW y \in U \ {u}
            PROVE  <<u, y>> \in R
        <5>1. y = x \/ <<x, y>> \in R
          BY <3>1
        <5>2. u \in S /\ x \in S /\ y \in S
          OBVIOUS
        <5>3. QED
          BY <3>3, <5>1, <5>2
      <4>2. QED
        BY <4>1
    <3>4. QED
      BY <3>1, <3>2, <3>3
  <2>4. QED
    BY <2>2, <2>3
<1>2. \A U \in SUBSET S : (\A V \in SUBSET U : V # U => V \in good) => U \in good
  <2> SUFFICES ASSUME NEW U \in SUBSET S,
                      \A V \in SUBSET U : V # U => V \in good, U # {}
               PROVE  Has(U)
    OBVIOUS
  <2> HIDE DEF Has
  <2> QED BY <1>1
<1>3. S \in good
  <2> HIDE DEF good
  <2> QED BY <1>2, SubsetInduction
<1>4. QED
  BY <1>3

---------------------------------------------------------------------------
(* Sums *)

(* The element the fold takes next. *)
Taken(s) == CHOOSE x \in s : TRUE

(* g is the function that the fold over the subsets of S defines. *)
IsFold(f, S, g) ==
    g = [s \in SUBSET S |->
            IF s = {} THEN 0 ELSE f[Taken(s)] + g[s \ {Taken(s)}]]

Fold(f, S) == CHOOSE g : IsFold(f, S, g)

LEMMA SumIsFold ==
    ASSUME NEW f, NEW S
    PROVE  SumFunctionOnSet(f, S) = Fold(f, S)[S]
BY Zenon DEF SumFunctionOnSet, FoldFunctionOnSet, MapThenFoldSet, Fold,
             IsFold, Taken

LEMMA TakenType ==
    ASSUME NEW S, S # {}
    PROVE  Taken(S) \in S
BY Zenon DEF Taken

LEMMA FoldAt ==
    ASSUME NEW f, NEW U, NEW g, IsFold(f, U, g), NEW s \in SUBSET U
    PROVE  g[s] = IF s = {} THEN 0 ELSE f[Taken(s)] + g[s \ {Taken(s)}]
BY DEF IsFold

(* Two folds agree where both are defined. *)
LEMMA FoldUnique ==
    ASSUME NEW f, NEW S, IsFiniteSet(S),
           NEW U, NEW V, S \subseteq U, S \subseteq V,
           NEW g, IsFold(f, U, g), NEW h, IsFold(f, V, h)
    PROVE  g[S] = h[S]
<1> DEFINE good == {s \in SUBSET S : g[s] = h[s]}
<1>1. ASSUME NEW s \in SUBSET S, \A v \in SUBSET s : v # s => v \in good
      PROVE  s \in good
  <2>1. s \in SUBSET U /\ s \in SUBSET V
    OBVIOUS
  <2>2. /\ g[s] = IF s = {} THEN 0 ELSE f[Taken(s)] + g[s \ {Taken(s)}]
        /\ h[s] = IF s = {} THEN 0 ELSE f[Taken(s)] + h[s \ {Taken(s)}]
    BY <2>1, FoldAt
  <2>3. s # {} => s \ {Taken(s)} \in good
    BY <1>1, TakenType
  <2>4. QED
    BY <2>2, <2>3
<1>2. S \in good
  <2> HIDE DEF good
  <2> QED BY <1>1, SubsetInduction
<1>3. QED
  BY <1>2

(* The fold over a finite set is defined. *)
LEMMA FoldExists ==
    ASSUME NEW f, NEW S, IsFiniteSet(S)
    PROVE  IsFold(f, S, Fold(f, S))
<1> DEFINE good == {U \in SUBSET S : \E g : IsFold(f, U, g)}
<1>1. ASSUME NEW U \in SUBSET S, \A V \in SUBSET U : V # U => V \in good
      PROVE  U \in good
  <2> DEFINE Rest(s) == s \ {Taken(s)}
             g == [s \in SUBSET U |->
                      IF s = {} THEN 0
                      ELSE f[Taken(s)] + Fold(f, Rest(s))[Rest(s)]]
  <2>1. \A V \in SUBSET U : V # U => IsFold(f, V, Fold(f, V))
    BY <1>1, Zenon DEF Fold
  <2>2. ASSUME NEW s \in SUBSET U, s # {}
        PROVE  g[Rest(s)] = Fold(f, Rest(s))[Rest(s)]
    <3> DEFINE v == Rest(s)
    <3>1. v \in SUBSET U /\ v # U
      BY <2>2, TakenType
    <3>2. IsFold(f, v, Fold(f, v))
      BY <2>1, <3>1
    <3>3. Fold(f, v)[v] =
             IF v = {} THEN 0 ELSE f[Taken(v)] + Fold(f, v)[Rest(v)]
      <4> HIDE DEF v
      <4> QED BY <3>2, FoldAt
    <3>4. g[v] = IF v = {} THEN 0
                 ELSE f[Taken(v)] + Fold(f, Rest(v))[Rest(v)]
      BY <3>1
    <3>5. v # {} => Fold(f, v)[Rest(v)] = Fold(f, Rest(v))[Rest(v)]
      <4> SUFFICES ASSUME v # {}
                   PROVE  Fold(f, v)[Rest(v)] = Fold(f, Rest(v))[Rest(v)]
        OBVIOUS
      <4> DEFINE u == Rest(v)
      <4>1. u \in SUBSET U /\ u # U /\ u \subseteq v
        BY <3>1, TakenType
      <4>2. IsFold(f, u, Fold(f, u))
        BY <2>1, <4>1
      <4>3. IsFiniteSet(u)
        BY <4>1, FS_Subset
      <4>4. Fold(f, v)[u] = Fold(f, u)[u]
        <5> HIDE DEF u, v
        <5> QED BY <3>2, <4>1, <4>2, <4>3, FoldUnique
      <4>5. QED
        BY <4>4
    <3>6. QED
      BY <3>3, <3>4, <3>5
  <2>3. g = [s \in SUBSET U |->
                IF s = {} THEN 0 ELSE f[Taken(s)] + g[Rest(s)]]
    <3> HIDE DEF Rest
    <3> QED BY <2>2
  <2>4. IsFold(f, U, g)
    BY <2>3 DEF IsFold
  <2>5. QED
    <3> HIDE DEF g
    <3> QED BY <2>4
<1>2. S \in good
  <2> HIDE DEF good
  <2> QED BY <1>1, SubsetInduction
<1>3. QED
  BY <1>2, Zenon DEF Fold

---------------------------------------------------------------------------
LEMMA SumEmpty ==
    ASSUME NEW f
    PROVE  SumFunctionOnSet(f, {}) = 0
<1>1. IsFold(f, {}, Fold(f, {}))
  BY FS_EmptySet, FoldExists
<1>2. QED
  BY <1>1, FoldAt, SumIsFold

LEMMA SumTaken ==
    ASSUME NEW f, NEW S, IsFiniteSet(S), S # {}
    PROVE  SumFunctionOnSet(f, S) =
              f[Taken(S)] + SumFunctionOnSet(f, S \ {Taken(S)})
<1> DEFINE T == S \ {Taken(S)}
<1>1. T \subseteq S /\ IsFiniteSet(T)
  BY FS_Subset
<1>2. IsFold(f, S, Fold(f, S)) /\ IsFold(f, T, Fold(f, T))
  BY <1>1, FoldExists
<1>3. Fold(f, S)[S] = f[Taken(S)] + Fold(f, S)[T]
  BY <1>2, FoldAt
<1>4. Fold(f, S)[T] = Fold(f, T)[T]
  BY <1>1, <1>2, FoldUnique
<1>5. QED
  BY <1>3, <1>4, SumIsFold

LEMMA SumInt ==
    ASSUME NEW S, IsFiniteSet(S), NEW f, \A x \in S : f[x] \in Int
    PROVE  SumFunctionOnSet(f, S) \in Int
<1> DEFINE good == {U \in SUBSET S : SumFunctionOnSet(f, U) \in Int}
<1>1. ASSUME NEW U \in SUBSET S, \A V \in SUBSET U : V # U => V \in good
      PROVE  U \in good
  <2>1. CASE U = {}
    BY <2>1, SumEmpty
  <2>2. CASE U # {}
    <3>1. Taken(U) \in U /\ IsFiniteSet(U)
      BY <2>2, TakenType, FS_Subset
    <3>2. U \ {Taken(U)} \in good
      BY <1>1, <3>1
    <3>3. f[Taken(U)] \in Int
      BY <3>1
    <3>4. QED
      BY <2>2, <3>1, <3>2, <3>3, SumTaken
  <2>3. QED
    BY <2>1, <2>2
<1>2. S \in good
  <2> HIDE DEF good
  <2> QED BY <1>1, SubsetInduction
<1>3. QED
  BY <1>2

(* Any element can be taken first. *)
LEMMA SumRemove ==
    ASSUME NEW S, IsFiniteSet(S), NEW f, \A x \in S : f[x] \in Int,
           NEW e \in S
    PROVE  SumFunctionOnSet(f, S) = f[e] + SumFunctionOnSet(f, S \ {e})
<1> DEFINE Sum(U) == SumFunctionOnSet(f, U)
           good == {U \in SUBSET S : \A x \in U : Sum(U) = f[x] + Sum(U \ {x})}
<1>1. ASSUME NEW U \in SUBSET S, \A V \in SUBSET U : V # U => V \in good,
             NEW x \in U
      PROVE  Sum(U) = f[x] + Sum(U \ {x})
  <2> DEFINE t == Taken(U)
             V == (U \ {t}) \ {x}
  <2>1. t \in U /\ IsFiniteSet(U)
    BY TakenType, FS_Subset
  <2>2. Sum(U) = f[t] + Sum(U \ {t})
    BY <2>1, SumTaken
  <2>3. CASE x = t
    BY <2>2, <2>3
  <2>4. CASE x # t
    <3>1. Sum(U \ {t}) = f[x] + Sum(V)
      <4>1. U \ {t} \in good /\ x \in U \ {t}
        BY <1>1, <2>1, <2>4
      <4>2. QED
        BY <4>1
    <3>2. Sum(U \ {x}) = f[t] + Sum(V)
      <4>1. U \ {x} \in good /\ t \in U \ {x}
        BY <1>1, <2>1, <2>4
      <4>2. (U \ {x}) \ {t} = V
        OBVIOUS
      <4>3. QED
        BY <4>1, <4>2
    <3>3. Sum(V) \in Int /\ f[x] \in Int /\ f[t] \in Int
      <4>1. IsFiniteSet(V) /\ \A y \in V : f[y] \in Int
        BY FS_Subset
      <4>2. QED
        BY <2>1, <4>1, SumInt
    <3> HIDE DEF Sum, t, V
    <3>4. QED
      BY <2>2, <3>1, <3>2, <3>3
  <2>5. QED
    BY <2>3, <2>4
<1>2. S \in good
  <2>1. \A U \in SUBSET S :
           (\A V \in SUBSET U : V # U => V \in good) => U \in good
    <3> HIDE DEF Sum
    <3> QED BY <1>1
  <2> HIDE DEF good
  <2>2. QED
    BY <2>1, SubsetInduction
<1>3. QED
  BY <1>2

(* A sum grows with what is summed. *)
LEMMA SumMonotone ==
    ASSUME NEW S, IsFiniteSet(S),
           NEW f, \A x \in S : f[x] \in Int,
           NEW g, \A x \in S : g[x] \in Int, \A x \in S : f[x] <= g[x]
    PROVE  /\ SumFunctionOnSet(f, S) <= SumFunctionOnSet(g, S)
           /\ SumFunctionOnSet(f, S) = SumFunctionOnSet(g, S) =>
                 \A x \in S : f[x] = g[x]
<1> DEFINE F(U) == SumFunctionOnSet(f, U)
           G(U) == SumFunctionOnSet(g, U)
           good == {U \in SUBSET S :
                       F(U) <= G(U) /\ (F(U) = G(U) => \A x \in U : f[x] = g[x])}
<1>1. ASSUME NEW U \in SUBSET S, \A V \in SUBSET U : V # U => V \in good,
             U # {}
      PROVE  U \in good
  <2> DEFINE t == Taken(U)
             V == U \ {t}
  <2>1. t \in U /\ IsFiniteSet(U)
    BY <1>1, TakenType, FS_Subset
  <2>2. F(U) = f[t] + F(V) /\ G(U) = g[t] + G(V)
    BY <1>1, <2>1, SumTaken
  <2>3. V \in good
    BY <1>1, <2>1
  <2>4. IsFiniteSet(V)
    BY <2>1, FS_Subset
  <2>5. F(V) \in Int /\ G(V) \in Int
    BY <2>4, SumInt
  <2>6. f[t] \in Int /\ g[t] \in Int /\ f[t] <= g[t]
    BY <2>1
  <2>7. U = V \cup {t}
    BY <2>1
  <2> HIDE DEF F, G, t, V
  <2>8. QED
    BY <2>2, <2>3, <2>5, <2>6, <2>7
<1>2. {} \in good
  BY SumEmpty
<1>3. \A U \in SUBSET S :
         (\A V \in SUBSET U : V # U => V \in good) => U \in good
  <2> HIDE DEF good
  <2> QED BY <1>1, <1>2
<1>4. S \in good
  <2> HIDE DEF good
  <2> QED BY <1>3, SubsetInduction
<1>5. QED
  BY <1>4

(* Functions that agree on the set have one sum. *)
LEMMA SumSame ==
    ASSUME NEW S, IsFiniteSet(S),
           NEW f, \A x \in S : f[x] \in Int,
           NEW g, \A x \in S : g[x] = f[x]
    PROVE  SumFunctionOnSet(g, S) = SumFunctionOnSet(f, S)
<1>1. /\ SumFunctionOnSet(f, S) <= SumFunctionOnSet(g, S)
      /\ SumFunctionOnSet(g, S) <= SumFunctionOnSet(f, S)
  BY SumMonotone
<1>2. SumFunctionOnSet(f, S) \in Int /\ SumFunctionOnSet(g, S) \in Int
  BY SumInt
<1>3. QED
  BY <1>1, <1>2

(* The sum of nothing but zeros. *)
LEMMA SumZero ==
    ASSUME NEW S, IsFiniteSet(S), NEW f, \A x \in S : f[x] = 0
    PROVE  SumFunctionOnSet(f, S) = 0
<1> DEFINE good == {U \in SUBSET S : SumFunctionOnSet(f, U) = 0}
<1>1. ASSUME NEW U \in SUBSET S, \A V \in SUBSET U : V # U => V \in good
      PROVE  U \in good
  <2>1. CASE U = {}
    BY <2>1, SumEmpty
  <2>2. CASE U # {}
    <3>1. Taken(U) \in U /\ IsFiniteSet(U)
      BY <2>2, TakenType, FS_Subset
    <3>2. U \ {Taken(U)} \in good
      BY <1>1, <3>1
    <3>3. f[Taken(U)] = 0
      BY <3>1
    <3>4. QED
      BY <2>2, <3>1, <3>2, <3>3, SumTaken
  <2>3. QED
    BY <2>1, <2>2
<1>2. S \in good
  <2> HIDE DEF good
  <2> QED BY <1>1, SubsetInduction
<1>3. QED
  BY <1>2

LEMMA SumNat ==
    ASSUME NEW S, IsFiniteSet(S), NEW f, \A x \in S : f[x] \in Nat
    PROVE  SumFunctionOnSet(f, S) \in Nat
<1> DEFINE good == {U \in SUBSET S : SumFunctionOnSet(f, U) \in Nat}
<1>1. ASSUME NEW U \in SUBSET S, \A V \in SUBSET U : V # U => V \in good
      PROVE  U \in good
  <2>1. CASE U = {}
    BY <2>1, SumEmpty
  <2>2. CASE U # {}
    <3>1. Taken(U) \in U /\ IsFiniteSet(U)
      BY <2>2, TakenType, FS_Subset
    <3>2. U \ {Taken(U)} \in good
      BY <1>1, <3>1
    <3>3. f[Taken(U)] \in Nat
      BY <3>1
    <3>4. QED
      BY <2>2, <3>1, <3>2, <3>3, SumTaken
  <2>3. QED
    BY <2>1, <2>2
<1>2. S \in good
  <2> HIDE DEF good
  <2> QED BY <1>1, SubsetInduction
<1>3. QED
  BY <1>2

(* Changing the function in one place changes the sum by the difference. *)
LEMMA SumExcept ==
    ASSUME NEW S, IsFiniteSet(S), NEW f, \A x \in S : f[x] \in Int,
           NEW e \in S, NEW g, g[e] \in Int,
           \A x \in S \ {e} : g[x] = f[x]
    PROVE  SumFunctionOnSet(g, S) = SumFunctionOnSet(f, S) + g[e] - f[e]
<1> DEFINE T == S \ {e}
<1>1. IsFiniteSet(T)
  BY FS_Subset
<1>2. SumFunctionOnSet(g, T) = SumFunctionOnSet(f, T)
  BY <1>1, SumSame
<1>3. SumFunctionOnSet(f, S) = f[e] + SumFunctionOnSet(f, T)
  BY SumRemove
<1>4. SumFunctionOnSet(g, S) = g[e] + SumFunctionOnSet(g, T)
  <2>1. \A x \in S : g[x] \in Int
    OBVIOUS
  <2>2. QED
    BY <2>1, SumRemove
<1>5. SumFunctionOnSet(f, T) \in Int
  BY <1>1, SumInt
<1>6. QED
  BY <1>2, <1>3, <1>4, <1>5
=============================================================================
