-------------------------------- MODULE Sums --------------------------------
(***************************************************************************)
(* Facts about the sums of Provider: what a sum over a finite set is, that *)
(* it does not depend on the order, and how shares of an amount that are   *)
(* rounded down add up.  The community modules define a sum by a recursive *)
(* function with CHOOSE.                                                   *)
(*                                                                         *)
(* A proof by induction over a finite set names the set of the subsets for *)
(* which the claim holds: SetInduction has that set as a parameter, where  *)
(* the library's theorem has an operator, which no prover can instantiate. *)
(***************************************************************************)
EXTENDS Integers, FiniteSets, FiniteSetsExt, Functions, FiniteSetTheorems, TLAPS

-----------------------------------------------------------------------------
(* Induction over a finite set *)

\* A set of sets that has every set all of whose smaller subsets it has, has S.
LEMMA SubsetInduction ==
  ASSUME NEW S, IsFiniteSet(S), NEW Holds,
         \A T \in SUBSET S : (\A U \in SUBSET T : U # T => U \in Holds) => T \in Holds
  PROVE  S \in Holds
<1> DEFINE Fails == {T \in SUBSET S : T \notin Holds}
<1> SUFFICES ASSUME Fails # {} PROVE FALSE
    OBVIOUS
<1>1. IsWellFoundedOn(StrictSubsetOrdering(S), SUBSET S)
  <2>1. IsWellFoundedOn(StrictSubsetOrdering(S), FiniteSubsetsOf(S))
        BY FS_StrictSubsetOrderingWellFounded
  <2>2. FiniteSubsetsOf(S) = SUBSET S
        BY FS_FiniteSubsetsOfFinite
  <2> QED BY <2>1, <2>2
<1>2. Fails \subseteq SUBSET S
      OBVIOUS
<1>3. PICK T \in Fails : \A U \in Fails : ~ (<<U, T>> \in StrictSubsetOrdering(S))
  <2> HIDE DEF Fails
  <2> QED BY <1>1, <1>2, WFMin
<1>4. \A U \in SUBSET T : U # T => U \in Holds
      BY <1>3 DEF StrictSubsetOrdering
<1> QED BY <1>3, <1>4

\* One that has the empty set and grows by any one element has S.
LEMMA SetInduction ==
  ASSUME NEW S, IsFiniteSet(S), NEW Holds,
         {} \in Holds,
         \A T \in SUBSET S : \A x \in T : T \ {x} \in Holds => T \in Holds
  PROVE  S \in Holds
<1>1. ASSUME NEW T \in SUBSET S, \A U \in SUBSET T : U # T => U \in Holds
      PROVE  T \in Holds
  <2>1. CASE T = {}
        BY <2>1
  <2>2. CASE T # {}
    <3>1. PICK x \in T : TRUE
          BY <2>2
    <3>2. T \ {x} \in SUBSET T /\ T \ {x} # T
          BY <3>1
    <3> QED BY <1>1, <3>1, <3>2
  <2> QED BY <2>1, <2>2
<1> QED BY <1>1, SubsetInduction

-----------------------------------------------------------------------------
(* The function behind a sum *)

\* One unfolding of the recursion: any element of s, and the sum of the others.
SumStep(f, sums, s) ==
  IF s = {} THEN 0
  ELSE f[CHOOSE x \in s : TRUE] + sums[s \ {CHOOSE x \in s : TRUE}]

SumsUp(f, sums, S) == sums = [s \in SUBSET S |-> SumStep(f, sums, s)]

SumsOf(f, S) == CHOOSE sums : SumsUp(f, sums, S)

LEMMA SumIsLast ==
  ASSUME NEW f, NEW S
  PROVE  SumFunctionOnSet(f, S) = SumsOf(f, S)[S]
  BY DEF SumFunctionOnSet, FoldFunctionOnSet, MapThenFoldSet, SumsOf, SumsUp, SumStep

\* The recursion has at most one solution, whatever larger set it is solved on.
LEMMA SumsUnique ==
  ASSUME NEW f, NEW S, IsFiniteSet(S), NEW T \in SUBSET S, NEW g, NEW h,
         SumsUp(f, g, S), SumsUp(f, h, T)
  PROVE  \A s \in SUBSET T : g[s] = h[s]
<1> DEFINE Same == {s \in SUBSET T : g[s] = h[s]}
<1>1. IsFiniteSet(T)
      BY FS_Subset
<1>2. ASSUME NEW s \in SUBSET T, \A u \in SUBSET s : u # s => u \in Same
      PROVE  s \in Same
  <2>1. g[s] = SumStep(f, g, s) /\ h[s] = SumStep(f, h, s)
        BY DEF SumsUp
  <2>2. CASE s = {}
        BY <2>1, <2>2 DEF SumStep
  <2>3. CASE s # {}
    <3>1. PICK x \in s : x = CHOOSE y \in s : TRUE
          BY <2>3
    <3>2. s \ {x} \in SUBSET s /\ s \ {x} # s
          OBVIOUS
    <3>3. g[s \ {x}] = h[s \ {x}]
          BY <3>2, <1>2
    <3> QED BY <2>1, <2>3, <3>1, <3>3 DEF SumStep
  <2> QED BY <2>2, <2>3
<1>3. ASSUME NEW s \in SUBSET T PROVE s \in Same
  <2>1. IsFiniteSet(s) /\ \A u \in SUBSET s : u \in SUBSET T
        BY <1>1, FS_Subset
  <2>2. \A u \in SUBSET s : (\A w \in SUBSET u : w # u => w \in Same) => u \in Same
        BY <1>2, <2>1
  <2> HIDE DEF Same
  <2> QED BY <2>1, <2>2, SubsetInduction
<1> QED BY <1>3

\* It has a solution on every finite set: the solutions on the smaller sets, and one step.
LEMMA SumsExist ==
  ASSUME NEW f, NEW S, IsFiniteSet(S)
  PROVE  SumsUp(f, SumsOf(f, S), S)
<1> DEFINE Solved == {T \in SUBSET S : SumsUp(f, SumsOf(f, T), T)}
<1>1. ASSUME NEW T \in SUBSET S, \A U \in SUBSET T : U # T => U \in Solved
      PROVE  T \in Solved
  <2> DEFINE sum(s) == SumsOf(f, s)[s]
             x == CHOOSE y \in T : TRUE
             h == [s \in SUBSET T |->
                    IF s # T THEN sum(s) ELSE IF T = {} THEN 0 ELSE f[x] + sum(T \ {x})]
  <2>0. IsFiniteSet(T)
        BY FS_Subset
  <2>1. \A s \in SUBSET T : s # T => SumsUp(f, SumsOf(f, s), s)
        BY <1>1
  <2>2. ASSUME NEW s \in SUBSET T, s # T PROVE sum(s) = SumStep(f, h, s)
    <3>1. sum(s) = SumStep(f, SumsOf(f, s), s)
          BY <2>1, <2>2 DEF SumsUp
    <3>2. CASE s = {}
          BY <3>1, <3>2 DEF SumStep
    <3>3. CASE s # {}
      <4>1. PICK y \in s : y = CHOOSE z \in s : TRUE
            BY <3>3
      <4>2. s \ {y} \in SUBSET T /\ s \ {y} # T /\ s \ {y} \in SUBSET s
            BY <4>1, <2>2
      <4>3. SumsUp(f, SumsOf(f, s \ {y}), s \ {y}) /\ SumsUp(f, SumsOf(f, s), s)
            BY <4>2, <2>1, <2>2
      <4>4. IsFiniteSet(s)
            BY <2>0, FS_Subset
      <4>5. SumsOf(f, s)[s \ {y}] = sum(s \ {y})
            BY <4>2, <4>3, <4>4, SumsUnique
      <4>6. h[s \ {y}] = sum(s \ {y})
            BY <4>2
      <4> HIDE DEF h, sum
      <4> QED BY <3>1, <3>3, <4>1, <4>5, <4>6 DEF SumStep
    <3> QED BY <3>2, <3>3
  <2>3. h[T] = SumStep(f, h, T)
    <3>1. CASE T = {}
          BY <3>1 DEF SumStep
    <3>2. CASE T # {}
      <4>1. x \in T /\ T \ {x} \in SUBSET T /\ T \ {x} # T
            BY <3>2
      <4>2. h[T \ {x}] = sum(T \ {x})
            BY <4>1
      <4>3. h[T] = f[x] + sum(T \ {x})
            BY <3>2
      <4> HIDE DEF h, sum
      <4> QED BY <4>1, <4>2, <4>3, <3>2 DEF SumStep
    <3> QED BY <3>1, <3>2
  <2>4. SumsUp(f, h, T)
    <3>1. \A s \in SUBSET T : s # T => h[s] = sum(s)
          OBVIOUS
    <3>2. h = [s \in SUBSET T |-> h[s]]
          OBVIOUS
    <3> HIDE DEF h, sum
    <3>3. \A s \in SUBSET T : h[s] = SumStep(f, h, s)
          BY <2>2, <2>3, <3>1
    <3> QED BY <3>2, <3>3 DEF SumsUp
  <2> HIDE DEF h
  <2>5. SumsUp(f, SumsOf(f, T), T)
        BY <2>4 DEF SumsOf
  <2> QED BY <2>5
<1> HIDE DEF Solved
<1>2. S \in Solved
      BY <1>1, SubsetInduction
<1> QED BY <1>2 DEF Solved

LEMMA SumsUnfold ==
  ASSUME NEW f, NEW S, IsFiniteSet(S)
  PROVE  SumsOf(f, S)[S] = SumStep(f, SumsOf(f, S), S)
<1>1. PICK sums : sums = SumsOf(f, S)
      OBVIOUS
<1>2. SumsUp(f, sums, S)
      BY <1>1, SumsExist
<1>3. sums[S] = SumStep(f, sums, S)
      BY <1>2 DEF SumsUp
<1> QED BY <1>1, <1>3

-----------------------------------------------------------------------------
(* Sums *)

LEMMA SumEmpty ==
  ASSUME NEW f
  PROVE  SumFunctionOnSet(f, {}) = 0
<1>1. IsFiniteSet({})
      BY FS_EmptySet
<1>2. SumsOf(f, {})[{}] = SumStep(f, SumsOf(f, {}), {})
      BY <1>1, SumsUnfold
<1> QED BY <1>2, SumIsLast DEF SumStep

\* The element the definition takes first.
LEMMA SumChosen ==
  ASSUME NEW f, NEW S, IsFiniteSet(S), S # {}
  PROVE  \E x \in S : SumFunctionOnSet(f, S) = f[x] + SumFunctionOnSet(f, S \ {x})
<1>1. PICK x \in S : x = CHOOSE y \in S : TRUE
      OBVIOUS
<1>2. IsFiniteSet(S \ {x}) /\ S \ {x} \in SUBSET S
      BY FS_Subset
<1>3. SumsOf(f, S)[S] = f[x] + SumsOf(f, S)[S \ {x}]
  <2>1. SumsOf(f, S)[S] = SumStep(f, SumsOf(f, S), S)
        BY SumsUnfold
  <2> QED BY <1>1, <2>1 DEF SumStep
<1>4. SumsOf(f, S)[S \ {x}] = SumsOf(f, S \ {x})[S \ {x}]
  <2>1. SumsUp(f, SumsOf(f, S), S) /\ SumsUp(f, SumsOf(f, S \ {x}), S \ {x})
        BY <1>2, SumsExist
  <2> QED BY <1>2, <2>1, SumsUnique
<1> QED BY <1>1, <1>3, <1>4, SumIsLast

LEMMA SumNat ==
  ASSUME NEW f, NEW S, IsFiniteSet(S), \A x \in S : f[x] \in Nat
  PROVE  SumFunctionOnSet(f, S) \in Nat
<1> DEFINE Holds == {T \in SUBSET S : SumFunctionOnSet(f, T) \in Nat}
<1>1. ASSUME NEW T \in SUBSET S, \A U \in SUBSET T : U # T => U \in Holds PROVE T \in Holds
  <2>1. CASE T = {}
        BY <2>1, SumEmpty
  <2>2. CASE T # {}
    <3>1. IsFiniteSet(T)
          BY FS_Subset
    <3>2. PICK x \in T : SumFunctionOnSet(f, T) = f[x] + SumFunctionOnSet(f, T \ {x})
          BY <2>2, <3>1, SumChosen
    <3>3. T \ {x} \in SUBSET T /\ T \ {x} # T
          OBVIOUS
    <3>4. SumFunctionOnSet(f, T \ {x}) \in Nat /\ f[x] \in Nat
          BY <1>1, <3>3
    <3> QED BY <3>2, <3>4
  <2> QED BY <2>1, <2>2
<1> HIDE DEF Holds
<1>2. S \in Holds
      BY <1>1, SubsetInduction
<1> QED BY <1>2 DEF Holds

\* The order does not matter: any element may be taken first.
THEOREM SumRemove ==
  ASSUME NEW f, NEW S, IsFiniteSet(S), \A x \in S : f[x] \in Nat
  PROVE  \A x \in S : SumFunctionOnSet(f, S) = f[x] + SumFunctionOnSet(f, S \ {x})
<1> DEFINE Sum(s) == SumFunctionOnSet(f, s)
           Holds == {T \in SUBSET S : \A x \in T : Sum(T) = f[x] + Sum(T \ {x})}
<1>1. ASSUME NEW T \in SUBSET S, \A U \in SUBSET T : U # T => U \in Holds, NEW x \in T
      PROVE  Sum(T) = f[x] + Sum(T \ {x})
  <2>1. IsFiniteSet(T)
        BY FS_Subset
  <2>2. PICK y \in T : Sum(T) = f[y] + Sum(T \ {y})
        BY <2>1, SumChosen
  <2>3. CASE x = y
        BY <2>2, <2>3
  <2>4. CASE x # y
    <3>1. /\ T \ {x} \in SUBSET T /\ T \ {x} # T /\ y \in T \ {x}
          /\ T \ {y} \in SUBSET T /\ T \ {y} # T /\ x \in T \ {y}
          BY <2>4
    <3>2. T \ {x} \in Holds /\ T \ {y} \in Holds
          BY <1>1, <3>1
    <3>3. Sum(T \ {x}) = f[y] + Sum((T \ {x}) \ {y})
          BY <3>1, <3>2
    <3>4. Sum(T \ {y}) = f[x] + Sum((T \ {y}) \ {x})
          BY <3>1, <3>2
    <3>5. (T \ {x}) \ {y} = (T \ {y}) \ {x}
          OBVIOUS
    <3>6. Sum((T \ {x}) \ {y}) \in Nat
      <4>1. IsFiniteSet((T \ {x}) \ {y})
            BY <2>1, FS_Subset
      <4> QED BY <4>1, SumNat
    <3>7. f[x] \in Nat /\ f[y] \in Nat
          OBVIOUS
    <3> HIDE DEF Sum
    <3> QED BY <2>2, <3>3, <3>4, <3>5, <3>6, <3>7
  <2> QED BY <2>3, <2>4
<1>2. \A T \in SUBSET S : (\A U \in SUBSET T : U # T => U \in Holds) => T \in Holds
      BY <1>1
<1> HIDE DEF Holds
<1>3. S \in Holds
      BY <1>2, SubsetInduction
<1> QED BY <1>3 DEF Holds

\* A sum depends on the values at the elements summed up only.
LEMMA SumEqual ==
  ASSUME NEW S, IsFiniteSet(S), NEW f, NEW g,
         \A x \in S : f[x] \in Nat /\ g[x] = f[x]
  PROVE  SumFunctionOnSet(f, S) = SumFunctionOnSet(g, S)
<1> DEFINE Holds == {T \in SUBSET S : SumFunctionOnSet(f, T) = SumFunctionOnSet(g, T)}
<1>1. {} \in Holds
      BY SumEmpty
<1>2. ASSUME NEW T \in SUBSET S, NEW x \in T, T \ {x} \in Holds PROVE T \in Holds
  <2>1. IsFiniteSet(T)
        BY FS_Subset
  <2>2. /\ SumFunctionOnSet(f, T) = f[x] + SumFunctionOnSet(f, T \ {x})
        /\ SumFunctionOnSet(g, T) = g[x] + SumFunctionOnSet(g, T \ {x})
        BY <2>1, SumRemove
  <2> QED BY <1>2, <2>2
<1> HIDE DEF Holds
<1>3. S \in Holds
      BY <1>1, <1>2, SetInduction
<1> QED BY <1>3 DEF Holds

\* Adding pointwise adds the sums.
LEMMA SumPlus ==
  ASSUME NEW S, IsFiniteSet(S), NEW f, NEW g, NEW h,
         \A x \in S : f[x] \in Nat /\ g[x] \in Nat /\ h[x] = f[x] + g[x]
  PROVE  SumFunctionOnSet(h, S) = SumFunctionOnSet(f, S) + SumFunctionOnSet(g, S)
<1> DEFINE F(T) == SumFunctionOnSet(f, T)
           G(T) == SumFunctionOnSet(g, T)
           H(T) == SumFunctionOnSet(h, T)
           Holds == {T \in SUBSET S : H(T) = F(T) + G(T)}
<1>1. {} \in Holds
      BY SumEmpty
<1>2. ASSUME NEW T \in SUBSET S, NEW x \in T, T \ {x} \in Holds PROVE T \in Holds
  <2>1. IsFiniteSet(T) /\ IsFiniteSet(T \ {x})
        BY FS_Subset
  <2>2. F(T \ {x}) \in Nat /\ G(T \ {x}) \in Nat
        BY <2>1, SumNat
  <2>3. \A y \in T : f[y] \in Nat /\ g[y] \in Nat /\ h[y] \in Nat
        OBVIOUS
  <2>4. F(T) = f[x] + F(T \ {x}) /\ G(T) = g[x] + G(T \ {x}) /\ H(T) = h[x] + H(T \ {x})
        BY <2>1, <2>3, SumRemove
  <2>5. H(T \ {x}) = F(T \ {x}) + G(T \ {x}) /\ h[x] = f[x] + g[x]
        BY <1>2
  <2> HIDE DEF F, G, H
  <2> QED BY <2>2, <2>3, <2>4, <2>5
<1> HIDE DEF Holds
<1>3. S \in Holds
      BY <1>1, <1>2, SetInduction
<1> QED BY <1>3 DEF Holds

\* A smaller function has a smaller sum.
LEMMA SumMonotone ==
  ASSUME NEW S, IsFiniteSet(S), NEW f, NEW g,
         \A x \in S : f[x] \in Nat /\ g[x] \in Nat /\ f[x] <= g[x]
  PROVE  SumFunctionOnSet(f, S) <= SumFunctionOnSet(g, S)
<1> DEFINE d == [x \in S |-> g[x] - f[x]]
<1>1. \A x \in S : f[x] \in Nat /\ d[x] \in Nat /\ g[x] = f[x] + d[x]
      OBVIOUS
<1> HIDE DEF d
<1>2. SumFunctionOnSet(g, S) = SumFunctionOnSet(f, S) + SumFunctionOnSet(d, S)
      BY <1>1, SumPlus
<1>3. SumFunctionOnSet(f, S) \in Nat /\ SumFunctionOnSet(d, S) \in Nat
      BY <1>1, SumNat
<1> QED BY <1>2, <1>3

LEMMA Distributive ==
  ASSUME NEW k \in Nat, NEW a \in Nat, NEW b \in Nat
  PROVE  k * (a + b) = k * a + k * b /\ k * a \in Nat /\ k * b \in Nat
  OBVIOUS

\* A common factor may be taken out.
LEMMA SumScale ==
  ASSUME NEW S, IsFiniteSet(S), NEW k \in Nat, NEW f, NEW g,
         \A x \in S : f[x] \in Nat /\ g[x] = k * f[x]
  PROVE  SumFunctionOnSet(g, S) = k * SumFunctionOnSet(f, S)
<1> DEFINE F(T) == SumFunctionOnSet(f, T)
           G(T) == SumFunctionOnSet(g, T)
           Holds == {T \in SUBSET S : G(T) = k * F(T)}
<1>1. {} \in Holds
      BY SumEmpty
<1>2. ASSUME NEW T \in SUBSET S, NEW x \in T, T \ {x} \in Holds PROVE T \in Holds
  <2>1. IsFiniteSet(T) /\ IsFiniteSet(T \ {x})
        BY FS_Subset
  <2>2. F(T \ {x}) \in Nat /\ f[x] \in Nat
        BY <2>1, SumNat
  <2>3. \A y \in T : f[y] \in Nat /\ g[y] \in Nat
        BY Distributive
  <2>4. F(T) = f[x] + F(T \ {x}) /\ G(T) = g[x] + G(T \ {x})
        BY <2>1, <2>3, SumRemove
  <2>5. G(T \ {x}) = k * F(T \ {x}) /\ g[x] = k * f[x]
        BY <1>2
  <2> HIDE DEF F, G
  <2>6. k * F(T) = k * f[x] + k * F(T \ {x})
        BY <2>2, <2>4, Distributive
  <2>7. G(T) = k * F(T)
        BY <2>4, <2>5, <2>6
  <2> QED BY <2>7 DEF F, G
<1> HIDE DEF Holds
<1>3. S \in Holds
      BY <1>1, <1>2, SetInduction
<1> QED BY <1>3 DEF Holds

\* As many coins as there are elements, when each one has one coin.
LEMMA SumOnes ==
  ASSUME NEW S, IsFiniteSet(S), NEW f, \A x \in S : f[x] = 1
  PROVE  SumFunctionOnSet(f, S) = Cardinality(S)
<1> DEFINE Holds == {T \in SUBSET S : SumFunctionOnSet(f, T) = Cardinality(T)}
<1>1. {} \in Holds
      BY SumEmpty, FS_EmptySet
<1>2. ASSUME NEW T \in SUBSET S, NEW x \in T, T \ {x} \in Holds PROVE T \in Holds
  <2>1. IsFiniteSet(T)
        BY FS_Subset
  <2>2. SumFunctionOnSet(f, T) = 1 + Cardinality(T \ {x})
        BY <1>2, <2>1, SumRemove
  <2>3. Cardinality(T \ {x}) = Cardinality(T) - 1 /\ Cardinality(T) \in Nat
        BY <2>1, FS_RemoveElement, FS_CardinalityType
  <2> QED BY <2>2, <2>3
<1> HIDE DEF Holds
<1>3. S \in Holds
      BY <1>1, <1>2, SetInduction
<1> QED BY <1>3 DEF Holds

\* Elements outside of a part that all count zero may be left out.
LEMMA SumOfPart ==
  ASSUME NEW S, IsFiniteSet(S), NEW P \in SUBSET S, NEW f,
         \A x \in P : f[x] \in Nat, \A x \in S \ P : f[x] = 0
  PROVE  SumFunctionOnSet(f, S) = SumFunctionOnSet(f, P)
<1> DEFINE Holds == {T \in SUBSET S : SumFunctionOnSet(f, T) = SumFunctionOnSet(f, T \cap P)}
<1>1. {} \in Holds
  <2>1. {} \cap P = {}
        OBVIOUS
  <2> QED BY <2>1
<1>2. ASSUME NEW T \in SUBSET S, NEW x \in T, T \ {x} \in Holds PROVE T \in Holds
  <2>1. /\ IsFiniteSet(T) /\ IsFiniteSet(T \cap P) /\ IsFiniteSet((T \ {x}) \cap P)
        /\ \A y \in T : f[y] \in Nat
        BY FS_Subset
  <2>2. SumFunctionOnSet(f, T) = f[x] + SumFunctionOnSet(f, (T \ {x}) \cap P)
        BY <1>2, <2>1, SumRemove
  <2>3. SumFunctionOnSet(f, (T \ {x}) \cap P) \in Nat
        BY <2>1, SumNat
  <2>4. CASE x \in P
    <3>1. (T \ {x}) \cap P = (T \cap P) \ {x} /\ x \in T \cap P
          BY <2>4
    <3>2. SumFunctionOnSet(f, T \cap P) = f[x] + SumFunctionOnSet(f, (T \cap P) \ {x})
          BY <2>1, <3>1, SumRemove
    <3> QED BY <2>2, <3>1, <3>2
  <2>5. CASE x \notin P
    <3>1. (T \ {x}) \cap P = T \cap P /\ f[x] = 0
          BY <2>5
    <3> QED BY <2>2, <2>3, <3>1
  <2> QED BY <2>4, <2>5
<1> HIDE DEF Holds
<1>3. S \in Holds
      BY <1>1, <1>2, SetInduction
<1>4. S \cap P = P
      OBVIOUS
<1> QED BY <1>3, <1>4 DEF Holds

\* What is taken from every element of a part, summed up over the whole.
LEMMA SumOnPart ==
  ASSUME NEW S, IsFiniteSet(S), NEW P \in SUBSET S, NEW k \in Nat, NEW f,
         \A x \in S : f[x] = IF x \in P THEN k ELSE 0
  PROVE  SumFunctionOnSet(f, S) = k * Cardinality(P)
<1> DEFINE ones == [x \in P |-> 1]
<1>1. IsFiniteSet(P)
      BY FS_Subset
<1>2. SumFunctionOnSet(ones, P) = Cardinality(P)
      BY <1>1, SumOnes
<1>3. \A x \in P : ones[x] \in Nat /\ f[x] = k * ones[x]
      OBVIOUS
<1> HIDE DEF ones
<1>4. SumFunctionOnSet(f, P) = k * SumFunctionOnSet(ones, P)
      BY <1>1, <1>3, SumScale
<1>5. SumFunctionOnSet(f, S) = SumFunctionOnSet(f, P)
  <2>1. (\A x \in P : f[x] \in Nat) /\ (\A x \in S \ P : f[x] = 0)
        OBVIOUS
  <2> QED BY <2>1, SumOfPart
<1> QED BY <1>2, <1>4, <1>5

-----------------------------------------------------------------------------
(* Shares that are rounded down *)

LEMMA Quotient ==
  ASSUME NEW a \in Nat, NEW p \in Nat, p > 0
  PROVE  /\ a \div p \in Nat
         /\ p * (a \div p) <= a
         /\ a <= p * (a \div p) + (p - 1)
  OBVIOUS

\* If p times what is given out falls short of p times the total by less than p for each
\* of n, the remainder is less than n.
LEMMA Remainder ==
  ASSUME NEW p \in Nat, p > 0, NEW total \in Nat, NEW out \in Nat, NEW n \in Nat, n > 0,
         p * out <= total * p, total * p <= p * out + (p - 1) * n
  PROVE  total - out \in 0 .. n - 1
<1>1. p * (total - out) >= 0 /\ p * (total - out) <= (p - 1) * n
      OBVIOUS
<1>2. total - out >= 0
      BY <1>1
<1>3. total - out < n
  <2>1. (p - 1) * n < p * n
        OBVIOUS
  <2> QED BY <1>1, <2>1
<1> QED BY <1>2, <1>3

\* Shares of a total in proportion to positive weights, each rounded down, never exceed
\* the total and hold back less than one unit per share.
THEOREM SharesOfTotal ==
  ASSUME NEW S, IsFiniteSet(S), NEW total \in Nat, NEW weight, NEW share,
         \A x \in S : weight[x] \in Nat,
         SumFunctionOnSet(weight, S) > 0,
         \A x \in S : share[x] = (total * weight[x]) \div SumFunctionOnSet(weight, S)
  PROVE  /\ \A x \in S : share[x] \in Nat
         /\ total - SumFunctionOnSet(share, S) \in 0 .. Cardinality(S) - 1
<1> DEFINE Sum(f) == SumFunctionOnSet(f, S)
<1>0. PICK p \in Nat : p = Sum(weight) /\ p > 0
      BY SumNat
<1> DEFINE owed == [x \in S |-> total * weight[x]]
           paid == [x \in S |-> p * share[x]]
           slack == [x \in S |-> IF x \in S THEN p - 1 ELSE 0]
           bound == [x \in S |-> paid[x] + slack[x]]
<1>1. ASSUME NEW x \in S
      PROVE  /\ share[x] \in Nat /\ owed[x] \in Nat /\ paid[x] \in Nat /\ slack[x] \in Nat
             /\ bound[x] \in Nat /\ paid[x] <= owed[x] /\ owed[x] <= bound[x]
  <2>1. owed[x] \in Nat
        BY Distributive
  <2>2. share[x] = owed[x] \div p
        BY <1>0
  <2>3. paid[x] = p * share[x] /\ slack[x] = p - 1 /\ bound[x] = paid[x] + slack[x]
        OBVIOUS
  <2> HIDE DEF owed, paid, slack, bound
  <2>4. /\ share[x] \in Nat /\ paid[x] <= owed[x]
        /\ owed[x] <= paid[x] + (p - 1)
        BY <1>0, <2>1, <2>2, <2>3, Quotient
  <2>5. paid[x] \in Nat
        BY <2>3, <2>4, Distributive
  <2> QED BY <1>0, <2>1, <2>3, <2>4, <2>5
<1>2. Sum(owed) = total * p
  <2>1. \A x \in S : weight[x] \in Nat /\ owed[x] = total * weight[x]
        OBVIOUS
  <2> HIDE DEF owed
  <2> QED BY <1>0, <2>1, SumScale
<1>3. Sum(paid) = p * Sum(share)
  <2>1. \A x \in S : share[x] \in Nat /\ paid[x] = p * share[x]
        BY <1>1
  <2> HIDE DEF paid
  <2> QED BY <2>1, SumScale
<1>4. Sum(slack) = (p - 1) * Cardinality(S)
  <2>1. \A x \in S : slack[x] = IF x \in S THEN p - 1 ELSE 0
        OBVIOUS
  <2>2. p - 1 \in Nat
        BY <1>0
  <2> HIDE DEF slack
  <2> QED BY <2>1, <2>2, SumOnPart
<1>5. Sum(bound) = Sum(paid) + Sum(slack)
  <2>1. \A x \in S : paid[x] \in Nat /\ slack[x] \in Nat /\ bound[x] = paid[x] + slack[x]
        BY <1>1
  <2> HIDE DEF paid, slack, bound
  <2> QED BY <2>1, SumPlus
<1> HIDE DEF owed, paid, slack, bound
<1>6. Sum(paid) <= Sum(owed) /\ Sum(owed) <= Sum(bound)
      BY <1>1, SumMonotone
<1>7. Sum(share) \in Nat
      BY <1>1, SumNat
<1>8. Cardinality(S) \in Nat /\ Cardinality(S) > 0
  <2>1. S # {}
        BY SumEmpty
  <2> QED BY <2>1, FS_CardinalityType, FS_EmptySet
<1>9. total - Sum(share) \in 0 .. Cardinality(S) - 1
      BY <1>0, <1>2, <1>3, <1>4, <1>5, <1>6, <1>7, <1>8, Remainder
<1> QED BY <1>1, <1>9

\* The same when only a part of S has a weight, and the others get nothing.
LEMMA SharesAmongSome ==
  ASSUME NEW S, IsFiniteSet(S), NEW P \in SUBSET S, NEW total \in Nat, NEW weight, NEW share,
         \A x \in P : weight[x] \in Nat,
         SumFunctionOnSet(weight, P) > 0,
         \A x \in S : share[x] = IF x \in P
                                THEN (total * weight[x]) \div SumFunctionOnSet(weight, P)
                                ELSE 0
  PROVE  /\ \A x \in S : share[x] \in Nat
         /\ total - SumFunctionOnSet(share, S) \in 0 .. Cardinality(S) - 1
<1>1. IsFiniteSet(P) /\ Cardinality(P) \in Nat /\ Cardinality(S) \in Nat
      BY FS_Subset, FS_CardinalityType
<1>2. /\ \A x \in P : share[x] \in Nat
      /\ total - SumFunctionOnSet(share, P) \in 0 .. Cardinality(P) - 1
      BY <1>1, SharesOfTotal
<1>3. \A x \in S \ P : share[x] = 0
      OBVIOUS
<1>4. SumFunctionOnSet(share, S) = SumFunctionOnSet(share, P)
      BY <1>2, <1>3, SumOfPart
<1>5. Cardinality(P) <= Cardinality(S)
      BY FS_Subset
<1> QED BY <1>1, <1>2, <1>3, <1>4, <1>5

=============================================================================
