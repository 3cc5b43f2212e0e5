-------------------------------- MODULE Sums --------------------------------
(***************************************************************************)
(* Facts about SumFunctionOnSet, the sum of the values of a function over  *)
(* a finite set, and the inductions they rest on.  Nothing here is about   *)
(* the program: the totals and offsets of its loops are such sums.  Then   *)
(* what the program's arithmetic needs, and last what FlattenSeq makes of  *)
(* a sequence of sequences.                                                *)
(*                                                                         *)
(* An induction is stated for the set of the numbers, or of the sets, that *)
(* have the property.                                                      *)
(***************************************************************************)
EXTENDS Integers, FiniteSets, Functions, WellFoundedInduction, FiniteSetTheorems, SequenceTheorems,
        TLAPS

\* A set of naturals that is not empty has a least element.
LEMMA LeastElement ==
  ASSUME NEW T, T \subseteq Nat, T # {}
  PROVE  \E m \in T : \A n \in T : m <= n
<1> DEFINE R == {ss \in Nat \X Nat : ss[1] < ss[2]}
<1>1. IsWellFoundedOn(R, Nat)
  BY NatLessThanWellFounded DEF OpToRel
<1>2. PICK x \in T : \A y \in T : ~ (<<y, x>> \in R)
  <2> HIDE DEF R
  <2> QED BY <1>1, WFMin
<1>3. ASSUME NEW y \in T PROVE x <= y
  <2>1. x \in Nat /\ y \in Nat
    OBVIOUS
  <2>2. <<y, x>> \in R <=> y < x
    BY <2>1
  <2> QED
    BY <1>2, <2>1, <2>2
<1> QED
  BY <1>3

\* Induction over the naturals, for a set in place of a predicate.
LEMMA Induction ==
  ASSUME NEW T \in SUBSET Nat, 0 \in T, \A n \in T : n + 1 \in T
  PROVE  T = Nat
<1>1. SUFFICES ASSUME Nat \ T # {} PROVE FALSE
  OBVIOUS
<1>2. PICK m \in Nat \ T : \A n \in Nat \ T : m <= n
  BY <1>1, LeastElement
<1>3. m - 1 \in Nat /\ m - 1 \in T
  BY <1>2
<1> QED
  BY <1>2, <1>3

\* The element the fold takes out first, and the recursion its chosen function obeys.
Pick(s) == CHOOSE x \in s : TRUE

Sums(f, D, g) ==
  g = [s \in D |-> IF s = {} THEN 0 ELSE f[Pick(s)] + g[s \ {Pick(s)}]]

SumsOver(f, S, g) == Sums(f, SUBSET S, g)

\* SumFunctionOnSet is what such a function says of the whole set.
LEMMA SumIsSums ==
  ASSUME NEW f, NEW S
  PROVE  SumFunctionOnSet(f, S) = (CHOOSE g : Sums(f, SUBSET S, g))[S]
  BY DEF SumFunctionOnSet, FoldFunctionOnSet, MapThenFoldSet, Sums, Pick

\* Pick chooses from the set.
LEMMA PickIn == \A s : s # {} => Pick(s) \in s
  BY DEF Pick

\* Without its chosen element a finite set is smaller by one.
LEMMA PickLess ==
  ASSUME NEW s, IsFiniteSet(s), s # {}
  PROVE  /\ IsFiniteSet(s \ {Pick(s)})
         /\ Cardinality(s) \in Nat /\ Cardinality(s \ {Pick(s)}) = Cardinality(s) - 1
         /\ Cardinality(s) > 0
  BY PickIn, FS_RemoveElement, FS_CardinalityType, FS_EmptySet

\* Over the subsets of a finite set there is such a function.
LEMMA SumsExist ==
  ASSUME NEW f, NEW S, IsFiniteSet(S)
  PROVE  \E g : Sums(f, SUBSET S, g)
<1> DEFINE Dom(n) == {s \in SUBSET S : Cardinality(s) <= n}
           T == {n \in Nat : \E g : Sums(f, Dom(n), g)}
<1>0. \A s \in SUBSET S : IsFiniteSet(s) /\ Cardinality(s) \in Nat /\ Cardinality(s) <= Cardinality(S)
  BY FS_Subset, FS_CardinalityType
<1>1. 0 \in T
  <2>1. \A s \in Dom(0) : s = {}
    BY <1>0, FS_EmptySet
  <2> DEFINE g == [s \in Dom(0) |-> 0]
  <2>2. Sums(f, Dom(0), g)
    BY <2>1 DEF Sums
  <2> QED
    BY <2>2
<1>2. ASSUME NEW n \in T PROVE n + 1 \in T
  <2>1. PICK g : Sums(f, Dom(n), g)
    OBVIOUS
  <2> DEFINE h == [s \in Dom(n + 1) |-> IF s = {} THEN 0 ELSE f[Pick(s)] + g[s \ {Pick(s)}]]
  <2> HIDE DEF T
  <2>2. ASSUME NEW s \in Dom(n + 1), s # {} PROVE h[s \ {Pick(s)}] = g[s \ {Pick(s)}]
    <3> DEFINE r == s \ {Pick(s)}
    <3>1. r \in Dom(n)
      BY <1>0, <2>2, PickLess DEF T
    <3>2. r \in Dom(n + 1)
      BY <1>0, <3>1 DEF T
    <3>3. g[r] = IF r = {} THEN 0 ELSE f[Pick(r)] + g[r \ {Pick(r)}]
      BY <2>1, <3>1 DEF Sums
    <3> QED
      BY <3>2, <3>3
  <2>3. Sums(f, Dom(n + 1), h)
    BY <2>2 DEF Sums
  <2>4. n + 1 \in Nat
    BY DEF T
  <2> QED
    BY <2>3, <2>4, Zenon DEF T
<1>3. Cardinality(S) \in T
  <2> HIDE DEF T
  <2>1. T = Nat
    <3>1. T \in SUBSET Nat
      BY DEF T
    <3> QED
      BY <1>1, <1>2, <3>1, Induction
  <2> QED
    BY <2>1, FS_CardinalityType
<1>4. Dom(Cardinality(S)) = SUBSET S
  BY <1>0
<1> QED
  BY <1>3, <1>4

\* What the chosen function is.
LEMMA SumsChosen ==
  ASSUME NEW f, NEW S, IsFiniteSet(S)
  PROVE  Sums(f, SUBSET S, CHOOSE g : Sums(f, SUBSET S, g))
  BY SumsExist

\* Two such functions agree where both are defined.
LEMMA SumsAgree ==
  ASSUME NEW f, NEW S, IsFiniteSet(S), NEW R \in SUBSET S,
         NEW g, SumsOver(f, S, g), NEW h, SumsOver(f, R, h)
  PROVE  g[R] = h[R]
<1> DEFINE T == {n \in Nat : \A s \in SUBSET R : Cardinality(s) = n => g[s] = h[s]}
<1>0. \A s \in SUBSET R : s \in SUBSET S /\ IsFiniteSet(s) /\ Cardinality(s) \in Nat
  BY FS_Subset, FS_CardinalityType
<1>1. \A s \in SUBSET R : /\ g[s] = IF s = {} THEN 0 ELSE f[Pick(s)] + g[s \ {Pick(s)}]
                         /\ h[s] = IF s = {} THEN 0 ELSE f[Pick(s)] + h[s \ {Pick(s)}]
  BY <1>0 DEF SumsOver, Sums
<1>2. 0 \in T
  <2>1. \A s \in SUBSET R : Cardinality(s) = 0 => s = {}
    BY <1>0, FS_EmptySet
  <2> QED
    BY <1>1, <2>1
<1>3. ASSUME NEW n \in T PROVE n + 1 \in T
  <2>1. ASSUME NEW s \in SUBSET R, Cardinality(s) = n + 1 PROVE g[s] = h[s]
    <3>0. n \in Nat /\ IsFiniteSet(s)
      BY <1>0
    <3>1. s # {}
      BY <2>1, <3>0, FS_EmptySet
    <3>2. s \ {Pick(s)} \in SUBSET R /\ Cardinality(s \ {Pick(s)}) = n
      <4>1. Cardinality(s \ {Pick(s)}) = Cardinality(s) - 1
        BY <3>0, <3>1, PickLess
      <4> QED
        BY <2>1, <3>0, <4>1
    <3>3. n \in Nat /\ g[s \ {Pick(s)}] = h[s \ {Pick(s)}]
      BY <3>2
    <3> QED
      BY <1>1, <3>1, <3>3
  <2>2. n + 1 \in Nat
    OBVIOUS
  <2> QED
    BY <2>1, <2>2
<1>4. T = Nat
  <2> HIDE DEF T
  <2>1. T \in SUBSET Nat
    BY DEF T
  <2> QED
    BY <1>2, <1>3, <2>1, Induction
<1> QED
  BY <1>0, <1>4

\* The empty sum.
LEMMA SumEmpty == \A f : SumFunctionOnSet(f, {}) = 0
<1> SUFFICES ASSUME NEW f PROVE SumFunctionOnSet(f, {}) = 0
  OBVIOUS
<1> DEFINE g == CHOOSE g : Sums(f, SUBSET {}, g)
<1>1. Sums(f, SUBSET {}, g)
  BY FS_EmptySet, SumsChosen
<1> HIDE DEF g
<1>2. g[{}] = 0
  BY <1>1 DEF Sums
<1> QED
  BY <1>2, SumIsSums DEF g

\* What the recursion says of the sum itself.
LEMMA SumPick ==
  ASSUME NEW f, NEW S, IsFiniteSet(S), S # {}
  PROVE  SumFunctionOnSet(f, S) = f[Pick(S)] + SumFunctionOnSet(f, S \ {Pick(S)})
<1> DEFINE R == S \ {Pick(S)}
           g == CHOOSE g : Sums(f, SUBSET S, g)
           h == CHOOSE h : Sums(f, SUBSET R, h)
<1>0. R \in SUBSET S
  OBVIOUS
<1>1. Sums(f, SUBSET S, g) /\ SumFunctionOnSet(f, S) = g[S]
  BY SumsChosen, SumIsSums
<1>2. Sums(f, SUBSET R, h) /\ SumFunctionOnSet(f, R) = h[R]
  BY PickLess, SumsChosen, SumIsSums
<1> HIDE DEF g, h
<1>3. g[S] = f[Pick(S)] + g[R]
  BY <1>1 DEF Sums
<1>4. g[R] = h[R]
  <2>1. SumsOver(f, S, g) /\ SumsOver(f, R, h)
    BY <1>1, <1>2 DEF SumsOver
  <2> HIDE DEF R
  <2> QED
    BY <1>0, <2>1, SumsAgree
<1> QED
  BY <1>1, <1>2, <1>3, <1>4

\* Induction over a finite set, for a set of sets in place of a predicate.
LEMMA SetInduction ==
  ASSUME NEW S, IsFiniteSet(S), NEW T, {} \in T,
         \A R \in T, x \in S : x \notin R => R \cup {x} \in T
  PROVE  S \in T
<1> DEFINE N == {n \in Nat : \A R \in SUBSET S : Cardinality(R) = n => R \in T}
<1>0. \A R \in SUBSET S : IsFiniteSet(R) /\ Cardinality(R) \in Nat
  BY FS_Subset, FS_CardinalityType
<1>1. 0 \in N
  BY <1>0, FS_EmptySet
<1>2. ASSUME NEW n \in N PROVE n + 1 \in N
  <2>1. n \in Nat /\ n + 1 \in Nat /\ \A R \in SUBSET S : Cardinality(R) = n => R \in T
    OBVIOUS
  <2>2. ASSUME NEW R \in SUBSET S, Cardinality(R) = n + 1 PROVE R \in T
    <3>1. R # {}
      BY <2>1, <2>2, FS_EmptySet
    <3> DEFINE Q == R \ {Pick(R)}
    <3>2. Q \in SUBSET S /\ Cardinality(Q) = n
      BY <1>0, <2>1, <2>2, <3>1, PickLess
    <3>3. Pick(R) \in S /\ Pick(R) \notin Q /\ R = Q \cup {Pick(R)}
      BY <3>1, PickIn
    <3> HIDE DEF Q
    <3> QED
      BY <2>1, <3>2, <3>3
  <2> QED
    BY <2>1, <2>2
<1>3. N = Nat
  <2> HIDE DEF N
  <2>1. N \in SUBSET Nat
    BY DEF N
  <2> QED
    BY <1>1, <1>2, <2>1, Induction
<1> QED
  BY <1>0, <1>3

\* A sum of integers is an integer.
LEMMA SumInt ==
  ASSUME NEW f, NEW S, IsFiniteSet(S), \A s \in S : f[s] \in Int
  PROVE  SumFunctionOnSet(f, S) \in Int
<1> DEFINE N == {n \in Nat : \A R \in SUBSET S :
                     Cardinality(R) = n => SumFunctionOnSet(f, R) \in Int}
<1>0. \A R \in SUBSET S : IsFiniteSet(R) /\ Cardinality(R) \in Nat
  BY FS_Subset, FS_CardinalityType
<1>1. 0 \in N
  BY <1>0, FS_EmptySet, SumEmpty
<1>2. ASSUME NEW n \in N PROVE n + 1 \in N
  <2>1. n \in Nat /\ n + 1 \in Nat
    OBVIOUS
  <2>2. ASSUME NEW R \in SUBSET S, Cardinality(R) = n + 1
        PROVE  SumFunctionOnSet(f, R) \in Int
    <3>1. R # {} /\ IsFiniteSet(R)
      BY <1>0, <2>1, <2>2, FS_EmptySet
    <3>2. Cardinality(R \ {Pick(R)}) = n /\ Pick(R) \in R
      <4>1. Cardinality(R \ {Pick(R)}) = Cardinality(R) - 1
        BY <3>1, PickLess
      <4> QED
        BY <2>1, <2>2, <3>1, <4>1, PickIn
    <3>3. SumFunctionOnSet(f, R \ {Pick(R)}) \in Int
      BY <3>2
    <3> QED
      BY <3>1, <3>2, <3>3, SumPick
  <2> QED
    BY <2>1, <2>2
<1>3. N = Nat
  <2> HIDE DEF N
  <2>1. N \in SUBSET Nat
    BY DEF N
  <2> QED
    BY <1>1, <1>2, <2>1, Induction
<1> QED
  BY <1>0, <1>3

\* Any element may be taken out of a sum first.
LEMMA SumRemove ==
  ASSUME NEW f, NEW S, IsFiniteSet(S), NEW x \in S, \A s \in S : f[s] \in Int
  PROVE  /\ SumFunctionOnSet(f, S) \in Int
         /\ SumFunctionOnSet(f, S) = f[x] + SumFunctionOnSet(f, S \ {x})
<1> DEFINE Sum(R) == SumFunctionOnSet(f, R)
           N == {n \in Nat : \A R \in SUBSET S : Cardinality(R) = n =>
                    /\ Sum(R) \in Int
                    /\ \A y \in R : Sum(R) = f[y] + Sum(R \ {y})}
<1> HIDE DEF Sum
<1>0. \A R \in SUBSET S : IsFiniteSet(R) /\ Cardinality(R) \in Nat
  BY FS_Subset, FS_CardinalityType
<1>1. 0 \in N
  <2>1. \A R \in SUBSET S : Cardinality(R) = 0 => R = {}
    BY <1>0, FS_EmptySet
  <2>2. Sum({}) = 0
    BY SumEmpty DEF Sum
  <2>3. \A R \in SUBSET S : Cardinality(R) = 0 =>
           Sum(R) \in Int /\ \A y \in R : Sum(R) = f[y] + Sum(R \ {y})
    <3>1. Sum({}) \in Int
      BY <2>2
    <3> QED
      BY <2>1, <3>1, Zenon
  <2> QED
    BY <2>3
<1>2. ASSUME NEW n \in N PROVE n + 1 \in N
  <2>1. n \in Nat /\ n + 1 \in Nat
    OBVIOUS
  <2>2. ASSUME NEW R \in SUBSET S, Cardinality(R) = n
        PROVE  Sum(R) \in Int /\ \A y \in R : Sum(R) = f[y] + Sum(R \ {y})
    BY <2>2
  <2>3. ASSUME NEW R \in SUBSET S, Cardinality(R) = n + 1
        PROVE  Sum(R) \in Int /\ \A y \in R : Sum(R) = f[y] + Sum(R \ {y})
    <3>0. R # {} /\ IsFiniteSet(R)
      BY <1>0, <2>1, <2>3, FS_EmptySet
    <3> DEFINE p == Pick(R)
    <3>1. p \in R
      BY <3>0, PickIn
    <3>2. \A y \in R : Cardinality(R \ {y}) = n
      <4>1. \A y \in R : Cardinality(R \ {y}) = Cardinality(R) - 1
        BY <3>0, FS_RemoveElement
      <4> QED
        BY <2>1, <2>3, <4>1
    <3>3. Sum(R) = f[p] + Sum(R \ {p})
      BY <3>0, SumPick DEF Sum
    <3>4. f[p] \in Int /\ Sum(R \ {p}) \in Int
      BY <2>2, <3>1, <3>2
    <3> HIDE DEF p
    <3>5. ASSUME NEW y \in R, y # p PROVE Sum(R) = f[y] + Sum(R \ {y})
      <4> DEFINE Q == R \ {p, y}
      <4>1. Q = (R \ {p}) \ {y} /\ Q = (R \ {y}) \ {p}
        OBVIOUS
      <4>2. Sum(R \ {p}) = f[y] + Sum(Q)
        BY <2>2, <3>1, <3>2, <3>5, <4>1
      <4>3. Sum(R \ {y}) = f[p] + Sum(Q)
        BY <2>2, <3>1, <3>2, <3>5, <4>1
      <4>4. f[y] \in Int
        OBVIOUS
      <4>5. Sum(Q) \in Int
        <5>1. IsFiniteSet(Q) /\ \A s \in Q : f[s] \in Int
          BY <1>0
        <5> QED
          BY <5>1, SumInt DEF Sum
      <4> QED
        BY <3>3, <3>4, <4>2, <4>3, <4>4, <4>5
    <3> QED
      BY <3>3, <3>4, <3>5
  <2> QED
    BY <2>1, <2>3
<1>3. N = Nat
  <2> HIDE DEF N
  <2>1. N \in SUBSET Nat
    BY DEF N
  <2> QED
    BY <1>1, <1>2, <2>1, Induction
<1>4. Sum(S) \in Int /\ \A y \in S : Sum(S) = f[y] + Sum(S \ {y})
  BY <1>0, <1>3
<1> QED
  BY <1>4 DEF Sum

\* An element that is not there yet adds its value.
LEMMA SumAdd ==
  ASSUME NEW f, NEW S, IsFiniteSet(S), NEW x, x \notin S, f[x] \in Int, \A s \in S : f[s] \in Int
  PROVE  SumFunctionOnSet(f, S \cup {x}) = SumFunctionOnSet(f, S) + f[x]
<1>1. IsFiniteSet(S \cup {x}) /\ (S \cup {x}) \ {x} = S
  BY FS_AddElement
<1>2. \A s \in S \cup {x} : f[s] \in Int
  OBVIOUS
<1>3. SumFunctionOnSet(f, S \cup {x}) = f[x] + SumFunctionOnSet(f, S)
  <2> DEFINE U == S \cup {x}
  <2> HIDE DEF U
  <2>1. IsFiniteSet(U) /\ x \in U /\ U \ {x} = S /\ \A s \in U : f[s] \in Int
    BY <1>1, <1>2 DEF U
  <2>2. SumFunctionOnSet(f, U) = f[x] + SumFunctionOnSet(f, U \ {x})
    BY <2>1, SumRemove
  <2> QED
    BY <2>1, <2>2 DEF U
<1> QED
  BY <1>3, SumInt

\* Functions with the same values have the same sum.
LEMMA SumSame ==
  ASSUME NEW f, NEW g, NEW S, IsFiniteSet(S), \A s \in S : f[s] \in Int /\ g[s] = f[s]
  PROVE  SumFunctionOnSet(g, S) = SumFunctionOnSet(f, S)
<1> DEFINE T == {R \in SUBSET S : SumFunctionOnSet(g, R) = SumFunctionOnSet(f, R)}
<1>1. {} \in T
  BY SumEmpty
<1>2. ASSUME NEW R \in T, NEW x \in S, x \notin R PROVE R \cup {x} \in T
  <2>1. IsFiniteSet(R) /\ \A s \in R : f[s] \in Int /\ g[s] \in Int
    BY FS_Subset
  <2>2. SumFunctionOnSet(g, R \cup {x}) = SumFunctionOnSet(g, R) + g[x]
    BY <1>2, <2>1, SumAdd
  <2>3. SumFunctionOnSet(f, R \cup {x}) = SumFunctionOnSet(f, R) + f[x]
    BY <1>2, <2>1, SumAdd
  <2> QED
    BY <2>2, <2>3
<1> HIDE DEF T
<1>3. S \in T
  BY <1>1, <1>2, SetInduction
<1> QED
  BY <1>3 DEF T

\* Larger values have no smaller a sum.
LEMMA SumMonotone ==
  ASSUME NEW f, NEW g, NEW S, IsFiniteSet(S),
         \A s \in S : f[s] \in Int /\ g[s] \in Int /\ f[s] <= g[s]
  PROVE  SumFunctionOnSet(f, S) <= SumFunctionOnSet(g, S)
<1> DEFINE T == {R \in SUBSET S : SumFunctionOnSet(f, R) <= SumFunctionOnSet(g, R)}
<1>1. {} \in T
  BY SumEmpty
<1>2. ASSUME NEW R \in T, NEW x \in S, x \notin R PROVE R \cup {x} \in T
  <2>1. IsFiniteSet(R) /\ \A s \in R : f[s] \in Int /\ g[s] \in Int
    BY FS_Subset
  <2>2. SumFunctionOnSet(g, R \cup {x}) = SumFunctionOnSet(g, R) + g[x] /\ SumFunctionOnSet(g, R) \in Int
    BY <1>2, <2>1, SumAdd, SumInt
  <2>3. SumFunctionOnSet(f, R \cup {x}) = SumFunctionOnSet(f, R) + f[x] /\ SumFunctionOnSet(f, R) \in Int
    BY <1>2, <2>1, SumAdd, SumInt
  <2>4. SumFunctionOnSet(f, R) <= SumFunctionOnSet(g, R) /\ R \cup {x} \in SUBSET S
    OBVIOUS
  <2> HIDE DEF T
  <2>5. SumFunctionOnSet(f, R \cup {x}) <= SumFunctionOnSet(g, R \cup {x})
    BY <2>2, <2>3, <2>4
  <2> QED
    BY <2>4, <2>5 DEF T
<1> HIDE DEF T
<1>3. S \in T
  BY <1>1, <1>2, SetInduction
<1> QED
  BY <1>3 DEF T

\* A sum of naturals is a natural, no less than any of them.
LEMMA SumNat ==
  ASSUME NEW f, NEW S, IsFiniteSet(S), \A s \in S : f[s] \in Nat
  PROVE  /\ SumFunctionOnSet(f, S) \in Nat
         /\ \A x \in S : f[x] <= SumFunctionOnSet(f, S)
<1> DEFINE T == {R \in SUBSET S : SumFunctionOnSet(f, R) \in Nat}
<1>1. {} \in T
  BY SumEmpty
<1>2. ASSUME NEW R \in T, NEW x \in S, x \notin R PROVE R \cup {x} \in T
  <2>1. IsFiniteSet(R) /\ \A s \in R : f[s] \in Int
    BY FS_Subset
  <2>2. SumFunctionOnSet(f, R \cup {x}) = SumFunctionOnSet(f, R) + f[x]
    BY <1>2, <2>1, SumAdd
  <2> QED
    BY <2>2
<1>3. \A R \in SUBSET S : R \in T
  <2> SUFFICES ASSUME NEW R \in SUBSET S PROVE R \in T
    OBVIOUS
  <2>1. IsFiniteSet(R)
    BY FS_Subset
  <2> HIDE DEF T
  <2> QED
    BY <1>1, <1>2, <2>1, SetInduction
<1>4. ASSUME NEW x \in S PROVE f[x] <= SumFunctionOnSet(f, S)
  <2>1. SumFunctionOnSet(f, S) = f[x] + SumFunctionOnSet(f, S \ {x})
    BY SumRemove
  <2>2. SumFunctionOnSet(f, S \ {x}) \in Nat
    BY <1>3
  <2> QED
    BY <2>1, <2>2
<1> QED
  BY <1>3, <1>4

\* A common factor.
LEMMA SumScale ==
  ASSUME NEW f, NEW S, IsFiniteSet(S), NEW k \in Int, \A s \in S : f[s] \in Int,
         NEW g, \A s \in S : g[s] = k * f[s]
  PROVE  SumFunctionOnSet(g, S) = k * SumFunctionOnSet(f, S)
<1> DEFINE T == {R \in SUBSET S : SumFunctionOnSet(g, R) = k * SumFunctionOnSet(f, R)}
<1>0. \A s \in S : g[s] = k * f[s] /\ g[s] \in Int
  OBVIOUS
<1>1. {} \in T
  BY SumEmpty
<1>2. ASSUME NEW R \in T, NEW x \in S, x \notin R PROVE R \cup {x} \in T
  <2>1. IsFiniteSet(R) /\ \A s \in R : f[s] \in Int /\ g[s] \in Int
    BY <1>0, FS_Subset
  <2>2. SumFunctionOnSet(g, R \cup {x}) = SumFunctionOnSet(g, R) + k * f[x]
    BY <1>0, <1>2, <2>1, SumAdd
  <2>3. SumFunctionOnSet(f, R \cup {x}) = SumFunctionOnSet(f, R) + f[x] /\ SumFunctionOnSet(f, R) \in Int
    BY <1>2, <2>1, SumAdd, SumInt
  <2>4. k * (SumFunctionOnSet(f, R) + f[x]) = k * SumFunctionOnSet(f, R) + k * f[x]
    BY <2>3
  <2> QED
    BY <2>2, <2>3, <2>4
<1> HIDE DEF T
<1>3. S \in T
  BY <1>1, <1>2, SetInduction
<1> QED
  BY <1>3 DEF T

\* The sum of sums.
LEMMA SumPlus ==
  ASSUME NEW f, NEW g, NEW S, IsFiniteSet(S), \A s \in S : f[s] \in Int /\ g[s] \in Int,
         NEW h, \A s \in S : h[s] = f[s] + g[s]
  PROVE  SumFunctionOnSet(h, S) = SumFunctionOnSet(f, S) + SumFunctionOnSet(g, S)
<1> DEFINE T == {R \in SUBSET S : SumFunctionOnSet(h, R) = SumFunctionOnSet(f, R) + SumFunctionOnSet(g, R)}
<1>0. \A s \in S : h[s] = f[s] + g[s] /\ h[s] \in Int
  OBVIOUS
<1>1. {} \in T
  BY SumEmpty
<1>2. ASSUME NEW R \in T, NEW x \in S, x \notin R PROVE R \cup {x} \in T
  <2>1. IsFiniteSet(R) /\ \A s \in R : f[s] \in Int /\ g[s] \in Int /\ h[s] \in Int
    BY <1>0, FS_Subset
  <2>2. SumFunctionOnSet(h, R \cup {x}) = SumFunctionOnSet(h, R) + h[x]
    BY <1>0, <1>2, <2>1, SumAdd
  <2>3. SumFunctionOnSet(f, R \cup {x}) = SumFunctionOnSet(f, R) + f[x] /\ SumFunctionOnSet(f, R) \in Int
    BY <1>2, <2>1, SumAdd, SumInt
  <2>4. SumFunctionOnSet(g, R \cup {x}) = SumFunctionOnSet(g, R) + g[x] /\ SumFunctionOnSet(g, R) \in Int
    BY <1>2, <2>1, SumAdd, SumInt
  <2> QED
    BY <1>0, <2>2, <2>3, <2>4
<1> HIDE DEF T
<1>3. S \in T
  BY <1>1, <1>2, SetInduction
<1> QED
  BY <1>3 DEF T

\* The sum of a constant.
LEMMA SumConst ==
  ASSUME NEW S, IsFiniteSet(S), NEW k \in Int, NEW h, \A s \in S : h[s] = k
  PROVE  SumFunctionOnSet(h, S) = k * Cardinality(S)
<1> DEFINE T == {R \in SUBSET S : SumFunctionOnSet(h, R) = k * Cardinality(R)}
<1>0. \A s \in S : h[s] = k
  OBVIOUS
<1>1. {} \in T
  BY SumEmpty, FS_EmptySet
<1>2. ASSUME NEW R \in T, NEW x \in S, x \notin R PROVE R \cup {x} \in T
  <2>1. IsFiniteSet(R) /\ \A s \in R : h[s] \in Int
    BY <1>0, FS_Subset
  <2>2. SumFunctionOnSet(h, R \cup {x}) = SumFunctionOnSet(h, R) + k
    <3>0. h[x] \in Int
      BY <1>0
    <3>1. SumFunctionOnSet(h, R \cup {x}) = SumFunctionOnSet(h, R) + h[x]
      BY <1>2, <2>1, <3>0, SumAdd
    <3> QED
      BY <1>0, <1>2, <3>1
  <2>3. Cardinality(R \cup {x}) = Cardinality(R) + 1 /\ Cardinality(R) \in Int
    <3>1. Cardinality(R) \in Int
      BY <2>1, FS_CardinalityType
    <3>2. Cardinality(R \cup {x}) = IF x \in R THEN Cardinality(R) ELSE Cardinality(R) + 1
      BY <2>1, FS_AddElement, Zenon
    <3> QED
      BY <1>2, <3>1, <3>2
  <2>4. k * (Cardinality(R) + 1) = k * Cardinality(R) + k
    BY <2>3
  <2> QED
    BY <2>2, <2>3, <2>4
<1> HIDE DEF T
<1>3. S \in T
  BY <1>1, <1>2, SetInduction
<1> QED
  BY <1>3 DEF T

\* Sums over intervals grow at their end.
LEMMA SumNext ==
  ASSUME NEW f, NEW a \in Int, NEW b \in Int, a <= b + 1, \A s \in a .. b + 1 : f[s] \in Int
  PROVE  SumFunctionOnSet(f, a .. b + 1) = SumFunctionOnSet(f, a .. b) + f[b + 1]
<1>1. a .. b + 1 = (a .. b) \cup {b + 1} /\ b + 1 \notin a .. b
  OBVIOUS
<1>2. IsFiniteSet(a .. b)
  BY FS_Interval
<1>3. f[b + 1] \in Int /\ \A s \in a .. b : f[s] \in Int
  OBVIOUS
<1>4. SumFunctionOnSet(f, (a .. b) \cup {b + 1}) = SumFunctionOnSet(f, a .. b) + f[b + 1]
  <2> DEFINE S == a .. b
             x == b + 1
  <2>1. IsFiniteSet(S) /\ x \notin S /\ f[x] \in Int /\ \A s \in S : f[s] \in Int
    BY <1>1, <1>2, <1>3
  <2> HIDE DEF S, x
  <2>2. SumFunctionOnSet(f, S \cup {x}) = SumFunctionOnSet(f, S) + f[x]
    BY <2>1, SumAdd
  <2> QED
    BY <2>2 DEF S, x
<1> QED
  BY <1>1, <1>4

\* Changing one value changes the sum by the difference.
LEMMA SumExcept ==
  ASSUME NEW f, NEW S, IsFiniteSet(S), NEW x \in S, \A s \in S : f[s] \in Int,
         NEW g, g[x] \in Int, \A s \in S \ {x} : g[s] = f[s]
  PROVE  SumFunctionOnSet(g, S) = SumFunctionOnSet(f, S) + g[x] - f[x]
<1>1. IsFiniteSet(S \ {x}) /\ \A s \in S : g[s] \in Int
  BY FS_Subset
<1>2. SumFunctionOnSet(g, S \ {x}) = SumFunctionOnSet(f, S \ {x})
  BY <1>1, SumSame
<1>3. SumFunctionOnSet(g, S) = g[x] + SumFunctionOnSet(g, S \ {x})
  BY <1>1, SumRemove
<1>4. SumFunctionOnSet(f, S) = f[x] + SumFunctionOnSet(f, S \ {x})
  BY SumRemove
<1>5. SumFunctionOnSet(f, S \ {x}) \in Int
  BY <1>1, SumInt
<1> QED
  BY <1>2, <1>3, <1>4, <1>5

-----------------------------------------------------------------------------
(***************************************************************************)
(* Sums over the beginnings of an interval.                                *)
(***************************************************************************)
\* One index more adds its value.
LEMMA PrefixStep ==
  ASSUME NEW a \in Int, NEW n \in Int, NEW f, \A i \in a .. n : f[i] \in Nat, NEW i \in a .. n
  PROVE  /\ SumFunctionOnSet(f, a .. i - 1) \in Nat
         /\ SumFunctionOnSet(f, a .. i) \in Nat
         /\ SumFunctionOnSet(f, a .. i) = SumFunctionOnSet(f, a .. i - 1) + f[i]
<1> DEFINE b == i - 1
<1>1. b \in Int /\ b + 1 = i /\ a <= b + 1 /\ \A s \in a .. b + 1 : f[s] \in Int
  OBVIOUS
<1>2. SumFunctionOnSet(f, a .. b) \in Nat
  <2>1. IsFiniteSet(a .. b) /\ \A s \in a .. b : f[s] \in Nat
    BY FS_Interval
  <2> QED
    BY <2>1, SumNat
<1>3. f[i] \in Nat
  OBVIOUS
<1> HIDE DEF b
<1>4. SumFunctionOnSet(f, a .. b + 1) = SumFunctionOnSet(f, a .. b) + f[b + 1]
  BY <1>1, SumNext
<1>5. SumFunctionOnSet(f, a .. i) = SumFunctionOnSet(f, a .. b) + f[i]
  BY <1>1, <1>4
<1> QED
  BY <1>2, <1>3, <1>5 DEF b

\* A longer beginning has no smaller a sum.
LEMMA PrefixLess ==
  ASSUME NEW a \in Int, NEW n \in Int, NEW f, \A i \in a .. n : f[i] \in Nat,
         NEW i \in a .. n, NEW j \in i .. n
  PROVE  SumFunctionOnSet(f, a .. i) <= SumFunctionOnSet(f, a .. j)
<1> DEFINE S(k) == SumFunctionOnSet(f, a .. k)
           T == {d \in Nat : i + d <= n => S(i) <= S(i + d)}
<1>0. \A k \in a .. n : S(k) \in Nat
  BY PrefixStep
<1> HIDE DEF S
<1>1. 0 \in T
  BY <1>0
<1>2. ASSUME NEW d \in T PROVE d + 1 \in T
  <2> SUFFICES ASSUME i + (d + 1) <= n PROVE S(i) <= S(i + (d + 1))
    OBVIOUS
  <2> DEFINE k == i + (d + 1)
  <2>1. k \in a .. n /\ k - 1 \in a .. n /\ k - 1 = i + d /\ S(i) <= S(i + d)
    OBVIOUS
  <2> HIDE DEF k
  <2>2. S(k) = S(k - 1) + f[k] /\ f[k] \in Nat
    BY <2>1, PrefixStep DEF S
  <2>3. S(i) <= S(k)
    BY <1>0, <2>1, <2>2
  <2> QED
    BY <2>3 DEF k
<1>3. T = Nat
  <2> HIDE DEF T
  <2>1. T \in SUBSET Nat
    BY DEF T
  <2> QED
    BY <1>1, <1>2, <2>1, Induction
<1>4. j - i \in T
  BY <1>3
<1>5. S(i) <= S(j)
  BY <1>4
<1> QED
  BY <1>5 DEF S

\* Every number below the sum falls into the part of exactly one index.
LEMMA PrefixFind ==
  ASSUME NEW a \in Int, NEW n \in Int, NEW f, \A i \in a .. n : f[i] \in Nat,
         NEW k \in Nat, k < SumFunctionOnSet(f, a .. n)
  PROVE  \E i \in a .. n : SumFunctionOnSet(f, a .. i - 1) <= k /\ k < SumFunctionOnSet(f, a .. i)
<1> DEFINE S(m) == SumFunctionOnSet(f, a .. m)
           T == {d \in Nat : a + d <= n /\ k < S(a + d)}
<1>0. a <= n
  <2> SUFFICES ASSUME a > n PROVE FALSE
    OBVIOUS
  <2>1. a .. n = {}
    OBVIOUS
  <2>2. SumFunctionOnSet(f, a .. n) = 0
    BY <2>1, SumEmpty, Zenon
  <2> QED
    BY <2>2
<1>1. n - a \in T
  <2>1. n - a \in Nat /\ a + (n - a) = n /\ k < S(n)
    BY <1>0
  <2> HIDE DEF S
  <2> QED
    BY <2>1
<1>2. PICK d \in T : \A e \in T : d <= e
  <2>1. T \subseteq Nat /\ T # {}
    BY <1>1
  <2> HIDE DEF T
  <2> QED
    BY <2>1, LeastElement
<1> DEFINE i == a + d
<1>3. i \in a .. n /\ k < S(i)
  <2> HIDE DEF S
  <2> QED
    BY <1>2
<1>4. S(i - 1) <= k
  <2>1. CASE d = 0
    <3>1. a .. i - 1 = {}
      BY <2>1
    <3>2. SumFunctionOnSet(f, a .. i - 1) = 0
      BY <3>1, SumEmpty, Zenon
    <3> QED
      BY <3>2
  <2>2. CASE d # 0
    <3>1. d \in Nat /\ d - 1 \in Nat /\ a + (d - 1) = i - 1 /\ a + (d - 1) <= n
      BY <1>2, <2>2
    <3>2. d - 1 \notin T
      BY <1>2, <3>1
    <3>3. S(i - 1) \in Nat
      BY <1>3, PrefixStep
    <3> HIDE DEF S, i
    <3> QED
      BY <3>1, <3>2, <3>3
  <2> QED
    BY <2>1, <2>2
<1> QED
  BY <1>3, <1>4

\* No number falls into the parts of two indices.
LEMMA PrefixUnique ==
  ASSUME NEW a \in Int, NEW n \in Int, NEW f, \A i \in a .. n : f[i] \in Nat, NEW k \in Nat,
         NEW i \in a .. n, SumFunctionOnSet(f, a .. i - 1) <= k, k < SumFunctionOnSet(f, a .. i),
         NEW j \in a .. n, SumFunctionOnSet(f, a .. j - 1) <= k, k < SumFunctionOnSet(f, a .. j)
  PROVE  i = j
<1> DEFINE S(m) == SumFunctionOnSet(f, a .. m)
<1>1. S(i) \in Nat /\ S(j) \in Nat /\ S(i - 1) \in Nat /\ S(j - 1) \in Nat
  BY PrefixStep
<1>2. CASE i < j
  <2>1. i \in a .. n /\ j - 1 \in i .. n
    BY <1>2
  <2>2. S(i) <= S(j - 1)
    BY <2>1, PrefixLess
  <2> HIDE DEF S
  <2>3. S(j - 1) <= k /\ k < S(i)
    BY DEF S
  <2> QED
    BY <1>1, <2>2, <2>3
<1>3. CASE j < i
  <2>1. j \in a .. n /\ i - 1 \in j .. n
    BY <1>3
  <2>2. S(j) <= S(i - 1)
    BY <2>1, PrefixLess
  <2> HIDE DEF S
  <2>3. S(i - 1) <= k /\ k < S(j)
    BY DEF S
  <2> QED
    BY <1>1, <2>2, <2>3
<1> QED
  BY <1>2, <1>3

-----------------------------------------------------------------------------
\* Quotients, powers of two and sequences.

\* Quotient and remainder.
LEMMA DivMod ==
  ASSUME NEW a \in Nat, NEW b \in Nat \ {0}
  PROVE  /\ a \div b \in Nat
         /\ a % b \in 0 .. b - 1
         /\ a = (b * (a \div b)) + (a % b)
  OBVIOUS

\* A positive factor cancels.
LEMMA Cancel ==
  ASSUME NEW a \in Int, NEW b \in Int, NEW k \in Nat \ {0}, k * a <= k * b
  PROVE  a <= b
  OBVIOUS

\* A positive factor keeps an order.
LEMMA TimesLess ==
  ASSUME NEW a \in Nat, NEW b \in Nat, NEW k \in Nat \ {0}, a < b
  PROVE  a * k < b * k
<1>1. b = a + (b - a) /\ b - a \in Nat \ {0}
  OBVIOUS
<1>2. b * k = (a * k) + ((b - a) * k) /\ (b - a) * k > 0
  BY <1>1
<1> QED
  BY <1>2

\* The size of 1 .. n.
LEMMA CountTo ==
  \A n \in Nat : IsFiniteSet(1 .. n) /\ Cardinality(1 .. n) = n
<1> SUFFICES ASSUME NEW n \in Nat PROVE IsFiniteSet(1 .. n) /\ Cardinality(1 .. n) = n
  OBVIOUS
<1>1. IsFiniteSet(1 .. n) /\ Cardinality(1 .. n) = IF 1 > n THEN 0 ELSE n - 1 + 1
  BY FS_Interval
<1> QED
  BY <1>1

\* The quotient of a division with remainder.
LEMMA Quotient ==
  ASSUME NEW x \in Int, NEW d \in Nat \ {0}, NEW q \in Int, NEW r \in 0 .. d - 1,
         x = (d * q) + r
  PROVE  x \div d = q
  OBVIOUS

\* The powers of two are the numbers of subsets.
LEMMA PowerType ==
  ASSUME NEW n \in Nat
  PROVE  /\ 2 ^ n = Cardinality(SUBSET (1 .. n)) /\ IsFiniteSet(SUBSET (1 .. n))
         /\ 2 ^ n \in Nat \ {0}
<1>1. IsFiniteSet(1 .. n) /\ Cardinality(1 .. n) = n
  BY CountTo
<1>2. 2 ^ n = Cardinality(SUBSET (1 .. n)) /\ IsFiniteSet(SUBSET (1 .. n))
  BY <1>1, FS_SUBSET
<1>3. {} \in SUBSET (1 .. n)
  OBVIOUS
<1>4. Cardinality(SUBSET (1 .. n)) \in Nat /\ Cardinality(SUBSET (1 .. n)) # 0
  BY <1>2, <1>3, FS_CardinalityType, FS_EmptySet
<1> QED
  BY <1>2, <1>4

\* A larger exponent gives no smaller power.
LEMMA PowersGrow ==
  ASSUME NEW m \in Nat, NEW n \in Nat, m <= n
  PROVE  2 ^ m <= 2 ^ n
<1>1. SUBSET (1 .. m) \in SUBSET (SUBSET (1 .. n))
  OBVIOUS
<1>2. Cardinality(SUBSET (1 .. m)) <= Cardinality(SUBSET (1 .. n))
  BY <1>1, PowerType, FS_Subset
<1> QED
  BY <1>2, PowerType

\* The first power.
LEMMA PowerOne == 2 ^ 1 = 2
<1>1. SUBSET (1 .. 1) = {{}, {1}}
  OBVIOUS
<1>2. Cardinality({{}}) = 1 /\ IsFiniteSet({{}})
  BY FS_Singleton
<1>3. {1} \notin {{}}
  OBVIOUS
<1>5. Cardinality({{}} \cup {{1}}) = Cardinality({{}}) + 1
  BY <1>2, <1>3, FS_AddElement
<1>6. Cardinality({{}} \cup {{1}}) = 2
  BY <1>2, <1>5
<1>4. {{}, {1}} = {{}} \cup {{1}}
  OBVIOUS
<1> QED
  BY <1>1, <1>6, <1>4, PowerType

\* The next power is twice as large: the subsets without and with one more element.
LEMMA PowerNext ==
  ASSUME NEW n \in Nat
  PROVE  2 ^ (n + 1) = 2 * 2 ^ n
<1> DEFINE A == SUBSET (1 .. n)
           B == {s \cup {n + 1} : s \in A}
           f == [s \in A |-> s \cup {n + 1}]
<1>1. 2 ^ n = Cardinality(A) /\ IsFiniteSet(A) /\ 2 ^ n \in Nat
  BY PowerType
<1>2. n + 1 \in Nat /\ 2 ^ (n + 1) = Cardinality(SUBSET (1 .. n + 1))
  BY PowerType
<1>3. SUBSET (1 .. n + 1) = A \cup B
  <2>1. 1 .. n + 1 = (1 .. n) \cup {n + 1}
    OBVIOUS
  <2>2. ASSUME NEW s \in SUBSET (1 .. n + 1) PROVE s \in A \cup B
    <3>1. s \ {n + 1} \in A
      BY <2>1
    <3>2. n + 1 \in s => s = (s \ {n + 1}) \cup {n + 1}
      OBVIOUS
    <3> QED
      BY <3>1, <3>2
  <2>3. A \cup B \subseteq SUBSET (1 .. n + 1)
    BY <2>1
  <2> QED
    BY <2>2, <2>3
<1>4. A \cap B = {}
  <2>1. n + 1 \notin 1 .. n
    OBVIOUS
  <2> QED
    BY <2>1
<1>5. \A s \in A : n + 1 \notin s
  OBVIOUS
<1>6. f \in Bijection(A, B)
  <2>1. \A s, t \in A : f[s] = f[t] => s = t
    BY <1>5
  <2>2. f \in [A -> B] /\ \A b \in B : \E s \in A : f[s] = b
    OBVIOUS
  <2> QED
    BY <2>1, <2>2 DEF Bijection, Injection, Surjection, IsInjective
<1> HIDE DEF A, B, f
<1>7. IsFiniteSet(B) /\ Cardinality(B) = Cardinality(A)
  BY <1>1, <1>6, FS_Bijection DEF ExistsBijection
<1>8. Cardinality(A \cup B) = Cardinality(A) + Cardinality(B) - Cardinality({})
  BY <1>1, <1>4, <1>7, FS_Union
<1>9. Cardinality({}) = 0
  BY FS_EmptySet
<1>10. Cardinality(A \cup B) = 2 * Cardinality(A)
  BY <1>1, <1>7, <1>8, <1>9
<1> QED
  BY <1>1, <1>2, <1>3, <1>10

\* A function over 1 .. n is a sequence of length n.
LEMMA FunctionIsSeq ==
  ASSUME NEW n \in Nat, NEW S, NEW f \in [1 .. n -> S]
  PROVE  f \in Seq(S) /\ Len(f) = n
<1>1. f \in Seq(S) /\ DOMAIN f = 1 .. n
  OBVIOUS
<1> QED
  BY <1>1

-----------------------------------------------------------------------------
(***************************************************************************)
(* Sequences joined one after the other, as FlattenSeq joins them.         *)
(***************************************************************************)
\* One sequence after another, by a name the provers do not look behind.
Joined(a, b) == a \o b

\* The sequence of sequences joined so far, after every place of it.
Flattens(ss, N, g) ==
  g = [i \in 1 .. N |-> IF i = 1 THEN ss[i] ELSE Joined(g[i - 1], ss[i])]

LEMMA FlattensExist ==
  ASSUME NEW ss, NEW N \in Nat
  PROVE  \E g : Flattens(ss, N, g)
<1> DEFINE T == {n \in Nat : \E g : Flattens(ss, n, g)}
<1>1. 0 \in T
  <2> DEFINE g == [i \in 1 .. 0 |-> ss]
  <2>1. Flattens(ss, 0, g)
    BY DEF Flattens
  <2> QED BY <2>1
<1>2. ASSUME NEW n \in T PROVE n + 1 \in T
  <2>1. PICK g : Flattens(ss, n, g)
    OBVIOUS
  <2>2. n \in Nat
    OBVIOUS
  <2> DEFINE h == [i \in 1 .. n + 1 |-> IF i = 1 THEN ss[i] ELSE Joined(g[i - 1], ss[i])]
  <2>3. ASSUME NEW i \in 1 .. n PROVE h[i] = g[i]
    <3>1. g[i] = IF i = 1 THEN ss[i] ELSE Joined(g[i - 1], ss[i])
      BY <2>1 DEF Flattens
    <3>2. i \in 1 .. n + 1
      BY <2>2
    <3> QED BY <3>1, <3>2
  <2>4. ASSUME NEW i \in 1 .. n + 1, i # 1 PROVE h[i] = Joined(h[i - 1], ss[i])
    <3>1. i - 1 \in 1 .. n
      BY <2>2, <2>4
    <3>2. h[i - 1] = g[i - 1]
      BY <2>3, <3>1
    <3>3. h[i] = Joined(g[i - 1], ss[i])
      BY <2>4
    <3> QED BY <3>2, <3>3
  <2>5. ASSUME NEW i \in 1 .. n + 1, i = 1 PROVE h[i] = ss[i]
    BY <2>5
  <2>6. h = [i \in 1 .. n + 1 |-> h[i]]
    OBVIOUS
  <2>7. h = [i \in 1 .. n + 1 |-> IF i = 1 THEN ss[i] ELSE Joined(h[i - 1], ss[i])]
    <3> HIDE DEF h
    <3>1. ASSUME NEW i \in 1 .. n + 1
          PROVE  h[i] = IF i = 1 THEN ss[i] ELSE Joined(h[i - 1], ss[i])
      BY <2>4, <2>5
    <3> QED BY <2>6, <3>1
  <2>8. Flattens(ss, n + 1, h)
    <3> HIDE DEF h
    <3> QED BY <2>7 DEF Flattens
  <2> QED
    <3> HIDE DEF h
    <3> QED BY <2>2, <2>8
<1>3. T = Nat
  <2>1. T \in SUBSET Nat
    OBVIOUS
  <2> HIDE DEF T
  <2> QED BY <1>1, <1>2, <2>1, Induction
<1> QED
  BY <1>3
=============================================================================
