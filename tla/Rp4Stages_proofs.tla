-------------------------- MODULE Rp4Stages_proofs --------------------------
(***************************************************************************)
(* Facts about the operators of Rp4Stages, for every program that          *)
(* IsProgram admits: what InOrder and Select yield, that the topological   *)
(* sort lists every node of an acyclic graph once, how the numbers of the  *)
(* stages and tables that are kept relate to those of the source, and in   *)
(* what order the levels of the parser are put.                            *)
(***************************************************************************)
EXTENDS Rp4Stages, Sums

-----------------------------------------------------------------------------
(***************************************************************************)
(* Sets of numbers in ascending order.                                     *)
(***************************************************************************)
Below(S, k) == {j \in S : j < k}

\* The numbers below one of a finite set of naturals.
LEMMA BelowFinite ==
  ASSUME NEW S, \A x \in S : x \in Nat, IsFiniteSet(S), NEW k
  PROVE  /\ IsFiniteSet(Below(S, k)) /\ Cardinality(Below(S, k)) \in Nat
         /\ Below(S, k) \subseteq S
<1>1. Below(S, k) \subseteq S
  BY DEF Below
<1> QED
  BY <1>1, FS_Subset, FS_CardinalityType

\* With the number itself there is one more.
LEMMA BelowNext ==
  ASSUME NEW S, \A x \in S : x \in Nat, IsFiniteSet(S), NEW k \in S
  PROVE  /\ Cardinality(Below(S, k) \cup {k}) = Cardinality(Below(S, k)) + 1
         /\ Below(S, k) \cup {k} \in SUBSET S
<1>1. PICK B : B = Below(S, k)
  OBVIOUS
<1>2. IsFiniteSet(B) /\ B \subseteq S
  BY <1>1, BelowFinite
<1>3. k \notin B
  BY <1>1 DEF Below
<1>4. Cardinality(B \cup {k}) = Cardinality(B) + 1
  BY <1>2, <1>3, FS_AddElement
<1> QED
  BY <1>1, <1>2, <1>4

\* A greater number of the set has more numbers below it.
LEMMA BelowOrdered ==
  ASSUME NEW S, \A x \in S : x \in Nat, IsFiniteSet(S), NEW j \in S, NEW k \in S, j < k
  PROVE  Cardinality(Below(S, j)) < Cardinality(Below(S, k))
<1>2. Below(S, j) \cup {j} \subseteq Below(S, k) /\ j \notin Below(S, j)
  BY DEF Below
<1>3. PICK B : B = Below(S, j)
  OBVIOUS
<1>4. PICK C : C = Below(S, k)
  OBVIOUS
<1>5. IsFiniteSet(B) /\ Cardinality(B) \in Nat /\ IsFiniteSet(C) /\ Cardinality(C) \in Nat
  BY <1>3, <1>4, BelowFinite
<1>6. Cardinality(B \cup {j}) = Cardinality(B) + 1
  BY <1>2, <1>3, <1>5, FS_AddElement
<1>7. Cardinality(B \cup {j}) <= Cardinality(C)
  <2>1. B \cup {j} \in SUBSET C
    BY <1>2, <1>3, <1>4
  <2> QED
    BY <1>5, <2>1, FS_Subset
<1> QED
  BY <1>3, <1>4, <1>5, <1>6, <1>7

\* Every place in the order is some number's.
LEMMA NthExists ==
  ASSUME NEW S, \A x \in S : x \in Nat, IsFiniteSet(S), NEW n \in Nat, n < Cardinality(S)
  PROVE  \E k \in S : Cardinality(Below(S, k)) = n
<1> DEFINE T == {m \in Nat : m < Cardinality(S) => \E k \in S : Cardinality(Below(S, k)) = m}
<1>1. 0 \in T
  <2>1. SUFFICES ASSUME 0 < Cardinality(S) PROVE \E k \in S : Cardinality(Below(S, k)) = 0
    OBVIOUS
  <2>2. S # {}
    BY <2>1, FS_EmptySet
  <2>3. PICK k \in S : \A j \in S : k <= j
    BY <2>2, LeastElement
  <2>4. Below(S, k) = {}
    BY <2>3 DEF Below
  <2> QED
    BY <2>4, FS_EmptySet
<1>2. ASSUME NEW m \in T PROVE m + 1 \in T
  <2>0. m \in Nat /\ Cardinality(S) \in Nat
    BY FS_CardinalityType
  <2>1. SUFFICES ASSUME m + 1 < Cardinality(S) PROVE \E k \in S : Cardinality(Below(S, k)) = m + 1
    BY <2>0
  <2>2. PICK k \in S : Cardinality(Below(S, k)) = m
    BY <2>0, <2>1
  <2> DEFINE R == {j \in S : k < j}
  <2>3. R # {}
    <3>1. SUFFICES ASSUME R = {} PROVE FALSE
      OBVIOUS
    <3>2. S = Below(S, k) \cup {k}
      BY <3>1 DEF Below
    <3>3. Cardinality(Below(S, k) \cup {k}) = m + 1
      BY <2>2, BelowNext
    <3> QED
      BY <2>1, <3>2, <3>3, <2>0
  <2>4. PICK l \in R : \A j \in R : l <= j
    <3>1. R \subseteq Nat
      OBVIOUS
    <3> HIDE DEF R
    <3> QED BY <2>3, <3>1, LeastElement
  <2>5. Below(S, l) = Below(S, k) \cup {k}
    BY <2>4 DEF Below
  <2>6. Cardinality(Below(S, k) \cup {k}) = m + 1
    BY <2>2, BelowNext
  <2> QED
    BY <2>5, <2>6
<1>3. T = Nat
  <2> HIDE DEF T
  <2>1. T \in SUBSET Nat
    BY DEF T
  <2> QED BY <1>1, <1>2, <2>1, Induction
<1> QED
  BY <1>3

\* Nth finds it, and nothing else.
LEMMA NthFacts ==
  ASSUME NEW S, \A x \in S : x \in Nat, IsFiniteSet(S), NEW n \in Nat, n < Cardinality(S)
  PROVE  Nth(S, n) \in S /\ Cardinality(Below(S, Nth(S, n))) = n
<1>1. PICK k \in S : Cardinality({j \in S : j < k}) = n
  BY NthExists DEF Below
<1> QED
  BY <1>1 DEF Nth, Below

LEMMA NthOf ==
  ASSUME NEW S, \A x \in S : x \in Nat, IsFiniteSet(S), NEW k \in S
  PROVE  /\ Cardinality(Below(S, k)) \in 0 .. Cardinality(S) - 1
         /\ Nth(S, Cardinality(Below(S, k))) = k
<1>1. Cardinality(Below(S, k)) \in Nat /\ Cardinality(S) \in Nat
  BY BelowFinite, FS_CardinalityType
<1>2. Cardinality(Below(S, k)) < Cardinality(S)
  <2>1. PICK C : C = Below(S, k) \cup {k}
    OBVIOUS
  <2>2. Cardinality(C) = Cardinality(Below(S, k)) + 1
    BY <2>1, BelowNext
  <2>3. Cardinality(C) <= Cardinality(S)
    <3>1. C \in SUBSET S
      BY <2>1, BelowNext
    <3> QED BY <3>1, FS_Subset
  <2> QED
    BY <1>1, <2>2, <2>3
<1>3. PICK j : j = Nth(S, Cardinality(Below(S, k)))
  OBVIOUS
<1>4. j \in S /\ Cardinality(Below(S, j)) = Cardinality(Below(S, k))
  BY <1>1, <1>2, <1>3, NthFacts
<1>5. j = k
  <2>1. j \in Nat /\ k \in Nat
    BY <1>4
  <2>2. ~ j < k /\ ~ k < j
    BY <1>4, <1>1, BelowOrdered
  <2> QED
    BY <2>1, <2>2
<1> QED
  BY <1>1, <1>2, <1>3, <1>5

\* InOrder lists the numbers of the set, each once.
LEMMA InOrderFacts ==
  ASSUME NEW S, \A x \in S : x \in Nat, IsFiniteSet(S)
  PROVE  /\ InOrder(S) \in Seq(S) /\ Len(InOrder(S)) = Cardinality(S)
         /\ Cardinality(S) \in Nat
         /\ DOMAIN InOrder(S) = 1 .. Cardinality(S)
         /\ \A n \in 1 .. Cardinality(S) : InOrder(S)[n] = Nth(S, n - 1) /\ Nth(S, n - 1) \in S
         /\ \A m, n \in 1 .. Cardinality(S) : Nth(S, m - 1) = Nth(S, n - 1) => m = n
         /\ \A k \in S : \E n \in 1 .. Cardinality(S) : Nth(S, n - 1) = k
<1>1. Cardinality(S) \in Nat
  BY FS_CardinalityType
<1>2. ASSUME NEW n \in 1 .. Cardinality(S)
      PROVE  Nth(S, n - 1) \in S /\ Cardinality(Below(S, Nth(S, n - 1))) = n - 1
  <2>1. n - 1 \in Nat /\ n - 1 < Cardinality(S)
    BY <1>1
  <2> QED BY <2>1, NthFacts
<1>3. InOrder(S) \in [1 .. Cardinality(S) -> S]
  BY <1>2 DEF InOrder
<1>4. ASSUME NEW k \in S PROVE \E n \in 1 .. Cardinality(S) : Nth(S, n - 1) = k
  <2>1. PICK b : b = Cardinality(Below(S, k))
    OBVIOUS
  <2>2. b \in 0 .. Cardinality(S) - 1 /\ Nth(S, b) = k
    BY <2>1, NthOf
  <2>3. b + 1 \in 1 .. Cardinality(S) /\ (b + 1) - 1 = b
    BY <1>1, <2>2
  <2> QED
    BY <2>2, <2>3
<1>5. ASSUME NEW m \in 1 .. Cardinality(S), NEW n \in 1 .. Cardinality(S),
             Nth(S, m - 1) = Nth(S, n - 1)
      PROVE  m = n
  <2>1. m - 1 = n - 1
    BY <1>2, <1>5
  <2> QED
    BY <2>1, <1>1
<1>6. \A n \in 1 .. Cardinality(S) : InOrder(S)[n] = Nth(S, n - 1)
  BY DEF InOrder
<1>7. DOMAIN InOrder(S) = 1 .. Cardinality(S)
  BY <1>3
<1>8. InOrder(S) \in Seq(S) /\ Len(InOrder(S)) = Cardinality(S)
  BY <1>1, <1>3, FunctionIsSeq
<1> QED
  BY <1>1, <1>2, <1>4, <1>5, <1>6, <1>7, <1>8

\* Select lists the entries at the places of a set, each place once.
LEMMA SelectFacts ==
  ASSUME NEW E, NEW seq \in Seq(E), NEW S, S \subseteq DOMAIN seq
  PROVE  /\ IsFiniteSet(S) /\ Cardinality(S) \in Nat
         /\ \A x \in S : x \in Nat
         /\ Select(seq, S) \in Seq(E) /\ Len(Select(seq, S)) = Cardinality(S)
         /\ DOMAIN Select(seq, S) = 1 .. Cardinality(S)
         /\ \A n \in 1 .. Cardinality(S) : Select(seq, S)[n] = seq[Nth(S, n - 1)]
<1>1. DOMAIN seq = 1 .. Len(seq) /\ Len(seq) \in Nat
  OBVIOUS
<1>2. IsFiniteSet(S) /\ \A x \in S : x \in Nat
  <2>1. S \in SUBSET (1 .. Len(seq)) /\ IsFiniteSet(1 .. Len(seq))
    BY <1>1, CountTo
  <2>2. IsFiniteSet(S)
    BY <2>1, FS_Subset
  <2> QED BY <2>1, <2>2
<1>3. Cardinality(S) \in Nat /\ DOMAIN InOrder(S) = 1 .. Cardinality(S)
  BY <1>2, InOrderFacts
<1>4. \A n \in 1 .. Cardinality(S) : InOrder(S)[n] = Nth(S, n - 1) /\ Nth(S, n - 1) \in S
  BY <1>2, InOrderFacts
<1>5. Select(seq, S) = [n \in 1 .. Cardinality(S) |-> seq[InOrder(S)[n]]]
  BY <1>3 DEF Select
<1>6. \A n \in 1 .. Cardinality(S) : seq[InOrder(S)[n]] \in E
  BY <1>4, <1>1
<1>7. Select(seq, S) \in [1 .. Cardinality(S) -> E]
  BY <1>5, <1>6
<1>8. Select(seq, S) \in Seq(E) /\ Len(Select(seq, S)) = Cardinality(S)
  BY <1>3, <1>7, FunctionIsSeq
<1> QED
  BY <1>2, <1>3, <1>4, <1>5, <1>7, <1>8

-----------------------------------------------------------------------------
(***************************************************************************)
(* The topological sort.                                                   *)
(***************************************************************************)
IsGraph(next) == IsFiniteSet(DOMAIN next) /\ \A n \in DOMAIN next : n \in Nat

\* A sequence of nodes, each once and after all that lead to it.
InTopo(next, seq) ==
  /\ seq \in Seq(DOMAIN next)
  /\ \A i, j \in 1 .. Len(seq) : seq[i] = seq[j] => i = j
  /\ \A i \in 1 .. Len(seq) : \A m \in DOMAIN next :
       seq[i] \in next[m] => \E j \in 1 .. i - 1 : seq[j] = m

\* The sequences after every round of the sort's loop.
Sorts(next, N, g) ==
  g = [d \in 0 .. N |-> IF d = 0 THEN <<>> ELSE WithNext(next, g[d - 1])]

LEMMA SortsExist ==
  ASSUME NEW next, NEW N \in Nat
  PROVE  \E g : Sorts(next, N, g)
<1> DEFINE T == {n \in Nat : \E g : Sorts(next, n, g)}
<1>1. 0 \in T
  <2> DEFINE g == [d \in 0 .. 0 |-> <<>>]
  <2>1. Sorts(next, 0, g)
    BY DEF Sorts
  <2> QED BY <2>1
<1>2. ASSUME NEW n \in T PROVE n + 1 \in T
  <2>1. PICK g : Sorts(next, n, g)
    OBVIOUS
  <2>2. n \in Nat
    OBVIOUS
  <2> DEFINE h == [d \in 0 .. n + 1 |-> IF d = 0 THEN <<>> ELSE WithNext(next, g[d - 1])]
  <2>3. ASSUME NEW d \in 0 .. n PROVE h[d] = g[d]
    BY <2>1, <2>2 DEF Sorts
  <2>4. ASSUME NEW d \in 0 .. n + 1, d # 0 PROVE h[d] = WithNext(next, h[d - 1])
    <3>1. d - 1 \in 0 .. n
      BY <2>2, <2>4
    <3>2. h[d - 1] = g[d - 1]
      BY <2>3, <3>1
    <3>3. h[d] = WithNext(next, g[d - 1])
      BY <2>4
    <3> QED BY <3>2, <3>3
  <2>5. h[0] = <<>>
    BY <2>2
  <2>6. h = [d \in 0 .. n + 1 |-> h[d]]
    OBVIOUS
  <2>7. h = [d \in 0 .. n + 1 |-> IF d = 0 THEN <<>> ELSE WithNext(next, h[d - 1])]
    <3> HIDE DEF h
    <3>1. ASSUME NEW d \in 0 .. n + 1
          PROVE  h[d] = IF d = 0 THEN <<>> ELSE WithNext(next, h[d - 1])
      BY <2>4, <2>5
    <3> QED BY <2>6, <3>1
  <2>8. Sorts(next, n + 1, h)
    <3> HIDE DEF h
    <3> QED BY <2>7 DEF Sorts
  <2> QED
    <3> HIDE DEF h
    <3> QED BY <2>2, <2>8
<1>3. T = Nat
  <2>1. T \in SUBSET Nat
    OBVIOUS
  <2> HIDE DEF T
  <2> QED BY <1>1, <1>2, <2>1, Induction
<1> QED
  BY <1>3

LEMMA TopoIsSorts ==
  ASSUME NEW next
  PROVE  TopoOrder(next) =
           (CHOOSE g : Sorts(next, Cardinality(DOMAIN next), g))[Cardinality(DOMAIN next)]
  BY DEF TopoOrder, Sorts

\* One round adds a node that has not been listed, or none.
LEMMA WithNextTopo ==
  ASSUME NEW next, IsGraph(next), NEW seq, InTopo(next, seq)
  PROVE  InTopo(next, WithNext(next, seq))
<1> DEFINE ready == Ready(next, ToSet(seq))
<1>1. CASE ready = {}
  <2>1. WithNext(next, seq) = seq
    BY <1>1 DEF WithNext
  <2> QED BY <2>1
<1>2. CASE ready # {}
  <2>1. \A n \in ready : n \in Nat /\ n \in DOMAIN next /\ n \notin ToSet(seq)
    BY DEF Ready, IsGraph
  <2>2. \A n \in ready : \A m \in DOMAIN next : n \in next[m] => m \in ToSet(seq)
    BY DEF Ready
  <2>3. PICK x : x = CHOOSE n \in ready : \A m \in ready : n <= m
    OBVIOUS
  <2>4. x \in ready
    <3>1. ready \subseteq Nat
      BY <2>1
    <3> HIDE DEF ready
    <3>2. \E n \in ready : \A m \in ready : n <= m
      BY <1>2, <3>1, LeastElement
    <3> QED BY <2>3, <3>2
  <2>5. WithNext(next, seq) = Append(seq, x)
    BY <1>2, <2>3 DEF WithNext
  <2>6. x \in DOMAIN next /\ x \notin ToSet(seq)
    BY <2>1, <2>4
  <2>7. seq \in Seq(DOMAIN next) /\ Len(seq) \in Nat
    BY DEF InTopo
  <2>8. PICK s : s = Append(seq, x)
    OBVIOUS
  <2>9. /\ s \in Seq(DOMAIN next) /\ Len(s) = Len(seq) + 1
        /\ \A i \in 1 .. Len(seq) : s[i] = seq[i]
        /\ s[Len(seq) + 1] = x
    BY <2>6, <2>7, <2>8, AppendProperties
  <2>10. \A i \in 1 .. Len(seq) : seq[i] # x
    BY <2>6, <2>7 DEF ToSet
  <2>11. ASSUME NEW i \in 1 .. Len(s), NEW j \in 1 .. Len(s), s[i] = s[j] PROVE i = j
    <3>1. \A k \in 1 .. Len(s) : k \in 1 .. Len(seq) \/ k = Len(seq) + 1
      BY <2>7, <2>9
    <3>2. CASE i \in 1 .. Len(seq) /\ j \in 1 .. Len(seq)
      BY <2>9, <2>11, <3>2 DEF InTopo
    <3>3. CASE i = Len(seq) + 1 \/ j = Len(seq) + 1
      BY <2>9, <2>10, <2>11, <3>1, <3>3
    <3> QED BY <3>1, <3>2, <3>3
  <2>12. ASSUME NEW i \in 1 .. Len(s), NEW m \in DOMAIN next, s[i] \in next[m]
         PROVE  \E j \in 1 .. i - 1 : s[j] = m
    <3>1. CASE i \in 1 .. Len(seq)
      <4>1. seq[i] \in next[m]
        BY <2>9, <2>12, <3>1
      <4>2. PICK j \in 1 .. i - 1 : seq[j] = m
        BY <3>1, <4>1 DEF InTopo
      <4>3. j \in 1 .. Len(seq)
        BY <2>7, <3>1
      <4> QED BY <2>9, <4>2, <4>3
    <3>2. CASE i = Len(seq) + 1
      <4>1. m \in ToSet(seq)
        BY <2>2, <2>4, <2>9, <2>12, <3>2
      <4>2. PICK j \in 1 .. Len(seq) : seq[j] = m
        BY <2>7, <4>1 DEF ToSet
      <4>3. j \in 1 .. i - 1
        BY <2>7, <3>2
      <4> QED BY <2>9, <4>2, <4>3
    <3> QED BY <2>7, <2>9, <3>1, <3>2
  <2>13. InTopo(next, s)
    BY <2>9, <2>11, <2>12 DEF InTopo
  <2> QED BY <2>5, <2>8, <2>13
<1> QED BY <1>1, <1>2

\* The sort lists nodes in order; all of them when it does not stop short.
LEMMA TopoFacts ==
  ASSUME NEW next, IsGraph(next)
  PROVE  /\ InTopo(next, TopoOrder(next))
         /\ IsAcyclic(next) => ToSet(TopoOrder(next)) = DOMAIN next
<1> DEFINE N == Cardinality(DOMAIN next)
           g == CHOOSE g : Sorts(next, N, g)
<1>1. N \in Nat
  BY FS_CardinalityType DEF IsGraph
<1>2. Sorts(next, N, g)
  BY <1>1, SortsExist
<1>3. TopoOrder(next) = g[N]
  BY TopoIsSorts
<1> HIDE DEF N, g
<1> DEFINE T == {d \in Nat : d <= N => InTopo(next, g[d])}
<1>4. 0 \in T
  <2>1. g[0] = <<>>
    BY <1>1, <1>2 DEF Sorts
  <2>2. InTopo(next, <<>>)
    BY EmptySeq DEF InTopo
  <2> QED BY <2>1, <2>2
<1>5. ASSUME NEW d \in T PROVE d + 1 \in T
  <2>1. d \in Nat
    OBVIOUS
  <2>2. SUFFICES ASSUME d + 1 <= N PROVE InTopo(next, g[d + 1])
    BY <2>1
  <2>3. InTopo(next, g[d])
    BY <2>1, <2>2, <1>1
  <2>4. d + 1 \in 0 .. N /\ d + 1 # 0 /\ (d + 1) - 1 = d
    BY <2>1, <2>2, <1>1
  <2>5. g[d + 1] = WithNext(next, g[d])
    BY <1>2, <2>4 DEF Sorts
  <2> QED BY <2>3, <2>5, WithNextTopo
<1>6. T = Nat
  <2>1. T \in SUBSET Nat
    OBVIOUS
  <2> HIDE DEF T
  <2> QED BY <1>4, <1>5, <2>1, Induction
<1>7. InTopo(next, g[N])
  BY <1>1, <1>6
<1>8. ASSUME IsAcyclic(next) PROVE ToSet(g[N]) = DOMAIN next
  <2>1. PICK s : s = g[N]
    OBVIOUS
  <2>2. s \in Seq(DOMAIN next) /\ Len(s) = N /\ \A i, j \in 1 .. N : s[i] = s[j] => i = j
    BY <1>3, <1>7, <1>8, <2>1 DEF IsAcyclic, N, InTopo
  <2>3. s \in Injection(1 .. N, DOMAIN next)
    BY <2>2, <1>1 DEF Injection, IsInjective
  <2>4. IsFiniteSet(DOMAIN next) /\ Cardinality(1 .. N) = Cardinality(DOMAIN next)
    BY <1>1, CountTo DEF IsGraph, N
  <2>5. s \in Surjection(1 .. N, DOMAIN next)
    BY <2>3, <2>4, FS_Injection
  <2>6. DOMAIN next \subseteq ToSet(s)
    BY <2>2, <2>5 DEF Surjection, ToSet
  <2>7. ToSet(s) \subseteq DOMAIN next
    BY <2>2, <1>1 DEF ToSet
  <2> QED BY <2>1, <2>6, <2>7
<1> QED
  BY <1>3, <1>7, <1>8

-----------------------------------------------------------------------------
(***************************************************************************)
(* The tables of a stage.                                                  *)
(***************************************************************************)
TablePlaces(prog, k) == {i \in DOMAIN prog.stages[k].switch : prog.stages[k].switch[i].type = "TABLE"}

\* The tables a stage of the source names, at the places of its table entries.
LEMMA TablesOfFacts ==
  ASSUME NEW prog, IsProgram(prog), NEW k \in StageIds(prog)
  PROVE  /\ TablesOf(prog.stages[k]) \in Seq(DOMAIN prog.mem)
         /\ IsFiniteSet(TablePlaces(prog, k)) /\ \A i \in TablePlaces(prog, k) : i \in Nat
         /\ Cardinality(TablePlaces(prog, k)) \in Nat
         /\ DOMAIN TablesOf(prog.stages[k]) = 1 .. Cardinality(TablePlaces(prog, k))
         /\ \A n \in 1 .. Cardinality(TablePlaces(prog, k)) :
              TablesOf(prog.stages[k])[n] = prog.stages[k].switch[Nth(TablePlaces(prog, k), n - 1)].to
<1> DEFINE E == [default : BOOLEAN, type : {"TABLE"}, to : DOMAIN prog.mem]
                  \cup [default : BOOLEAN, type : {"STAGE"}, to : StageIds(prog) \cup {-1}]
           seq == prog.stages[k].switch
           S == TablePlaces(prog, k)
           named == Select(seq, S)
<1>1. seq \in Seq(E)
  BY DEF IsProgram
<1>2. S \subseteq DOMAIN seq
  BY DEF TablePlaces
<1>3. \A i \in S : seq[i].to \in DOMAIN prog.mem
  <2>1. ASSUME NEW i \in S PROVE seq[i].to \in DOMAIN prog.mem
    <3>1. i \in 1 .. Len(seq) /\ seq[i].type = "TABLE"
      BY <1>1 DEF TablePlaces
    <3>2. seq[i] \in E
      BY <1>1, <3>1, ElementOfSeq
    <3> QED BY <3>1, <3>2
  <2> QED BY <2>1
<1>4. TablesOf(prog.stages[k]) = [i \in DOMAIN named |-> named[i].to]
  BY DEF TablesOf, TablePlaces
<1> HIDE DEF E, seq, S
<1>5. /\ IsFiniteSet(S) /\ Cardinality(S) \in Nat /\ \A i \in S : i \in Nat
      /\ DOMAIN named = 1 .. Cardinality(S)
      /\ \A n \in 1 .. Cardinality(S) : named[n] = seq[Nth(S, n - 1)]
  BY <1>1, <1>2, SelectFacts
<1> HIDE DEF named
<1>6. \A n \in 1 .. Cardinality(S) : Nth(S, n - 1) \in S
  BY <1>5, InOrderFacts
<1>7. PICK f : f = TablesOf(prog.stages[k])
  OBVIOUS
<1>8. f = [n \in 1 .. Cardinality(S) |-> seq[Nth(S, n - 1)].to]
  BY <1>4, <1>5, <1>7
<1>9. f \in [1 .. Cardinality(S) -> DOMAIN prog.mem]
  BY <1>3, <1>6, <1>8
<1>10. f \in Seq(DOMAIN prog.mem)
  BY <1>5, <1>9, FunctionIsSeq
<1> QED
  BY <1>5, <1>7, <1>8, <1>10 DEF S, seq

\* In a program that names every table once, so do the lists of its stages.
LEMMA TablesOnce ==
  ASSUME NEW prog, IsProgram(prog), NamedOnce(prog), NEW k \in StageIds(prog), NEW l \in StageIds(prog),
         NEW i \in DOMAIN TablesOf(prog.stages[k]), NEW j \in DOMAIN TablesOf(prog.stages[l]),
         TablesOf(prog.stages[k])[i] = TablesOf(prog.stages[l])[j]
  PROVE  k = l /\ i = j
<1>1. /\ IsFiniteSet(TablePlaces(prog, k)) /\ \A x \in TablePlaces(prog, k) : x \in Nat
      /\ i \in 1 .. Cardinality(TablePlaces(prog, k))
      /\ TablesOf(prog.stages[k])[i] = prog.stages[k].switch[Nth(TablePlaces(prog, k), i - 1)].to
  BY TablesOfFacts
<1>2. /\ IsFiniteSet(TablePlaces(prog, l)) /\ \A x \in TablePlaces(prog, l) : x \in Nat
      /\ j \in 1 .. Cardinality(TablePlaces(prog, l))
      /\ TablesOf(prog.stages[l])[j] = prog.stages[l].switch[Nth(TablePlaces(prog, l), j - 1)].to
  BY TablesOfFacts
<1>3. Nth(TablePlaces(prog, k), i - 1) \in TablePlaces(prog, k)
  <2>1. PICK S : S = TablePlaces(prog, k)
    OBVIOUS
  <2>2. Nth(S, i - 1) \in S
    BY <1>1, <2>1, InOrderFacts
  <2> QED BY <2>1, <2>2
<1>4. Nth(TablePlaces(prog, l), j - 1) \in TablePlaces(prog, l)
  <2>1. PICK S : S = TablePlaces(prog, l)
    OBVIOUS
  <2>2. Nth(S, j - 1) \in S
    BY <1>2, <2>1, InOrderFacts
  <2> QED BY <2>1, <2>2
<1>5. k = l /\ Nth(TablePlaces(prog, k), i - 1) = Nth(TablePlaces(prog, l), j - 1)
  <2>1. PICK x \in TablePlaces(prog, k) : x = Nth(TablePlaces(prog, k), i - 1)
    BY <1>3
  <2>2. PICK y \in TablePlaces(prog, l) : y = Nth(TablePlaces(prog, l), j - 1)
    BY <1>4
  <2>3. /\ x \in DOMAIN prog.stages[k].switch /\ y \in DOMAIN prog.stages[l].switch
        /\ prog.stages[k].switch[x].type = "TABLE" /\ prog.stages[l].switch[y].type = "TABLE"
    BY DEF TablePlaces
  <2>4. prog.stages[k].switch[x].to = prog.stages[l].switch[y].to
    BY <1>1, <1>2, <2>1, <2>2
  <2>5. k = l /\ x = y
    BY <2>3, <2>4 DEF NamedOnce
  <2> QED BY <2>1, <2>2, <2>5
<1>6. i = j
  <2>1. PICK S : S = TablePlaces(prog, k)
    OBVIOUS
  <2>2. Nth(S, i - 1) = Nth(S, j - 1) /\ i \in 1 .. Cardinality(S) /\ j \in 1 .. Cardinality(S)
    BY <1>1, <1>2, <1>5, <2>1
  <2>3. IsFiniteSet(S) /\ \A x \in S : x \in Nat
    BY <1>1, <2>1
  <2> QED BY <2>2, <2>3, InOrderFacts
<1> QED
  BY <1>5, <1>6

-----------------------------------------------------------------------------
(***************************************************************************)
(* The stages that are kept.                                               *)
(***************************************************************************)
Kept(prog, st) == {k \in StageIds(prog) : k \notin st.removed}

\* A program's stages are finitely many naturals, and so are those kept.
LEMMA KeptFacts ==
  ASSUME NEW prog, IsProgram(prog), NEW st
  PROVE  /\ IsFiniteSet(Kept(prog, st)) /\ Cardinality(Kept(prog, st)) \in Nat
         /\ \A k \in Kept(prog, st) : k \in Nat /\ k \in StageIds(prog)
<1>1. PICK K : K = Kept(prog, st)
  OBVIOUS
<1>2. K \in SUBSET StageIds(prog)
  BY <1>1 DEF Kept
<1>3. IsFiniteSet(StageIds(prog)) /\ \A k \in StageIds(prog) : k \in Nat
  BY FS_CardinalityType DEF IsProgram, IsNumbered
<1>4. IsFiniteSet(K) /\ Cardinality(K) \in Nat
  BY <1>2, <1>3, FS_Subset, FS_CardinalityType
<1> QED
  BY <1>1, <1>2, <1>3, <1>4

\* The logical stages are numbered from zero, each from one stage that is kept.
LEMMA LogicalStages ==
  ASSUME NEW prog, IsProgram(prog), NEW st, NEW wild
  PROVE  /\ DOMAIN Logical(prog, st, wild).stages = 0 .. Cardinality(Kept(prog, st)) - 1
         /\ IsNumbered(DOMAIN Logical(prog, st, wild).stages)
         /\ \A s \in DOMAIN Logical(prog, st, wild).stages :
              /\ Nth(Kept(prog, st), s) \in Kept(prog, st)
              /\ Cardinality(Below(Kept(prog, st), Nth(Kept(prog, st), s))) = s
              /\ Logical(prog, st, wild).stages[s].tables = TablesOf(prog.stages[Nth(Kept(prog, st), s)])
         /\ DOMAIN Logical(prog, st, wild).levels = DOMAIN prog.levels
<1>1. PICK K : K = Kept(prog, st)
  OBVIOUS
<1>2. IsFiniteSet(K) /\ Cardinality(K) \in Nat /\ \A k \in K : k \in Nat
  BY <1>1, KeptFacts
<1>3. PICK L : L = Logical(prog, st, wild)
  OBVIOUS
<1>4. L.stages = [s \in 0 .. Cardinality(K) - 1 |-> LogicalStage(prog, st, wild, Nth(K, s))]
  BY <1>1, <1>3 DEF Logical, Kept
<1>5. DOMAIN L.stages = 0 .. Cardinality(K) - 1
  BY <1>4
<1>6. IsNumbered(DOMAIN L.stages)
  <2>1. 0 \in Int /\ Cardinality(K) - 1 \in Int
    BY <1>2
  <2>2. IsFiniteSet(0 .. Cardinality(K) - 1)
        /\ Cardinality(0 .. Cardinality(K) - 1) = Cardinality(K)
    BY <1>2, <2>1, FS_Interval
  <2> QED BY <1>5, <2>2 DEF IsNumbered
<1>7. ASSUME NEW s \in DOMAIN L.stages
      PROVE  /\ Nth(K, s) \in K /\ Cardinality(Below(K, Nth(K, s))) = s
             /\ L.stages[s].tables = TablesOf(prog.stages[Nth(K, s)])
  <2>1. s \in Nat /\ s < Cardinality(K)
    BY <1>2, <1>5
  <2>2. L.stages[s].tables = TablesOf(prog.stages[Nth(K, s)])
    BY <1>4, <1>5 DEF LogicalStage
  <2> QED BY <1>2, <2>1, <2>2, NthFacts
<1>8. DOMAIN L.levels = DOMAIN prog.levels
  BY <1>3 DEF Logical
<1> QED
  BY <1>1, <1>3, <1>5, <1>6, <1>7, <1>8

\* A logical stage's tables are tables of the program, named once when the program
\* names every table once.
LEMMA LogicalTables ==
  ASSUME NEW prog, IsProgram(prog), NEW st, NEW wild
  PROVE  /\ \A s \in DOMAIN Logical(prog, st, wild).stages :
              Logical(prog, st, wild).stages[s].tables \in Seq(DOMAIN prog.mem)
         /\ NamedOnce(prog) =>
              \A r, s \in DOMAIN Logical(prog, st, wild).stages :
                \A i \in DOMAIN Logical(prog, st, wild).stages[r].tables,
                   j \in DOMAIN Logical(prog, st, wild).stages[s].tables :
                  Logical(prog, st, wild).stages[r].tables[i] = Logical(prog, st, wild).stages[s].tables[j]
                    => r = s /\ i = j
<1>1. PICK K : K = Kept(prog, st)
  OBVIOUS
<1>2. PICK L : L = Logical(prog, st, wild)
  OBVIOUS
<1>3. \A s \in DOMAIN L.stages :
        /\ Nth(K, s) \in StageIds(prog)
        /\ Cardinality(Below(K, Nth(K, s))) = s
        /\ L.stages[s].tables = TablesOf(prog.stages[Nth(K, s)])
  BY <1>1, <1>2, LogicalStages, KeptFacts
<1>4. ASSUME NEW s \in DOMAIN L.stages PROVE L.stages[s].tables \in Seq(DOMAIN prog.mem)
  BY <1>3, TablesOfFacts
<1>5. ASSUME NamedOnce(prog), NEW r \in DOMAIN L.stages, NEW s \in DOMAIN L.stages,
             NEW i \in DOMAIN L.stages[r].tables, NEW j \in DOMAIN L.stages[s].tables,
             L.stages[r].tables[i] = L.stages[s].tables[j]
      PROVE  r = s /\ i = j
  <2>1. PICK k \in StageIds(prog) : k = Nth(K, r)
    BY <1>3
  <2>2. PICK l \in StageIds(prog) : l = Nth(K, s)
    BY <1>3
  <2>3. L.stages[r].tables = TablesOf(prog.stages[k]) /\ L.stages[s].tables = TablesOf(prog.stages[l])
    BY <1>3, <2>1, <2>2
  <2>4. k = l /\ i = j
    BY <1>5, <2>3, TablesOnce
  <2> QED BY <1>3, <2>1, <2>2, <2>4
<1> QED
  BY <1>2, <1>4, <1>5

-----------------------------------------------------------------------------
(***************************************************************************)
(* Merging, and the numbers of the tables.                                 *)
(***************************************************************************)
\* The state of the merging after every stage.
Merges(prog, N, g) ==
  g = [d \in 0 .. N |-> IF d = 0 THEN Bound(prog) ELSE MergeStage(prog, g[d - 1], d - 1)]

LEMMA MergesExist ==
  ASSUME NEW prog, NEW N \in Nat
  PROVE  \E g : Merges(prog, N, g)
<1> DEFINE T == {n \in Nat : \E g : Merges(prog, n, g)}
<1>1. 0 \in T
  <2> DEFINE g == [d \in 0 .. 0 |-> Bound(prog)]
  <2>1. Merges(prog, 0, g)
    BY DEF Merges
  <2> QED BY <2>1
<1>2. ASSUME NEW n \in T PROVE n + 1 \in T
  <2>1. PICK g : Merges(prog, n, g)
    OBVIOUS
  <2>2. n \in Nat
    OBVIOUS
  <2> DEFINE h == [d \in 0 .. n + 1 |-> IF d = 0 THEN Bound(prog) ELSE MergeStage(prog, g[d - 1], d - 1)]
  <2>3. ASSUME NEW d \in 0 .. n PROVE h[d] = g[d]
    BY <2>1, <2>2 DEF Merges
  <2>4. ASSUME NEW d \in 0 .. n + 1, d # 0 PROVE h[d] = MergeStage(prog, h[d - 1], d - 1)
    <3>1. d - 1 \in 0 .. n
      BY <2>2, <2>4
    <3>2. h[d - 1] = g[d - 1]
      BY <2>3, <3>1
    <3>3. h[d] = MergeStage(prog, g[d - 1], d - 1)
      BY <2>4
    <3> QED BY <3>2, <3>3
  <2>5. h[0] = Bound(prog)
    BY <2>2
  <2>6. h = [d \in 0 .. n + 1 |-> h[d]]
    OBVIOUS
  <2>7. h = [d \in 0 .. n + 1 |-> IF d = 0 THEN Bound(prog) ELSE MergeStage(prog, h[d - 1], d - 1)]
    <3> HIDE DEF h
    <3>1. ASSUME NEW d \in 0 .. n + 1
          PROVE  h[d] = IF d = 0 THEN Bound(prog) ELSE MergeStage(prog, h[d - 1], d - 1)
      BY <2>4, <2>5
    <3> QED BY <2>6, <3>1
  <2>8. Merges(prog, n + 1, h)
    <3> HIDE DEF h
    <3> QED BY <2>7 DEF Merges
  <2> QED
    <3> HIDE DEF h
    <3> QED BY <2>2, <2>8
<1>3. T = Nat
  <2>1. T \in SUBSET Nat
    OBVIOUS
  <2> HIDE DEF T
  <2> QED BY <1>1, <1>2, <2>1, Induction
<1> QED
  BY <1>3

LEMMA MergedIsMerges ==
  ASSUME NEW prog
  PROVE  Merged(prog) =
           (CHOOSE g : Merges(prog, Cardinality(StageIds(prog)), g))[Cardinality(StageIds(prog))]
  BY DEF Merged, Merges

\* Only stages of the program are merged away.
LEMMA MergedFacts ==
  ASSUME NEW prog, IsProgram(prog)
  PROVE  Merged(prog).removed \subseteq StageIds(prog)
<1> DEFINE N == Cardinality(StageIds(prog))
           g == CHOOSE g : Merges(prog, N, g)
<1>1. N \in Nat /\ StageIds(prog) = 0 .. N - 1
  BY FS_CardinalityType DEF IsProgram, IsNumbered
<1>2. Merges(prog, N, g)
  BY <1>1, MergesExist
<1>3. Merged(prog) = g[N]
  BY MergedIsMerges
<1> HIDE DEF N, g
<1> DEFINE T == {d \in Nat : d <= N => g[d].removed \subseteq StageIds(prog)}
<1>4. 0 \in T
  <2>1. g[0] = Bound(prog)
    BY <1>1, <1>2 DEF Merges
  <2>2. Bound(prog).removed = {}
    BY DEF Bound
  <2> QED BY <2>1, <2>2
<1>5. ASSUME NEW d \in T PROVE d + 1 \in T
  <2>1. d \in Nat
    OBVIOUS
  <2>2. SUFFICES ASSUME d + 1 <= N PROVE g[d + 1].removed \subseteq StageIds(prog)
    BY <2>1
  <2>3. g[d].removed \subseteq StageIds(prog)
    BY <1>1, <2>1, <2>2
  <2>4. d + 1 \in 0 .. N /\ d + 1 # 0 /\ (d + 1) - 1 = d /\ d \in StageIds(prog)
    BY <1>1, <2>1, <2>2
  <2>5. g[d + 1] = MergeStage(prog, g[d], d)
    BY <1>2, <2>4 DEF Merges
  <2>6. PICK st : st = g[d]
    OBVIOUS
  <2>7. MergeStage(prog, st, d) = st \/ MergeStage(prog, st, d).removed \subseteq st.removed \cup {d}
    BY DEF MergeStage
  <2> QED BY <2>3, <2>4, <2>5, <2>6, <2>7
<1>6. T = Nat
  <2>1. T \in SUBSET Nat
    OBVIOUS
  <2> HIDE DEF T
  <2> QED BY <1>4, <1>5, <2>1, Induction
<1> QED
  BY <1>1, <1>3, <1>6

\* The stages of a chain of removed ones.
Follows(st, k, N, g) ==
  g = [d \in 0 .. N |-> IF d = 0 THEN k ELSE (IF st.goto[g[d - 1]] \in st.removed THEN st.goto[g[d - 1]] ELSE g[d - 1])]

LEMMA FollowsExist ==
  ASSUME NEW st, NEW k, NEW N \in Nat
  PROVE  \E g : Follows(st, k, N, g)
<1> DEFINE T == {n \in Nat : \E g : Follows(st, k, n, g)}
<1>1. 0 \in T
  <2> DEFINE g == [d \in 0 .. 0 |-> k]
  <2>1. Follows(st, k, 0, g)
    BY DEF Follows
  <2> QED BY <2>1
<1>2. ASSUME NEW n \in T PROVE n + 1 \in T
  <2>1. PICK g : Follows(st, k, n, g)
    OBVIOUS
  <2>2. n \in Nat
    OBVIOUS
  <2> DEFINE h == [d \in 0 .. n + 1 |-> IF d = 0 THEN k ELSE (IF st.goto[g[d - 1]] \in st.removed THEN st.goto[g[d - 1]] ELSE g[d - 1])]
  <2>3. ASSUME NEW d \in 0 .. n PROVE h[d] = g[d]
    <3>1. g[d] = IF d = 0 THEN k ELSE (IF st.goto[g[d - 1]] \in st.removed THEN st.goto[g[d - 1]] ELSE g[d - 1])
      BY <2>1 DEF Follows
    <3>2. d \in 0 .. n + 1
      BY <2>2
    <3> QED BY <3>1, <3>2
  <2>4. ASSUME NEW d \in 0 .. n + 1, d # 0 PROVE h[d] = (IF st.goto[h[d - 1]] \in st.removed THEN st.goto[h[d - 1]] ELSE h[d - 1])
    <3>1. d - 1 \in 0 .. n
      BY <2>2, <2>4
    <3>2. h[d - 1] = g[d - 1]
      BY <2>3, <3>1
    <3>3. h[d] = (IF st.goto[g[d - 1]] \in st.removed THEN st.goto[g[d - 1]] ELSE g[d - 1])
      BY <2>4
    <3> QED BY <3>2, <3>3
  <2>5. h[0] = k
    BY <2>2
  <2>6. h = [d \in 0 .. n + 1 |-> h[d]]
    OBVIOUS
  <2>7. h = [d \in 0 .. n + 1 |-> IF d = 0 THEN k ELSE (IF st.goto[h[d - 1]] \in st.removed THEN st.goto[h[d - 1]] ELSE h[d - 1])]
    <3> HIDE DEF h
    <3>1. ASSUME NEW d \in 0 .. n + 1
          PROVE  h[d] = IF d = 0 THEN k ELSE (IF st.goto[h[d - 1]] \in st.removed THEN st.goto[h[d - 1]] ELSE h[d - 1])
      BY <2>4, <2>5
    <3> QED BY <2>6, <3>1
  <2>8. Follows(st, k, n + 1, h)
    <3> HIDE DEF h
    <3> QED BY <2>7 DEF Follows
  <2> QED
    <3> HIDE DEF h
    <3> QED BY <2>2, <2>8
<1>3. T = Nat
  <2>1. T \in SUBSET Nat
    OBVIOUS
  <2> HIDE DEF T
  <2> QED BY <1>1, <1>2, <2>1, Induction
<1> QED
  BY <1>3

LEMMA ChainIsFollows ==
  ASSUME NEW st, NEW k
  PROVE  ChainEnd(st, k) = IF k \in st.removed
           THEN (CHOOSE g : Follows(st, k, Cardinality(st.removed), g))[Cardinality(st.removed)] ELSE k
  BY DEF ChainEnd, Follows

\* A chain of removed stages ends in a removed stage, a stage that is kept in itself.
LEMMA ChainFacts ==
  ASSUME NEW st, IsFiniteSet(st.removed), NEW k
  PROVE  IF k \in st.removed THEN ChainEnd(st, k) \in st.removed ELSE ChainEnd(st, k) = k
<1> DEFINE N == Cardinality(st.removed)
           g == CHOOSE g : Follows(st, k, N, g)
<1>1. N \in Nat
  BY FS_CardinalityType
<1>2. Follows(st, k, N, g)
  BY <1>1, FollowsExist
<1>3. ChainEnd(st, k) = IF k \in st.removed THEN g[N] ELSE k
  BY ChainIsFollows
<1> HIDE DEF N, g
<1>4. SUFFICES ASSUME k \in st.removed PROVE g[N] \in st.removed
  BY <1>3
<1> DEFINE T == {d \in Nat : d <= N => g[d] \in st.removed}
<1>5. 0 \in T
  <2>1. g[0] = k
    BY <1>1, <1>2 DEF Follows
  <2> QED BY <1>4, <2>1
<1>6. ASSUME NEW d \in T PROVE d + 1 \in T
  <2>1. d \in Nat
    OBVIOUS
  <2>2. SUFFICES ASSUME d + 1 <= N PROVE g[d + 1] \in st.removed
    BY <2>1
  <2>3. g[d] \in st.removed
    BY <1>1, <2>1, <2>2
  <2>4. d + 1 \in 0 .. N /\ d + 1 # 0 /\ (d + 1) - 1 = d
    BY <1>1, <2>1, <2>2
  <2>5. g[d + 1] = (IF st.goto[g[(d + 1) - 1]] \in st.removed THEN st.goto[g[(d + 1) - 1]] ELSE g[(d + 1) - 1])
    BY <1>2, <2>4 DEF Follows
  <2> QED BY <2>3, <2>4, <2>5
<1>7. T = Nat
  <2>1. T \in SUBSET Nat
    OBVIOUS
  <2> HIDE DEF T
  <2> QED BY <1>5, <1>6, <2>1, Induction
<1> QED
  BY <1>1, <1>7

\* A table of a stage that is kept has that stage's new number, and its place there,
\* when no table is named twice.
LEMMA TableNumbers ==
  ASSUME NEW prog, IsProgram(prog), NamedOnce(prog), NEW wild,
         NEW s \in DOMAIN Logical(prog, Merged(prog), wild).stages,
         NEW i \in DOMAIN Logical(prog, Merged(prog), wild).stages[s].tables,
         NEW t, t = Logical(prog, Merged(prog), wild).stages[s].tables[i]
  PROVE  /\ t \in DOMAIN prog.mem
         /\ Logical(prog, Merged(prog), wild).proc[t] = s
         /\ Logical(prog, Merged(prog), wild).id[t] = i - 1
<1>1. PICK st : st = Merged(prog)
  OBVIOUS
<1>2. PICK L : L = Logical(prog, st, wild)
  OBVIOUS
<1>3. PICK K : K = Kept(prog, st)
  OBVIOUS
<1>4. PICK k : k = Nth(K, s)
  OBVIOUS
<1>5. /\ k \in K /\ Cardinality(Below(K, k)) = s /\ L.stages[s].tables = TablesOf(prog.stages[k])
  BY <1>1, <1>2, <1>3, <1>4, LogicalStages
<1>6. k \in StageIds(prog) /\ k \notin st.removed /\ k \in Nat
  BY <1>3, <1>5, KeptFacts DEF Kept
<1>7. st.removed \subseteq StageIds(prog) /\ IsFiniteSet(st.removed)
  <2>1. st.removed \subseteq StageIds(prog)
    BY <1>1, MergedFacts
  <2> QED BY <2>1, FS_Subset DEF IsProgram, IsNumbered
<1>8. /\ \A l \in StageIds(prog) : ChainEnd(st, l) \in StageIds(prog)
      /\ \A l \in StageIds(prog) : l \notin st.removed => ChainEnd(st, l) = l
      /\ \A l \in StageIds(prog) : l \in st.removed => ChainEnd(st, l) \in st.removed
  BY <1>7, ChainFacts
<1>9. i \in DOMAIN TablesOf(prog.stages[k]) /\ t = TablesOf(prog.stages[k])[i]
  BY <1>1, <1>2, <1>5
<1>10. t \in DOMAIN prog.mem /\ i \in Nat
  BY <1>6, <1>9, TablesOfFacts
<1>11. ASSUME NEW l \in StageIds(prog), NEW j \in DOMAIN TablesOf(prog.stages[l]), TablesOf(prog.stages[l])[j] = t
       PROVE  l = k /\ j = i
  BY <1>6, <1>9, <1>11, TablesOnce
<1>12. Holder(prog, st, t) = {k}
  <2> DEFINE H == {l \in StageIds(prog) : t \in ToSet(TablesOf(prog.stages[ChainEnd(st, l)]))}
  <2>1. k \in H
    BY <1>6, <1>8, <1>9 DEF ToSet
  <2>2. ASSUME NEW l \in H PROVE l = k
    <3>1. PICK m : m = ChainEnd(st, l)
      OBVIOUS
    <3>2. m \in StageIds(prog)
      BY <1>8, <3>1
    <3>3. PICK j \in DOMAIN TablesOf(prog.stages[m]) : TablesOf(prog.stages[m])[j] = t
      BY <3>1 DEF ToSet
    <3>4. m = k
      BY <1>11, <3>2, <3>3
    <3> QED BY <1>6, <1>8, <3>1, <3>4
  <2>3. H = {k}
    BY <2>1, <2>2
  <2>4. Holder(prog, st, t) = IF H = {} THEN {} ELSE {CHOOSE l \in H : \A j \in H : j <= l}
    BY DEF Holder
  <2> HIDE DEF H
  <2>5. \A l : l \in H => l = k
    BY <2>3
  <2>6. k <= k
    BY <1>6
  <2>7. (CHOOSE l \in H : \A j \in H : j <= l) = k
    BY <2>3, <2>6
  <2> QED BY <2>3, <2>4, <2>7
<1>13. TableStage(prog, st, wild, t) = s
  <2>1. (CHOOSE l \in {k} : TRUE) = k
    OBVIOUS
  <2>2. TableStage(prog, st, wild, t) = NumberOf(st, wild, k)
    BY <1>12, <2>1 DEF TableStage
  <2>3. NumberOf(st, wild, k) = Rank(st, k)
    BY <1>6, <1>8 DEF NumberOf, Reordered
  <2>4. (0 .. k - 1) \ st.removed = Below(K, k)
    <3>1. StageIds(prog) = 0 .. Cardinality(StageIds(prog)) - 1 /\ Cardinality(StageIds(prog)) \in Nat
      BY FS_CardinalityType DEF IsProgram, IsNumbered
    <3>2. \A j : j \in 0 .. k - 1 <=> j \in StageIds(prog) /\ j < k
      BY <1>6, <3>1
    <3> QED BY <1>3, <3>2 DEF Below, Kept
  <2> QED BY <1>5, <2>2, <2>3, <2>4 DEF Rank
<1>14. MatcherId(prog, st, t) = i - 1
  <2> DEFINE P == UNION {{j - 1 : j \in {j \in DOMAIN TablesOf(prog.stages[ChainEnd(st, l)]) :
                                           TablesOf(prog.stages[ChainEnd(st, l)])[j] = t}} :
                           l \in Holder(prog, st, t)}
  <2>1. ChainEnd(st, k) = k
    BY <1>6, <1>8
  <2>2. {j \in DOMAIN TablesOf(prog.stages[k]) : TablesOf(prog.stages[k])[j] = t} = {i}
    BY <1>6, <1>9, <1>11
  <2>3. P = {i - 1}
    BY <1>12, <2>1, <2>2
  <2>4. MatcherId(prog, st, t) = IF P = {} THEN 0 ELSE CHOOSE l \in P : \A j \in P : j <= l
    BY DEF MatcherId
  <2> HIDE DEF P
  <2>5. i - 1 <= i - 1
    BY <1>10
  <2>6. (CHOOSE l \in P : \A j \in P : j <= l) = i - 1
    BY <2>3, <2>5
  <2> QED BY <2>3, <2>4, <2>6
<1>15. L.proc[t] = s /\ L.id[t] = i - 1
  BY <1>2, <1>10, <1>13, <1>14 DEF Logical
<1> QED
  BY <1>1, <1>2, <1>10, <1>15

-----------------------------------------------------------------------------
(***************************************************************************)
(* The levels that lead to a level, and levels in the order they are       *)
(* parsed.                                                                 *)
(***************************************************************************)
\* A set of levels with the ones that lead to it directly.
Above(next, X) == X \cup {m \in DOMAIN next : next[m] \cap X # {}}

\* The levels found after every round of the climb.
Climbs(next, l, N, g) ==
  g = [d \in 0 .. N |-> IF d = 0 THEN {l} ELSE Above(next, g[d - 1])]

LEMMA ClimbsExist ==
  ASSUME NEW next, NEW l, NEW N \in Nat
  PROVE  \E g : Climbs(next, l, N, g)
<1> DEFINE T == {n \in Nat : \E g : Climbs(next, l, n, g)}
<1>1. 0 \in T
  <2> DEFINE g == [d \in 0 .. 0 |-> {l}]
  <2>1. Climbs(next, l, 0, g)
    BY DEF Climbs
  <2> QED BY <2>1
<1>2. ASSUME NEW n \in T PROVE n + 1 \in T
  <2>1. PICK g : Climbs(next, l, n, g)
    OBVIOUS
  <2>2. n \in Nat
    OBVIOUS
  <2> DEFINE h == [d \in 0 .. n + 1 |-> IF d = 0 THEN {l} ELSE Above(next, g[d - 1])]
  <2>3. ASSUME NEW d \in 0 .. n PROVE h[d] = g[d]
    <3>1. g[d] = IF d = 0 THEN {l} ELSE Above(next, g[d - 1])
      BY <2>1 DEF Climbs
    <3>2. d \in 0 .. n + 1
      BY <2>2
    <3> QED BY <3>1, <3>2
  <2>4. ASSUME NEW d \in 0 .. n + 1, d # 0 PROVE h[d] = Above(next, h[d - 1])
    <3>1. d - 1 \in 0 .. n
      BY <2>2, <2>4
    <3>2. h[d - 1] = g[d - 1]
      BY <2>3, <3>1
    <3>3. h[d] = Above(next, g[d - 1])
      BY <2>4
    <3> QED BY <3>2, <3>3
  <2>5. h[0] = {l}
    BY <2>2
  <2>6. h = [d \in 0 .. n + 1 |-> h[d]]
    OBVIOUS
  <2>7. h = [d \in 0 .. n + 1 |-> IF d = 0 THEN {l} ELSE Above(next, h[d - 1])]
    <3> HIDE DEF h
    <3>1. ASSUME NEW d \in 0 .. n + 1
          PROVE  h[d] = IF d = 0 THEN {l} ELSE Above(next, h[d - 1])
      BY <2>4, <2>5
    <3> QED BY <2>6, <3>1
  <2>8. Climbs(next, l, n + 1, h)
    <3> HIDE DEF h
    <3> QED BY <2>7 DEF Climbs
  <2> QED
    <3> HIDE DEF h
    <3> QED BY <2>2, <2>8
<1>3. T = Nat
  <2>1. T \in SUBSET Nat
    OBVIOUS
  <2> HIDE DEF T
  <2> QED BY <1>1, <1>2, <2>1, Induction
<1> QED
  BY <1>3

\* The climb of LevelsUpTo.
LEMMA UpIsClimbs ==
  ASSUME NEW lg, NEW l
  PROVE  LevelsUpTo(lg, l) = (CHOOSE g : Climbs(LevelNext(lg), l, Cardinality(DOMAIN LevelNext(lg)), g))
                               [Cardinality(DOMAIN LevelNext(lg))]
  BY DEF LevelsUpTo, Climbs, Above

\* As many rounds as there are levels find all of them, and no others.
LEMMA UpFacts ==
  ASSUME NEW lg, IsGraph(LevelNext(lg)), NEW l \in DOMAIN LevelNext(lg)
  PROVE  /\ l \in LevelsUpTo(lg, l) /\ LevelsUpTo(lg, l) \subseteq DOMAIN LevelNext(lg)
         /\ Above(LevelNext(lg), LevelsUpTo(lg, l)) = LevelsUpTo(lg, l)
         /\ \A C : l \in C /\ Above(LevelNext(lg), C) = C => LevelsUpTo(lg, l) \subseteq C
<1>1. PICK next : next = LevelNext(lg)
  OBVIOUS
<1> DEFINE D == DOMAIN next
           N == Cardinality(D)
           g == CHOOSE g : Climbs(next, l, N, g)
<1>2. N \in Nat /\ IsFiniteSet(D)
  BY <1>1, FS_CardinalityType DEF IsGraph
<1>3. Climbs(next, l, N, g)
  BY <1>2, ClimbsExist
<1>4. LevelsUpTo(lg, l) = g[N]
  BY <1>1, UpIsClimbs
<1>5. l \in D
  BY <1>1
<1> HIDE DEF D, N, g
<1>6. g[0] = {l}
  BY <1>2, <1>3 DEF Climbs
<1>7. ASSUME NEW d \in Nat, d + 1 <= N PROVE g[d + 1] = Above(next, g[d])
  <2>1. d + 1 \in 0 .. N /\ d + 1 # 0 /\ (d + 1) - 1 = d
    BY <1>2, <1>7
  <2>2. g[d + 1] = Above(next, g[(d + 1) - 1])
    BY <1>3, <2>1 DEF Climbs
  <2> QED BY <2>1, <2>2
<1> DEFINE Grown(d) == /\ l \in g[d] /\ g[d] \subseteq D
                       /\ Above(next, g[d]) = g[d] \/ Cardinality(g[d]) >= d + 1
           T == {d \in Nat : d <= N => Grown(d)}
<1>8. 0 \in T
  <2>1. Cardinality({l}) = 1
    BY FS_Singleton
  <2>2. Cardinality(g[0]) >= 0 + 1
    BY <1>6, <2>1
  <2> QED BY <1>5, <1>6, <2>2
<1>9. ASSUME NEW d \in T PROVE d + 1 \in T
  <2>1. d \in Nat /\ d + 1 \in Nat
    OBVIOUS
  <2>2. SUFFICES ASSUME d + 1 <= N PROVE Grown(d + 1)
    BY <2>1
  <2>3. Grown(d)
    BY <1>2, <2>1, <2>2
  <2>4. PICK X : X = g[d]
    OBVIOUS
  <2>5. PICK Y : Y = Above(next, X)
    OBVIOUS
  <2>6. g[d + 1] = Y
    BY <1>7, <2>1, <2>2, <2>4, <2>5
  <2>7. X \subseteq Y /\ Y \subseteq D /\ l \in Y
    BY <2>3, <2>4, <2>5 DEF Above, D
  <2>8. CASE Y = X
    BY <2>3, <2>4, <2>5, <2>6, <2>7, <2>8
  <2>9. CASE Y # X
    <3>1. PICK y \in Y : y \notin X
      BY <2>7, <2>9
    <3>2. IsFiniteSet(X) /\ IsFiniteSet(Y)
      BY <1>2, <2>7, FS_Subset
    <3>3. Cardinality(X) \in Nat /\ Cardinality(Y) \in Nat
      BY <3>2, FS_CardinalityType
    <3>4. Cardinality(X \cup {y}) = Cardinality(X) + 1
      BY <3>1, <3>2, FS_AddElement
    <3>5. Cardinality(X \cup {y}) <= Cardinality(Y)
      <4>1. X \cup {y} \in SUBSET Y
        BY <2>7, <3>1
      <4> QED BY <3>2, <4>1, FS_Subset
    <3>6. Cardinality(X) >= d + 1
      BY <2>3, <2>4, <2>5, <2>9
    <3>7. Cardinality(Y) >= (d + 1) + 1
      BY <2>1, <3>3, <3>4, <3>5, <3>6
    <3> QED BY <2>6, <2>7, <3>7
  <2> QED BY <2>8, <2>9
<1>10. T = Nat
  <2>1. T \in SUBSET Nat
    OBVIOUS
  <2> HIDE DEF T
  <2> QED BY <1>8, <1>9, <2>1, Induction
<1>11. Grown(N)
  BY <1>2, <1>10
<1>12. Above(next, g[N]) = g[N]
  <2>1. SUFFICES ASSUME Cardinality(g[N]) >= N + 1 PROVE FALSE
    BY <1>11
  <2>2. PICK X : X = g[N]
    OBVIOUS
  <2>3. X \in SUBSET D
    BY <1>11, <2>2
  <2>4. Cardinality(X) <= Cardinality(D)
    BY <1>2, <2>3, FS_Subset
  <2>5. IsFiniteSet(X)
    BY <1>2, <2>3, FS_Subset
  <2>6. Cardinality(X) \in Nat
    BY <2>5, FS_CardinalityType
  <2> QED BY <1>2, <2>1, <2>2, <2>4, <2>6 DEF N
<1>13. ASSUME NEW C, l \in C, Above(next, C) = C PROVE g[N] \subseteq C
  <2> DEFINE U == {d \in Nat : d <= N => g[d] \subseteq C}
  <2>1. 0 \in U
    BY <1>6, <1>13
  <2>2. ASSUME NEW d \in U PROVE d + 1 \in U
    <3>1. d \in Nat /\ d + 1 \in Nat
      OBVIOUS
    <3>2. SUFFICES ASSUME d + 1 <= N PROVE g[d + 1] \subseteq C
      BY <3>1
    <3>3. g[d] \subseteq C
      BY <1>2, <3>1, <3>2
    <3>4. Above(next, g[d]) \subseteq Above(next, C)
      BY <3>3 DEF Above
    <3> QED BY <1>7, <1>13, <3>1, <3>2, <3>4
  <2>3. U = Nat
    <3>1. U \in SUBSET Nat
      OBVIOUS
    <3> HIDE DEF U
    <3> QED BY <2>1, <2>2, <3>1, Induction
  <2> QED BY <1>2, <2>3
<1> QED
  BY <1>1, <1>4, <1>11, <1>12, <1>13 DEF D

\* What leads to a level that leads to another leads to that one.
LEMMA UpNested ==
  ASSUME NEW lg, IsGraph(LevelNext(lg)), NEW l \in DOMAIN LevelNext(lg), NEW m \in LevelsUpTo(lg, l)
  PROVE  LevelsUpTo(lg, m) \subseteq LevelsUpTo(lg, l)
<1>1. PICK C : C = LevelsUpTo(lg, l)
  OBVIOUS
<1>2. Above(LevelNext(lg), C) = C /\ C \subseteq DOMAIN LevelNext(lg) /\ m \in C
  BY <1>1, UpFacts
<1> QED
  BY <1>1, <1>2, UpFacts

\* A sequence of levels in which every level comes after those that lead to it.
InParse(lg, seq) ==
  /\ seq \in Seq(DOMAIN LevelNext(lg))
  /\ \A i \in DOMAIN seq : \A l \in LevelsUpTo(lg, seq[i]) \ {seq[i]} :
       \E j \in 1 .. i - 1 : seq[j] = l

\* The levels the sort lists before a level are all that lead to it.
LEMMA UpBefore ==
  ASSUME NEW lg, IsGraph(LevelNext(lg)), NEW order, order = TopoOrder(LevelNext(lg))
  PROVE  InParse(lg, order)
<1> SUFFICES ASSUME NEW i \in 1 .. Len(order), NEW m \in LevelsUpTo(lg, order[i]), m # order[i]
             PROVE  \E j \in 1 .. i - 1 : order[j] = m
  <2>1. order \in Seq(DOMAIN LevelNext(lg)) /\ DOMAIN order = 1 .. Len(order)
    BY TopoFacts DEF InTopo
  <2> QED BY <2>1 DEF InParse
<1>1. PICK next : next = LevelNext(lg)
  OBVIOUS
<1>2. InTopo(next, order)
  BY <1>1, TopoFacts
<1>3. Len(order) \in Nat /\ i \in Nat /\ i <= Len(order) /\ order[i] \in DOMAIN next
  BY <1>2 DEF InTopo
<1>4. PICK C : C = {order[j] : j \in 1 .. i}
  OBVIOUS
<1>5. order[i] \in C
  BY <1>3, <1>4
<1>6. Above(next, C) = C
  <2>1. ASSUME NEW n \in DOMAIN next, next[n] \cap C # {} PROVE n \in C
    <3>1. PICK j \in 1 .. i : order[j] \in next[n]
      BY <1>4, <2>1
    <3>2. j \in 1 .. Len(order)
      BY <1>3, <3>1
    <3>3. PICK k \in 1 .. j - 1 : order[k] = n
      BY <1>2, <3>1, <3>2 DEF InTopo
    <3>4. k \in 1 .. i
      BY <1>3, <3>1, <3>3
    <3> QED BY <1>4, <3>3, <3>4
  <2> QED BY <2>1 DEF Above
<1>7. m \in C
  BY <1>1, <1>3, <1>5, <1>6, UpFacts
<1>8. PICK j \in 1 .. i : order[j] = m
  BY <1>4, <1>7
<1>9. j # i
  BY <1>8
<1>10. j \in 1 .. i - 1
  BY <1>3, <1>8, <1>9
<1> QED
  BY <1>8, <1>10

\* InParseOrder lists the levels wanted, each after those that lead to it.
LEMMA ParseOrderFacts ==
  ASSUME NEW lg, IsGraph(LevelNext(lg)), IsAcyclic(LevelNext(lg)),
         NEW wanted \in SUBSET DOMAIN LevelNext(lg), NEW seq, seq = InParseOrder(lg, wanted)
  PROVE  /\ seq \in Seq(DOMAIN LevelNext(lg)) /\ ToSet(seq) = wanted
         /\ \A n \in DOMAIN seq : \A m \in wanted \cap LevelsUpTo(lg, seq[n]) :
              m # seq[n] => \E k \in 1 .. n - 1 : seq[k] = m
<1>1. PICK order : order = TopoOrder(LevelNext(lg))
  OBVIOUS
<1>2. /\ order \in Seq(DOMAIN LevelNext(lg)) /\ ToSet(order) = DOMAIN LevelNext(lg)
      /\ \A i, j \in 1 .. Len(order) : order[i] = order[j] => i = j
  BY <1>1, TopoFacts DEF InTopo
<1>3. PICK S : S = {i \in DOMAIN order : order[i] \in wanted}
  OBVIOUS
<1>4. seq = Select(order, S) /\ S \subseteq DOMAIN order
  BY <1>1, <1>3 DEF InParseOrder
<1>5. DOMAIN order = 1 .. Len(order) /\ Len(order) \in Nat
  BY <1>2
<1>6. /\ IsFiniteSet(S) /\ Cardinality(S) \in Nat /\ \A x \in S : x \in Nat
      /\ seq \in Seq(DOMAIN LevelNext(lg)) /\ DOMAIN seq = 1 .. Cardinality(S)
      /\ \A n \in 1 .. Cardinality(S) : seq[n] = order[Nth(S, n - 1)]
  BY <1>2, <1>4, SelectFacts
<1>7. /\ \A n \in 1 .. Cardinality(S) : Nth(S, n - 1) \in S
      /\ \A k \in S : \E n \in 1 .. Cardinality(S) : Nth(S, n - 1) = k
  BY <1>6, InOrderFacts
<1>8. ToSet(seq) = wanted
  <2>1. ASSUME NEW n \in DOMAIN seq PROVE seq[n] \in wanted
    BY <1>3, <1>6, <1>7
  <2>2. ASSUME NEW m \in wanted PROVE \E n \in DOMAIN seq : seq[n] = m
    <3>1. PICK i \in DOMAIN order : order[i] = m
      BY <1>2 DEF ToSet
    <3>2. i \in S
      BY <1>3, <3>1
    <3> QED BY <1>6, <1>7, <3>1, <3>2
  <2> QED BY <2>1, <2>2 DEF ToSet
<1>9. ASSUME NEW n \in DOMAIN seq, NEW m \in wanted \cap LevelsUpTo(lg, seq[n]), m # seq[n]
      PROVE  \E k \in 1 .. n - 1 : seq[k] = m
  <2>1. PICK i \in S : i = Nth(S, n - 1)
    BY <1>6, <1>7
  <2>2. seq[n] = order[i] /\ i \in 1 .. Len(order) /\ n \in 1 .. Cardinality(S)
    BY <1>4, <1>5, <1>6, <2>1
  <2>3. PICK j \in 1 .. i - 1 : order[j] = m
    <3>1. m \in LevelsUpTo(lg, order[i]) /\ m # order[i]
      BY <1>9, <2>2
    <3>2. InParse(lg, order)
      BY <1>1, UpBefore
    <3> QED BY <1>5, <2>2, <3>1, <3>2 DEF InParse
  <2>4. j \in S /\ j < i
    <3>1. j \in DOMAIN order
      BY <1>5, <2>2, <2>3
    <3>2. j \in S
      BY <1>3, <2>3, <3>1
    <3>3. j < i
      BY <2>2, <2>3
    <3> QED BY <3>2, <3>3
  <2>5. PICK k \in 1 .. Cardinality(S) : Nth(S, k - 1) = j
    BY <1>7, <2>4
  <2>6. /\ Cardinality(Below(S, i)) = n - 1 /\ Cardinality(Below(S, j)) = k - 1
    <3>1. n - 1 \in Nat /\ n - 1 < Cardinality(S) /\ k - 1 \in Nat /\ k - 1 < Cardinality(S)
      BY <1>6, <2>2, <2>5
    <3> QED BY <1>6, <2>1, <2>5, <3>1, NthFacts
  <2>7. Cardinality(Below(S, j)) < Cardinality(Below(S, i))
    BY <1>6, <2>1, <2>4, BelowOrdered
  <2>8. k \in 1 .. n - 1
    BY <1>6, <2>2, <2>5, <2>6, <2>7
  <2>9. seq[k] = m
    BY <1>6, <2>3, <2>5
  <2> QED BY <2>8, <2>9
<1> QED
  BY <1>6, <1>8, <1>9

\* The recursion of FlattenSeq.
LEMMA FlattenIsFlattens ==
  ASSUME NEW ss, Len(ss) # 0
  PROVE  FlattenSeq(ss) = (CHOOSE g : Flattens(ss, Len(ss), g))[Len(ss)]
  BY DEF FlattenSeq, Flattens, Joined

\* The places of two sequences joined.
Joins(S, a, b, ab) ==
  /\ ab \in Seq(S) /\ ToSet(ab) = ToSet(a) \cup ToSet(b)
  /\ DOMAIN ab = 1 .. Len(a) + Len(b) /\ Len(a) \in Nat /\ Len(b) \in Nat
  /\ \A i \in 1 .. Len(a) : ab[i] = a[i]
  /\ \A i \in 1 .. Len(b) : ab[Len(a) + i] = b[i]

LEMMA JoinFacts ==
  ASSUME NEW S, NEW a \in Seq(S), NEW b \in Seq(S), NEW ab, ab = Joined(a, b)
  PROVE  Joins(S, a, b, ab)
<1>1. /\ ab \in Seq(S) /\ Len(ab) = Len(a) + Len(b) /\ Len(a) \in Nat /\ Len(b) \in Nat
      /\ \A i \in 1 .. Len(a) : ab[i] = a[i]
  BY DEF Joined
<1>2. DOMAIN ab = 1 .. Len(a) + Len(b) /\ DOMAIN a = 1 .. Len(a) /\ DOMAIN b = 1 .. Len(b)
  BY <1>1
<1>3. ASSUME NEW i \in 1 .. Len(b) PROVE ab[Len(a) + i] = b[i]
  BY DEF Joined
<1>4. ASSUME NEW i \in DOMAIN ab PROVE ab[i] \in ToSet(a) \cup ToSet(b)
  <2>1. CASE i \in 1 .. Len(a)
    BY <1>1, <1>2, <2>1 DEF ToSet
  <2>2. CASE i \notin 1 .. Len(a)
    <3>1. i - Len(a) \in 1 .. Len(b) /\ i = Len(a) + (i - Len(a))
      BY <1>1, <1>2, <1>4, <2>2
    <3> QED BY <1>2, <1>3, <3>1 DEF ToSet
  <2> QED BY <2>1, <2>2
<1>5. ASSUME NEW x \in ToSet(a) \cup ToSet(b) PROVE x \in ToSet(ab)
  <2>1. CASE x \in ToSet(a)
    <3>1. PICK i \in 1 .. Len(a) : a[i] = x
      BY <1>2, <2>1 DEF ToSet
    <3>2. i \in DOMAIN ab /\ ab[i] = x
      BY <1>1, <1>2, <3>1
    <3> QED BY <3>2 DEF ToSet
  <2>2. CASE x \in ToSet(b)
    <3>1. PICK i \in 1 .. Len(b) : b[i] = x
      BY <1>2, <2>2 DEF ToSet
    <3>2. Len(a) + i \in DOMAIN ab /\ ab[Len(a) + i] = x
      BY <1>1, <1>2, <1>3, <3>1
    <3> QED BY <3>2 DEF ToSet
  <2> QED BY <2>1, <2>2
<1>6. ToSet(ab) = ToSet(a) \cup ToSet(b)
  <2>1. ToSet(ab) = {ab[i] : i \in DOMAIN ab}
    BY DEF ToSet
  <2> QED BY <1>4, <1>5, <2>1
<1> QED
  BY <1>1, <1>2, <1>3, <1>6 DEF Joins

\* The levels a stage needs come with all that lead to them.
LEMMA NeededFacts ==
  ASSUME NEW lg, IsGraph(LevelNext(lg)), NEW s
  PROVE  /\ Needed(lg, s) \in SUBSET DOMAIN LevelNext(lg)
         /\ \A l \in Needed(lg, s) : LevelsUpTo(lg, l) \subseteq Needed(lg, s)
<1> DEFINE L == {m \in DOMAIN lg.levels : \E x \in lg.levels[m] : x[1] \in lg.stages[s].headers}
<1>2. Needed(lg, s) = UNION {LevelsUpTo(lg, l) : l \in L}
  BY DEF Needed
<1>3. \A l \in L : l \in DOMAIN LevelNext(lg)
  BY DEF LevelNext
<1> HIDE DEF L
<1>4. ASSUME NEW l \in L PROVE LevelsUpTo(lg, l) \subseteq DOMAIN LevelNext(lg)
  <2>1. l \in DOMAIN LevelNext(lg)
    BY <1>3
  <2> QED BY <2>1, UpFacts
<1>5. ASSUME NEW m \in Needed(lg, s) PROVE LevelsUpTo(lg, m) \subseteq Needed(lg, s)
  <2>1. PICK l \in L : m \in LevelsUpTo(lg, l)
    BY <1>2
  <2>2. LevelsUpTo(lg, m) \subseteq LevelsUpTo(lg, l)
    BY <1>3, <2>1, UpNested
  <2> QED BY <1>2, <2>1, <2>2
<1> QED
  BY <1>2, <1>4, <1>5

\* After levels that were parsed, those a stage needs of the others.
LEMMA ParseNext ==
  ASSUME NEW lg, IsGraph(LevelNext(lg)), IsAcyclic(LevelNext(lg)), NEW s,
         NEW a, InParse(lg, a), NEW had \in SUBSET ToSet(a),
         NEW b, b = InParseOrder(lg, Needed(lg, s) \ had), NEW ab, ab = Joined(a, b)
  PROVE  InParse(lg, ab) /\ had \cup Needed(lg, s) \subseteq ToSet(ab)
<1>1. PICK need : need = Needed(lg, s)
  OBVIOUS
<1>2. PICK wanted : wanted = need \ had
  OBVIOUS
<1>3. need \in SUBSET DOMAIN LevelNext(lg) /\ \A l \in need : LevelsUpTo(lg, l) \subseteq need
  BY <1>1, NeededFacts
<1>4. wanted \in SUBSET DOMAIN LevelNext(lg) /\ b = InParseOrder(lg, wanted)
  BY <1>1, <1>2, <1>3
<1>5. /\ b \in Seq(DOMAIN LevelNext(lg)) /\ ToSet(b) = wanted
      /\ \A n \in DOMAIN b : \A m \in wanted \cap LevelsUpTo(lg, b[n]) :
           m # b[n] => \E k \in 1 .. n - 1 : b[k] = m
  <2>1. \A seq : seq = InParseOrder(lg, wanted) =>
          /\ seq \in Seq(DOMAIN LevelNext(lg)) /\ ToSet(seq) = wanted
          /\ \A n \in DOMAIN seq : \A m \in wanted \cap LevelsUpTo(lg, seq[n]) :
               m # seq[n] => \E k \in 1 .. n - 1 : seq[k] = m
    <3>1. wanted \in SUBSET DOMAIN LevelNext(lg)
      BY <1>4
    <3> QED BY <3>1, ParseOrderFacts
  <2> QED BY <1>4, <2>1
<1>6. a \in Seq(DOMAIN LevelNext(lg)) /\ DOMAIN a = 1 .. Len(a) /\ DOMAIN b = 1 .. Len(b)
  BY <1>5 DEF InParse
<1>7. /\ ab \in Seq(DOMAIN LevelNext(lg)) /\ ToSet(ab) = ToSet(a) \cup ToSet(b)
      /\ DOMAIN ab = 1 .. Len(a) + Len(b) /\ Len(a) \in Nat /\ Len(b) \in Nat
      /\ \A i \in 1 .. Len(a) : ab[i] = a[i]
      /\ \A i \in 1 .. Len(b) : ab[Len(a) + i] = b[i]
  <2>1. PICK D : D = DOMAIN LevelNext(lg)
    OBVIOUS
  <2>2. a \in Seq(D) /\ b \in Seq(D)
    BY <1>5, <1>6, <2>1
  <2>3. Joins(D, a, b, ab)
    BY <2>2, JoinFacts
  <2> QED BY <2>1, <2>3 DEF Joins
<1>8. ASSUME NEW i \in DOMAIN ab, NEW l \in LevelsUpTo(lg, ab[i]) \ {ab[i]}
      PROVE  \E j \in 1 .. i - 1 : ab[j] = l
  <2>1. CASE i \in 1 .. Len(a)
    <3>1. l \in LevelsUpTo(lg, a[i]) \ {a[i]}
      BY <1>7, <1>8, <2>1
    <3>2. PICK j \in 1 .. i - 1 : a[j] = l
      BY <1>6, <2>1, <3>1 DEF InParse
    <3>3. j \in 1 .. Len(a)
      BY <1>7, <2>1, <3>2
    <3> QED BY <1>7, <3>2, <3>3
  <2>2. CASE i \notin 1 .. Len(a)
    <3>1. PICK n \in 1 .. Len(b) : i = Len(a) + n
      <4>1. i - Len(a) \in 1 .. Len(b) /\ i = Len(a) + (i - Len(a))
        BY <1>7, <2>2
      <4> QED BY <4>1
    <3>2. ab[i] = b[n]
      BY <1>7, <3>1
    <3>3. b[n] \in need
      <4>1. b[n] \in ToSet(b)
        BY <1>6 DEF ToSet
      <4> QED BY <1>2, <1>5, <4>1
    <3>4. l \in need
      BY <1>3, <1>8, <3>2, <3>3
    <3>5. CASE l \in had
      <4>1. PICK j \in 1 .. Len(a) : a[j] = l
        BY <1>6, <3>5 DEF ToSet
      <4>2. j \in 1 .. i - 1
        BY <1>7, <3>1, <4>1
      <4> QED BY <1>7, <4>1, <4>2
    <3>6. CASE l \notin had
      <4>1. l \in wanted \cap LevelsUpTo(lg, b[n]) /\ l # b[n]
        BY <1>2, <1>8, <3>2, <3>4, <3>6
      <4>2. PICK k \in 1 .. n - 1 : b[k] = l
        BY <1>5, <1>6, <4>1
      <4>3. k \in 1 .. Len(b) /\ Len(a) + k \in 1 .. i - 1
        BY <1>7, <3>1, <4>2
      <4> QED BY <1>7, <4>2, <4>3
    <3> QED BY <3>5, <3>6
  <2> QED BY <2>1, <2>2
<1>9. InParse(lg, ab)
  BY <1>7, <1>8 DEF InParse
<1>10. had \cup need \subseteq ToSet(ab)
  BY <1>2, <1>5, <1>7
<1> QED
  BY <1>1, <1>9, <1>10

-----------------------------------------------------------------------------
(***************************************************************************)
(* The assignments a program can cause.                                    *)
(***************************************************************************)
\* A sequence of assignments before each of a set of sequences.
Prefixed(a, W) == {Joined(a, w) : w \in W}

\* What the joining of two sequences is, and of three.
LEMMA JoinedType ==
  ASSUME NEW S, NEW a \in Seq(S), NEW b \in Seq(S)
  PROVE  Joined(a, b) \in Seq(S)
  BY DEF Joined

LEMMA JoinedTwice ==
  ASSUME NEW S, NEW a \in Seq(S), NEW b \in Seq(S), NEW c \in Seq(S)
  PROVE  Joined(Joined(a, b), c) = Joined(a, Joined(b, c))
  BY ConcatAssociative DEF Joined

\* The same of a sequence and a set of them.
LEMMA PrefixedType ==
  ASSUME NEW S, NEW a \in Seq(S), NEW W \in SUBSET Seq(S)
  PROVE  Prefixed(a, W) \in SUBSET Seq(S)
  BY JoinedType DEF Prefixed

LEMMA PrefixedTwice ==
  ASSUME NEW S, NEW a \in Seq(S), NEW b \in Seq(S), NEW W \in SUBSET Seq(S)
  PROVE  Prefixed(Joined(a, b), W) = Prefixed(a, Prefixed(b, W))
<1>1. \A w \in W : Joined(Joined(a, b), w) = Joined(a, Joined(b, w))
  BY JoinedTwice
<1> QED
  BY <1>1 DEF Prefixed

\* What may follow one table of a stage, one entry of its switch, and the stage.
Through(prims, ap, W)    == UNION {Prefixed(prims[x.act], W[x.next]) : x \in ToSet(ap)}
After(e, W, through)     == IF e.type = "STAGE" THEN W[e.to] ELSE through
Leaving(edges, W, through) == UNION {After(e, W, through) : e \in edges}
Visit(prog, W, k) ==
  Leaving(ToSet(prog.stages[k].switch), W, Through(prog.prims, prog.stages[k].exec, W))

\* The sequences found after every round of the walk.
Walk(prog, g, d) ==
  [k \in StageIds(prog) \cup {-1} |-> IF d = 0 \/ k = -1 THEN {<<>>} ELSE Visit(prog, g[d - 1], k)]
Walks(prog, N, g) == g = [d \in 0 .. N |-> Walk(prog, g, d)]

\* The walk over a program is well defined, and finds the source's sequences.
LEMMA WalksExist ==
  ASSUME NEW prog, NEW N \in Nat
  PROVE  \E g : Walks(prog, N, g)
<1> DEFINE T == {n \in Nat : \E g : Walks(prog, n, g)}
<1>0. ASSUME NEW g, NEW h, NEW d, d = 0 \/ h[d - 1] = g[d - 1] PROVE Walk(prog, h, d) = Walk(prog, g, d)
  BY <1>0 DEF Walk
<1>1. 0 \in T
  <2> DEFINE g == [d \in 0 .. 0 |-> Walk(prog, <<>>, 0)]
  <2>1. g = [d \in 0 .. 0 |-> Walk(prog, g, d)]
    <3>1. \A d \in 0 .. 0 : d = 0
      OBVIOUS
    <3>2. Walk(prog, g, 0) = Walk(prog, <<>>, 0)
      BY DEF Walk
    <3> QED BY <3>1, <3>2
  <2>2. Walks(prog, 0, g)
    <3> HIDE DEF g
    <3> QED BY <2>1 DEF Walks
  <2> QED BY <2>2
<1>2. ASSUME NEW n \in T PROVE n + 1 \in T
  <2>1. PICK g : Walks(prog, n, g)
    OBVIOUS
  <2>2. n \in Nat
    OBVIOUS
  <2> DEFINE h == [d \in 0 .. n + 1 |-> Walk(prog, g, d)]
  <2>3. ASSUME NEW d \in 0 .. n PROVE h[d] = g[d]
    <3>1. g[d] = Walk(prog, g, d)
      BY <2>1 DEF Walks
    <3>2. d \in 0 .. n + 1
      BY <2>2
    <3> QED BY <3>1, <3>2
  <2>4. ASSUME NEW d \in 0 .. n + 1 PROVE h[d] = Walk(prog, h, d)
    <3>1. d = 0 \/ d - 1 \in 0 .. n
      BY <2>2, <2>4
    <3>2. d = 0 \/ h[d - 1] = g[d - 1]
      BY <2>3, <3>1
    <3>3. h[d] = Walk(prog, g, d)
      BY <2>4
    <3> HIDE DEF h
    <3>4. Walk(prog, h, d) = Walk(prog, g, d)
      BY <1>0, <3>2
    <3> QED BY <3>3, <3>4
  <2>5. h = [d \in 0 .. n + 1 |-> h[d]]
    OBVIOUS
  <2>6. Walks(prog, n + 1, h)
    <3> HIDE DEF h
    <3> QED BY <2>4, <2>5 DEF Walks
  <2> QED
    <3> HIDE DEF h
    <3> QED BY <2>2, <2>6
<1>3. T = Nat
  <2>1. T \in SUBSET Nat
    OBVIOUS
  <2> HIDE DEF T
  <2> QED BY <1>1, <1>2, <2>1, Induction
<1> QED
  BY <1>3

LEMMA SourceIsWalks ==
  ASSUME NEW prog
  PROVE  SourceTraces(prog) =
           (CHOOSE g : Walks(prog, Cardinality(StageIds(prog)) + 1, g))
             [Cardinality(StageIds(prog)) + 1][IF StageIds(prog) = {} THEN -1 ELSE 0]
  BY DEF SourceTraces, Walks, Walk, Visit, Leaving, After, Through, Prefixed, Joined

\* Where the entries and the switch of a stage lead: on, or out.
Onward(prog, k, j) == j = -1 \/ (j \in StageIds(prog) /\ j > k)
Forward(prog) ==
  \A k \in StageIds(prog) :
    /\ \A x \in ToSet(prog.stages[k].exec) : x.act \in DOMAIN prog.prims /\ Onward(prog, k, x.next)
    /\ \A e \in ToSet(prog.stages[k].switch) : e.type = "STAGE" => Onward(prog, k, e.to)

\* The stages of a program are numbered from 0.
LEMMA ProgramStages ==
  ASSUME NEW prog, IsProgram(prog)
  PROVE  /\ Cardinality(StageIds(prog)) \in Nat
         /\ StageIds(prog) = 0 .. Cardinality(StageIds(prog)) - 1
         /\ \A k \in StageIds(prog) : k \in Nat
  BY FS_CardinalityType DEF IsProgram, IsNumbered

\* What an executor entry is, by its place.
Entry(prog, k, i) == prog.stages[k].exec[i]
LEMMA EntryFacts ==
  ASSUME NEW prog, IsProgram(prog), NEW k \in StageIds(prog)
  PROVE  /\ DOMAIN prog.stages[k].exec = 1 .. Len(prog.stages[k].exec)
         /\ Len(prog.stages[k].exec) \in Nat
         /\ \A i \in DOMAIN prog.stages[k].exec :
              /\ Entry(prog, k, i) = [act |-> Entry(prog, k, i).act, next |-> Entry(prog, k, i).next]
              /\ Entry(prog, k, i).act \in DOMAIN prog.prims
              /\ Entry(prog, k, i).next \in StageIds(prog) \cup {-1}
<1> DEFINE R == [act : DOMAIN prog.prims, next : StageIds(prog) \cup {-1}]
<1>1. prog.stages[k].exec \in Seq(R)
  BY DEF IsProgram
<1>2. \A r \in R : /\ r = [act |-> r.act, next |-> r.next] /\ r.act \in DOMAIN prog.prims
                   /\ r.next \in StageIds(prog) \cup {-1}
  OBVIOUS
<1> HIDE DEF R
<1>3. PICK seq \in Seq(R) : seq = prog.stages[k].exec
  BY <1>1
<1>4. DOMAIN seq = 1 .. Len(seq) /\ Len(seq) \in Nat
  OBVIOUS
<1>5. \A i \in DOMAIN seq : seq[i] \in R
  BY <1>4, ElementOfSeq
<1> QED
  BY <1>2, <1>3, <1>4, <1>5 DEF Entry

\* What a switch entry is: it leads to a table or to a stage, or out.
LEMMA SwitchFacts ==
  ASSUME NEW prog, IsProgram(prog), NEW k \in StageIds(prog)
  PROVE  /\ DOMAIN prog.stages[k].switch = 1 .. Len(prog.stages[k].switch)
         /\ Len(prog.stages[k].switch) \in Nat
         /\ \A i \in DOMAIN prog.stages[k].switch :
              /\ prog.stages[k].switch[i].type \in {"TABLE", "STAGE"}
              /\ prog.stages[k].switch[i].type = "STAGE" =>
                   prog.stages[k].switch[i].to \in StageIds(prog) \cup {-1}
<1> DEFINE R == [default : BOOLEAN, type : {"TABLE"}, to : DOMAIN prog.mem]
                  \cup [default : BOOLEAN, type : {"STAGE"}, to : StageIds(prog) \cup {-1}]
<1>1. prog.stages[k].switch \in Seq(R)
  BY DEF IsProgram
<1>2. \A r \in R : /\ r.type \in {"TABLE", "STAGE"}
                   /\ r.type = "STAGE" => r.to \in StageIds(prog) \cup {-1}
  OBVIOUS
<1> HIDE DEF R
<1>3. PICK seq \in Seq(R) : seq = prog.stages[k].switch
  BY <1>1
<1>4. DOMAIN seq = 1 .. Len(seq) /\ Len(seq) \in Nat
  OBVIOUS
<1>5. \A i \in DOMAIN seq : seq[i] \in R
  BY <1>4, ElementOfSeq
<1> QED
  BY <1>2, <1>3, <1>4, <1>5

\* The edges of a plain program lead on or out.
LEMMA PlainForward ==
  ASSUME NEW prog, IsProgram(prog), Plain(prog)
  PROVE  Forward(prog)
<1>1. ASSUME NEW k \in StageIds(prog), NEW x \in ToSet(prog.stages[k].exec)
      PROVE  x.act \in DOMAIN prog.prims /\ Onward(prog, k, x.next)
  <2>1. PICK i \in DOMAIN prog.stages[k].exec : x = Entry(prog, k, i)
    BY DEF ToSet, Entry
  <2>2. x.act \in DOMAIN prog.prims /\ x.next \in StageIds(prog) \cup {-1}
    BY <2>1, EntryFacts
  <2>3. x.next = -1 \/ x.next > k
    BY DEF Plain, Tidy
  <2> QED BY <2>2, <2>3 DEF Onward
<1>2. ASSUME NEW k \in StageIds(prog), NEW e \in ToSet(prog.stages[k].switch), e.type = "STAGE"
      PROVE  Onward(prog, k, e.to)
  <2>1. PICK i \in DOMAIN prog.stages[k].switch : e = prog.stages[k].switch[i]
    BY DEF ToSet
  <2>2. e.to \in StageIds(prog) \cup {-1}
    BY <1>2, <2>1, SwitchFacts
  <2>3. e.to = -1 \/ e.to > k
    BY <1>2 DEF Plain, Tidy
  <2> QED BY <2>2, <2>3 DEF Onward
<1> QED
  BY <1>1, <1>2 DEF Forward

\* A visit depends on the stages after it only.
LEMMA VisitSame ==
  ASSUME NEW prog, Forward(prog), NEW k \in StageIds(prog), NEW W, NEW V,
         \A j : Onward(prog, k, j) => W[j] = V[j]
  PROVE  Visit(prog, W, k) = Visit(prog, V, k)
<1>1. \A x \in ToSet(prog.stages[k].exec) : W[x.next] = V[x.next]
  BY DEF Forward
<1>2. PICK a : a = Through(prog.prims, prog.stages[k].exec, W)
  OBVIOUS
<1>3. a = Through(prog.prims, prog.stages[k].exec, V)
  BY <1>1, <1>2 DEF Through
<1>4. \A e \in ToSet(prog.stages[k].switch) : After(e, W, a) = After(e, V, a)
  BY DEF Forward, After
<1>5. Leaving(ToSet(prog.stages[k].switch), W, a) = Leaving(ToSet(prog.stages[k].switch), V, a)
  BY <1>4 DEF Leaving
<1> QED
  BY <1>2, <1>3, <1>5 DEF Visit

\* A visit finds sequences of assignments, when the stages after it did.
LEMMA VisitType ==
  ASSUME NEW prog, IsProgram(prog), Forward(prog), NEW k \in StageIds(prog), NEW W,
         \A j \in StageIds(prog) \cup {-1} : W[j] \in SUBSET Seq(Assignments(prog))
  PROVE  Visit(prog, W, k) \in SUBSET Seq(Assignments(prog))
<1>1. PICK S : S = Seq(Assignments(prog))
  OBVIOUS
<1>2. ASSUME NEW x \in ToSet(prog.stages[k].exec) PROVE Prefixed(prog.prims[x.act], W[x.next]) \in SUBSET S
  <2>1. x.act \in DOMAIN prog.prims /\ x.next \in StageIds(prog) \cup {-1}
    BY DEF Forward, Onward
  <2>2. prog.prims[x.act] \in Seq(Assignments(prog))
    BY <2>1 DEF IsProgram
  <2>3. W[x.next] \in SUBSET Seq(Assignments(prog))
    BY <2>1
  <2> QED BY <1>1, <2>2, <2>3, PrefixedType
<1>3. PICK a : a = Through(prog.prims, prog.stages[k].exec, W)
  OBVIOUS
<1>4. a \in SUBSET S
  BY <1>2, <1>3 DEF Through
<1>5. ASSUME NEW e \in ToSet(prog.stages[k].switch) PROVE After(e, W, a) \in SUBSET S
  <2>1. e.type = "STAGE" => e.to \in StageIds(prog) \cup {-1}
    BY DEF Forward, Onward
  <2> QED BY <1>1, <1>4, <2>1 DEF After
<1> QED
  BY <1>1, <1>3, <1>5 DEF Visit, Leaving

\* A walk that goes no deeper than the number of stages is one of all depths: what may
\* follow every stage is what its entries and its switch say.
Solves(prog, W) ==
  /\ W[-1] = {<<>>}
  /\ \A k \in StageIds(prog) : W[k] = Visit(prog, W, k)
  /\ \A k \in StageIds(prog) \cup {-1} : W[k] \in SUBSET Seq(Assignments(prog))

\* A walk of as many rounds as there are stages, and one, has found every stage's
\* sequences.
LEMMA Solution ==
  ASSUME NEW prog, IsProgram(prog), Forward(prog)
  PROVE  \E W : Solves(prog, W) /\ SourceTraces(prog) = W[IF StageIds(prog) = {} THEN -1 ELSE 0]
<1> DEFINE N == Cardinality(StageIds(prog))
           g == CHOOSE g : Walks(prog, N + 1, g)
<1>1. N \in Nat /\ StageIds(prog) = 0 .. N - 1
  BY ProgramStages
<1>2. Walks(prog, N + 1, g)
  <2>1. N + 1 \in Nat
    BY <1>1
  <2> HIDE DEF N
  <2> QED BY <2>1, WalksExist
<1>3. SourceTraces(prog) = g[N + 1][IF StageIds(prog) = {} THEN -1 ELSE 0]
  BY SourceIsWalks
<1> HIDE DEF N, g
<1>4. ASSUME NEW d \in 0 .. N + 1
      PROVE  /\ g[d][-1] = {<<>>}
             /\ \A k \in StageIds(prog) : d # 0 => g[d][k] = Visit(prog, g[d - 1], k)
             /\ d = 0 => \A k \in StageIds(prog) : g[d][k] = {<<>>}
  <2>1. g[d] = Walk(prog, g, d)
    BY <1>2 DEF Walks
  <2>2. \A k \in StageIds(prog) : k # -1
    BY <1>1
  <2> QED BY <2>1, <2>2 DEF Walk
<1> DEFINE T == {d \in Nat : d <= N => \A k \in StageIds(prog) : N - k <= d => g[d][k] = g[d + 1][k]}
<1>5. 0 \in T
  BY <1>1
<1>6. ASSUME NEW d \in T PROVE d + 1 \in T
  <2>1. d \in Nat
    OBVIOUS
  <2>2. SUFFICES ASSUME d + 1 <= N, NEW k \in StageIds(prog), N - k <= d + 1
                 PROVE  g[d + 1][k] = g[d + 1 + 1][k]
    BY <2>1
  <2>3. d + 1 \in 0 .. N + 1 /\ d + 1 + 1 \in 0 .. N + 1 /\ d + 1 # 0 /\ d + 1 + 1 # 0
        /\ (d + 1) - 1 = d /\ (d + 1 + 1) - 1 = d + 1 /\ d \in 0 .. N + 1
    BY <1>1, <2>1, <2>2
  <2>4. ASSUME NEW j, Onward(prog, k, j) PROVE g[d][j] = g[d + 1][j]
    <3>1. CASE j = -1
      BY <1>4, <2>3, <3>1
    <3>2. CASE j \in StageIds(prog) /\ j > k
      <4>1. N - j <= d /\ d <= N
        BY <1>1, <2>1, <2>2, <3>2
      <4> QED BY <2>1, <3>2, <4>1
    <3> QED BY <2>4, <3>1, <3>2 DEF Onward
  <2>5. Visit(prog, g[d], k) = Visit(prog, g[d + 1], k)
    BY <2>4, VisitSame
  <2>6. g[d + 1][k] = Visit(prog, g[(d + 1) - 1], k)
    BY <1>4, <2>3
  <2>7. g[d + 1 + 1][k] = Visit(prog, g[(d + 1 + 1) - 1], k)
    BY <1>4, <2>3
  <2> QED BY <2>3, <2>5, <2>6, <2>7
<1>7. T = Nat
  <2>1. T \in SUBSET Nat
    OBVIOUS
  <2> HIDE DEF T
  <2> QED BY <1>5, <1>6, <2>1, Induction
<1>8. \A k \in StageIds(prog) : g[N][k] = g[N + 1][k]
  <2>1. N \in T
    BY <1>1, <1>7
  <2>2. N <= N /\ \A k \in StageIds(prog) : N - k <= N
    BY <1>1
  <2> QED BY <2>1, <2>2
<1> DEFINE U == {d \in Nat : d <= N + 1 =>
                   \A k \in StageIds(prog) \cup {-1} : g[d][k] \in SUBSET Seq(Assignments(prog))}
<1>9. 0 \in U
  <2>1. {<<>>} \in SUBSET Seq(Assignments(prog))
    OBVIOUS
  <2>2. 0 \in 0 .. N + 1
    BY <1>1
  <2>3. \A k \in StageIds(prog) \cup {-1} : g[0][k] = {<<>>}
    BY <1>4, <2>2
  <2> QED BY <2>1, <2>3
<1>10. ASSUME NEW d \in U PROVE d + 1 \in U
  <2>1. d \in Nat
    OBVIOUS
  <2>2. SUFFICES ASSUME d + 1 <= N + 1, NEW k \in StageIds(prog) \cup {-1}
                 PROVE  g[d + 1][k] \in SUBSET Seq(Assignments(prog))
    BY <2>1
  <2>3. d + 1 \in 0 .. N + 1 /\ d + 1 # 0 /\ (d + 1) - 1 = d /\ d <= N + 1
    BY <1>1, <2>1, <2>2
  <2>4. PICK W : W = g[d]
    OBVIOUS
  <2>5. \A j \in StageIds(prog) \cup {-1} : W[j] \in SUBSET Seq(Assignments(prog))
    BY <2>1, <2>3, <2>4
  <2>6. CASE k = -1
    <3>1. g[d + 1][k] = {<<>>}
      BY <1>4, <2>3, <2>6
    <3> QED BY <3>1
  <2>7. CASE k \in StageIds(prog)
    <3>1. g[d + 1][k] = Visit(prog, g[(d + 1) - 1], k)
      BY <1>4, <2>3, <2>7
    <3>2. g[d + 1][k] = Visit(prog, W, k)
      BY <2>3, <2>4, <3>1
    <3> QED BY <2>5, <2>7, <3>2, VisitType
  <2> QED BY <2>6, <2>7
<1>11. U = Nat
  <2>1. U \in SUBSET Nat
    OBVIOUS
  <2> HIDE DEF U
  <2> QED BY <1>9, <1>10, <2>1, Induction
<1>12. PICK W : W = g[N + 1]
  OBVIOUS
<1>13. \A k \in StageIds(prog) : W[k] = Visit(prog, W, k)
  <2>1. N + 1 \in 0 .. N + 1 /\ N + 1 # 0 /\ (N + 1) - 1 = N /\ N \in 0 .. N + 1
    BY <1>1
  <2>2. TAKE k \in StageIds(prog)
  <2>3. W[k] = Visit(prog, g[N], k)
    <3>1. g[N + 1][k] = Visit(prog, g[(N + 1) - 1], k)
      BY <1>4, <2>1
    <3> QED BY <1>12, <2>1, <3>1
  <2>4. ASSUME NEW j, Onward(prog, k, j) PROVE g[N][j] = W[j]
    <3>1. CASE j = -1
      BY <1>4, <1>12, <2>1, <3>1
    <3>2. CASE j \in StageIds(prog)
      BY <1>8, <1>12, <3>2
    <3> QED BY <2>4, <3>1, <3>2 DEF Onward
  <2>5. Visit(prog, g[N], k) = Visit(prog, W, k)
    BY <2>4, VisitSame
  <2> QED BY <2>3, <2>5
<1>14. W[-1] = {<<>>}
  <2>1. N + 1 \in 0 .. N + 1
    BY <1>1
  <2> QED BY <1>4, <1>12, <2>1
<1>15. \A k \in StageIds(prog) \cup {-1} : W[k] \in SUBSET Seq(Assignments(prog))
  <2>1. N + 1 \in U /\ N + 1 <= N + 1
    BY <1>1, <1>11
  <2> QED BY <1>12, <2>1
<1>16. Solves(prog, W)
  BY <1>13, <1>14, <1>15 DEF Solves
<1> QED
  BY <1>3, <1>12, <1>16

-----------------------------------------------------------------------------
(***************************************************************************)
(* The merging, entry by entry.                                            *)
(***************************************************************************)
\* What may follow a stage that is merged: what follows its one entry.
LEMMA VisitVirtual ==
  ASSUME NEW prog, IsProgram(prog), NEW k \in StageIds(prog), IsVirtual(prog.stages[k]),
         prog.stages[k].switch # <<>>, NEW W
  PROVE  Visit(prog, W, k) = Prefixed(prog.prims[Entry(prog, k, 1).act], W[Entry(prog, k, 1).next])
<1>1. PICK a : a = Through(prog.prims, prog.stages[k].exec, W)
  OBVIOUS
<1>2. DOMAIN prog.stages[k].exec = 1 .. 1
  BY EntryFacts DEF IsVirtual
<1>3. ToSet(prog.stages[k].exec) = {Entry(prog, k, 1)}
  BY <1>2 DEF ToSet, Entry
<1>4. a = Prefixed(prog.prims[Entry(prog, k, 1).act], W[Entry(prog, k, 1).next])
  BY <1>1, <1>3 DEF Through
<1>5. PICK E : E = ToSet(prog.stages[k].switch)
  OBVIOUS
<1>6. \A e \in E : e.type = "TABLE"
  BY <1>5 DEF IsVirtual, ToSet
<1>7. \A e \in E : After(e, W, a) = a
  BY <1>6 DEF After
<1>8. E # {}
  <2>1. Len(prog.stages[k].switch) # 0
    <3>1. PICK R : prog.stages[k].switch \in Seq(R)
      BY DEF IsProgram
    <3> QED BY <3>1, EmptySeq
  <2>2. 1 \in DOMAIN prog.stages[k].switch
    BY <2>1, SwitchFacts
  <2> QED BY <1>5, <2>2 DEF ToSet
<1>9. Leaving(E, W, a) = a
  BY <1>7, <1>8 DEF Leaving
<1> QED
  BY <1>1, <1>4, <1>5, <1>9 DEF Visit

\* Every executor entry is visited.
IsEntry(prog, e) == \E k \in StageIds(prog) : \E i \in DOMAIN prog.stages[k].exec : e = <<k, i>>
Visits(prog, seq) ==
  /\ Len(seq) \in Nat
  /\ \A n \in 1 .. Len(seq) : IsEntry(prog, seq[n])
  /\ \A k \in StageIds(prog) : \A i \in DOMAIN prog.stages[k].exec :
       \E n \in 1 .. Len(seq) : seq[n] = <<k, i>>

\* The merging visits every executor entry once.
LEMMA EntriesVisited ==
  ASSUME NEW prog, IsProgram(prog), StageIds(prog) # {}, NEW seq, seq = EntriesInOrder(prog)
  PROVE  Visits(prog, seq)
<1> DEFINE N == Cardinality(StageIds(prog))
           ss == [j \in 1 .. N |-> [i \in 1 .. Len(prog.stages[j - 1].exec) |-> <<j - 1, i>>]]
           P == {e \in StageIds(prog) \X Nat : IsEntry(prog, e)}
           Upto(j) == {e \in P : e[1] < j}
           g == CHOOSE g : Flattens(ss, N, g)
<1>1. N \in Nat /\ StageIds(prog) = 0 .. N - 1 /\ N # 0
  BY ProgramStages
<1>2. ss \in Seq({ss[j] : j \in 1 .. N}) /\ Len(ss) = N
  <2>1. ss \in [1 .. N -> {ss[j] : j \in 1 .. N}]
    OBVIOUS
  <2> HIDE DEF ss, N
  <2> QED BY <1>1, <2>1, FunctionIsSeq
<1>3. seq = g[N]
  <2>1. seq = FlattenSeq(ss)
    BY DEF EntriesInOrder
  <2> HIDE DEF ss, N
  <2> QED BY <1>1, <1>2, <2>1, FlattenIsFlattens
<1>4. Flattens(ss, N, g)
  <2> HIDE DEF ss, N
  <2> QED BY <1>1, FlattensExist
<1>5. ASSUME NEW j \in 1 .. N
      PROVE  ss[j] \in Seq(P) /\ ToSet(ss[j]) = {e \in P : e[1] = j - 1}
  <2>1. PICK k : k = j - 1
    OBVIOUS
  <2>2. k \in StageIds(prog)
    BY <1>1, <2>1
  <2>3. DOMAIN prog.stages[k].exec = 1 .. Len(prog.stages[k].exec) /\ Len(prog.stages[k].exec) \in Nat
    BY <2>2, EntryFacts
  <2>4. PICK n \in Nat : n = Len(prog.stages[k].exec)
    BY <2>3
  <2>5. ss[j] = [i \in 1 .. n |-> <<k, i>>]
    BY <2>1, <2>4
  <2>6. \A i \in 1 .. n : <<k, i>> \in P
    BY <2>2, <2>3, <2>4 DEF IsEntry
  <2>7. PICK f : f = [i \in 1 .. n |-> <<k, i>>]
    OBVIOUS
  <2>8. \A e \in P : e[1] = k => \E i \in 1 .. n : e = <<k, i>>
    BY <2>3, <2>4 DEF IsEntry
  <2> HIDE DEF P, ss
  <2>9. f \in [1 .. n -> P]
    BY <2>6, <2>7
  <2>10. f \in Seq(P) /\ DOMAIN f = 1 .. n
    BY <2>9, FunctionIsSeq
  <2>11. ToSet(f) = {e \in P : e[1] = k}
    BY <2>6, <2>7, <2>8, <2>10 DEF ToSet
  <2> QED BY <2>1, <2>5, <2>7, <2>10, <2>11
<1> HIDE DEF N, ss, g
<1> DEFINE T == {j \in Nat : 1 <= j /\ j <= N => g[j] \in Seq(P) /\ ToSet(g[j]) = Upto(j)}
<1>6. 0 \in T
  OBVIOUS
<1>7. ASSUME NEW j \in T PROVE j + 1 \in T
  <2>1. j \in Nat
    OBVIOUS
  <2>2. SUFFICES ASSUME j + 1 <= N PROVE g[j + 1] \in Seq(P) /\ ToSet(g[j + 1]) = Upto(j + 1)
    BY <2>1
  <2>3. j + 1 \in 1 .. N /\ (j + 1) - 1 = j
    BY <1>1, <2>1, <2>2
  <2>4. ss[j + 1] \in Seq(P) /\ ToSet(ss[j + 1]) = {e \in P : e[1] = j}
    <3>1. ss[j + 1] \in Seq(P) /\ ToSet(ss[j + 1]) = {e \in P : e[1] = (j + 1) - 1}
      BY <1>5, <2>3
    <3> QED BY <2>3, <3>1
  <2>5. \A e \in P : e[1] \in Nat
    BY <1>1
  <2>6. CASE j = 0
    <3>1. g[j + 1] = ss[j + 1]
      BY <1>4, <2>3, <2>6 DEF Flattens
    <3>2. Upto(j + 1) = {e \in P : e[1] = j}
      <4> HIDE DEF P
      <4> QED BY <2>5, <2>6
    <3> QED BY <2>4, <3>1, <3>2
  <2>7. CASE j # 0
    <3>0. \A i \in 1 .. N : i # 1 => g[i] = Joined(g[i - 1], ss[i])
      BY <1>4 DEF Flattens
    <3>1. g[j + 1] = Joined(g[(j + 1) - 1], ss[j + 1])
      BY <2>1, <2>3, <2>7, <3>0
    <3>2. g[j + 1] = Joined(g[j], ss[j + 1])
      BY <2>3, <3>1
    <3>3. g[j] \in Seq(P) /\ ToSet(g[j]) = Upto(j)
      BY <2>1, <2>2, <2>7, <1>1
    <3>4. Upto(j + 1) = Upto(j) \cup {e \in P : e[1] = j}
      <4> HIDE DEF P
      <4> QED BY <2>1, <2>5
    <3> HIDE DEF P, Upto
    <3>5. Joins(P, g[j], ss[j + 1], g[j + 1])
      BY <2>4, <3>2, <3>3, JoinFacts
    <3> QED BY <2>4, <3>3, <3>4, <3>5 DEF Joins
  <2> QED BY <2>6, <2>7
<1>8. T = Nat
  <2>1. T \in SUBSET Nat
    OBVIOUS
  <2> HIDE DEF T
  <2> QED BY <1>6, <1>7, <2>1, Induction
<1>9. seq \in Seq(P) /\ ToSet(seq) = Upto(N)
  <2>1. N \in T /\ 1 <= N /\ N <= N
    BY <1>1, <1>8
  <2> QED BY <1>3, <2>1
<1>10. \A e \in P : e[1] < N
  BY <1>1
<1>11. ASSUME NEW k \in StageIds(prog), NEW i \in DOMAIN prog.stages[k].exec PROVE <<k, i>> \in P
  BY EntryFacts DEF IsEntry
<1>12. \A e \in P : IsEntry(prog, e)
  OBVIOUS
<1> HIDE DEF P
<1>13. ToSet(seq) = P
  BY <1>9, <1>10
<1>14. DOMAIN seq = 1 .. Len(seq) /\ Len(seq) \in Nat
  BY <1>9
<1>15. \A n \in 1 .. Len(seq) : seq[n] \in P
  BY <1>9, ElementOfSeq
<1>16. \A e \in P : \E n \in 1 .. Len(seq) : seq[n] = e
  BY <1>13, <1>14 DEF ToSet
<1> QED
  BY <1>11, <1>12, <1>14, <1>15, <1>16 DEF Visits

\* What one step of the inner loop does to the state of the merging.
Fields == {"ap", "prims", "removed", "goto", "clash"}
Aside(st, r) == DOMAIN r = Fields /\ r.removed = st.removed /\ r.goto = st.goto
Leads(st, k, i, d) == k \notin st.removed /\ st.ap[k][i].next = d
Clashes(st, r) == Aside(st, r) /\ r.ap = st.ap /\ r.prims = st.prims /\ r.clash = TRUE
Moves(st, r, k, i, v, next) ==
  /\ Aside(st, r) /\ r.clash = st.clash
  /\ r.prims = [st.prims EXCEPT ![st.ap[k][i].act] = Joined(st.prims[st.ap[k][i].act], st.prims[v])]
  /\ r.ap = [st.ap EXCEPT ![k] = [st.ap[k] EXCEPT ![i] = [st.ap[k][i] EXCEPT !.next = next]]]

\* An entry is left alone, is found to clash, or takes over the action and leads on.
LEMMA RedirectCases ==
  ASSUME NEW st, DOMAIN st = Fields, NEW k \in DOMAIN st.ap, NEW i \in DOMAIN st.ap[k],
         NEW d, NEW v, NEW next, st.ap[k][i].act \in DOMAIN st.prims,
         NEW r, r = Redirect(st, <<k, i>>, d, v, next)
  PROVE  \/ r = st /\ ~ Leads(st, k, i, d)
         \/ Clashes(st, r)
         \/ Leads(st, k, i, d) /\ Moves(st, r, k, i, v, next)
<1>1. CASE ~ Leads(st, k, i, d)
  BY <1>1 DEF Redirect, Leads
<1>2. CASE Leads(st, k, i, d) /\ ~ CanConcat(st.prims[st.ap[k][i].act], st.prims[v])
  <2>1. r = [st EXCEPT !.clash = TRUE]
    BY <1>2 DEF Redirect, Leads
  <2>2. Clashes(st, r)
    BY <2>1 DEF Clashes, Aside, Fields
  <2> QED BY <2>2
<1>3. CASE Leads(st, k, i, d) /\ CanConcat(st.prims[st.ap[k][i].act], st.prims[v])
  <2>1. r = [st EXCEPT !.prims[st.ap[k][i].act] = @ \o st.prims[v], !.ap[k][i].next = next]
    BY <1>3 DEF Redirect, Leads
  <2>2. Moves(st, r, k, i, v, next)
    BY <2>1 DEF Moves, Aside, Fields, Joined
  <2> QED BY <1>3, <2>2
<1> QED
  BY <1>1, <1>2, <1>3
\* What the merging keeps of an entry: its action, that it leads on, to a stage that is
\* kept if its own is, and what may follow it; the entries of the stages that are still
\* to come are as they were.
Exec(prog, k) == DOMAIN prog.stages[k].exec
EntryInv(prog, W, st, d, k, i) ==
  /\ DOMAIN st.ap[k][i] = {"act", "next"} /\ st.ap[k][i].act = Entry(prog, k, i).act
  /\ Onward(prog, k, st.ap[k][i].next)
  /\ k \notin st.removed => st.ap[k][i].next \notin st.removed
  /\ Prefixed(st.prims[Entry(prog, k, i).act], W[st.ap[k][i].next]) =
       Prefixed(prog.prims[Entry(prog, k, i).act], W[Entry(prog, k, i).next])
  /\ k >= d => /\ st.ap[k][i].next = Entry(prog, k, i).next
               /\ st.prims[Entry(prog, k, i).act] = prog.prims[Entry(prog, k, i).act]
Bindings(prog, st) ==
  /\ DOMAIN st = Fields
  /\ st.prims \in [DOMAIN prog.prims -> Seq(Assignments(prog))]
  /\ DOMAIN st.ap = StageIds(prog) /\ \A k \in StageIds(prog) : DOMAIN st.ap[k] = Exec(prog, k)
MergeInv(prog, W, st, d) ==
  /\ Bindings(prog, st)
  /\ st.removed \subseteq StageIds(prog) /\ \A k \in st.removed : k < d
  /\ \A k \in StageIds(prog) : \A i \in Exec(prog, k) : EntryInv(prog, W, st, d, k, i)

ActsOnce(prog) ==
  \A k, l \in StageIds(prog) : \A i \in Exec(prog, k), j \in Exec(prog, l) :
    Entry(prog, k, i).act = Entry(prog, l, j).act => k = l /\ i = j

\* The stage that is being merged.
Merging(prog, W, d, v, next) ==
  /\ d \in StageIds(prog) /\ v \in DOMAIN prog.prims /\ Onward(prog, d, next)
  /\ 1 \in Exec(prog, d) /\ v = Entry(prog, d, 1).act
  /\ W[d] = Prefixed(prog.prims[v], W[next])

\* An entry that leads to the stage takes over its action and leads on.
LEMMA MovesInv ==
  ASSUME NEW prog, IsProgram(prog), ActsOnce(prog), NEW W, Solves(prog, W),
         NEW d, NEW v, NEW next, Merging(prog, W, d, v, next),
         NEW st, MergeInv(prog, W, st, d), NEW k \in StageIds(prog), NEW i \in Exec(prog, k),
         Leads(st, k, i, d), NEW r, Moves(st, r, k, i, v, next)
  PROVE  MergeInv(prog, W, r, d)
<1>1. /\ DOMAIN r = Fields /\ r.removed = st.removed
      /\ r.prims = [st.prims EXCEPT ![st.ap[k][i].act] = Joined(st.prims[st.ap[k][i].act], st.prims[v])]
      /\ r.ap = [st.ap EXCEPT ![k] = [st.ap[k] EXCEPT ![i] = [st.ap[k][i] EXCEPT !.next = next]]]
  BY DEF Moves, Aside
<1>2. PICK a : a = Entry(prog, k, i).act
  OBVIOUS
<1>3. st.ap[k][i].act = a /\ a \in DOMAIN prog.prims /\ st.ap[k][i].next = d
  BY <1>2, EntryFacts DEF MergeInv, EntryInv, Leads, Exec
<1>4. d \in Nat /\ k \in Nat /\ k < d
  <2>1. Onward(prog, k, d)
    BY <1>3 DEF MergeInv, EntryInv
  <2>2. d \in Nat /\ k \in Nat
    BY ProgramStages DEF Merging
  <2> QED BY <2>1, <2>2 DEF Onward
<1>5. a # v
  <2>1. ASSUME a = v PROVE k = d
    BY <1>2, <2>1 DEF ActsOnce, Merging
  <2> QED BY <1>4, <2>1
<1>6. st.prims[v] = prog.prims[v]
  <2>1. EntryInv(prog, W, st, d, d, 1)
    BY DEF MergeInv, Merging
  <2>2. d >= d
    BY <1>4
  <2> QED BY <2>1, <2>2 DEF EntryInv, Merging
<1>7. st.prims \in [DOMAIN prog.prims -> Seq(Assignments(prog))] /\ DOMAIN st.ap = StageIds(prog)
      /\ \A l \in StageIds(prog) : DOMAIN st.ap[l] = Exec(prog, l)
  BY DEF MergeInv, Bindings
<1>8. PICK p : p = Joined(st.prims[a], st.prims[v])
  OBVIOUS
<1>9. p \in Seq(Assignments(prog)) /\ v \in DOMAIN prog.prims
  <2>1. v \in DOMAIN prog.prims
    BY DEF Merging
  <2>2. st.prims[a] \in Seq(Assignments(prog)) /\ st.prims[v] \in Seq(Assignments(prog))
    BY <1>3, <1>7, <2>1
  <2> QED BY <1>8, <2>1, <2>2, JoinedType
<1>10. r.prims = [st.prims EXCEPT ![a] = p]
  BY <1>1, <1>3, <1>8
<1>11. /\ r.prims \in [DOMAIN prog.prims -> Seq(Assignments(prog))]
       /\ r.prims[a] = p /\ \A b \in DOMAIN prog.prims : b # a => r.prims[b] = st.prims[b]
  BY <1>3, <1>7, <1>9, <1>10
<1>12. /\ DOMAIN r.ap = StageIds(prog) /\ \A l \in StageIds(prog) : DOMAIN r.ap[l] = Exec(prog, l)
       /\ r.ap[k][i] = [st.ap[k][i] EXCEPT !.next = next]
       /\ \A l \in StageIds(prog) : \A j \in Exec(prog, l) : l # k \/ j # i => r.ap[l][j] = st.ap[l][j]
  BY <1>1, <1>7
<1>13. Bindings(prog, r)
  BY <1>1, <1>11, <1>12 DEF Bindings
<1>14. next \notin st.removed
  <2>1. next = -1 \/ (next \in StageIds(prog) /\ next > d)
    BY DEF Merging, Onward
  <2>2. st.removed \subseteq StageIds(prog) /\ \A l \in st.removed : l < d
    BY DEF MergeInv
  <2>3. \A l \in st.removed : l \in Nat /\ l < d
    BY <2>2, ProgramStages
  <2>4. CASE next = -1
    BY <2>3, <2>4
  <2>5. CASE next \in StageIds(prog) /\ next > d
    <3>1. next \in Nat
      BY <2>5, ProgramStages
    <3> QED BY <1>4, <2>3, <2>5, <3>1
  <2> QED BY <2>1, <2>4, <2>5
<1>15. EntryInv(prog, W, r, d, k, i)
  <2>1. EntryInv(prog, W, st, d, k, i)
    BY DEF MergeInv
  <2>2. DOMAIN r.ap[k][i] = {"act", "next"} /\ r.ap[k][i].act = a /\ r.ap[k][i].next = next
    BY <1>2, <1>12, <2>1 DEF EntryInv
  <2>3. Onward(prog, k, next)
    <3>1. next = -1 \/ (next \in StageIds(prog) /\ next > d)
      BY DEF Merging, Onward
    <3>2. CASE next \in StageIds(prog) /\ next > d
      <4>1. next \in Nat
        BY <3>2, ProgramStages
      <4>2. next > k
        BY <1>4, <3>2, <4>1
      <4> QED BY <3>2, <4>2 DEF Onward
    <3> QED BY <3>1, <3>2 DEF Onward
  <2>4. Prefixed(p, W[next]) = Prefixed(prog.prims[a], W[Entry(prog, k, i).next])
    <3>1. next \in StageIds(prog) \cup {-1}
      BY DEF Merging, Onward
    <3>2. W[next] \in SUBSET Seq(Assignments(prog))
      BY <3>1 DEF Solves
    <3>3. st.prims[a] \in Seq(Assignments(prog)) /\ st.prims[v] \in Seq(Assignments(prog))
      BY <1>3, <1>7, <1>9
    <3>4. Prefixed(p, W[next]) = Prefixed(st.prims[a], Prefixed(st.prims[v], W[next]))
      BY <1>8, <3>2, <3>3, PrefixedTwice
    <3>5. Prefixed(st.prims[v], W[next]) = W[d]
      BY <1>6 DEF Merging
    <3>6. Prefixed(st.prims[a], W[d]) = Prefixed(prog.prims[a], W[Entry(prog, k, i).next])
      BY <1>2, <1>3, <2>1 DEF EntryInv
    <3> QED BY <3>4, <3>5, <3>6
  <2>5. ~ (k >= d)
    BY <1>4
  <2> QED BY <1>1, <1>2, <1>11, <1>14, <2>2, <2>3, <2>4, <2>5 DEF EntryInv
<1>16. ASSUME NEW l \in StageIds(prog), NEW j \in Exec(prog, l), l # k \/ j # i
       PROVE  EntryInv(prog, W, r, d, l, j)
  <2>1. EntryInv(prog, W, st, d, l, j)
    BY DEF MergeInv
  <2>2. Entry(prog, l, j).act # a
    BY <1>2, <1>16 DEF ActsOnce
  <2>3. Entry(prog, l, j).act \in DOMAIN prog.prims
    BY EntryFacts DEF Exec
  <2>4. r.prims[Entry(prog, l, j).act] = st.prims[Entry(prog, l, j).act]
    BY <1>11, <2>2, <2>3
  <2>5. r.ap[l][j] = st.ap[l][j]
    BY <1>12, <1>16
  <2> QED BY <1>1, <2>1, <2>4, <2>5 DEF EntryInv
<1>17. \A l \in StageIds(prog) : \A j \in Exec(prog, l) : EntryInv(prog, W, r, d, l, j)
  BY <1>15, <1>16
<1> QED
  BY <1>1, <1>13, <1>17 DEF MergeInv

\* Leading around a stage keeps the clashes of its actions and of others apart.
LEMMA AsideInv ==
  ASSUME NEW prog, NEW W, NEW d, NEW st, MergeInv(prog, W, st, d),
         NEW r, DOMAIN r = Fields, r.ap = st.ap, r.prims = st.prims, r.removed = st.removed
  PROVE  MergeInv(prog, W, r, d)
<1>1. Bindings(prog, r)
  BY DEF MergeInv, Bindings
<1>2. \A k \in StageIds(prog) : \A i \in Exec(prog, k) : EntryInv(prog, W, r, d, k, i)
  BY DEF MergeInv, EntryInv
<1> QED
  BY <1>1, <1>2 DEF MergeInv

\* The entries visited so far do not lead to the stage any more, unless one clashed.
Passed(st, e, d)   == st.clash = TRUE \/ ~ Leads(st, e[1], e[2], d)
Gone(st, seq, n, d) == \A m \in 1 .. n : Passed(st, seq[m], d)

\* A redirected entry keeps the sequences found through it.
LEMMA RedirectInv ==
  ASSUME NEW prog, IsProgram(prog), ActsOnce(prog), NEW W, Solves(prog, W),
         NEW d, NEW v, NEW next, Merging(prog, W, d, v, next),
         NEW st, MergeInv(prog, W, st, d), NEW seq, NEW n \in Nat, Gone(st, seq, n, d),
         \A m \in 1 .. n + 1 : IsEntry(prog, seq[m]),
         NEW r, r = Redirect(st, seq[n + 1], d, v, next)
  PROVE  MergeInv(prog, W, r, d) /\ Aside(st, r) /\ Gone(r, seq, n + 1, d)
<1>0. n + 1 \in 1 .. n + 1
  OBVIOUS
<1>9. PICK k \in StageIds(prog) : \E i \in Exec(prog, k) : seq[n + 1] = <<k, i>>
  BY <1>0 DEF IsEntry, Exec
<1>1. PICK i \in Exec(prog, k) : seq[n + 1] = <<k, i>>
  BY <1>9
<1>2. /\ DOMAIN st = Fields /\ k \in DOMAIN st.ap /\ i \in DOMAIN st.ap[k]
      /\ st.ap[k][i].act \in DOMAIN st.prims
  <2>1. EntryInv(prog, W, st, d, k, i)
    BY DEF MergeInv
  <2>2. Entry(prog, k, i).act \in DOMAIN prog.prims
    BY EntryFacts DEF Exec
  <2> QED BY <2>1, <2>2 DEF MergeInv, Bindings, EntryInv
<1>3. \/ r = st /\ ~ Leads(st, k, i, d)
      \/ Clashes(st, r)
      \/ Leads(st, k, i, d) /\ Moves(st, r, k, i, v, next)
  BY <1>1, <1>2, RedirectCases
<1>4. \A m \in 1 .. n + 1 : m \in 1 .. n \/ m = n + 1
  OBVIOUS
<1>5. CASE r = st /\ ~ Leads(st, k, i, d)
  <2>1. Passed(r, seq[n + 1], d)
    BY <1>1, <1>5 DEF Passed
  <2>2. Gone(r, seq, n + 1, d)
    BY <1>4, <1>5, <2>1 DEF Gone
  <2>3. Aside(st, r)
    BY <1>2, <1>5 DEF Aside
  <2> QED BY <1>5, <2>2, <2>3
<1>6. CASE Clashes(st, r)
  <2>1. MergeInv(prog, W, r, d)
    BY <1>6, AsideInv DEF Clashes, Aside
  <2>2. Gone(r, seq, n + 1, d)
    BY <1>6 DEF Gone, Passed, Clashes
  <2> QED BY <1>6, <2>1, <2>2 DEF Clashes
<1>7. CASE Leads(st, k, i, d) /\ Moves(st, r, k, i, v, next)
  <2>1. MergeInv(prog, W, r, d)
    BY <1>7, MovesInv
  <2>2. r.removed = st.removed /\ r.clash = st.clash
    BY <1>7 DEF Moves, Aside
  <2>3. /\ r.ap[k][i].next = next
        /\ \A l \in StageIds(prog) : \A j \in Exec(prog, l) : l # k \/ j # i => r.ap[l][j] = st.ap[l][j]
    <3>1. r.ap = [st.ap EXCEPT ![k] = [st.ap[k] EXCEPT ![i] = [st.ap[k][i] EXCEPT !.next = next]]]
      BY <1>7 DEF Moves
    <3>2. DOMAIN st.ap = StageIds(prog) /\ \A l \in StageIds(prog) : DOMAIN st.ap[l] = Exec(prog, l)
      BY DEF MergeInv, Bindings
    <3>3. "next" \in DOMAIN st.ap[k][i]
      BY DEF MergeInv, EntryInv
    <3> QED BY <3>1, <3>2, <3>3
  <2>4. next # d
    <3>1. d \in Nat
      BY ProgramStages DEF Merging
    <3> QED BY <3>1 DEF Merging, Onward
  <2>5. ASSUME NEW m \in 1 .. n + 1 PROVE Passed(r, seq[m], d)
    <3>4. PICK l \in StageIds(prog) : \E j \in Exec(prog, l) : seq[m] = <<l, j>>
      BY DEF IsEntry, Exec
    <3>1. PICK j \in Exec(prog, l) : seq[m] = <<l, j>>
      BY <3>4
    <3>2. CASE l = k /\ j = i
      BY <2>3, <2>4, <3>1, <3>2 DEF Passed, Leads
    <3>3. CASE l # k \/ j # i
      <4>1. m \in 1 .. n
        BY <1>1, <1>4, <3>1, <3>3
      <4>2. Passed(st, seq[m], d)
        BY <4>1 DEF Gone
      <4>3. r.ap[l][j] = st.ap[l][j]
        BY <2>3, <3>3
      <4> QED BY <2>2, <3>1, <4>2, <4>3 DEF Passed, Leads
    <3> QED BY <3>2, <3>3
  <2>6. Gone(r, seq, n + 1, d)
    BY <2>5 DEF Gone
  <2> QED BY <1>7, <2>1, <2>6 DEF Moves
<1> QED
  BY <1>3, <1>5, <1>6, <1>7

\* The state of the merging after every entry.
Absorbs(seq, st, d, v, next, N, g) ==
  g = [n \in 0 .. N |-> IF n = 0 THEN [st EXCEPT !.clash = FALSE]
                        ELSE Redirect(g[n - 1], seq[n], d, v, next)]

\* The absorbing of a stage is well defined.
LEMMA AbsorbsExist ==
  ASSUME NEW seq, NEW st, NEW k, NEW v, NEW next, NEW N \in Nat
  PROVE  \E g : Absorbs(seq, st, k, v, next, N, g)
<1> DEFINE T == {n \in Nat : \E g : Absorbs(seq, st, k, v, next, n, g)}
           first == [st EXCEPT !.clash = FALSE]
<1>1. 0 \in T
  <2> DEFINE g == [d \in 0 .. 0 |-> first]
  <2>1. Absorbs(seq, st, k, v, next, 0, g)
    BY DEF Absorbs
  <2> QED BY <2>1
<1>2. ASSUME NEW n \in T PROVE n + 1 \in T
  <2>1. PICK g : Absorbs(seq, st, k, v, next, n, g)
    OBVIOUS
  <2>2. n \in Nat
    OBVIOUS
  <2> DEFINE h == [d \in 0 .. n + 1 |-> IF d = 0 THEN first ELSE Redirect(g[d - 1], seq[d], k, v, next)]
  <2>3. ASSUME NEW d \in 0 .. n PROVE h[d] = g[d]
    <3>1. g[d] = IF d = 0 THEN first ELSE Redirect(g[d - 1], seq[d], k, v, next)
      BY <2>1 DEF Absorbs
    <3>2. d \in 0 .. n + 1
      BY <2>2
    <3> QED BY <3>1, <3>2
  <2>4. ASSUME NEW d \in 0 .. n + 1, d # 0 PROVE h[d] = Redirect(h[d - 1], seq[d], k, v, next)
    <3>1. d - 1 \in 0 .. n
      BY <2>2, <2>4
    <3>2. h[d - 1] = g[d - 1]
      BY <2>3, <3>1
    <3>3. h[d] = Redirect(g[d - 1], seq[d], k, v, next)
      BY <2>4
    <3> QED BY <3>2, <3>3
  <2>5. h[0] = first
    BY <2>2
  <2>6. h = [d \in 0 .. n + 1 |-> h[d]]
    OBVIOUS
  <2>7. h = [d \in 0 .. n + 1 |-> IF d = 0 THEN first ELSE Redirect(h[d - 1], seq[d], k, v, next)]
    <3> HIDE DEF h, first
    <3>1. ASSUME NEW d \in 0 .. n + 1
          PROVE  h[d] = IF d = 0 THEN first ELSE Redirect(h[d - 1], seq[d], k, v, next)
      BY <2>4, <2>5
    <3> QED BY <2>6, <3>1
  <2>8. Absorbs(seq, st, k, v, next, n + 1, h)
    <3> HIDE DEF h
    <3> QED BY <2>7 DEF Absorbs
  <2> QED
    <3> HIDE DEF h
    <3> QED BY <2>2, <2>8
<1>3. T = Nat
  <2>1. T \in SUBSET Nat
    OBVIOUS
  <2> HIDE DEF T
  <2> QED BY <1>1, <1>2, <2>1, Induction
<1> QED
  BY <1>3

LEMMA AbsorbedIsAbsorbs ==
  ASSUME NEW prog, NEW st, NEW k
  PROVE  Absorbed(prog, st, k) =
           (CHOOSE g : Absorbs(EntriesInOrder(prog), st, k, prog.stages[k].exec[1].act,
                               prog.stages[k].exec[1].next, Len(EntriesInOrder(prog)), g))
             [Len(EntriesInOrder(prog))]
  BY DEF Absorbed, Absorbs

\* What the loop over the entries leaves.
LEMMA AbsorbedInv ==
  ASSUME NEW prog, IsProgram(prog), ActsOnce(prog), NEW W, Solves(prog, W), NEW d,
         Merging(prog, W, d, prog.stages[d].exec[1].act, prog.stages[d].exec[1].next),
         NEW st, MergeInv(prog, W, st, d), NEW m, m = Absorbed(prog, st, d)
  PROVE  /\ MergeInv(prog, W, m, d) /\ Aside(st, m)
         /\ \A k \in StageIds(prog) : \A i \in Exec(prog, k) : m.clash = TRUE \/ ~ Leads(m, k, i, d)
<1>1. PICK seq : seq = EntriesInOrder(prog)
  OBVIOUS
<1>2. PICK N : N = Len(seq)
  OBVIOUS
<1>3. PICK v : v = prog.stages[d].exec[1].act
  OBVIOUS
<1>4. PICK next : next = prog.stages[d].exec[1].next
  OBVIOUS
<1>5. Merging(prog, W, d, v, next)
  BY <1>3, <1>4
<1>6. /\ N \in Nat /\ \A n \in 1 .. N : IsEntry(prog, seq[n])
      /\ \A k \in StageIds(prog) : \A i \in Exec(prog, k) : \E n \in 1 .. N : seq[n] = <<k, i>>
  <2>1. StageIds(prog) # {}
    BY <1>5 DEF Merging
  <2>2. Visits(prog, seq)
    BY <1>1, <2>1, EntriesVisited
  <2>3. ASSUME NEW k \in StageIds(prog), NEW i \in Exec(prog, k) PROVE \E n \in 1 .. N : seq[n] = <<k, i>>
    <3>1. i \in DOMAIN prog.stages[k].exec
      BY DEF Exec
    <3>2. PICK n \in 1 .. Len(seq) : seq[n] = <<k, i>>
      BY <2>2, <3>1 DEF Visits
    <3> QED BY <1>2, <3>2
  <2> QED BY <1>2, <2>2, <2>3 DEF Visits
<1>7. PICK g : g = CHOOSE h : Absorbs(seq, st, d, v, next, N, h)
  OBVIOUS
<1>8. Absorbs(seq, st, d, v, next, N, g)
  BY <1>6, <1>7, AbsorbsExist
<1>9. m = g[N]
  BY <1>1, <1>2, <1>3, <1>4, <1>7, AbsorbedIsAbsorbs
<1> DEFINE Done(n) == MergeInv(prog, W, g[n], d) /\ Aside(st, g[n]) /\ Gone(g[n], seq, n, d)
           T == {n \in Nat : n <= N => Done(n)}
<1>10. 0 \in T
  <2>1. PICK r : r = [st EXCEPT !.clash = FALSE]
    OBVIOUS
  <2>2. g[0] = r
    BY <1>6, <1>8, <2>1 DEF Absorbs
  <2>3. DOMAIN st = Fields
    BY DEF MergeInv, Bindings
  <2>4. DOMAIN r = Fields /\ r.ap = st.ap /\ r.prims = st.prims /\ r.removed = st.removed /\ r.goto = st.goto
    BY <2>1, <2>3 DEF Fields
  <2>5. MergeInv(prog, W, r, d)
    BY <2>4, AsideInv
  <2>6. Gone(r, seq, 0, d)
    BY DEF Gone
  <2>7. Aside(st, r)
    BY <2>4 DEF Aside
  <2> QED BY <2>2, <2>5, <2>6, <2>7
<1>11. ASSUME NEW n \in T PROVE n + 1 \in T
  <2>1. n \in Nat
    OBVIOUS
  <2>2. SUFFICES ASSUME n + 1 <= N PROVE Done(n + 1)
    BY <2>1
  <2>3. n + 1 \in 0 .. N /\ n + 1 # 0 /\ (n + 1) - 1 = n /\ n <= N /\ \A j \in 1 .. n + 1 : j \in 1 .. N
    BY <1>6, <2>1, <2>2
  <2>4. Done(n)
    BY <2>1, <2>3
  <2>5. PICK s : s = g[n]
    OBVIOUS
  <2>6. PICK r : r = g[n + 1]
    OBVIOUS
  <2>7. r = Redirect(s, seq[n + 1], d, v, next)
    <3>1. \A j \in 0 .. N : j # 0 => g[j] = Redirect(g[j - 1], seq[j], d, v, next)
      BY <1>8 DEF Absorbs
    <3> QED BY <2>3, <2>5, <2>6, <3>1
  <2>8. MergeInv(prog, W, s, d) /\ Aside(st, s) /\ Gone(s, seq, n, d)
    BY <2>4, <2>5
  <2>9. \A j \in 1 .. n + 1 : IsEntry(prog, seq[j])
    BY <1>6, <2>3
  <2>10. MergeInv(prog, W, r, d) /\ Aside(s, r) /\ Gone(r, seq, n + 1, d)
    BY <1>5, <2>1, <2>7, <2>8, <2>9, RedirectInv
  <2>11. Aside(st, r)
    BY <2>8, <2>10 DEF Aside
  <2> QED BY <2>6, <2>10, <2>11
<1>12. T = Nat
  <2>1. T \in SUBSET Nat
    OBVIOUS
  <2> HIDE DEF T
  <2> QED BY <1>10, <1>11, <2>1, Induction
<1>13. Done(N)
  <2>1. N \in T /\ N <= N
    BY <1>6, <1>12
  <2> QED BY <2>1
<1>14. ASSUME NEW k \in StageIds(prog), NEW i \in Exec(prog, k)
       PROVE  m.clash = TRUE \/ ~ Leads(m, k, i, d)
  <2>1. PICK n \in 1 .. N : seq[n] = <<k, i>>
    BY <1>6
  <2>2. Passed(m, seq[n], d)
    BY <1>9, <1>13 DEF Gone
  <2> QED BY <2>1, <2>2 DEF Passed
<1> QED
  BY <1>9, <1>13, <1>14

\* One stage of the outer loop.
LEMMA MergeStageInv ==
  ASSUME NEW prog, IsProgram(prog), ActsOnce(prog), Forward(prog), NEW W, Solves(prog, W),
         NEW d \in StageIds(prog), prog.stages[d].switch # <<>>,
         NEW st, MergeInv(prog, W, st, d), NEW r, r = MergeStage(prog, st, d)
  PROVE  MergeInv(prog, W, r, d + 1)
<1>0. d \in Nat /\ \A k \in StageIds(prog) : k \in Nat
  BY ProgramStages
<1>1. CASE ~ CanMerge(prog, d)
  <2>1. r = st
    BY <1>1 DEF MergeStage
  <2>2. ASSUME NEW k \in StageIds(prog) PROVE (k < d => k < d + 1) /\ (k >= d + 1 => k >= d)
    <3>1. k \in Nat /\ d \in Nat
      BY <1>0
    <3> QED BY <3>1
  <2>3. ASSUME NEW k \in StageIds(prog), NEW i \in Exec(prog, k)
        PROVE  EntryInv(prog, W, st, d + 1, k, i)
    <3>2. EntryInv(prog, W, st, d, k, i)
      BY DEF MergeInv
    <3> QED BY <2>2, <3>2 DEF EntryInv
  <2>4. Bindings(prog, st) /\ st.removed \subseteq StageIds(prog) /\ \A k \in st.removed : k < d + 1
    BY <2>2 DEF MergeInv
  <2> QED BY <2>1, <2>3, <2>4 DEF MergeInv
<1>2. CASE CanMerge(prog, d)
  <2>1. PICK v : v = prog.stages[d].exec[1].act
    OBVIOUS
  <2>2. PICK next : next = prog.stages[d].exec[1].next
    OBVIOUS
  <2>3. IsVirtual(prog.stages[d])
    BY <1>2 DEF CanMerge
  <2>4. Merging(prog, W, d, v, next)
    <3>1. 1 \in Exec(prog, d)
      BY <2>3, EntryFacts DEF IsVirtual, Exec
    <3>2. v = Entry(prog, d, 1).act /\ next = Entry(prog, d, 1).next
      BY <2>1, <2>2 DEF Entry
    <3>3. Entry(prog, d, 1) \in ToSet(prog.stages[d].exec)
      BY <3>1 DEF ToSet, Entry, Exec
    <3>4. v \in DOMAIN prog.prims /\ Onward(prog, d, next)
      BY <3>2, <3>3 DEF Forward
    <3>5. W[d] = Prefixed(prog.prims[v], W[next])
      BY <2>3, <3>2, VisitVirtual DEF Solves
    <3> QED BY <3>1, <3>2, <3>4, <3>5 DEF Merging
  <2>5. PICK m : m = Absorbed(prog, st, d)
    OBVIOUS
  <2>6. /\ MergeInv(prog, W, m, d) /\ Aside(st, m)
        /\ \A k \in StageIds(prog) : \A i \in Exec(prog, k) : m.clash = TRUE \/ ~ Leads(m, k, i, d)
    BY <2>1, <2>2, <2>4, <2>5, AbsorbedInv
  <2>7. PICK R : R = st.removed \cup (IF m.clash THEN {} ELSE {d})
    OBVIOUS
  <2>8. PICK G : G = IF m.clash THEN st.goto
                     ELSE [x \in DOMAIN st.goto \cup {d} |-> IF x = d THEN next ELSE st.goto[x]]
    OBVIOUS
  <2>9. r = [ap |-> m.ap, prims |-> m.prims, clash |-> m.clash, removed |-> R, goto |-> G]
    BY <1>2, <2>2, <2>5, <2>7, <2>8 DEF MergeStage
  <2>10. R = st.removed \/ R = st.removed \cup {d}
    BY <2>7
  <2>11. m.clash = TRUE => R = st.removed
    BY <2>7
  <2>12. r.ap = m.ap /\ r.prims = m.prims /\ r.removed = R /\ DOMAIN r = Fields
    BY <2>9 DEF Fields
  <2>13. Bindings(prog, r)
    BY <2>6, <2>12 DEF MergeInv, Bindings
  <2>14. m.removed = st.removed
    BY <2>6 DEF Aside
  <2>15. R \subseteq StageIds(prog) /\ \A k \in R : k < d + 1
    <3>1. \A k \in StageIds(prog) : k < d => k < d + 1
      BY <1>0
    <3>2. d < d + 1
      BY <1>0
    <3>3. st.removed \subseteq StageIds(prog) /\ \A k \in st.removed : k < d
      BY DEF MergeInv
    <3> QED BY <2>10, <3>1, <3>2, <3>3
  <2>16. ASSUME NEW k \in StageIds(prog), NEW i \in Exec(prog, k)
         PROVE  EntryInv(prog, W, r, d + 1, k, i)
    <3>1. EntryInv(prog, W, m, d, k, i)
      BY <2>6 DEF MergeInv
    <3>2. k >= d + 1 => k >= d
      BY <1>0
    <3>3. k \notin R => m.ap[k][i].next \notin R
      <4>1. SUFFICES ASSUME k \notin R PROVE m.ap[k][i].next \notin R
        OBVIOUS
      <4>2. k \notin m.removed
        BY <2>10, <2>14, <4>1
      <4>3. m.ap[k][i].next \notin m.removed
        BY <3>1, <4>2 DEF EntryInv
      <4>4. CASE R = st.removed
        BY <2>14, <4>3, <4>4
      <4>5. CASE R = st.removed \cup {d} /\ R # st.removed
        <5>1. ~ Leads(m, k, i, d)
          BY <2>6, <2>11, <4>5
        <5>2. m.ap[k][i].next # d
          BY <4>2, <5>1 DEF Leads
        <5> QED BY <2>14, <4>3, <4>5, <5>2
      <4> QED BY <2>10, <4>4, <4>5
    <3> QED BY <2>12, <3>1, <3>2, <3>3 DEF EntryInv
  <2> QED BY <2>12, <2>13, <2>15, <2>16 DEF MergeInv
<1> QED
  BY <1>1, <1>2

\* What the merging leaves: every entry that is kept leads, with its action, to what it
\* led to, by stages that are kept.
LEMMA MergedInv ==
  ASSUME NEW prog, IsProgram(prog), Plain(prog), NEW W, Solves(prog, W)
  PROVE  MergeInv(prog, W, Merged(prog), Cardinality(StageIds(prog)))
<1> DEFINE N == Cardinality(StageIds(prog))
           g == CHOOSE g : Merges(prog, N, g)
<1>1. N \in Nat /\ StageIds(prog) = 0 .. N - 1
  BY ProgramStages
<1>2. Merges(prog, N, g)
  BY <1>1, MergesExist
<1>3. Merged(prog) = g[N]
  BY MergedIsMerges
<1>4. Forward(prog)
  BY PlainForward
<1>5. ActsOnce(prog)
  BY DEF Plain, Tidy, ActsOnce, Entry, Exec
<1>6. \A k \in StageIds(prog) : prog.stages[k].switch # <<>>
  BY DEF Plain, Tidy
<1> HIDE DEF N, g
<1> DEFINE T == {d \in Nat : d <= N => MergeInv(prog, W, g[d], d)}
<1>7. 0 \in T
  <2>1. g[0] = Bound(prog)
    BY <1>1, <1>2 DEF Merges
  <2>2. PICK b : b = Bound(prog)
    OBVIOUS
  <2>3. /\ DOMAIN b = Fields /\ b.removed = {} /\ b.prims = prog.prims
        /\ DOMAIN b.ap = StageIds(prog) /\ \A k \in StageIds(prog) : b.ap[k] = prog.stages[k].exec
    BY <2>2 DEF Bound, Fields
  <2>4. Bindings(prog, b)
    <3>1. prog.prims \in [DOMAIN prog.prims -> Seq(Assignments(prog))]
      BY DEF IsProgram
    <3> QED BY <2>3, <3>1 DEF Bindings, Exec
  <2>5. ASSUME NEW k \in StageIds(prog), NEW i \in Exec(prog, k) PROVE EntryInv(prog, W, b, 0, k, i)
    <3>1. b.ap[k][i] = Entry(prog, k, i)
      BY <2>3 DEF Entry
    <3>2. DOMAIN Entry(prog, k, i) = {"act", "next"}
      <4>1. PICK e : e = Entry(prog, k, i)
        OBVIOUS
      <4>2. e = [act |-> e.act, next |-> e.next]
        BY <4>1, EntryFacts DEF Exec
      <4> QED BY <4>1, <4>2
    <3>3. Entry(prog, k, i) \in ToSet(prog.stages[k].exec)
      BY DEF Entry, Exec, ToSet
    <3>4. Onward(prog, k, Entry(prog, k, i).next)
      BY <1>4, <3>3 DEF Forward
    <3> QED BY <2>3, <3>1, <3>2, <3>4 DEF EntryInv
  <2>6. MergeInv(prog, W, b, 0)
    BY <2>3, <2>4, <2>5 DEF MergeInv
  <2> QED BY <2>1, <2>2, <2>6
<1>8. ASSUME NEW d \in T PROVE d + 1 \in T
  <2>1. d \in Nat
    OBVIOUS
  <2>2. SUFFICES ASSUME d + 1 <= N PROVE MergeInv(prog, W, g[d + 1], d + 1)
    BY <2>1
  <2>3. MergeInv(prog, W, g[d], d)
    BY <1>1, <2>1, <2>2
  <2>4. d + 1 \in 0 .. N /\ d + 1 # 0 /\ (d + 1) - 1 = d /\ d \in StageIds(prog)
    BY <1>1, <2>1, <2>2
  <2>5. g[d + 1] = MergeStage(prog, g[d], d)
    BY <1>2, <2>4 DEF Merges
  <2> QED BY <1>4, <1>5, <1>6, <2>3, <2>4, <2>5, MergeStageInv
<1>9. T = Nat
  <2>1. T \in SUBSET Nat
    OBVIOUS
  <2> HIDE DEF T
  <2> QED BY <1>7, <1>8, <2>1, Induction
<1>10. MergeInv(prog, W, g[N], N)
  <2>1. N \in T /\ N <= N
    BY <1>1, <1>9
  <2> QED BY <2>1
<1> QED
  BY <1>3, <1>10 DEF N

-----------------------------------------------------------------------------
(***************************************************************************)
(* The walk over the logical stages.                                       *)
(***************************************************************************)
\* The gateway has an edge for every entry of the switch: one entry is the default.
GatewayEdges(gw) == ToSet(gw.entries) \cup {gw.default}
FromSwitch(st, wild, switch, gw) ==
  /\ \A i \in DOMAIN gw.entries : \E j \in DOMAIN switch :
       ~ (switch[j].default) /\ gw.entries[i] = Jump(st, wild, switch[j])
  /\ \E j \in DOMAIN switch : gw.default = Jump(st, wild, switch[j])
  /\ \A j \in DOMAIN switch : Jump(st, wild, switch[j]) \in GatewayEdges(gw)
  /\ gw.shared = TRUE => 1 \in DOMAIN gw.entries /\ gw.default = gw.entries[1]

\* A gateway made of a switch with an entry and at most one default has the switch's
\* edges, each once renumbered.
LEMMA GatewayFacts ==
  ASSUME NEW E, NEW st, NEW wild, NEW stage, stage.switch \in Seq(E), stage.switch # <<>>,
         \A i, j \in DOMAIN stage.switch : stage.switch[i].default /\ stage.switch[j].default => i = j,
         NEW gw, gw = GatewayOf(st, wild, stage)
  PROVE  FromSwitch(st, wild, stage.switch, gw)
<1>1. PICK switch \in Seq(E) : switch = stage.switch
  OBVIOUS
<1>2. PICK P : P = {i \in DOMAIN switch : switch[i].default}
  OBVIOUS
<1>3. PICK Q : Q = DOMAIN switch \ P
  OBVIOUS
<1>4. PICK defaults : defaults = Select(switch, P)
  OBVIOUS
<1>5. PICK keyed : keyed = Select(switch, Q)
  OBVIOUS
<1>6. PICK entries : entries = [i \in DOMAIN keyed |-> Jump(st, wild, keyed[i])]
  OBVIOUS
<1>7. gw = [entries |-> entries, shared  |-> defaults = <<>>,
            default |-> IF defaults = <<>> THEN entries[1] ELSE Jump(st, wild, Last(defaults))]
  BY <1>1, <1>2, <1>3, <1>4, <1>5, <1>6 DEF GatewayOf
<1>8. /\ IsFiniteSet(P) /\ Cardinality(P) \in Nat /\ \A x \in P : x \in Nat
      /\ defaults \in Seq(E) /\ Len(defaults) = Cardinality(P)
      /\ \A n \in 1 .. Cardinality(P) : defaults[n] = switch[Nth(P, n - 1)]
  <2>1. P \subseteq DOMAIN switch
    BY <1>2
  <2>2. /\ IsFiniteSet(P) /\ Cardinality(P) \in Nat /\ \A x \in P : x \in Nat
        /\ Select(switch, P) \in Seq(E) /\ Len(Select(switch, P)) = Cardinality(P)
        /\ \A n \in 1 .. Cardinality(P) : Select(switch, P)[n] = switch[Nth(P, n - 1)]
    BY <2>1, SelectFacts
  <2> QED BY <1>4, <2>2
<1>9. /\ IsFiniteSet(Q) /\ Cardinality(Q) \in Nat /\ \A x \in Q : x \in Nat
      /\ DOMAIN keyed = 1 .. Cardinality(Q)
      /\ \A n \in 1 .. Cardinality(Q) : keyed[n] = switch[Nth(Q, n - 1)]
  <2>1. Q \subseteq DOMAIN switch
    BY <1>3
  <2>2. /\ IsFiniteSet(Q) /\ Cardinality(Q) \in Nat /\ \A x \in Q : x \in Nat
        /\ DOMAIN Select(switch, Q) = 1 .. Cardinality(Q)
        /\ \A n \in 1 .. Cardinality(Q) : Select(switch, Q)[n] = switch[Nth(Q, n - 1)]
    BY <2>1, SelectFacts
  <2> QED BY <1>5, <2>2
<1>10. \A n \in 1 .. Cardinality(P) : Nth(P, n - 1) \in P
  BY <1>8, InOrderFacts
<1>11. /\ \A n \in 1 .. Cardinality(Q) : Nth(Q, n - 1) \in Q
       /\ \A k \in Q : \E n \in 1 .. Cardinality(Q) : Nth(Q, n - 1) = k
  BY <1>9, InOrderFacts
<1>12. /\ DOMAIN entries = 1 .. Cardinality(Q)
       /\ \A n \in 1 .. Cardinality(Q) : entries[n] = Jump(st, wild, switch[Nth(Q, n - 1)])
  BY <1>6, <1>9
<1>13. \A j \in DOMAIN switch : j \in P \/ j \in Q
  BY <1>3
<1>14. \A j \in Q : Jump(st, wild, switch[j]) \in ToSet(entries)
  <2>1. TAKE j \in Q
  <2>2. PICK n \in 1 .. Cardinality(Q) : Nth(Q, n - 1) = j
    BY <1>11
  <2> QED BY <1>12, <2>2 DEF ToSet
<1>15. \A i \in DOMAIN entries : \E j \in DOMAIN switch :
         ~ (switch[j].default) /\ entries[i] = Jump(st, wild, switch[j])
  <2>1. TAKE i \in DOMAIN entries
  <2>2. PICK j : j = Nth(Q, i - 1)
    OBVIOUS
  <2>3. j \in Q /\ entries[i] = Jump(st, wild, switch[j])
    BY <1>11, <1>12, <2>2
  <2>4. j \in DOMAIN switch /\ ~ (switch[j].default)
    BY <1>2, <1>3, <2>3
  <2> QED BY <2>3, <2>4
<1>16. gw.entries = entries
  BY <1>7
<1>17. CASE P = {}
  <2>1. defaults = <<>>
    <3>1. Cardinality(P) = 0
      BY <1>17, FS_EmptySet
    <3> QED BY <1>8, <3>1, EmptySeq
  <2>2. gw.default = entries[1]
    BY <1>7, <2>1
  <2>3. 1 \in DOMAIN switch
    <3>1. Len(switch) # 0
      BY <1>1, EmptySeq
    <3> QED BY <1>1, <3>1
  <2>4. PICK n \in 1 .. Cardinality(Q) : Nth(Q, n - 1) = 1
    BY <1>11, <1>13, <1>17, <2>3
  <2>5. 1 \in DOMAIN entries
    BY <1>9, <1>12, <2>4
  <2>6. \E j \in DOMAIN switch : gw.default = Jump(st, wild, switch[j])
    BY <1>15, <2>2, <2>5
  <2>7. \A j \in DOMAIN switch : Jump(st, wild, switch[j]) \in GatewayEdges(gw)
    BY <1>13, <1>14, <1>16, <1>17 DEF GatewayEdges
  <2> QED BY <1>1, <1>15, <1>16, <2>2, <2>5, <2>6, <2>7 DEF FromSwitch
<1>18. CASE P # {}
  <2>1. Cardinality(P) # 0
    BY <1>8, <1>18, FS_EmptySet
  <2>2. defaults # <<>>
    BY <1>8, <2>1, EmptySeq
  <2>3. gw.default = Jump(st, wild, Last(defaults)) /\ ~ (gw.shared = TRUE)
    <3>1. gw.default = Jump(st, wild, Last(defaults))
      BY <1>7, <2>2
    <3>2. gw.shared = (defaults = <<>>)
      BY <1>7
    <3>3. gw.shared = FALSE
      BY <2>2, <3>2
    <3> QED BY <3>1, <3>3
  <2>4. PICK c \in Nat : c = Cardinality(P)
    BY <1>8
  <2>5. PICK j : j = Nth(P, c - 1)
    OBVIOUS
  <2>6. c \in 1 .. Cardinality(P)
    BY <2>1, <2>4
  <2>7. j \in P /\ defaults[c] = switch[j]
    BY <1>8, <1>10, <2>5, <2>6
  <2>8. Last(defaults) = switch[j]
    BY <1>8, <2>4, <2>7 DEF Last
  <2>9. j \in DOMAIN switch
    BY <1>2, <2>7
  <2>10. \A i \in P : i = j
    <3>1. TAKE i \in P
    <3>2. i \in DOMAIN switch /\ switch[i].default
      BY <1>2
    <3>3. j \in DOMAIN switch /\ switch[j].default
      BY <1>2, <2>7
    <3> QED BY <1>1, <3>2, <3>3
  <2>11. \A i \in DOMAIN switch : Jump(st, wild, switch[i]) \in GatewayEdges(gw)
    BY <1>13, <1>14, <1>16, <2>3, <2>8, <2>10 DEF GatewayEdges
  <2> QED BY <1>1, <1>15, <1>16, <2>3, <2>8, <2>9, <2>11 DEF FromSwitch
<1> QED
  BY <1>17, <1>18

\* The new number of a stage that is kept is its place among those kept.
LEMMA KeptNumber ==
  ASSUME NEW prog, IsProgram(prog), NEW st, st.removed \subseteq StageIds(prog), NEW wild,
         NEW k \in Kept(prog, st)
  PROVE  /\ Reordered(st, wild, k) = Cardinality(Below(Kept(prog, st), k))
         /\ NumberOf(st, wild, k) = Cardinality(Below(Kept(prog, st), k))
<1>1. k \in StageIds(prog) /\ k \notin st.removed /\ k \in Nat
  BY KeptFacts DEF Kept
<1>2. (0 .. k - 1) \ st.removed = Below(Kept(prog, st), k)
  <2>1. StageIds(prog) = 0 .. Cardinality(StageIds(prog)) - 1 /\ Cardinality(StageIds(prog)) \in Nat
    BY ProgramStages
  <2>2. \A j : j \in 0 .. k - 1 <=> j \in StageIds(prog) /\ j < k
    BY <1>1, <2>1
  <2> QED BY <2>2 DEF Below, Kept
<1>3. Reordered(st, wild, k) = Cardinality(Below(Kept(prog, st), k))
  <2>1. k # -1
    BY <1>1
  <2> QED BY <1>1, <1>2, <2>1 DEF Reordered, Rank
<1>4. ChainEnd(st, k) = k
  <2>1. IsFiniteSet(st.removed)
    BY FS_Subset DEF IsProgram, IsNumbered
  <2> QED BY <1>1, <2>1, ChainFacts
<1> QED
  BY <1>3, <1>4 DEF NumberOf

\* What may follow every logical stage, when its edges only lead on: by its entries, and
\* by the default of its gateway.
Later(D, s, j) == j = -1 \/ (j \in D /\ j > s)
StageLeads(prims, V, x, s, D, sequences) ==
  /\ sequences = Leaving(GatewayEdges(x.gateway), V, Through(prims, x.ap, V))
  /\ \A i \in DOMAIN x.ap : Later(D, s, x.ap[i].next)
  /\ \A i \in DOMAIN x.gateway.entries :
       x.gateway.entries[i].type = "STAGE" => x.gateway.entries[i].to = -1
  /\ x.gateway.default = [type |-> x.gateway.default.type, to |-> x.gateway.default.to]
  /\ x.gateway.default.type = "STAGE" => Later(D, s, x.gateway.default.to)
  /\ x.gateway.shared = TRUE =>
       1 \in DOMAIN x.gateway.entries /\ x.gateway.default = x.gateway.entries[1]
LogicalWalk(lg, V) ==
  /\ V[-1] = {<<>>}
  /\ \A s \in DOMAIN lg.stages : StageLeads(lg.prims, V, lg.stages[s], s, DOMAIN lg.stages, V[s])

\* The contents of a logical stage that was made of stage k.
LEMMA StageContents ==
  ASSUME NEW prog, NEW st, NEW wild, NEW k, NEW x, x = LogicalStage(prog, st, wild, k)
  PROVE  /\ DOMAIN x.ap = DOMAIN st.ap[k]
         /\ \A i \in DOMAIN st.ap[k] :
              x.ap[i].act = st.ap[k][i].act /\ x.ap[i].next = Reordered(st, wild, st.ap[k][i].next)
         /\ x.gateway = GatewayOf(st, wild, prog.stages[k])
  BY DEF LogicalStage

\* Where an edge of the source leads, by the new numbers.
Numbers(prog, st, wild, s, k, V, W) ==
  \A j : (Onward(prog, k, j) /\ j \notin st.removed) =>
     LET n == Reordered(st, wild, j)
     IN /\ (j = -1 \/ NumberOf(st, wild, j) = n) /\ V[n] = W[j]
        /\ Later(0 .. Cardinality(Kept(prog, st)) - 1, s, n)

\* The edges of a stage that is kept lead to the stages they led to, by new numbers.
LEMMA NumbersFacts ==
  ASSUME NEW prog, IsProgram(prog), NEW st, st.removed \subseteq StageIds(prog), NEW wild, NEW W,
         W[-1] = {<<>>}, NEW V,
         V = [s \in 0 .. Cardinality(Kept(prog, st)) - 1 \cup {-1} |->
                IF s = -1 THEN {<<>>} ELSE W[Nth(Kept(prog, st), s)]],
         NEW k \in Kept(prog, st)
  PROVE  Numbers(prog, st, wild, Cardinality(Below(Kept(prog, st), k)), k, V, W)
<1>1. PICK K : K = Kept(prog, st)
  OBVIOUS
<1>2. IsFiniteSet(K) /\ Cardinality(K) \in Nat /\ \A j \in K : j \in Nat /\ j \in StageIds(prog)
  BY <1>1, KeptFacts
<1>3. SUFFICES ASSUME NEW j, Onward(prog, k, j), j \notin st.removed, NEW n, n = Reordered(st, wild, j)
               PROVE  /\ (j = -1 \/ NumberOf(st, wild, j) = n) /\ V[n] = W[j]
                      /\ Later(0 .. Cardinality(K) - 1, Cardinality(Below(K, k)), n)
  BY <1>1 DEF Numbers
<1>4. CASE j = -1
  <2>1. n = -1
    BY <1>3, <1>4 DEF Reordered
  <2>2. V[-1] = {<<>>}
    OBVIOUS
  <2> QED BY <1>4, <2>1, <2>2 DEF Later
<1>5. CASE j \in StageIds(prog) /\ j > k
  <2>1. j \in K
    BY <1>1, <1>3, <1>5 DEF Kept
  <2>2. n = Cardinality(Below(K, j)) /\ NumberOf(st, wild, j) = n
    BY <1>1, <1>3, <2>1, KeptNumber
  <2>3. n \in 0 .. Cardinality(K) - 1 /\ Nth(K, n) = j
    BY <1>2, <2>1, <2>2, NthOf
  <2>4. V[n] = W[j]
    <3>1. n # -1
      BY <1>2, <2>3
    <3> QED BY <1>1, <2>3, <3>1
  <2>5. n > Cardinality(Below(K, k))
    <3>1. k \in K /\ k < j
      BY <1>1, <1>2, <1>5, <2>1
    <3>2. Cardinality(Below(K, k)) < n
      BY <1>2, <2>1, <2>2, <3>1, BelowOrdered
    <3>3. Cardinality(Below(K, k)) \in Nat /\ n \in Nat
      BY <1>2, <2>3, BelowFinite
    <3> QED BY <3>2, <3>3
  <2> QED BY <2>2, <2>3, <2>4, <2>5 DEF Later
<1> QED
  BY <1>3, <1>4, <1>5 DEF Onward

\* One stage that is kept.
LEMMA StageWalk ==
  ASSUME NEW prog, IsProgram(prog), Plain(prog), NEW W, Solves(prog, W), NEW wild,
         NEW st, st = Merged(prog), NEW k \in Kept(prog, st), NEW s, NEW V, V[-1] = {<<>>},
         Numbers(prog, st, wild, s, k, V, W), NEW x, x = LogicalStage(prog, st, wild, k)
  PROVE  StageLeads(st.prims, V, x, s, 0 .. Cardinality(Kept(prog, st)) - 1, W[k])
<1>1. k \in StageIds(prog) /\ k \notin st.removed
  BY DEF Kept
<1>2. /\ DOMAIN x.ap = Exec(prog, k)
      /\ \A i \in Exec(prog, k) :
           /\ x.ap[i].act = Entry(prog, k, i).act
           /\ x.ap[i].next = Reordered(st, wild, st.ap[k][i].next)
           /\ Onward(prog, k, st.ap[k][i].next) /\ st.ap[k][i].next \notin st.removed
           /\ Prefixed(st.prims[Entry(prog, k, i).act], W[st.ap[k][i].next]) =
                Prefixed(prog.prims[Entry(prog, k, i).act], W[Entry(prog, k, i).next])
  <2>1. MergeInv(prog, W, st, Cardinality(StageIds(prog)))
    BY MergedInv
  <2>2. DOMAIN st.ap[k] = Exec(prog, k)
    BY <1>1, <2>1 DEF MergeInv, Bindings
  <2>3. \A i \in Exec(prog, k) : EntryInv(prog, W, st, Cardinality(StageIds(prog)), k, i)
    BY <1>1, <2>1 DEF MergeInv
  <2>4. /\ DOMAIN x.ap = DOMAIN st.ap[k]
        /\ \A i \in DOMAIN st.ap[k] :
             x.ap[i].act = st.ap[k][i].act /\ x.ap[i].next = Reordered(st, wild, st.ap[k][i].next)
    BY StageContents
  <2> QED BY <1>1, <2>2, <2>3, <2>4 DEF EntryInv
<1>3. ASSUME NEW j, Onward(prog, k, j), j \notin st.removed
      PROVE  /\ (j = -1 \/ NumberOf(st, wild, j) = Reordered(st, wild, j)) /\ V[Reordered(st, wild, j)] = W[j]
             /\ Later(0 .. Cardinality(Kept(prog, st)) - 1, s, Reordered(st, wild, j))
  BY <1>3 DEF Numbers
<1>4. PICK a : a = Through(prog.prims, prog.stages[k].exec, W)
  OBVIOUS
<1>5. a = Through(st.prims, x.ap, V)
  <2> DEFINE F(i) == Prefixed(prog.prims[Entry(prog, k, i).act], W[Entry(prog, k, i).next])
             G(i) == Prefixed(st.prims[x.ap[i].act], V[x.ap[i].next])
  <2>1. a = UNION {F(i) : i \in Exec(prog, k)}
    BY <1>4 DEF Through, ToSet, Entry, Exec
  <2>2. Through(st.prims, x.ap, V) = UNION {G(i) : i \in Exec(prog, k)}
    BY <1>2 DEF Through, ToSet
  <2>3. ASSUME NEW i \in Exec(prog, k) PROVE F(i) = G(i)
    <3>1. V[x.ap[i].next] = W[st.ap[k][i].next]
      BY <1>2, <1>3
    <3> QED BY <1>2, <3>1
  <2> HIDE DEF F, G
  <2> QED BY <2>1, <2>2, <2>3
<1>6. PICK switch : switch = prog.stages[k].switch
  OBVIOUS
<1>7. /\ switch # <<>> /\ \A i, j \in DOMAIN switch : switch[i].default /\ switch[j].default => i = j
      /\ \A i \in DOMAIN switch :
           switch[i].type = "STAGE" =>
             switch[i].to = -1 \/ (switch[i].default /\ switch[i].to > k /\ switch[i].to \notin st.removed)
  BY <1>1, <1>6 DEF Plain, Tidy, EnteredByActions, ToSet
<1>8. PICK gw : gw = GatewayOf(st, wild, prog.stages[k])
  OBVIOUS
<1>9. x.gateway = gw
  BY <1>8, StageContents
<1>10. FromSwitch(st, wild, switch, gw)
  <2>1. PICK E : switch \in Seq(E)
    BY <1>1, <1>6 DEF IsProgram
  <2> QED BY <1>6, <1>7, <1>8, <2>1, GatewayFacts
<1>11. \A i \in DOMAIN switch : switch[i].type = "STAGE" => switch[i].to \in StageIds(prog) \cup {-1}
  BY <1>1, <1>6, SwitchFacts
<1> DEFINE J(i) == Jump(st, wild, switch[i])
<1>12. ASSUME NEW i \in DOMAIN switch
       PROVE  /\ J(i).type = switch[i].type
              /\ J(i).type = "STAGE" =>
                   /\ J(i).to = Reordered(st, wild, switch[i].to)
                   /\ Onward(prog, k, switch[i].to) /\ switch[i].to \notin st.removed
                   /\ switch[i].to = -1 => J(i).to = -1
              /\ J(i).type # "STAGE" => TRUE
  <2>1. J(i).type = switch[i].type /\ (switch[i].to = -1 => J(i).to = -1)
        /\ (switch[i].type = "STAGE" /\ switch[i].to # -1 => J(i).to = NumberOf(st, wild, switch[i].to))
    BY DEF Jump
  <2>2. SUFFICES ASSUME switch[i].type = "STAGE"
                 PROVE  /\ J(i).to = Reordered(st, wild, switch[i].to)
                        /\ Onward(prog, k, switch[i].to) /\ switch[i].to \notin st.removed
    BY <2>1
  <2>3. Onward(prog, k, switch[i].to) /\ switch[i].to \notin st.removed
    <3>1. CASE switch[i].to = -1
      <4>1. -1 \notin st.removed
        <5>1. \A j \in st.removed : j \in Nat
          BY MergedFacts, ProgramStages
        <5> QED BY <5>1
      <4> QED BY <3>1, <4>1 DEF Onward
    <3>2. CASE switch[i].to # -1
      BY <1>7, <1>11, <2>2, <3>2 DEF Onward
    <3> QED BY <3>1, <3>2
  <2>4. J(i).to = Reordered(st, wild, switch[i].to)
    <3>1. CASE switch[i].to = -1
      <4>1. Reordered(st, wild, -1) = -1
        BY DEF Reordered
      <4> QED BY <2>1, <3>1, <4>1
    <3>2. CASE switch[i].to # -1
      BY <1>3, <2>1, <2>2, <2>3, <3>2
    <3> QED BY <3>1, <3>2
  <2> QED BY <2>3, <2>4
<1>13. ASSUME NEW i \in DOMAIN switch PROVE After(J(i), V, a) = After(switch[i], W, a)
  <2>1. CASE switch[i].type = "STAGE"
    <3>1. V[J(i).to] = W[switch[i].to]
      BY <1>3, <1>12, <2>1
    <3> QED BY <1>12, <2>1, <3>1 DEF After
  <2>2. CASE switch[i].type # "STAGE"
    BY <1>12, <2>2 DEF After
  <2> QED BY <2>1, <2>2
<1>14. GatewayEdges(gw) = {J(i) : i \in DOMAIN switch}
  BY <1>10 DEF FromSwitch, GatewayEdges, ToSet
<1>15. W[k] = Leaving(GatewayEdges(gw), V, a)
  <2>1. W[k] = Leaving(ToSet(switch), W, a)
    BY <1>1, <1>4, <1>6 DEF Solves, Visit
  <2>2. Leaving(ToSet(switch), W, a) = UNION {After(switch[i], W, a) : i \in DOMAIN switch}
    BY DEF Leaving, ToSet
  <2>3. Leaving(GatewayEdges(gw), V, a) = UNION {After(J(i), V, a) : i \in DOMAIN switch}
    BY <1>14 DEF Leaving
  <2> HIDE DEF J
  <2> QED BY <1>13, <2>1, <2>2, <2>3
<1>16. ASSUME NEW i \in DOMAIN gw.entries, gw.entries[i].type = "STAGE" PROVE gw.entries[i].to = -1
  <2>1. PICK j \in DOMAIN switch : ~ (switch[j].default) /\ gw.entries[i] = J(j)
    BY <1>10 DEF FromSwitch
  <2>2. switch[j].type = "STAGE"
    BY <1>12, <1>16, <2>1
  <2>3. switch[j].to = -1
    BY <1>7, <2>1, <2>2
  <2> QED BY <1>12, <1>16, <2>1, <2>3
<1>17. /\ gw.default = [type |-> gw.default.type, to |-> gw.default.to]
       /\ gw.default.type = "STAGE" => Later(0 .. Cardinality(Kept(prog, st)) - 1, s, gw.default.to)
  <2>1. PICK j \in DOMAIN switch : gw.default = J(j)
    BY <1>10 DEF FromSwitch
  <2>2. J(j) = [type |-> J(j).type, to |-> J(j).to]
    BY DEF Jump
  <2>3. gw.default.type = "STAGE" => Later(0 .. Cardinality(Kept(prog, st)) - 1, s, gw.default.to)
    BY <1>3, <1>12, <2>1
  <2> HIDE DEF J
  <2> QED BY <2>1, <2>2, <2>3
<1>18. gw.shared = TRUE => 1 \in DOMAIN gw.entries /\ gw.default = gw.entries[1]
  BY <1>10 DEF FromSwitch
<1>19. ASSUME NEW i \in DOMAIN x.ap
       PROVE  Later(0 .. Cardinality(Kept(prog, st)) - 1, s, x.ap[i].next)
  BY <1>2, <1>3
<1> QED
  BY <1>5, <1>9, <1>15, <1>16, <1>17, <1>18, <1>19 DEF StageLeads

\* The logical stages can cause what the program can, from the first stage on.
LEMMA LogicalWalks ==
  ASSUME NEW prog, IsProgram(prog), Plain(prog), NEW wild, NEW lg, lg = Logical(prog, Merged(prog), wild)
  PROVE  \E V : LogicalWalk(lg, V) /\ SourceTraces(prog) = V[IF DOMAIN lg.stages = {} THEN -1 ELSE 0]
<1>1. PICK W : Solves(prog, W) /\ SourceTraces(prog) = W[IF StageIds(prog) = {} THEN -1 ELSE 0]
  BY PlainForward, Solution
<1>2. PICK st : st = Merged(prog)
  OBVIOUS
<1>3. PICK K : K = Kept(prog, st)
  OBVIOUS
<1>4. IsFiniteSet(K) /\ Cardinality(K) \in Nat /\ \A j \in K : j \in Nat /\ j \in StageIds(prog)
  BY <1>3, KeptFacts
<1>5. PICK V : V = [s \in 0 .. Cardinality(K) - 1 \cup {-1} |-> IF s = -1 THEN {<<>>} ELSE W[Nth(K, s)]]
  OBVIOUS
<1>6. /\ lg.stages = [s \in 0 .. Cardinality(K) - 1 |-> LogicalStage(prog, st, wild, Nth(K, s))]
      /\ lg.prims = st.prims
  BY <1>2, <1>3 DEF Logical, Kept
<1>7. V[-1] = {<<>>} /\ W[-1] = {<<>>}
  BY <1>1, <1>5 DEF Solves
<1>8. DOMAIN lg.stages = 0 .. Cardinality(K) - 1
  BY <1>6
<1>9. ASSUME NEW s \in DOMAIN lg.stages
      PROVE  StageLeads(lg.prims, V, lg.stages[s], s, DOMAIN lg.stages, V[s])
  <2>1. s \in Nat /\ s < Cardinality(K)
    BY <1>4, <1>8
  <2>2. PICK k : k = Nth(K, s)
    OBVIOUS
  <2>3. k \in K /\ Cardinality(Below(K, k)) = s
    BY <1>4, <2>1, <2>2, NthFacts
  <2>4. st.removed \subseteq StageIds(prog)
    BY <1>2, MergedFacts
  <2>5. Numbers(prog, st, wild, s, k, V, W)
    BY <1>3, <1>5, <1>7, <2>3, <2>4, NumbersFacts
  <2>6. PICK x : x = LogicalStage(prog, st, wild, k)
    OBVIOUS
  <2>7. x = lg.stages[s]
    BY <1>6, <1>8, <2>2, <2>6
  <2>8. StageLeads(st.prims, V, x, s, 0 .. Cardinality(K) - 1, W[k])
    BY <1>1, <1>2, <1>3, <1>7, <2>3, <2>5, <2>6, StageWalk
  <2>9. V[s] = W[k]
    <3>1. s # -1 /\ s \in 0 .. Cardinality(K) - 1
      BY <1>8, <2>1
    <3> QED BY <1>5, <2>2, <3>1
  <2> QED BY <1>6, <1>8, <2>7, <2>8, <2>9
<1>10. LogicalWalk(lg, V)
  BY <1>7, <1>9 DEF LogicalWalk
<1>11. SourceTraces(prog) = V[IF DOMAIN lg.stages = {} THEN -1 ELSE 0]
  <2>1. CASE StageIds(prog) = {}
    <3>1. K = {}
      BY <1>4, <2>1
    <3>2. DOMAIN lg.stages = {}
      <4>1. Cardinality(K) = 0
        BY <3>1, FS_EmptySet
      <4> QED BY <1>8, <4>1
    <3> QED BY <1>1, <1>7, <2>1, <3>2
  <2>2. CASE StageIds(prog) # {}
    <3>1. 0 \in K
      <4>1. 0 \in StageIds(prog)
        BY <2>2, ProgramStages
      <4>2. 0 \notin st.removed
        BY <1>2 DEF Plain, EnteredByActions
      <4> QED BY <1>3, <4>1, <4>2 DEF Kept
    <3>2. Below(K, 0) = {}
      BY <1>4 DEF Below
    <3>3. Nth(K, 0) = 0 /\ 0 \in 0 .. Cardinality(K) - 1
      <4>1. Cardinality(Below(K, 0)) = 0
        BY <3>2, FS_EmptySet
      <4>2. Cardinality(Below(K, 0)) \in 0 .. Cardinality(K) - 1 /\ Nth(K, Cardinality(Below(K, 0))) = 0
        BY <1>4, <3>1, NthOf
      <4> QED BY <4>1, <4>2
    <3>4. V[0] = W[0]
      BY <1>5, <3>3
    <3> QED BY <1>1, <1>8, <2>2, <3>3, <3>4
  <2> QED BY <2>1, <2>2
<1> QED
  BY <1>10, <1>11

\* A node 0 that nothing leads to is listed first.
LEMMA TopoFirst ==
  ASSUME NEW next, IsGraph(next), 0 \in DOMAIN next, \A m \in DOMAIN next : 0 \notin next[m]
  PROVE  TopoOrder(next) # <<>> /\ TopoOrder(next)[1] = 0
<1> DEFINE N == Cardinality(DOMAIN next)
           g == CHOOSE g : Sorts(next, N, g)
<1>1. N \in Nat /\ N # 0
  BY FS_CardinalityType, FS_EmptySet DEF IsGraph
<1>2. Sorts(next, N, g)
  BY <1>1, SortsExist
<1>3. TopoOrder(next) = g[N]
  BY TopoIsSorts
<1> HIDE DEF N, g
<1> DEFINE First(seq) == seq \in Seq(DOMAIN next) /\ Len(seq) # 0 /\ seq[1] = 0
           T == {d \in Nat : d # 0 /\ d <= N => First(g[d])}
<1>4. 0 \in T
  OBVIOUS
<1>5. ASSUME NEW d \in T PROVE d + 1 \in T
  <2>1. d \in Nat
    OBVIOUS
  <2>2. SUFFICES ASSUME d + 1 <= N PROVE First(g[d + 1])
    BY <2>1
  <2>3. d + 1 \in 0 .. N /\ d + 1 # 0 /\ (d + 1) - 1 = d /\ 0 \in 0 .. N
    BY <1>1, <2>1, <2>2
  <2>4. g[d + 1] = WithNext(next, g[d])
    BY <1>2, <2>3 DEF Sorts
  <2>5. CASE d = 0
    <3>1. g[d] = <<>>
      BY <1>2, <2>3, <2>5 DEF Sorts
    <3>2. PICK ready : ready = Ready(next, ToSet(<<>>))
      OBVIOUS
    <3>3. ready \subseteq DOMAIN next /\ 0 \in ready
      <4>1. ToSet(<<>>) = {}
        BY DEF ToSet
      <4> QED BY <3>2, <4>1 DEF Ready
    <3>4. PICK x : x = CHOOSE n \in ready : \A m \in ready : n <= m
      OBVIOUS
    <3>5. x = 0
      <4>1. \A m \in ready : m \in Nat
        BY <3>3 DEF IsGraph
      <4>2. \A m \in ready : 0 <= m
        BY <4>1
      <4>3. x \in ready /\ x <= 0
        BY <3>3, <3>4, <4>2
      <4> QED BY <4>1, <4>3
    <3>6. g[d + 1] = Append(<<>>, 0)
      BY <2>4, <3>1, <3>2, <3>3, <3>4, <3>5 DEF WithNext
    <3>7. <<>> \in Seq(DOMAIN next) /\ Len(<<>>) = 0
      OBVIOUS
    <3> QED BY <3>6, <3>7, AppendProperties
  <2>6. CASE d # 0
    <3>1. First(g[d])
      BY <1>1, <2>1, <2>2, <2>6
    <3>2. PICK seq \in Seq(DOMAIN next) : seq = g[d]
      BY <3>1
    <3>3. Len(seq) \in Nat /\ Len(seq) # 0 /\ seq[1] = 0
      BY <3>1, <3>2
    <3>4. CASE g[d + 1] = seq
      BY <3>1, <3>2, <3>4
    <3>5. CASE Ready(next, ToSet(seq)) # {}
      <4>1. PICK ready : ready = Ready(next, ToSet(seq))
        OBVIOUS
      <4>2. PICK x : x = CHOOSE n \in ready : \A m \in ready : n <= m
        OBVIOUS
      <4>3. x \in DOMAIN next
        <5>1. ready \subseteq DOMAIN next
          BY <4>1 DEF Ready
        <5>2. ready \subseteq Nat
          BY <5>1 DEF IsGraph
        <5>3. \E n \in ready : \A m \in ready : n <= m
          BY <3>5, <4>1, <5>2, LeastElement
        <5> QED BY <4>2, <5>1, <5>3
      <4>4. g[d + 1] = Append(seq, x)
        BY <2>4, <3>2, <3>5, <4>1, <4>2 DEF WithNext
      <4>5. PICK s : s = Append(seq, x)
        OBVIOUS
      <4>6. s \in Seq(DOMAIN next) /\ Len(s) = Len(seq) + 1 /\ \A i \in 1 .. Len(seq) : s[i] = seq[i]
        BY <4>3, <4>5, AppendProperties
      <4>7. s[1] = 0 /\ Len(s) # 0
        BY <3>3, <4>6
      <4> QED BY <4>4, <4>5, <4>6, <4>7
    <3> QED BY <2>4, <3>2, <3>4, <3>5 DEF WithNext
  <2> QED BY <2>5, <2>6
<1>6. T = Nat
  <2>1. T \in SUBSET Nat
    OBVIOUS
  <2> HIDE DEF T
  <2> QED BY <1>4, <1>5, <2>1, Induction
<1>7. First(g[N])
  <2>1. N \in T /\ N <= N
    BY <1>1, <1>6
  <2> QED BY <1>1, <2>1
<1> QED
  BY <1>3, <1>7

\* The first logical stage is the first one placed.
LEMMA LogicalFirst ==
  ASSUME NEW lg, NEW V, LogicalWalk(lg, V), IsFiniteSet(DOMAIN lg.stages),
         \A s \in DOMAIN lg.stages : s \in Nat, 0 \in DOMAIN lg.stages
  PROVE  TopoOrder(StageNext(lg)) # <<>> /\ TopoOrder(StageNext(lg))[1] = 0
<1>1. PICK next : next = StageNext(lg)
  OBVIOUS
<1>2. DOMAIN next = DOMAIN lg.stages
  BY <1>1 DEF StageNext
<1>3. IsGraph(next)
  BY <1>2 DEF IsGraph
<1>4. ASSUME NEW s \in DOMAIN next, 0 \in next[s] PROVE FALSE
  <2>1. PICK i \in DOMAIN lg.stages[s].ap : lg.stages[s].ap[i].next = 0
    BY <1>1, <1>2, <1>4 DEF StageNext
  <2>2. Later(DOMAIN lg.stages, s, 0)
    BY <1>2, <2>1 DEF LogicalWalk, StageLeads
  <2>3. s \in Nat
    BY <1>2
  <2> QED BY <2>2, <2>3 DEF Later
<1> QED
  BY <1>1, <1>2, <1>3, <1>4, TopoFirst
=============================================================================
