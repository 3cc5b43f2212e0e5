--------------------------- MODULE MlOverlay_proofs --------------------------
(***************************************************************************)
(* Theorems about MlOverlay, for every number of processors, every number  *)
(* of layers and every number of inputs and neurons of a layer.            *)
(*                                                                         *)
(* The remainders allocate_stage_counts serves are bounded by a sum over   *)
(* the layers; what the three loops write for stage k is a function of k   *)
(* (StageOf, ContextOf, OperatorOf), so they agree because they compute    *)
(* the same function.                                                      *)
(***************************************************************************)
EXTENDS MlOverlay, Sums, SequenceTheorems

LayerType == [inputs : Nat, outputs : Nat, whole : BOOLEAN]

\* The whole part and the remainder of a layer's share of the stages that are left.
Floor(i) == (Sizes[i] * Extra) \div Outputs
Rest(i)  == (Sizes[i] * Extra) % Outputs

\* Of two naturals the larger has the larger quotient, or the same and the larger
\* remainder.
LEMMA FloorsOrdered ==
  ASSUME NEW a \in Nat, NEW b \in Nat, NEW k \in Nat \ {0}, a < b
  PROVE  a \div k < b \div k \/ (a \div k = b \div k /\ a % k < b % k)
<1> DEFINE p == a \div k
           q == b \div k
           r == a % k
           s == b % k
<1>1. p \in Nat /\ q \in Nat /\ r \in 0 .. k - 1 /\ s \in 0 .. k - 1
  BY DivMod
<1>2. a = (k * p) + r /\ b = (k * q) + s
  BY DivMod
<1> HIDE DEF p, q, r, s
<1>3. CASE q < p
  <2>1. k * (q + 1) <= k * p
    BY <1>1, <1>3
  <2>2. k * (q + 1) = k * q + k
    BY <1>1
  <2> QED
    BY <1>1, <1>2, <2>1, <2>2
<1>4. CASE p <= q
  <2>1. CASE p = q
    BY <1>1, <1>2, <2>1 DEF p, q, r, s
  <2>2. CASE p < q
    BY <2>2 DEF p, q
  <2> QED
    BY <1>1, <1>4, <2>1, <2>2
<1> QED
  BY <1>1, <1>3, <1>4

\* The types of a manifest of Models.
LEMMA ModelType ==
  ASSUME model \in Models
  PROVE  /\ Len(model) \in Nat /\ Layers = 1 .. Len(model)
         /\ IsFiniteSet(Layers) /\ Cardinality(Layers) = Len(model)
         /\ \A i \in Layers : model[i] \in LayerType
         /\ \A i \in Layers : Sizes[i] = model[i].outputs /\ Sizes[i] \in Nat
         /\ Outputs \in Nat
<1>1. model \in Seq(LayerType)
  BY CountAssumption DEF LayerType
<1>2. Len(model) \in Nat /\ Layers = 1 .. Len(model) /\ \A i \in Layers : model[i] \in LayerType
  BY <1>1, LenProperties, ElementOfSeq DEF Layers
<1>3. IsFiniteSet(Layers) /\ Cardinality(Layers) = Len(model)
  BY <1>2, CountTo
<1>4. \A i \in Layers : Sizes[i] = model[i].outputs /\ Sizes[i] \in Nat
  BY <1>2 DEF Sizes, LayerType
<1>5. Outputs \in Nat
  BY <1>3, <1>4, SumNat DEF Outputs
<1> QED
  BY <1>2, <1>3, <1>4, <1>5

\* What the tests of allocate_stage_counts give.
LEMMA DivisibleType ==
  ASSUME model \in Models, Divisible
  PROVE  /\ Extra \in Nat /\ Outputs \in Nat \ {0} /\ Len(model) \in 1 .. ProcessorCount
         /\ ProcessorCount = Extra + Len(model)
         /\ \A i \in Layers : /\ Floor(i) \in Nat /\ Rest(i) \in 0 .. Outputs - 1
                              /\ Sizes[i] * Extra = (Outputs * Floor(i)) + Rest(i)
                              /\ Sizes[i] * Extra \in Nat
<1>1. Len(model) \in Nat /\ Outputs \in Nat /\ \A i \in Layers : Sizes[i] \in Nat
  BY ModelType
<1>2. Len(model) # 0
  <2>1. model \in Seq(LayerType)
    BY CountAssumption DEF LayerType
  <2> QED
    BY <2>1, EmptySeq DEF Divisible
<1>3. Extra \in Nat /\ Outputs \in Nat \ {0} /\ ProcessorCount = Extra + Len(model) /\ Len(model) \in 1 .. ProcessorCount
  BY <1>1, <1>2, CountAssumption DEF Divisible, Extra
<1>4. ASSUME NEW i \in Layers
      PROVE  /\ Floor(i) \in Nat /\ Rest(i) \in 0 .. Outputs - 1
             /\ Sizes[i] * Extra = (Outputs * Floor(i)) + Rest(i)
             /\ Sizes[i] * Extra \in Nat
  <2>1. Sizes[i] * Extra \in Nat
    BY <1>1, <1>3
  <2> QED
    BY <1>3, <2>1, DivMod DEF Floor, Rest
<1> QED
  BY <1>3, <1>4

Floors == [i \in Layers |-> Floor(i)]

\* The shares rounded down are no more than the stages there are to share.
LEMMA FloorsFit ==
  ASSUME model \in Models, Divisible
  PROVE  SumFunctionOnSet(Floors, Layers) \in Nat /\ SumFunctionOnSet(Floors, Layers) <= Extra
<1> DEFINE f == [i \in Layers |-> Outputs * Floors[i]]
           g == [i \in Layers |-> Extra * Sizes[i]]
<1>0. IsFiniteSet(Layers) /\ \A i \in Layers : Sizes[i] \in Nat
  BY ModelType
<1>1. Extra \in Nat /\ Outputs \in Nat \ {0}
  BY DivisibleType
<1>2. \A i \in Layers : Floors[i] \in Nat
  BY DivisibleType DEF Floors
<1>3. \A i \in Layers : f[i] \in Int /\ g[i] \in Int /\ f[i] <= g[i]
  <2> SUFFICES ASSUME NEW i \in Layers PROVE f[i] \in Int /\ g[i] \in Int /\ f[i] <= g[i]
    OBVIOUS
  <2>1. f[i] = Outputs * Floor(i) /\ g[i] = Extra * Sizes[i]
    BY DEF Floors
  <2>2. Sizes[i] * Extra = (Outputs * Floor(i)) + Rest(i) /\ Rest(i) \in Nat /\ Floor(i) \in Nat
    BY DivisibleType
  <2>3. Extra * Sizes[i] = Sizes[i] * Extra
    BY <1>0, <1>1
  <2> QED
    BY <1>0, <1>1, <2>1, <2>2, <2>3
<1>4. SumFunctionOnSet(f, Layers) <= SumFunctionOnSet(g, Layers)
  <2> HIDE DEF f, g
  <2> QED
    BY <1>0, <1>3, SumMonotone
<1>5. SumFunctionOnSet(f, Layers) = Outputs * SumFunctionOnSet(Floors, Layers)
  BY <1>0, <1>1, <1>2, SumScale
<1>6. SumFunctionOnSet(g, Layers) = Extra * Outputs
  <2>1. SumFunctionOnSet(g, Layers) = Extra * SumFunctionOnSet(Sizes, Layers)
    <3> \A i \in Layers : Sizes[i] \in Int
      BY <1>0
    <3> QED
      BY <1>0, <1>1, SumScale
  <2> QED
    BY <2>1 DEF Outputs
<1>7. SumFunctionOnSet(Floors, Layers) \in Nat
  BY <1>0, <1>2, SumNat
<1>8. Outputs * SumFunctionOnSet(Floors, Layers) <= Outputs * Extra
  BY <1>1, <1>4, <1>5, <1>6, <1>7
<1> QED
  BY <1>1, <1>7, <1>8, Cancel

-----------------------------------------------------------------------------
\* What allocate_stage_counts has given each layer: its floor, and one stage more once
\* its fraction is served, which is never one less than a fraction still waiting.
Shares ==
  /\ counts \in [Layers -> Nat] /\ rests \in [Layers -> Nat \cup {-1}]
  /\ \A i \in Layers :
       \/ counts[i] = 1 + Floor(i) /\ rests[i] = Rest(i)
       \/ counts[i] = 2 + Floor(i) /\ rests[i] = -1 /\ Extra # 0
  /\ \A i, j \in Layers : rests[i] = -1 /\ rests[j] # -1 => Rest(j) <= Rest(i)

\* Every layer has a stage, and no more than there are.
LEMMA AssignedBounds ==
  ASSUME model \in Models, Divisible, Shares
  PROVE  /\ Assigned \in Nat /\ Len(model) <= Assigned
         /\ \A i \in Layers : counts[i] \in Nat \ {0} /\ counts[i] <= Assigned
<1> DEFINE ones == [i \in Layers |-> 1]
<1>0. IsFiniteSet(Layers) /\ Cardinality(Layers) = Len(model) /\ Len(model) \in Nat
  BY ModelType
<1>1. \A i \in Layers : counts[i] \in Nat \ {0} /\ ones[i] \in Int /\ ones[i] <= counts[i]
  BY DivisibleType DEF Shares
<1>2. SumFunctionOnSet(ones, Layers) = 1 * Cardinality(Layers)
  <2> \A i \in Layers : ones[i] = 1
    OBVIOUS
  <2> HIDE DEF ones
  <2> QED
    BY <1>0, SumConst
<1>3. SumFunctionOnSet(ones, Layers) <= SumFunctionOnSet(counts, Layers)
  <2> HIDE DEF ones
  <2> QED
    BY <1>0, <1>1, SumMonotone
<1>4. /\ SumFunctionOnSet(counts, Layers) \in Nat
      /\ \A i \in Layers : counts[i] <= SumFunctionOnSet(counts, Layers)
  BY <1>0, <1>1, SumNat
<1> QED
  BY <1>0, <1>1, <1>2, <1>3, <1>4 DEF Assigned

\* If every fraction were served, every stage would have gone.
LEMMA SomeoneWaits ==
  ASSUME model \in Models, Divisible, Shares, Assigned < ProcessorCount
  PROVE  \E i \in Layers : rests[i] # -1
<1> SUFFICES ASSUME \A i \in Layers : rests[i] = -1 PROVE FALSE
  OBVIOUS
<1> DEFINE ones == [i \in Layers |-> 1]
           more == [i \in Layers |-> counts[i] + (-1) * ones[i]]
           neg  == [i \in Layers |-> (-1) * ones[i]]
           f == [i \in Layers |-> Extra * Sizes[i]]
           g == [i \in Layers |-> Outputs * more[i]]
<1>0. /\ IsFiniteSet(Layers) /\ Cardinality(Layers) = Len(model) /\ Len(model) \in Nat
      /\ \A i \in Layers : Sizes[i] \in Nat
  BY ModelType
<1>1. Extra \in Nat /\ Outputs \in Nat \ {0} /\ ProcessorCount = Extra + Len(model)
  BY DivisibleType
<1>2. \A i \in Layers : counts[i] \in Nat /\ counts[i] = 2 + Floor(i)
  BY DivisibleType DEF Shares
<1>3. \A i \in Layers : f[i] \in Int /\ g[i] \in Int /\ f[i] <= g[i]
  <2> SUFFICES ASSUME NEW i \in Layers PROVE f[i] \in Int /\ g[i] \in Int /\ f[i] <= g[i]
    OBVIOUS
  <2>1. f[i] = Extra * Sizes[i] /\ Extra * Sizes[i] = Sizes[i] * Extra
    BY <1>0, <1>1
  <2>2. g[i] = Outputs * (Floor(i) + 1)
    BY <1>2, DivisibleType
  <2>3. /\ Sizes[i] * Extra = (Outputs * Floor(i)) + Rest(i)
        /\ Floor(i) \in Nat /\ Rest(i) \in Nat /\ Rest(i) < Outputs
    BY DivisibleType
  <2>4. Outputs * (Floor(i) + 1) = (Outputs * Floor(i)) + Outputs
    BY <1>1, <2>3
  <2> QED
    BY <1>1, <2>1, <2>2, <2>3, <2>4
<1>4. SumFunctionOnSet(f, Layers) <= SumFunctionOnSet(g, Layers)
  <2> HIDE DEF f, g
  <2> QED
    BY <1>0, <1>3, SumMonotone
<1>5. SumFunctionOnSet(f, Layers) = Extra * Outputs
  <2>1. SumFunctionOnSet(f, Layers) = Extra * SumFunctionOnSet(Sizes, Layers)
    <3> \A i \in Layers : Sizes[i] \in Int
      BY <1>0
    <3> QED
      BY <1>0, <1>1, SumScale
  <2> QED
    BY <2>1 DEF Outputs
<1>6. \A i \in Layers : more[i] = counts[i] + neg[i] /\ more[i] \in Int /\ neg[i] \in Int
  BY <1>2
<1>7. SumFunctionOnSet(g, Layers) = Outputs * SumFunctionOnSet(more, Layers)
  <2> HIDE DEF more
  <2> QED
    BY <1>0, <1>1, <1>6, SumScale
<1>8. SumFunctionOnSet(more, Layers) = Assigned - Len(model)
  <2>1. SumFunctionOnSet(more, Layers)
          = SumFunctionOnSet(counts, Layers) + SumFunctionOnSet(neg, Layers)
    <3> \A i \in Layers : counts[i] \in Int
      BY <1>2
    <3> HIDE DEF neg, more
    <3> QED
      BY <1>0, <1>6, SumPlus
  <2>3. SumFunctionOnSet(neg, Layers) = (-1) * SumFunctionOnSet(ones, Layers)
    <3> \A i \in Layers : ones[i] \in Int /\ neg[i] = (-1) * ones[i]
      OBVIOUS
    <3> HIDE DEF ones, neg
    <3> QED
      BY <1>0, SumScale
  <2>4. SumFunctionOnSet(ones, Layers) = 1 * Cardinality(Layers)
    <3> \A i \in Layers : ones[i] = 1
      OBVIOUS
    <3> HIDE DEF ones
    <3> QED
      BY <1>0, SumConst
  <2> HIDE DEF more, neg, ones
  <2>5. SumFunctionOnSet(counts, Layers) \in Int
    BY <1>0, <1>2, SumInt
  <2>6. SumFunctionOnSet(neg, Layers) = - Len(model)
    BY <1>0, <2>3, <2>4
  <2> QED
    BY <1>0, <2>1, <2>5, <2>6 DEF Assigned
<1>9. Assigned \in Nat
  BY AssignedBounds
<1>10. Outputs * Extra <= Outputs * (Assigned - Len(model))
  BY <1>0, <1>1, <1>4, <1>5, <1>7, <1>8, <1>9
<1>11. Extra <= Assigned - Len(model)
  BY <1>0, <1>1, <1>9, <1>10, Cancel
<1> QED
  BY <1>0, <1>1, <1>9, <1>11

\* The larger layer has no fewer stages.
LEMMA SharesOrdered ==
  ASSUME model \in Models, Divisible, Shares,
         NEW i \in Layers, NEW j \in Layers, Sizes[i] > Sizes[j]
  PROVE  counts[i] >= counts[j]
<1>1. /\ Floor(i) \in Nat /\ Floor(j) \in Nat /\ Rest(i) \in Nat /\ Rest(j) \in Nat
      /\ Extra \in Nat /\ Outputs \in Nat \ {0}
      /\ Sizes[i] * Extra \in Nat /\ Sizes[j] * Extra \in Nat
  BY DivisibleType
<1>2. CASE Extra = 0
  <2>1. Floor(i) = 0 /\ Floor(j) = 0
    <3>1. Sizes[i] * Extra = 0 /\ Sizes[j] * Extra = 0
      BY <1>2, ModelType
    <3> QED
      BY <1>1, <3>1 DEF Floor
  <2> QED
    BY <1>2, <2>1 DEF Shares
<1>3. CASE Extra # 0
  <2>1. Sizes[j] * Extra < Sizes[i] * Extra
    <3>1. /\ Sizes[i] \in Nat /\ Sizes[j] \in Nat /\ Sizes[j] < Sizes[i]
          /\ Extra \in Nat \ {0}
      BY <1>1, <1>3, ModelType
    <3> QED
      BY <3>1, TimesLess
  <2>2. Floor(j) < Floor(i) \/ (Floor(j) = Floor(i) /\ Rest(j) < Rest(i))
    BY <1>1, <2>1, FloorsOrdered DEF Floor, Rest
  <2>3. \/ counts[i] = 1 + Floor(i) /\ rests[i] = Rest(i)
        \/ counts[i] = 2 + Floor(i) /\ rests[i] = -1
    BY DEF Shares
  <2>4. \/ counts[j] = 1 + Floor(j) /\ rests[j] = Rest(j)
        \/ counts[j] = 2 + Floor(j) /\ rests[j] = -1
    BY DEF Shares
  <2>5. rests[j] = -1 /\ rests[i] # -1 => Rest(i) <= Rest(j)
    BY DEF Shares
  <2> QED
    BY <1>1, <2>2, <2>3, <2>4, <2>5
<1> QED
  BY <1>2, <1>3

-----------------------------------------------------------------------------
(***************************************************************************)
(* The stages in order, and the neurons of a layer in order.               *)
(***************************************************************************)
\* Every processor has its stage.
Staged == model \in Models /\ Divisible /\ Shares /\ Assigned = ProcessorCount

\* The types once the stages are shared.
LEMMA StagedType ==
  ASSUME Staged
  PROVE  /\ Len(model) \in Nat /\ Layers = 1 .. Len(model) /\ ProcessorCount \in Nat
         /\ LastOf \in Layers
         /\ \A i \in Layers : /\ counts[i] \in Nat \ {0} /\ Sizes[i] \in Nat
                              /\ model[i].outputs = Sizes[i] /\ model[i].inputs \in Nat
         /\ \A i \in Layers : /\ StagesBefore(i) \in Nat
                              /\ SumFunctionOnSet(counts, 1 .. i - 1) = StagesBefore(i)
                              /\ SumFunctionOnSet(counts, 1 .. i) = StagesBefore(i) + counts[i]
         /\ SumFunctionOnSet(counts, 1 .. Len(model)) = ProcessorCount
<1>1. /\ Len(model) \in Nat /\ Layers = 1 .. Len(model)
      /\ \A i \in Layers : model[i] \in LayerType /\ Sizes[i] = model[i].outputs /\ Sizes[i] \in Nat
  BY ModelType DEF Staged
<1>2. \A i \in Layers : counts[i] \in Nat \ {0}
  BY AssignedBounds DEF Staged
<1>3. ASSUME NEW i \in Layers
      PROVE  /\ StagesBefore(i) \in Nat
             /\ SumFunctionOnSet(counts, 1 .. i - 1) = StagesBefore(i)
             /\ SumFunctionOnSet(counts, 1 .. i) = StagesBefore(i) + counts[i]
  <2>1. /\ 1 \in Int /\ Len(model) \in Int /\ i \in 1 .. Len(model)
        /\ \A l \in 1 .. Len(model) : counts[l] \in Nat
    BY <1>1, <1>2
  <2>2. /\ SumFunctionOnSet(counts, 1 .. i - 1) \in Nat
        /\ SumFunctionOnSet(counts, 1 .. i) = SumFunctionOnSet(counts, 1 .. i - 1) + counts[i]
    BY <2>1, PrefixStep
  <2> QED
    BY <2>2 DEF StagesBefore
<1>4. SumFunctionOnSet(counts, 1 .. Len(model)) = ProcessorCount
  BY <1>1 DEF Staged, Assigned
<1>5. LastOf \in Layers /\ ProcessorCount \in Nat
  BY <1>1, DivisibleType DEF Staged, LastOf
<1> QED
  BY <1>1, <1>2, <1>3, <1>4, <1>5 DEF LayerType

\* The same of one layer.
LEMMA LayerFacts ==
  ASSUME Staged, NEW i \in Layers
  PROVE  /\ i \in Int /\ 1 <= i /\ i <= Len(model) /\ i \in 1 .. Len(model)
         /\ Len(model) \in Int /\ ProcessorCount \in Nat
         /\ counts[i] \in Nat \ {0} /\ Sizes[i] \in Nat
         /\ model[i].outputs = Sizes[i] /\ model[i].inputs \in Nat
         /\ StagesBefore(i) \in Nat
         /\ SumFunctionOnSet(counts, 1 .. i - 1) = StagesBefore(i)
         /\ SumFunctionOnSet(counts, 1 .. i) = StagesBefore(i) + counts[i]
<1>1. Len(model) \in Nat /\ Layers = 1 .. Len(model)
  BY StagedType
<1>2. i \in 1 .. Len(model)
  BY <1>1
<1>3. i \in Int /\ 1 <= i /\ i <= Len(model) /\ Len(model) \in Int
  BY <1>1, <1>2
<1> QED
  BY <1>2, <1>3, StagedType

\* The same as PrefixStep and PrefixFind ask for it.
LEMMA CountsType ==
  ASSUME Staged
  PROVE  1 \in Int /\ Len(model) \in Int /\ \A l \in 1 .. Len(model) : counts[l] \in Nat
<1>1. Layers = 1 .. Len(model) /\ \A l \in Layers : counts[l] \in Nat
  BY StagedType
<1> QED
  BY <1>1, StagedType

\* A stage is a chunk of a layer, and the other way round.
LEMMA StageOfLayer ==
  ASSUME Staged, NEW k \in 0 .. ProcessorCount - 1
  PROVE  /\ LayerOf(k) \in Layers
         /\ ChunkOf(k) \in 0 .. counts[LayerOf(k)] - 1
         /\ k = StagesBefore(LayerOf(k)) + ChunkOf(k)
<1>1. \E i \in 1 .. Len(model) : SumFunctionOnSet(counts, 1 .. i - 1) <= k
                              /\ k < SumFunctionOnSet(counts, 1 .. i)
  <2>1. /\ 1 \in Int /\ Len(model) \in Int /\ \A i \in 1 .. Len(model) : counts[i] \in Nat
        /\ k \in Nat /\ k < SumFunctionOnSet(counts, 1 .. Len(model))
    BY CountsType, StagedType
  <2> QED
    BY <2>1, PrefixFind
<1>2. \E i \in Layers : k \in StagesBefore(i) .. StagesBefore(i) + counts[i] - 1
  BY <1>1, StagedType
<1>3. /\ LayerOf(k) \in Layers
      /\ k \in StagesBefore(LayerOf(k)) .. StagesBefore(LayerOf(k)) + counts[LayerOf(k)] - 1
  BY <1>2 DEF LayerOf
<1> QED
  BY <1>3, LayerFacts DEF ChunkOf

\* A stage belongs to one layer.
LEMMA LayerUnique ==
  ASSUME Staged, NEW k \in Nat,
         NEW i \in Layers, k \in StagesBefore(i) .. StagesBefore(i) + counts[i] - 1,
         NEW j \in Layers, k \in StagesBefore(j) .. StagesBefore(j) + counts[j] - 1
  PROVE  i = j
<1>1. \A l \in 1 .. Len(model) : counts[l] \in Nat
  BY CountsType
<1>2. ASSUME NEW l \in Layers, k \in StagesBefore(l) .. StagesBefore(l) + counts[l] - 1
      PROVE  SumFunctionOnSet(counts, 1 .. l - 1) <= k /\ k < SumFunctionOnSet(counts, 1 .. l)
  <2>1. /\ StagesBefore(l) \in Nat /\ counts[l] \in Nat
        /\ SumFunctionOnSet(counts, 1 .. l - 1) = StagesBefore(l)
        /\ SumFunctionOnSet(counts, 1 .. l) = StagesBefore(l) + counts[l]
    BY LayerFacts
  <2>2. StagesBefore(l) <= k /\ k < StagesBefore(l) + counts[l]
    BY <1>2, <2>1
  <2> QED
    BY <2>1, <2>2
<1>3. i \in 1 .. Len(model) /\ j \in 1 .. Len(model) /\ 1 \in Int /\ Len(model) \in Int
  BY LayerFacts
<1> QED
  BY <1>1, <1>2, <1>3, PrefixUnique

\* The stages of a layer come before those of the next.
LEMMA LayersBefore ==
  ASSUME Staged, NEW i \in Layers, NEW j \in Layers, i < j
  PROVE  StagesBefore(i) + counts[i] <= StagesBefore(j)
<1>0. i \in Int /\ j \in Int /\ Len(model) \in Int /\ 1 <= i /\ j <= Len(model)
  BY LayerFacts
<1>1. /\ i \in 1 .. Len(model) /\ j - 1 \in i .. Len(model) /\ 1 \in Int /\ Len(model) \in Int
      /\ \A l \in 1 .. Len(model) : counts[l] \in Nat
  BY <1>0, CountsType
<1>2. SumFunctionOnSet(counts, 1 .. i) <= SumFunctionOnSet(counts, 1 .. j - 1)
  BY <1>1, PrefixLess
<1> QED
  BY <1>2, LayerFacts

\* The stage of a given chunk of a given layer.
LEMMA StagesOfLayer ==
  ASSUME Staged, NEW i \in Layers, NEW c \in 0 .. counts[i] - 1
  PROVE  /\ StagesBefore(i) + c \in 0 .. ProcessorCount - 1
         /\ LayerOf(StagesBefore(i) + c) = i
         /\ ChunkOf(StagesBefore(i) + c) = c
<1> DEFINE k == StagesBefore(i) + c
<1>1. k \in Nat /\ k \in StagesBefore(i) .. StagesBefore(i) + counts[i] - 1
  BY LayerFacts
<1>2. k \in 0 .. ProcessorCount - 1
  <2>1. /\ i \in 1 .. Len(model) /\ Len(model) \in i .. Len(model) /\ 1 \in Int /\ Len(model) \in Int
        /\ \A l \in 1 .. Len(model) : counts[l] \in Nat
    BY LayerFacts, CountsType
  <2>2. SumFunctionOnSet(counts, 1 .. i) <= SumFunctionOnSet(counts, 1 .. Len(model))
    BY <2>1, PrefixLess
  <2>3. SumFunctionOnSet(counts, 1 .. Len(model)) = ProcessorCount
    BY StagedType
  <2> QED
    BY <1>1, <2>2, <2>3, LayerFacts
<1> HIDE DEF k
<1>3. /\ LayerOf(k) \in Layers
      /\ k \in StagesBefore(LayerOf(k)) .. StagesBefore(LayerOf(k)) + counts[LayerOf(k)] - 1
  <2>1. /\ LayerOf(k) \in Layers /\ ChunkOf(k) \in 0 .. counts[LayerOf(k)] - 1
        /\ k = StagesBefore(LayerOf(k)) + ChunkOf(k)
    BY <1>2, StageOfLayer
  <2>2. PICK l \in Layers : l = LayerOf(k)
    BY <2>1
  <2>3. StagesBefore(l) \in Nat /\ counts[l] \in Nat
    BY LayerFacts
  <2> QED
    BY <2>1, <2>2, <2>3
<1>4. LayerOf(k) = i
  BY <1>1, <1>3, LayerUnique
<1>5. ChunkOf(k) = c
  BY <1>4, LayerFacts DEF ChunkOf, k
<1> QED
  BY <1>2, <1>4, <1>5 DEF k

\* The stage after stage k is the next chunk, or the first of the next layer.
LEMMA StageAfter ==
  ASSUME Staged, NEW k \in 0 .. ProcessorCount - 1, k + 1 < ProcessorCount
  PROVE  \/ /\ ChunkOf(k) + 1 # counts[LayerOf(k)]
            /\ LayerOf(k + 1) = LayerOf(k) /\ ChunkOf(k + 1) = ChunkOf(k) + 1
         \/ /\ ChunkOf(k) + 1 = counts[LayerOf(k)] /\ LayerOf(k) # LastOf
            /\ LayerOf(k + 1) = LayerOf(k) + 1 /\ ChunkOf(k + 1) = 0
<1> DEFINE i == LayerOf(k)
           c == ChunkOf(k)
<1>1. i \in Layers /\ c \in 0 .. counts[i] - 1 /\ k = StagesBefore(i) + c
  BY StageOfLayer
<1> HIDE DEF i, c
<1>2. CASE c + 1 # counts[i]
  <2>1. c + 1 \in 0 .. counts[i] - 1 /\ k + 1 = StagesBefore(i) + (c + 1)
    BY <1>1, <1>2, LayerFacts, SMTT(30)
  <2>2. LayerOf(k + 1) = i /\ ChunkOf(k + 1) = c + 1
    BY <1>1, <2>1, StagesOfLayer
  <2> QED
    BY <1>2, <2>2 DEF i, c
<1>3. CASE c + 1 = counts[i]
  <2>1. k + 1 = SumFunctionOnSet(counts, 1 .. i)
    BY <1>1, <1>3, LayerFacts, SMTT(30)
  <2>2. i # LastOf
    BY <2>1, StagedType DEF LastOf
  <2>3. i + 1 \in Layers /\ (i + 1) - 1 = i
    <3>1. Layers = 1 .. Len(model)
      BY StagedType
    <3>2. i + 1 \in 1 .. Len(model)
      BY <1>1, <2>2, LayerFacts, SMTT(30) DEF LastOf
    <3> QED
      BY <1>1, <3>1, <3>2, LayerFacts
  <2>4. StagesBefore(i + 1) = k + 1
    BY <2>1, <2>3 DEF StagesBefore
  <2>5. 0 \in 0 .. counts[i + 1] - 1 /\ k + 1 = StagesBefore(i + 1) + 0
    BY <2>3, <2>4, LayerFacts
  <2>6. LayerOf(k + 1) = i + 1 /\ ChunkOf(k + 1) = 0
    BY <2>3, <2>5, StagesOfLayer
  <2> QED
    BY <1>3, <2>2, <2>6 DEF i, c
<1> QED
  BY <1>2, <1>3

-----------------------------------------------------------------------------
\* Where chunk c of layer i begins.
Begin(i, c) == SumFunctionOnSet(Chunks(i), 0 .. c - 1)

\* split_evenly gives the first chunks the neurons that do not divide.
LEMMA ChunkSize ==
  ASSUME Staged, NEW i \in Layers, NEW c \in 0 .. counts[i] - 1
  PROVE  /\ Chunks(i)[c] = (Sizes[i] \div counts[i]) + (IF c < Sizes[i] % counts[i] THEN 1 ELSE 0)
         /\ Chunks(i)[c] \in Nat
         /\ Sizes[i] \div counts[i] \in Nat /\ Sizes[i] % counts[i] \in 0 .. counts[i] - 1
         /\ Sizes[i] = (counts[i] * (Sizes[i] \div counts[i])) + (Sizes[i] % counts[i])
<1>1. counts[i] \in Nat \ {0} /\ Sizes[i] \in Nat /\ model[i].outputs = Sizes[i]
  BY LayerFacts
<1>2. /\ Sizes[i] \div counts[i] \in Nat /\ Sizes[i] % counts[i] \in 0 .. counts[i] - 1
      /\ Sizes[i] = (counts[i] * (Sizes[i] \div counts[i])) + (Sizes[i] % counts[i])
  BY <1>1, DivMod
<1>3. Chunks(i)[c] = Split(Sizes[i], counts[i], c)
  BY <1>1 DEF Chunks
<1>4. Chunks(i)[c] = (Sizes[i] \div counts[i]) + (IF c < Sizes[i] % counts[i] THEN 1 ELSE 0)
  BY <1>3 DEF Split
<1>5. Chunks(i)[c] \in Nat
  BY <1>2, <1>4
<1> QED
  BY <1>2, <1>4, <1>5

\* The chunks follow each other and cover the layer.
LEMMA ChunksCover ==
  ASSUME Staged, NEW i \in Layers
  PROVE  /\ Begin(i, 0) = 0 /\ Begin(i, counts[i]) = Sizes[i]
         /\ \A c \in 0 .. counts[i] : Begin(i, c) \in Nat
         /\ \A c \in 0 .. counts[i] - 1 : Begin(i, c + 1) = Begin(i, c) + Chunks(i)[c]
<1> DEFINE n == counts[i]
           q == Sizes[i] \div n
           r == Sizes[i] % n
           T == {c \in Nat : c <= n => Begin(i, c) = (c * q) + (IF c < r THEN c ELSE r)}
<1>0. n \in Nat \ {0}
  BY LayerFacts
<1>1. Begin(i, 0) = 0
  <2>1. 0 .. 0 - 1 = {}
    OBVIOUS
  <2> QED
    BY <2>1, SumEmpty, Zenon DEF Begin
<1>2. ASSUME NEW c \in 0 .. n - 1
      PROVE  Begin(i, c) \in Nat /\ Begin(i, c + 1) \in Nat /\ Begin(i, c + 1) = Begin(i, c) + Chunks(i)[c]
  <2>1. 0 \in Int /\ n - 1 \in Int /\ \A d \in 0 .. n - 1 : Chunks(i)[d] \in Nat
    BY <1>0, ChunkSize
  <2>2. /\ SumFunctionOnSet(Chunks(i), 0 .. c - 1) \in Nat /\ SumFunctionOnSet(Chunks(i), 0 .. c) \in Nat
        /\ SumFunctionOnSet(Chunks(i), 0 .. c) = SumFunctionOnSet(Chunks(i), 0 .. c - 1) + Chunks(i)[c]
    BY <2>1, PrefixStep
  <2>3. (c + 1) - 1 = c
    BY <1>0
  <2> QED
    BY <2>2, <2>3 DEF Begin
<1>3. /\ q \in Nat /\ r \in 0 .. n - 1 /\ Sizes[i] = (n * q) + r
      /\ \A c \in 0 .. n - 1 : Chunks(i)[c] = q + (IF c < r THEN 1 ELSE 0)
  <2>1. 0 \in 0 .. n - 1
    BY <1>0
  <2> QED
    BY <2>1, ChunkSize
<1> HIDE DEF q, r, n
<1>4. 0 \in T
  BY <1>0, <1>1, <1>3
<1>5. ASSUME NEW c \in T PROVE c + 1 \in T
  <2> SUFFICES ASSUME c + 1 <= n
               PROVE  Begin(i, c + 1) = ((c + 1) * q) + (IF c + 1 < r THEN c + 1 ELSE r)
    OBVIOUS
  <2>1. c \in 0 .. n - 1 /\ c \in Nat /\ Begin(i, c) = (c * q) + (IF c < r THEN c ELSE r)
    BY <1>0
  <2>2. Begin(i, c + 1) = Begin(i, c) + (q + (IF c < r THEN 1 ELSE 0))
    BY <1>2, <1>3, <2>1
  <2>3. (c + 1) * q = (c * q) + q /\ c * q \in Nat
    BY <1>3, <2>1
  <2> QED
    BY <1>0, <1>3, <2>1, <2>2, <2>3
<1>6. T = Nat
  <2> HIDE DEF T
  <2>1. T \in SUBSET Nat
    BY DEF T
  <2> QED
    BY <1>4, <1>5, <2>1, Induction
<1>7. Begin(i, n) = (n * q) + r
  <2>1. n \in T
    BY <1>0, <1>6
  <2> QED
    BY <1>0, <1>3, <2>1
<1>8. \A c \in 0 .. n : Begin(i, c) \in Nat
  <2> SUFFICES ASSUME NEW c \in 0 .. n PROVE Begin(i, c) \in Nat
    OBVIOUS
  <2>1. CASE c = 0
    BY <1>1, <2>1
  <2>2. CASE c # 0
    <3>1. c - 1 \in 0 .. n - 1 /\ (c - 1) + 1 = c
      BY <1>0, <2>2
    <3>2. Begin(i, (c - 1) + 1) \in Nat
      BY <1>2, <3>1
    <3> QED
      BY <3>1, <3>2
  <2> QED
    BY <2>1, <2>2
<1> QED
  BY <1>1, <1>2, <1>3, <1>7, <1>8 DEF n

-----------------------------------------------------------------------------
(***************************************************************************)
(* What each loop writes for stage k, as a function of k.                  *)
(***************************************************************************)
\* Where the neurons of layer i begin in the hidden header.
HiddenBefore(i) == SumFunctionOnSet(Sizes, 1 .. i - 1)

StageOf(k) ==
  [proc  |-> k, layer |-> LayerOf(k), first |-> First(k), last |-> Last(k),
   from  |-> IF LayerOf(k) = 1 THEN "input" ELSE "hidden",
   input |-> IF LayerOf(k) = 1 THEN 0 ELSE HiddenBefore(LayerOf(k)),
   to    |-> IF LayerOf(k) = LastOf THEN "final" ELSE "hidden",
   output |-> First(k) + IF LayerOf(k) = LastOf THEN 0 ELSE HiddenBefore(LayerOf(k))]

ContextOf(k) ==
  [inputs  |-> model[LayerOf(k)].inputs,
   weights |-> Flat(model[LayerOf(k)].inputs, First(k), Last(k)),
   biases  |-> [n \in 1 .. Last(k) - First(k) + 1 |-> First(k) + n - 1]]

OperatorOf(k) ==
  [ctx |-> k, from |-> StageOf(k).from, input |-> StageOf(k).input,
   inputs |-> model[LayerOf(k)].inputs,
   to |-> StageOf(k).to, output |-> StageOf(k).output,
   outputs |-> StageOf(k).last - StageOf(k).first + 1]

\* The layers and the counts decide all of it.
LEMMA SameStages ==
  ASSUME UNCHANGED <<model, counts>>, NEW k
  PROVE  /\ StageOf(k)' = StageOf(k) /\ ContextOf(k)' = ContextOf(k)
         /\ OperatorOf(k)' = OperatorOf(k)
         /\ LayerOf(k)' = LayerOf(k) /\ HiddenBefore(LayerOf(k))' = HiddenBefore(LayerOf(k))
         /\ (Sizes[LayerOf(k)])' = Sizes[LayerOf(k)]
<1>0. model' = model /\ counts' = counts
  OBVIOUS
<1>1. LayerOf(k)' = LayerOf(k)
  BY <1>0, Zenon DEF LayerOf, StagesBefore, Layers
<1>2. ChunkOf(k)' = ChunkOf(k)
  BY <1>0, <1>1, Zenon DEF ChunkOf, StagesBefore
<1>3. First(k)' = First(k)
  BY <1>0, <1>1, <1>2, Zenon DEF First, Chunks
<1>4. Last(k)' = Last(k)
  BY <1>0, <1>1, <1>2, <1>3, Zenon DEF Last, Chunks
<1>5. HiddenBefore(LayerOf(k))' = HiddenBefore(LayerOf(k))
  BY <1>0, <1>1, Zenon DEF HiddenBefore, Sizes, Layers
<1>6. StageOf(k)' = StageOf(k)
  BY <1>0, <1>1, <1>3, <1>4, <1>5, Zenon DEF StageOf, LastOf
<1>7. ContextOf(k)' = ContextOf(k)
  BY <1>0, <1>1, <1>3, <1>4, Zenon DEF ContextOf
<1>8. OperatorOf(k)' = OperatorOf(k)
  BY <1>0, <1>1, <1>6, Zenon DEF OperatorOf
<1>9. (Sizes[LayerOf(k)])' = Sizes[LayerOf(k)]
  BY <1>0, <1>1, Zenon DEF Sizes, Layers
<1> QED
  BY <1>1, <1>5, <1>6, <1>7, <1>8, <1>9

\* A chunk ends before the next begins.
LEMMA BeginsOrdered ==
  ASSUME Staged, NEW i \in Layers, NEW c \in 0 .. counts[i] - 1, NEW d \in c + 1 .. counts[i]
  PROVE  Begin(i, c + 1) <= Begin(i, d)
<1>0. counts[i] \in Nat
  BY LayerFacts
<1>1. /\ 0 \in Int /\ counts[i] - 1 \in Int /\ c \in 0 .. counts[i] - 1 /\ d - 1 \in c .. counts[i] - 1
      /\ (c + 1) - 1 = c
  BY <1>0
<1>2. \A x \in 0 .. counts[i] - 1 : Chunks(i)[x] \in Nat
  BY ChunkSize
<1>3. SumFunctionOnSet(Chunks(i), 0 .. c) <= SumFunctionOnSet(Chunks(i), 0 .. d - 1)
  BY <1>1, <1>2, PrefixLess
<1> QED
  BY <1>1, <1>3 DEF Begin

\* The neurons of a stage are within its layer.
LEMMA StageFacts ==
  ASSUME Staged, NEW k \in 0 .. ProcessorCount - 1
  PROVE  /\ First(k) = Begin(LayerOf(k), ChunkOf(k)) /\ First(k) \in Nat
         /\ Last(k) - First(k) + 1 = Chunks(LayerOf(k))[ChunkOf(k)]
         /\ Chunks(LayerOf(k))[ChunkOf(k)] \in Nat
         /\ Last(k) + 1 = Begin(LayerOf(k), ChunkOf(k) + 1)
         /\ Last(k) \in Int /\ Last(k) + 1 <= Sizes[LayerOf(k)]
<1> DEFINE i == LayerOf(k)
           c == ChunkOf(k)
<1>1. i \in Layers /\ c \in 0 .. counts[i] - 1
  BY StageOfLayer
<1>2. First(k) = Begin(i, c)
  BY DEF First, Begin
<1>3. Last(k) = First(k) + Chunks(i)[c] - 1
  BY DEF Last
<1> HIDE DEF i, c
<1>4. counts[i] \in Nat \ {0} /\ Sizes[i] \in Nat
  BY <1>1, LayerFacts
<1>5. /\ Begin(i, c) \in Nat /\ Begin(i, c + 1) \in Nat /\ Begin(i, counts[i]) = Sizes[i]
      /\ Begin(i, c + 1) = Begin(i, c) + Chunks(i)[c]
  <2>1. c \in 0 .. counts[i] /\ c + 1 \in 0 .. counts[i]
    BY <1>1, <1>4
  <2> QED
    BY <1>1, <2>1, ChunksCover
<1>6. Chunks(i)[c] \in Nat
  BY <1>1, ChunkSize
<1>7. Begin(i, c + 1) <= Begin(i, counts[i])
  <2>1. counts[i] \in c + 1 .. counts[i]
    BY <1>1, <1>4
  <2> QED
    BY <1>1, <2>1, BeginsOrdered
<1> QED
  BY <1>2, <1>3, <1>4, <1>5, <1>6, <1>7 DEF i, c

\* A layer of no fewer neurons than stages leaves no stage without one.
LEMMA StageBusy ==
  ASSUME Staged, NEW k \in 0 .. ProcessorCount - 1, Sizes[LayerOf(k)] >= counts[LayerOf(k)]
  PROVE  Chunks(LayerOf(k))[ChunkOf(k)] >= 1 /\ Last(k) \in Nat /\ First(k) <= Last(k)
<1> DEFINE i == LayerOf(k)
           c == ChunkOf(k)
           n == counts[i]
           q == Sizes[i] \div n
           r == Sizes[i] % n
<1>1. i \in Layers /\ c \in 0 .. n - 1
  BY StageOfLayer
<1>2. n \in Nat \ {0} /\ Sizes[i] \in Nat
  BY <1>1, LayerFacts
<1>3. /\ Chunks(i)[c] = q + (IF c < r THEN 1 ELSE 0)
      /\ q \in Nat /\ r \in 0 .. n - 1 /\ Sizes[i] = (n * q) + r
  BY <1>1, ChunkSize
<1>4. Sizes[i] >= n
  OBVIOUS
<1>5. First(k) \in Nat /\ Last(k) - First(k) + 1 = Chunks(i)[c] /\ Last(k) \in Int
  BY StageFacts
<1> HIDE DEF i, c, n, q, r
<1>6. q # 0
  BY <1>2, <1>3, <1>4
<1>7. Chunks(i)[c] >= 1
  BY <1>3, <1>6
<1> QED
  BY <1>3, <1>5, <1>7 DEF i, c

\* The parts of the layers follow each other in the hidden header.
LEMMA HiddenFacts ==
  ASSUME Staged
  PROVE  /\ HiddenBefore(1) = 0 /\ HiddenWords = HiddenBefore(LastOf)
         /\ \A i \in Layers : HiddenBefore(i) \in Nat
         /\ \A i \in Layers \ {LastOf} : HiddenBefore(i + 1) = HiddenBefore(i) + Sizes[i]
         /\ \A i, j \in Layers : i < j => HiddenBefore(i) + Sizes[i] <= HiddenBefore(j)
<1>1. /\ Len(model) \in Nat /\ Layers = 1 .. Len(model) /\ LastOf = Len(model) /\ LastOf \in Layers
      /\ \A i \in 1 .. Len(model) : Sizes[i] \in Nat
  BY StagedType DEF LastOf
<1>2. HiddenBefore(1) = 0
  <2>1. 1 .. 1 - 1 = {}
    OBVIOUS
  <2> QED
    BY <2>1, SumEmpty, Zenon DEF HiddenBefore
<1>3. HiddenWords = HiddenBefore(LastOf)
  <2>1. Layers \ {LastOf} = 1 .. LastOf - 1
    BY <1>1
  <2> QED
    BY <2>1 DEF HiddenWords, HiddenBefore
<1>4. ASSUME NEW i \in Layers
      PROVE  /\ HiddenBefore(i) \in Nat
             /\ SumFunctionOnSet(Sizes, 1 .. i) = HiddenBefore(i) + Sizes[i]
  <2>1. 1 \in Int /\ Len(model) \in Int /\ i \in 1 .. Len(model)
    BY <1>1
  <2>2. /\ SumFunctionOnSet(Sizes, 1 .. i - 1) \in Nat
        /\ SumFunctionOnSet(Sizes, 1 .. i) = SumFunctionOnSet(Sizes, 1 .. i - 1) + Sizes[i]
    BY <1>1, <2>1, PrefixStep
  <2> QED
    BY <2>2 DEF HiddenBefore
<1>5. ASSUME NEW i \in Layers \ {LastOf}
      PROVE  HiddenBefore(i + 1) = HiddenBefore(i) + Sizes[i]
  <2>1. (i + 1) - 1 = i
    BY <1>1
  <2> QED
    BY <1>4, <2>1 DEF HiddenBefore
<1>6. ASSUME NEW i \in Layers, NEW j \in Layers, i < j
      PROVE  HiddenBefore(i) + Sizes[i] <= HiddenBefore(j)
  <2>0. i \in Int /\ j \in Int /\ Len(model) \in Int /\ 1 <= i /\ j <= Len(model)
    BY LayerFacts
  <2>1. 1 \in Int /\ Len(model) \in Int /\ i \in 1 .. Len(model) /\ j - 1 \in i .. Len(model)
    BY <1>6, <2>0
  <2>2. SumFunctionOnSet(Sizes, 1 .. i) <= SumFunctionOnSet(Sizes, 1 .. j - 1)
    BY <1>1, <2>1, PrefixLess
  <2> QED
    BY <1>4, <2>2 DEF HiddenBefore
<1> QED
  BY <1>2, <1>3, <1>4, <1>5, <1>6

\* The type of a mapping.
LEMMA StageOfType ==
  ASSUME Staged, NEW k \in 0 .. ProcessorCount - 1, Sizes[LayerOf(k)] >= counts[LayerOf(k)]
  PROVE  StageOf(k) \in StageType
<1>1. LayerOf(k) \in Layers /\ LayerOf(k) \in Nat
  BY StageOfLayer, StagedType
<1>2. First(k) \in Nat /\ Last(k) \in Nat
  BY StageFacts, StageBusy
<1>3. HiddenBefore(LayerOf(k)) \in Nat
  BY <1>1, HiddenFacts
<1>4. k \in Processor
  BY CountAssumption DEF Processor
<1> QED
  BY <1>1, <1>2, <1>3, <1>4 DEF StageOf, StageType

\* The type of a context.
LEMMA ContextOfType ==
  ASSUME Staged, NEW k \in 0 .. ProcessorCount - 1
  PROVE  ContextOf(k) \in ContextType
<1> DEFINE inputs == model[LayerOf(k)].inputs
           first  == First(k)
           width  == Last(k) - First(k) + 1
           weight(n) == <<(n - 1) \div width, first + ((n - 1) % width)>>
<1>1. inputs \in Nat
  BY StageOfLayer, LayerFacts
<1>2. first \in Nat /\ width \in Nat
  BY StageFacts
<1>3. Flat(inputs, First(k), Last(k)) = [n \in 1 .. inputs * width |-> weight(n)]
  BY DEF Flat
<1> HIDE DEF inputs, first, width
<1>4. ASSUME NEW n \in 1 .. inputs * width PROVE weight(n) \in Nat \X Nat
  <2>1. width # 0
    BY <1>1, <1>2
  <2>2. n - 1 \in Nat /\ width \in Nat \ {0}
    BY <1>1, <1>2, <2>1
  <2>3. (n - 1) \div width \in Nat /\ (n - 1) % width \in Nat
    BY <2>2, DivMod
  <2> QED
    BY <1>2, <2>3
<1> HIDE DEF weight
<1>5. [n \in 1 .. inputs * width |-> weight(n)] \in Seq(Nat \X Nat)
  <2>1. inputs * width \in Nat
    BY <1>1, <1>2
  <2> QED
    BY <1>4, <2>1, IsASeq
<1>6. [n \in 1 .. width |-> first + n - 1] \in Seq(Nat)
  <2>1. \A n \in 1 .. width : first + n - 1 \in Nat
    BY <1>2
  <2> QED
    BY <1>2, <2>1, IsASeq
<1>7. ContextOf(k) = [inputs |-> inputs, weights |-> [n \in 1 .. inputs * width |-> weight(n)],
                      biases |-> [n \in 1 .. width |-> first + n - 1]]
  BY <1>3 DEF ContextOf, inputs, first, width
<1> QED
  BY <1>1, <1>5, <1>6, <1>7 DEF ContextType

\* The type of an operator.
LEMMA OperatorOfType ==
  ASSUME Staged, NEW k \in 0 .. ProcessorCount - 1, Sizes[LayerOf(k)] >= counts[LayerOf(k)]
  PROVE  OperatorOf(k) \in OperatorType /\ OperatorOf(k) # None
<1>1. StageOf(k) \in StageType
  BY StageOfType
<1>2. model[LayerOf(k)].inputs \in Nat
  BY StageOfLayer, LayerFacts
<1>3. StageOf(k).last - StageOf(k).first + 1 \in Nat
  BY StageFacts DEF StageOf
<1>4. OperatorOf(k) \in OperatorType
  BY <1>1, <1>2, <1>3 DEF OperatorOf, StageType, OperatorType
<1>5. OperatorOf(k).ctx # None.ctx
  BY DEF OperatorOf, None
<1> QED
  BY <1>4, <1>5

-----------------------------------------------------------------------------
(***************************************************************************)
(* The inductive invariant, by phase.                                      *)
(***************************************************************************)
Unwritten ==
  /\ plan = <<>> /\ cursor = 0 /\ contexts = <<>>
  /\ overlay = [p \in Processor |-> None]

Unshared == pc \in {"load", "threw"} /\ counts = <<>> /\ rests = <<>> /\ Unwritten

Sharing == pc = "share" /\ Divisible /\ Shares /\ Assigned <= ProcessorCount /\ Unwritten

\* build_stage_mappings has written the first stages, none of them empty, and keeps
\* in its cursor where the layer of the next one begins.
Planned ==
  /\ plan \in Seq(StageType) /\ Len(plan) <= ProcessorCount
  /\ \A k \in 0 .. Len(plan) - 1 :
       plan[k + 1] = StageOf(k) /\ Sizes[LayerOf(k)] >= counts[LayerOf(k)]
  /\ cursor \in Nat
  /\ Len(plan) < ProcessorCount => cursor = HiddenBefore(LayerOf(Len(plan)))
  /\ pc \in {"contexts", "overlay", "done"} => Len(plan) = ProcessorCount

Weighed ==
  /\ contexts \in Seq(ContextType) /\ Len(contexts) <= ProcessorCount
  /\ \A k \in 0 .. Len(contexts) - 1 : contexts[k + 1] = ContextOf(k)
  /\ pc \in {"overlay", "done"} => Len(contexts) = ProcessorCount

\* The processors below n have their operators, when every stage is planned.
OverlaidTo(n) ==
  /\ overlay = [p \in Processor |-> IF p < n THEN OperatorOf(p) ELSE None]
  /\ n > 0 => pc \in {"overlay", "done"}
  /\ pc = "done" => n = ProcessorCount

Laying ==
  /\ pc \in {"map", "contexts", "overlay", "done", "threw"}
  /\ Divisible /\ Shares /\ Assigned = ProcessorCount
  /\ Planned /\ Weighed /\ \E n \in 0 .. ProcessorCount : OverlaidTo(n)

Inv == model \in Models /\ (Unshared \/ Sharing \/ Laying)

\* The layers, the counts and the fractions decide the shares.
LEMMA SameShares ==
  ASSUME UNCHANGED <<model, counts, rests>>
  PROVE  Divisible' = Divisible /\ Shares' = Shares /\ Assigned' = Assigned
<1>0. model' = model /\ counts' = counts /\ rests' = rests
  OBVIOUS
<1>1. Divisible' = Divisible
  BY <1>0, Zenon DEF Divisible, Outputs, Sizes, Layers
<1>2. Assigned' = Assigned
  BY <1>0, Zenon DEF Assigned, Layers
<1>3. Shares' = Shares
  BY <1>0, Zenon DEF Shares, Floor, Rest, Outputs, Sizes, Layers, Extra
<1> QED
  BY <1>1, <1>2, <1>3

\* The facts about stages hold while the three loops run.
LEMMA LayingStaged == model \in Models /\ Laying => Staged
  BY DEF Laying, Staged

\* How many processors have their operator.
LEMMA WrittenSoFar ==
  ASSUME model \in Models, Laying, NEW n \in 0 .. ProcessorCount, OverlaidTo(n)
  PROVE  Written = 0 .. n - 1 /\ Cardinality(Written) = n
<1>0. ProcessorCount \in Nat /\ OverlayCount \in Nat /\ ProcessorCount <= OverlayCount
  BY CountAssumption
<1>1. ASSUME NEW p \in Processor PROVE overlay[p] # None <=> p < n
  <2>1. CASE p < n
    <3>1. p \in 0 .. ProcessorCount - 1 /\ n > 0
      BY <1>0, <2>1 DEF Processor
    <3>2. Len(plan) = ProcessorCount
      BY <3>1 DEF OverlaidTo, Laying, Planned
    <3>3. Sizes[LayerOf(p)] >= counts[LayerOf(p)]
      BY <3>1, <3>2 DEF Laying, Planned
    <3>4. OperatorOf(p) # None
      BY <3>1, <3>3, LayingStaged, OperatorOfType
    <3> QED
      BY <2>1, <3>4 DEF OverlaidTo
  <2>2. CASE ~ (p < n)
    BY <2>2 DEF OverlaidTo
  <2> QED
    BY <2>1, <2>2
<1>2. Written = 0 .. n - 1
  BY <1>0, <1>1 DEF Written, Processor
<1>3. Cardinality(0 .. n - 1) = n
  <2>1. Cardinality(0 .. n - 1) = IF 0 > n - 1 THEN 0 ELSE (n - 1) - 0 + 1
    <3>1. 0 \in Int /\ n - 1 \in Int
      BY <1>0
    <3> QED
      BY <3>1, FS_Interval
  <2> QED
    BY <1>0, <2>1
<1> QED
  BY <1>2, <1>3

\* The whole parts of the shares (allocate_stage_counts).
LEMMA ShareFloorsInv == model \in Models /\ Unshared /\ ShareFloors => Sharing'
<1> SUFFICES ASSUME model \in Models, Unshared, ShareFloors PROVE Sharing'
  OBVIOUS
<1> USE DEF ShareFloors
<1>0. model' = model
  OBVIOUS
<1>1. /\ IsFiniteSet(Layers) /\ Cardinality(Layers) = Len(model) /\ Len(model) \in Nat
      /\ \A i \in Layers : Sizes[i] = model[i].outputs
  BY ModelType
<1>2. Divisible /\ Layers' = Layers /\ Divisible' = Divisible
  BY <1>0, Zenon DEF Divisible, Outputs, Sizes, Layers
<1>3. /\ Extra \in Nat /\ ProcessorCount = Extra + Len(model)
      /\ \A i \in Layers : Floor(i) \in Nat /\ Rest(i) \in Nat
  BY <1>2, DivisibleType
<1>4. \A i : Floor(i)' = Floor(i) /\ Rest(i)' = Rest(i)
  BY <1>0, Zenon DEF Floor, Rest, Outputs, Sizes, Layers, Extra
<1>5. /\ counts' = [i \in Layers |-> 1 + Floor(i)]
      /\ rests' = [i \in Layers |-> Rest(i)]
  BY <1>1 DEF Floor, Rest
<1>6. Shares'
  <2>1. counts' \in [Layers -> Nat] /\ rests' \in [Layers -> Nat \cup {-1}]
    BY <1>3, <1>5
  <2>2. \A i \in Layers : counts'[i] = 1 + Floor(i)' /\ rests'[i] = Rest(i)' /\ rests'[i] # -1
    BY <1>3, <1>4, <1>5
  <2> QED
    BY <1>2, <2>1, <2>2 DEF Shares
<1>7. Assigned' <= ProcessorCount
  <2> DEFINE ones == [i \in Layers |-> 1]
  <2>1. \A i \in Layers : /\ ones[i] = 1 /\ ones[i] \in Int
                         /\ Floors[i] \in Int /\ counts'[i] = ones[i] + Floors[i]
    BY <1>3, <1>5 DEF Floors
  <2> HIDE DEF ones
  <2>2. SumFunctionOnSet(counts', Layers) = SumFunctionOnSet(ones, Layers) + SumFunctionOnSet(Floors, Layers)
    <3> DEFINE c == counts'
    <3>1. \A i \in Layers : ones[i] \in Int /\ Floors[i] \in Int /\ c[i] = ones[i] + Floors[i]
      BY <2>1
    <3> HIDE DEF c
    <3>2. SumFunctionOnSet(c, Layers) = SumFunctionOnSet(ones, Layers) + SumFunctionOnSet(Floors, Layers)
      BY <1>1, <3>1, SumPlus
    <3> QED
      BY <3>2 DEF c
  <2>3. SumFunctionOnSet(ones, Layers) = 1 * Cardinality(Layers)
    BY <1>1, <2>1, SumConst
  <2>4. SumFunctionOnSet(Floors, Layers) \in Nat /\ SumFunctionOnSet(Floors, Layers) <= Extra
    BY <1>2, FloorsFit
  <2>5. Assigned' = SumFunctionOnSet(counts', Layers)
    BY <1>2 DEF Assigned
  <2> QED
    BY <1>1, <1>3, <2>2, <2>3, <2>4, <2>5
<1>8. Unwritten'
  BY DEF Unshared, Unwritten
<1> QED
  BY <1>2, <1>6, <1>7, <1>8 DEF Sharing

\* A stage more for the largest fraction waiting (allocate_stage_counts).
LEMMA ShareRestInv == model \in Models /\ Sharing /\ ShareRest => Sharing'
<1> SUFFICES ASSUME model \in Models, Sharing, ShareRest PROVE Sharing'
  OBVIOUS
<1>0. model' = model /\ pc' = pc /\ Assigned < ProcessorCount
  BY DEF ShareRest
<1>1. PICK i \in Layers :
        /\ \A j \in Layers : rests[j] <= rests[i]
        /\ counts' = [counts EXCEPT ![i] = @ + 1]
        /\ rests' = [rests EXCEPT ![i] = -1]
  BY DEF ShareRest
<1>2. Divisible /\ Shares
  BY DEF Sharing
<1>3. Layers' = Layers /\ Divisible' = Divisible /\ Extra' = Extra
  BY <1>0, Zenon DEF Divisible, Outputs, Sizes, Layers, Extra
<1>4. \A j : Floor(j)' = Floor(j) /\ Rest(j)' = Rest(j)
  BY <1>0, Zenon DEF Floor, Rest, Outputs, Sizes, Layers, Extra
<1>5. /\ Extra \in Nat /\ ProcessorCount = Extra + Len(model) /\ Len(model) \in Nat
      /\ \A j \in Layers : Floor(j) \in Nat /\ Rest(j) \in Nat
  BY <1>2, DivisibleType
<1>6. Assigned \in Nat /\ Len(model) <= Assigned
  BY <1>2, AssignedBounds
<1>7. Extra # 0
  BY <1>0, <1>5, <1>6
<1>8. counts \in [Layers -> Nat] /\ rests \in [Layers -> Nat \cup {-1}]
  BY <1>2 DEF Shares
<1>9. \A j \in Layers : \/ counts[j] = 1 + Floor(j) /\ rests[j] = Rest(j)
                        \/ counts[j] = 2 + Floor(j) /\ rests[j] = -1
  BY <1>2 DEF Shares
<1>10. rests[i] # -1
  <2>1. PICK j \in Layers : rests[j] # -1
    BY <1>0, <1>2, SomeoneWaits
  <2>2. rests[j] \in Nat /\ rests[j] <= rests[i]
    BY <1>1, <1>8, <2>1
  <2> QED
    BY <1>8, <2>2
<1>11. /\ counts'[i] = 2 + Floor(i) /\ rests'[i] = -1 /\ rests[i] = Rest(i)
       /\ \A j \in Layers \ {i} : counts'[j] = counts[j] /\ rests'[j] = rests[j]
  <2>1. counts[i] = 1 + Floor(i) /\ rests[i] = Rest(i)
    BY <1>9, <1>10
  <2>2. counts'[i] = counts[i] + 1
    BY <1>1, <1>8
  <2>3. counts'[i] = 2 + Floor(i)
    BY <1>5, <2>1, <2>2
  <2> QED
    BY <1>1, <1>8, <2>1, <2>3
<1>12. Shares'
  <2>1. counts' \in [Layers -> Nat] /\ rests' \in [Layers -> Nat \cup {-1}]
    BY <1>1, <1>8
  <2>2. ASSUME NEW j \in Layers
        PROVE  \/ counts'[j] = 1 + Floor(j)' /\ rests'[j] = Rest(j)'
               \/ counts'[j] = 2 + Floor(j)' /\ rests'[j] = -1 /\ Extra' # 0
    BY <1>2, <1>3, <1>4, <1>7, <1>11 DEF Shares
  <2>3. ASSUME NEW j \in Layers, NEW l \in Layers, rests'[j] = -1, rests'[l] # -1
        PROVE  Rest(l)' <= Rest(j)'
    <3>1. l # i /\ rests[l] # -1 /\ rests[l] = Rest(l)
      BY <1>9, <1>11, <2>3
    <3>2. CASE j = i
      BY <1>1, <1>4, <1>11, <3>1, <3>2
    <3>3. CASE j # i
      BY <1>2, <1>4, <1>11, <2>3, <3>1, <3>3 DEF Shares
    <3> QED
      BY <3>2, <3>3
  <2> QED
    BY <1>3, <2>1, <2>2, <2>3 DEF Shares
<1>13. Assigned' <= ProcessorCount
  <2> DEFINE c == counts'
  <2>1. IsFiniteSet(Layers) /\ \A j \in Layers : counts[j] \in Int
    BY <1>8, ModelType
  <2>2. c[i] = counts[i] + 1 /\ c[i] \in Int /\ counts[i] \in Int /\ \A j \in Layers \ {i} : c[j] = counts[j]
    BY <1>1, <1>8
  <2> HIDE DEF c
  <2>3. SumFunctionOnSet(c, Layers) = SumFunctionOnSet(counts, Layers) + c[i] - counts[i]
    BY <2>1, <2>2, SumExcept
  <2>4. Assigned' = SumFunctionOnSet(c, Layers)
    BY <1>3 DEF Assigned, c
  <2> QED
    BY <1>0, <1>5, <1>6, <2>2, <2>3, <2>4 DEF Assigned
<1>14. Unwritten'
  BY DEF Sharing, Unwritten, ShareRest
<1> QED
  BY <1>0, <1>2, <1>3, <1>12, <1>13, <1>14 DEF Sharing

\* The end of the sharing.
LEMMA SharedInv == model \in Models /\ Sharing /\ Shared => Laying'
<1> SUFFICES ASSUME model \in Models, Sharing, Shared PROVE Laying'
  OBVIOUS
<1> USE DEF Shared
<1>1. Divisible /\ Shares /\ Assigned = ProcessorCount
  <2>1. Divisible /\ Shares /\ Assigned <= ProcessorCount /\ Assigned >= ProcessorCount
    BY DEF Sharing
  <2> QED
    BY <2>1, AssignedBounds, CountAssumption
<1>2. Divisible' /\ Shares' /\ Assigned' = ProcessorCount
  BY <1>1, SameShares
<1>3. Staged
  BY <1>1 DEF Staged
<1>4. LayerOf(0) = 1
  <2>1. 1 \in Layers /\ 0 \in 0 .. counts[1] - 1
    <3>1. LastOf \in Layers
      BY <1>3, StagedType
    <3>2. 1 \in Layers
      BY <1>3, <3>1, StagedType
    <3> QED
      BY <1>3, <3>2, LayerFacts
  <2>2. StagesBefore(1) = 0
    <3>1. 1 .. 1 - 1 = {}
      OBVIOUS
    <3> QED
      BY <3>1, SumEmpty, Zenon DEF StagesBefore
  <2>3. LayerOf(StagesBefore(1) + 0) = 1
    BY <1>3, <2>1, StagesOfLayer
  <2> QED
    BY <2>2, <2>3
<1>5. HiddenBefore(LayerOf(0))' = 0
  <2>1. HiddenBefore(LayerOf(0))' = HiddenBefore(LayerOf(0))
    BY SameStages
  <2> QED
    BY <1>3, <1>4, <2>1, HiddenFacts
<1>6. Unwritten'
  BY DEF Sharing, Unwritten
<1>7. Planned'
  <2>1. plan' = <<>> /\ Len(plan') = 0 /\ plan' \in Seq(StageType)
    BY <1>6, EmptySeq DEF Unwritten
  <2>2. cursor' = 0 /\ pc' = "map"
    BY <1>6 DEF Unwritten
  <2> QED
    BY <1>5, <2>1, <2>2, CountAssumption DEF Planned
<1>8. Weighed'
  <2>1. contexts' = <<>> /\ Len(contexts') = 0 /\ contexts' \in Seq(ContextType)
    BY <1>6, EmptySeq DEF Unwritten
  <2> QED
    BY <2>1, CountAssumption DEF Weighed
<1>9. 0 \in 0 .. ProcessorCount /\ OverlaidTo(0)'
  <2>1. [p \in Processor |-> IF p < 0 THEN OperatorOf(p)' ELSE None] = [p \in Processor |-> None]
    BY CountAssumption DEF Processor
  <2> QED
    BY <1>6, <2>1, CountAssumption DEF Unwritten, OverlaidTo
<1> QED
  BY <1>2, <1>7, <1>8, <1>9 DEF Laying

\* What a step of the loops that leaves the overlay alone preserves of it.
LEMMA OverlayStays ==
  ASSUME NEW n \in 0 .. ProcessorCount, OverlaidTo(n), UNCHANGED <<model, counts, overlay>>,
         n > 0 => pc' \in {"overlay", "done"}, pc' = "done" => n = ProcessorCount
  PROVE  OverlaidTo(n)'
<1>1. \A p : OperatorOf(p)' = OperatorOf(p)
  BY SameStages
<1> QED
  BY <1>1, Zenon DEF OverlaidTo

\* The same of the contexts.
LEMMA ContextsStay ==
  ASSUME Weighed, UNCHANGED <<model, counts, contexts>>,
         pc' \in {"overlay", "done"} => Len(contexts) = ProcessorCount
  PROVE  Weighed'
<1>1. \A k : ContextOf(k)' = ContextOf(k)
  BY SameStages
<1> QED
  BY <1>1 DEF Weighed

\* The same of the plan.
LEMMA PlanStays ==
  ASSUME Planned, UNCHANGED <<model, counts, plan, cursor>>,
         pc' \in {"contexts", "overlay", "done"} => Len(plan) = ProcessorCount
  PROVE  Planned'
<1>1. \A k : /\ StageOf(k)' = StageOf(k) /\ (Sizes[LayerOf(k)])' = Sizes[LayerOf(k)]
           /\ LayerOf(k)' = LayerOf(k) /\ HiddenBefore(LayerOf(k))' = HiddenBefore(LayerOf(k))
  BY SameStages
<1>2. \A k \in 0 .. Len(plan) - 1 :
        plan[k + 1] = StageOf(k)' /\ (Sizes[LayerOf(k)])' >= counts[LayerOf(k)']
  BY <1>1 DEF Planned
<1>3. Len(plan) < ProcessorCount => cursor = HiddenBefore(LayerOf(Len(plan)))'
  BY <1>1 DEF Planned
<1>4. Len(plan') = Len(plan)
  OBVIOUS
<1> QED
  BY <1>2, <1>3, <1>4 DEF Planned

\* A mapping more (build_stage_mappings).
LEMMA MapStageInv == model \in Models /\ Laying /\ MapStage => Laying'
<1> SUFFICES ASSUME model \in Models, Laying, MapStage PROVE Laying'
  OBVIOUS
<1> DEFINE k == Len(plan)
           i == LayerOf(k)
<1>0. Staged /\ ProcessorCount \in Nat
  BY LayingStaged, CountAssumption
<1>1. /\ pc = "map" /\ k < ProcessorCount /\ model[i].outputs >= counts[i]
      /\ plan' = Append(plan,
           [proc  |-> k, layer |-> i, first |-> First(k), last |-> Last(k),
            from  |-> IF i = 1 THEN "input" ELSE "hidden",
            input |-> IF i = 1 THEN 0 ELSE cursor,
            to    |-> IF i = LastOf THEN "final" ELSE "hidden",
            output |-> First(k) + IF i = LastOf THEN 0 ELSE cursor])
      /\ cursor' = IF ChunkOf(k) + 1 = counts[i] /\ i # LastOf THEN cursor + model[i].outputs ELSE cursor
  BY DEF MapStage, Laying
<1>2. model' = model /\ counts' = counts /\ rests' = rests /\ pc' = pc
      /\ contexts' = contexts /\ overlay' = overlay
  BY DEF MapStage
<1>3. /\ plan \in Seq(StageType) /\ k \in Nat /\ k \in 0 .. ProcessorCount - 1
      /\ cursor \in Nat /\ cursor = HiddenBefore(i)
  <2>1. plan \in Seq(StageType) /\ cursor \in Nat
    BY DEF Laying, Planned
  <2>2. k \in Nat
    BY <2>1, LenProperties
  <2>3. cursor = HiddenBefore(i)
    BY <1>1 DEF Laying, Planned
  <2> QED
    BY <1>0, <1>1, <2>1, <2>2, <2>3
<1>4. i \in Layers /\ model[i].outputs = Sizes[i] /\ Sizes[i] \in Nat
  BY <1>0, <1>3, StageOfLayer, LayerFacts
<1>5. plan' = Append(plan, StageOf(k)) /\ StageOf(k) \in StageType
  <2>1. StageOf(k) \in StageType
    BY <1>0, <1>1, <1>3, <1>4, StageOfType
  <2> QED
    BY <1>1, <1>3, <2>1 DEF StageOf
<1>6. /\ plan' \in Seq(StageType) /\ Len(plan') = k + 1
      /\ \A l \in 1 .. k : plan'[l] = plan[l]
      /\ plan'[k + 1] = StageOf(k)
  BY <1>3, <1>5, AppendProperties
<1>7. cursor' \in Nat
  BY <1>1, <1>3, <1>4
<1>8. k + 1 < ProcessorCount => cursor' = HiddenBefore(LayerOf(k + 1))
  <2> SUFFICES ASSUME k + 1 < ProcessorCount PROVE cursor' = HiddenBefore(LayerOf(k + 1))
    OBVIOUS
  <2>1. \/ ChunkOf(k) + 1 # counts[i] /\ LayerOf(k + 1) = i
        \/ ChunkOf(k) + 1 = counts[i] /\ i # LastOf /\ LayerOf(k + 1) = i + 1
    BY <1>0, <1>3, StageAfter
  <2>2. CASE ChunkOf(k) + 1 # counts[i] /\ LayerOf(k + 1) = i
    BY <1>1, <1>3, <2>2
  <2>3. CASE ChunkOf(k) + 1 = counts[i] /\ i # LastOf /\ LayerOf(k + 1) = i + 1
    <3>1. HiddenBefore(i + 1) = HiddenBefore(i) + Sizes[i]
      BY <1>0, <1>4, <2>3, HiddenFacts
    <3> QED
      BY <1>1, <1>3, <1>4, <2>3, <3>1
  <2> QED
    BY <2>1, <2>2, <2>3
<1>9. \A l \in 0 .. k : plan'[l + 1] = StageOf(l) /\ Sizes[LayerOf(l)] >= counts[LayerOf(l)]
  <2> SUFFICES ASSUME NEW l \in 0 .. k
               PROVE  plan'[l + 1] = StageOf(l) /\ Sizes[LayerOf(l)] >= counts[LayerOf(l)]
    OBVIOUS
  <2>1. CASE l = k
    BY <1>1, <1>4, <1>6, <2>1
  <2>2. CASE l # k
    <3>1. l \in 0 .. k - 1 /\ l + 1 \in 1 .. k
      BY <1>3, <2>2
    <3>2. plan[l + 1] = StageOf(l) /\ Sizes[LayerOf(l)] >= counts[LayerOf(l)]
      BY <3>1 DEF Laying, Planned
    <3> QED
      BY <1>6, <3>1, <3>2
  <2> QED
    BY <2>1, <2>2
<1>10. Planned'
  <2> DEFINE c == cursor'
             q == plan'
  <2>0. /\ q \in Seq(StageType) /\ Len(q) = k + 1 /\ c \in Nat
        /\ k + 1 < ProcessorCount => c = HiddenBefore(LayerOf(k + 1))
        /\ \A l \in 0 .. k : q[l + 1] = StageOf(l) /\ Sizes[LayerOf(l)] >= counts[LayerOf(l)]
    BY <1>6, <1>7, <1>8, <1>9
  <2>1. \A l : /\ StageOf(l)' = StageOf(l) /\ (Sizes[LayerOf(l)])' = Sizes[LayerOf(l)]
             /\ LayerOf(l)' = LayerOf(l) /\ HiddenBefore(LayerOf(l))' = HiddenBefore(LayerOf(l))
    BY <1>2, SameStages
  <2>2. (k + 1) - 1 = k /\ k + 1 <= ProcessorCount
    BY <1>0, <1>3
  <2>3. \A l \in 0 .. Len(q) - 1 : q[l + 1] = StageOf(l)' /\ (Sizes[LayerOf(l)])' >= counts[LayerOf(l)']
    BY <2>0, <2>1, <2>2
  <2>4. PICK m : m = k + 1
    OBVIOUS
  <2>5. m < ProcessorCount => c = HiddenBefore(LayerOf(m))'
    BY <2>0, <2>1, <2>4
  <2>6. pc' \notin {"contexts", "overlay", "done"}
    BY <1>1, <1>2
  <2>7. Len(plan') = m /\ cursor' = c /\ plan' = q /\ m <= ProcessorCount
    BY <2>0, <2>2, <2>4
  <2> QED
    BY <1>2, <2>0, <2>3, <2>5, <2>6, <2>7 DEF Planned
<1>11. Weighed'
  BY <1>1, <1>2, ContextsStay DEF Laying
<1>12. \E n \in 0 .. ProcessorCount : OverlaidTo(n)'
  <2>1. PICK n \in 0 .. ProcessorCount : OverlaidTo(n)
    BY DEF Laying
  <2>2. n > 0 => pc' \in {"overlay", "done"}
    BY <1>1, <2>1 DEF OverlaidTo
  <2>3. OverlaidTo(n)'
    BY <1>1, <1>2, <2>1, <2>2, OverlayStays
  <2> QED
    BY <2>3
<1>13. Divisible' /\ Shares' /\ Assigned' = ProcessorCount
  BY <1>2, SameShares DEF Laying
<1> QED
  BY <1>1, <1>2, <1>10, <1>11, <1>12, <1>13 DEF Laying

\* The steps from one loop to the next.
LEMMA PhaseInv ==
  model \in Models /\ Laying /\ (RefuseSplit \/ Mapped \/ ContextsBuilt \/ OverlayBuilt \/ UNCHANGED vars)
    => Laying'
<1> SUFFICES ASSUME model \in Models, Laying,
                    RefuseSplit \/ Mapped \/ ContextsBuilt \/ OverlayBuilt \/ UNCHANGED vars
             PROVE  Laying'
  OBVIOUS
<1>0. /\ model' = model /\ counts' = counts /\ rests' = rests /\ plan' = plan /\ cursor' = cursor
      /\ contexts' = contexts /\ overlay' = overlay
  BY DEF RefuseSplit, Throw, Mapped, ContextsBuilt, OverlayBuilt, vars
<1>1. Assigned = ProcessorCount /\ Planned /\ Weighed
  BY DEF Laying
<1>2. PICK n \in 0 .. ProcessorCount : OverlaidTo(n)
  BY DEF Laying
<1>3. /\ pc' \in {"map", "contexts", "overlay", "done", "threw"}
      /\ pc' \in {"contexts", "overlay", "done"} => Len(plan) = ProcessorCount
      /\ pc' \in {"overlay", "done"} => Len(contexts) = ProcessorCount
      /\ n > 0 => pc' \in {"overlay", "done"}
      /\ pc' = "done" => n = ProcessorCount
  <2>1. CASE RefuseSplit
    BY <1>2, <2>1 DEF RefuseSplit, Throw, OverlaidTo
  <2>2. CASE Mapped
    BY <1>1, <1>2, <2>2 DEF Mapped, OverlaidTo
  <2>3. CASE ContextsBuilt
    BY <1>1, <1>2, <2>3 DEF ContextsBuilt, OverlaidTo, Planned
  <2>4. CASE OverlayBuilt
    <3>1. Cardinality(Written) = n
      BY <1>2, WrittenSoFar
    <3> QED
      BY <1>1, <2>4, <3>1 DEF OverlayBuilt, Planned, Weighed
  <2>5. CASE UNCHANGED vars
    BY <1>1, <1>2, <2>5 DEF vars, OverlaidTo, Planned, Weighed, Laying
  <2> QED
    BY <2>1, <2>2, <2>3, <2>4, <2>5
<1>4. Planned'
  BY <1>0, <1>1, <1>3, PlanStays
<1>5. Weighed'
  BY <1>0, <1>1, <1>3, ContextsStay
<1>6. OverlaidTo(n)'
  BY <1>0, <1>2, <1>3, OverlayStays
<1>7. Divisible' /\ Shares' /\ Assigned' = ProcessorCount
  BY <1>0, SameShares DEF Laying
<1> QED
  BY <1>3, <1>4, <1>5, <1>6, <1>7 DEF Laying

\* A context more (build_neuron_contexts).
LEMMA AddContextInv == model \in Models /\ Laying /\ AddContext => Laying'
<1> SUFFICES ASSUME model \in Models, Laying, AddContext PROVE Laying'
  OBVIOUS
<1> DEFINE k == Len(contexts)
<1>0. Staged /\ ProcessorCount \in Nat
  BY LayingStaged, CountAssumption
<1>1. /\ pc = "contexts" /\ k < ProcessorCount
      /\ contexts' = Append(contexts, ContextOf(k))
  BY DEF AddContext, Laying, ContextOf
<1>2. /\ model' = model /\ counts' = counts /\ rests' = rests /\ plan' = plan /\ cursor' = cursor
      /\ overlay' = overlay /\ pc' = pc
  BY DEF AddContext
<1>3. contexts \in Seq(ContextType) /\ k \in Nat /\ k \in 0 .. ProcessorCount - 1
  <2>1. contexts \in Seq(ContextType)
    BY DEF Laying, Weighed
  <2>2. k \in Nat
    BY <2>1, LenProperties
  <2> QED
    BY <1>0, <1>1, <2>1, <2>2
<1>4. ContextOf(k) \in ContextType
  BY <1>0, <1>3, ContextOfType
<1>5. /\ contexts' \in Seq(ContextType) /\ Len(contexts') = k + 1
      /\ \A l \in 1 .. k : contexts'[l] = contexts[l]
      /\ contexts'[k + 1] = ContextOf(k)
  BY <1>1, <1>3, <1>4, AppendProperties
<1>6. \A l \in 0 .. k : contexts'[l + 1] = ContextOf(l)
  <2> SUFFICES ASSUME NEW l \in 0 .. k PROVE contexts'[l + 1] = ContextOf(l)
    OBVIOUS
  <2>1. CASE l = k
    BY <1>5, <2>1
  <2>2. CASE l # k
    <3>1. l \in 0 .. k - 1 /\ l + 1 \in 1 .. k
      BY <1>3, <2>2
    <3>2. contexts[l + 1] = ContextOf(l)
      BY <3>1 DEF Laying, Weighed
    <3> QED
      BY <1>5, <3>1, <3>2
  <2> QED
    BY <2>1, <2>2
<1>7. Weighed'
  <2> DEFINE q == contexts'
  <2>1. \A l : ContextOf(l)' = ContextOf(l)
    BY <1>2, SameStages
  <2>2. (k + 1) - 1 = k /\ k + 1 <= ProcessorCount
    BY <1>0, <1>3
  <2>3. \A l \in 0 .. Len(q) - 1 : q[l + 1] = ContextOf(l)'
    BY <1>5, <1>6, <2>1, <2>2
  <2>4. pc' \notin {"overlay", "done"}
    BY <1>1, <1>2
  <2> QED
    BY <1>5, <2>2, <2>3, <2>4 DEF Weighed
<1>8. Planned'
  BY <1>1, <1>2, PlanStays DEF Laying, Planned
<1>9. \E n \in 0 .. ProcessorCount : OverlaidTo(n)'
  <2>1. PICK n \in 0 .. ProcessorCount : OverlaidTo(n)
    BY DEF Laying
  <2>2. n > 0 => pc' \in {"overlay", "done"}
    BY <1>1, <2>1 DEF OverlaidTo
  <2>3. OverlaidTo(n)'
    BY <1>1, <1>2, <2>1, <2>2, OverlayStays
  <2> QED
    BY <2>3
<1>10. Divisible' /\ Shares' /\ Assigned' = ProcessorCount
  BY <1>2, SameShares DEF Laying
<1> QED
  BY <1>1, <1>2, <1>7, <1>8, <1>9, <1>10 DEF Laying

\* An operator more (build_processor_overlay).
LEMMA AddProcessorInv == model \in Models /\ Laying /\ AddProcessor => Laying'
<1> SUFFICES ASSUME model \in Models, Laying, AddProcessor PROVE Laying'
  OBVIOUS
<1>0. Staged /\ ProcessorCount \in Nat
  BY LayingStaged, CountAssumption
<1>1. PICK n \in 0 .. ProcessorCount : OverlaidTo(n)
  BY DEF Laying
<1>2. Cardinality(Written) = n
  BY <1>1, WrittenSoFar
<1>3. pc = "overlay" /\ n < ProcessorCount /\ n \in 0 .. ProcessorCount - 1
  BY <1>0, <1>1, <1>2 DEF AddProcessor, Laying
<1>4. plan[n + 1] = StageOf(n)
  BY <1>3 DEF Laying, Planned
<1>5. overlay' = [overlay EXCEPT ![n] = OperatorOf(n)]
  <2>1. StageOf(n).proc = n
    BY DEF StageOf
  <2> QED
    BY <1>2, <1>4, <2>1 DEF AddProcessor, OperatorOf
<1>6. /\ model' = model /\ counts' = counts /\ rests' = rests /\ plan' = plan /\ cursor' = cursor
      /\ contexts' = contexts /\ pc' = pc
  BY DEF AddProcessor
<1>7. n + 1 \in 0 .. ProcessorCount /\ OverlaidTo(n + 1)'
  <2>1. n + 1 \in 0 .. ProcessorCount
    BY <1>0, <1>3
  <2>2. \A p : OperatorOf(p)' = OperatorOf(p)
    BY <1>6, SameStages
  <2>3. overlay' = [p \in Processor |-> IF p < n + 1 THEN OperatorOf(p) ELSE None]
    <3>1. overlay = [p \in Processor |-> IF p < n THEN OperatorOf(p) ELSE None]
      BY <1>1 DEF OverlaidTo
    <3>2. \A p \in Processor : p \in Int
      BY CountAssumption DEF Processor
    <3>3. \A p \in Processor : (p < n + 1) <=> (p < n \/ p = n)
      BY <1>3, <3>2
    <3> QED
      BY <1>5, <3>1, <3>3
  <2>4. overlay' = [p \in Processor |-> IF p < n + 1 THEN OperatorOf(p)' ELSE None]
    BY <2>2, <2>3
  <2> QED
    BY <1>3, <1>6, <2>1, <2>4 DEF OverlaidTo
<1>8. Planned'
  BY <1>3, <1>6, PlanStays DEF Laying, Planned
<1>9. Weighed'
  BY <1>3, <1>6, ContextsStay DEF Laying, Weighed
<1>10. Divisible' /\ Shares' /\ Assigned' = ProcessorCount
  BY <1>6, SameShares DEF Laying
<1> QED
  BY <1>3, <1>6, <1>7, <1>8, <1>9, <1>10 DEF Laying

\* The invariant is inductive: ml_compiler divides, splits and writes as Inv says, for
\* every set of manifests and every number of processors.
THEOREM Invariance == Spec => []Inv
<1>1. Init => Inv
  BY DEF Init, Inv, Unshared, Unwritten
<1>2. Inv /\ [Next]_vars => Inv'
  <2> SUFFICES ASSUME Inv, [Next]_vars PROVE Inv'
    OBVIOUS
  <2>0. model \in Models /\ model' = model /\ (Unshared \/ Sharing \/ Laying)
    BY DEF Inv, Next, vars, Refuse, Throw, ShareFloors, ShareRest, Shared, MapStage, RefuseSplit,
           Mapped, AddContext, ContextsBuilt, AddProcessor, OverlayBuilt
  <2>1. CASE UNCHANGED vars
    <3>1. CASE Unshared
      BY <2>1, <3>1 DEF vars, Unshared, Unwritten, Inv
    <3>2. CASE Sharing
      <4>1. Divisible' = Divisible /\ Shares' = Shares /\ Assigned' = Assigned
        BY <2>1, SameShares DEF vars
      <4> QED
        BY <2>0, <2>1, <3>2, <4>1 DEF vars, Sharing, Unwritten, Inv
    <3>3. CASE Laying
      BY <2>0, <2>1, <3>3, PhaseInv DEF Inv
    <3> QED
      BY <2>0, <3>1, <3>2, <3>3
  <2>2. CASE Refuse
    BY <2>0, <2>2 DEF Refuse, Throw, Unshared, Unwritten, Sharing, Laying, Inv
  <2>3. CASE ShareFloors
    BY <2>0, <2>3, ShareFloorsInv DEF ShareFloors, Sharing, Laying, Inv
  <2>4. CASE ShareRest
    BY <2>0, <2>4, ShareRestInv DEF ShareRest, Unshared, Laying, Inv
  <2>5. CASE Shared
    BY <2>0, <2>5, SharedInv DEF Shared, Unshared, Laying, Inv
  <2>6. CASE MapStage
    BY <2>0, <2>6, MapStageInv DEF MapStage, Unshared, Sharing, Inv
  <2>7. CASE RefuseSplit
    BY <2>0, <2>7, PhaseInv DEF RefuseSplit, Unshared, Sharing, Inv
  <2>8. CASE Mapped
    BY <2>0, <2>8, PhaseInv DEF Mapped, Unshared, Sharing, Inv
  <2>9. CASE AddContext
    BY <2>0, <2>9, AddContextInv DEF AddContext, Unshared, Sharing, Inv
  <2>10. CASE ContextsBuilt
    BY <2>0, <2>10, PhaseInv DEF ContextsBuilt, Unshared, Sharing, Inv
  <2>11. CASE AddProcessor
    BY <2>0, <2>11, AddProcessorInv DEF AddProcessor, Unshared, Sharing, Inv
  <2>12. CASE OverlayBuilt
    BY <2>0, <2>12, PhaseInv DEF OverlayBuilt, Unshared, Sharing, Inv
  <2> QED
    BY <2>1, <2>2, <2>3, <2>4, <2>5, <2>6, <2>7, <2>8, <2>9, <2>10, <2>11, <2>12 DEF Next
<1> QED
  BY <1>1, <1>2, PTL DEF Spec

-----------------------------------------------------------------------------
(***************************************************************************)
(* What the invariant says of the properties.                              *)
(***************************************************************************)
\* The counts and fractions are sequences as long as the manifest.
LEMMA CountsAreSeq ==
  ASSUME model \in Models, Divisible, Shares, Assigned <= ProcessorCount
  PROVE  /\ counts \in Seq(1 .. ProcessorCount) /\ Len(counts) = Len(model)
         /\ rests \in Seq(Nat \cup {-1}) /\ Len(rests) = Len(model)
<1>1. Len(model) \in Nat /\ Layers = 1 .. Len(model)
  BY ModelType
<1>2. counts \in [1 .. Len(model) -> Nat] /\ rests \in [1 .. Len(model) -> Nat \cup {-1}]
  BY <1>1 DEF Shares
<1>3. \A i \in 1 .. Len(model) : counts[i] \in 1 .. ProcessorCount
  <2>1. Assigned \in Nat /\ \A i \in Layers : counts[i] \in Nat \ {0} /\ counts[i] <= Assigned
    BY AssignedBounds
  <2> QED
    BY <1>1, <2>1, CountAssumption
<1>4. counts \in [1 .. Len(model) -> 1 .. ProcessorCount]
  BY <1>2, <1>3
<1>5. counts \in Seq(1 .. ProcessorCount) /\ Len(counts) = Len(model)
  BY <1>1, <1>4, FunctionIsSeq
<1>6. rests \in Seq(Nat \cup {-1}) /\ Len(rests) = Len(model)
  <2> DEFINE S == Nat \cup {-1}
  <2>1. rests \in [1 .. Len(model) -> S]
    BY <1>2
  <2> HIDE DEF S
  <2>2. rests \in Seq(S) /\ Len(rests) = Len(model)
    BY <1>1, <2>1, FunctionIsSeq
  <2> QED
    BY <2>2 DEF S
<1> QED
  BY <1>5, <1>6

\* The vectors of ml_compiler have their types, and no more stages, contexts or
\* operators than processors are ever made.
THEOREM TypeCorrect == Spec => []TypeOK
<1>1. Inv => TypeOK
  <2> SUFFICES ASSUME Inv PROVE TypeOK
    OBVIOUS
  <2>0. model \in Models /\ ProcessorCount \in Nat
    BY CountAssumption DEF Inv
  <2>1. ASSUME Unwritten
        PROVE  /\ plan \in Seq(StageType) /\ Len(plan) <= ProcessorCount /\ cursor \in Nat
               /\ contexts \in Seq(ContextType) /\ Len(contexts) <= ProcessorCount
               /\ \A p \in Processor : overlay[p] = None
    BY <2>0, <2>1, EmptySeq DEF Unwritten
  <2>2. CASE Unshared
    <3>1. counts \in Seq(1 .. ProcessorCount) /\ Len(counts) = 0 /\ rests \in Seq(Nat \cup {-1}) /\ Len(rests) = 0
      BY <2>2, EmptySeq DEF Unshared
    <3> QED
      BY <2>0, <2>1, <2>2, <3>1 DEF Unshared, TypeOK
  <2>3. CASE Sharing
    <3>1. /\ counts \in Seq(1 .. ProcessorCount) /\ Len(counts) = Len(model)
          /\ rests \in Seq(Nat \cup {-1}) /\ Len(rests) = Len(model)
      BY <2>0, <2>3, CountsAreSeq DEF Sharing
    <3> QED
      BY <2>0, <2>1, <2>3, <3>1 DEF Sharing, TypeOK
  <2>4. CASE Laying
    <3>1. /\ counts \in Seq(1 .. ProcessorCount) /\ Len(counts) = Len(model)
          /\ rests \in Seq(Nat \cup {-1}) /\ Len(rests) = Len(model)
      BY <2>0, <2>4, CountsAreSeq DEF Laying
    <3>2. \A p \in Processor : overlay[p] = None \/ (p < ProcessorCount /\ overlay[p] \in OperatorType)
      <4> SUFFICES ASSUME NEW p \in Processor, overlay[p] # None
                   PROVE  p < ProcessorCount /\ overlay[p] \in OperatorType
        OBVIOUS
      <4>1. PICK n \in 0 .. ProcessorCount : OverlaidTo(n)
        BY <2>4 DEF Laying
      <4>2. p < n /\ overlay[p] = OperatorOf(p)
        BY <4>1 DEF OverlaidTo
      <4>3. p \in 0 .. ProcessorCount - 1 /\ n > 0
        BY <2>0, <4>1, <4>2, CountAssumption DEF Processor
      <4>4. Len(plan) = ProcessorCount
        BY <2>4, <4>1, <4>3 DEF OverlaidTo, Laying, Planned
      <4>5. Sizes[LayerOf(p)] >= counts[LayerOf(p)]
        BY <2>4, <4>3, <4>4 DEF Laying, Planned
      <4> QED
        BY <2>0, <2>4, <4>2, <4>3, <4>5, LayingStaged, OperatorOfType
    <3> QED
      BY <2>0, <2>4, <3>1, <3>2 DEF Laying, Planned, Weighed, TypeOK
  <2> QED
    BY <2>2, <2>3, <2>4 DEF Inv
<1> QED
  BY <1>1, Invariance, PTL

\* allocate_stage_counts hands out every stage, one at least to each layer, and never
\* fewer to the larger layer, in whatever order equal fractions are served.
THEOREM Balanced == Spec => []StagesBalanced
<1>1. Inv => StagesBalanced
  <2> SUFFICES ASSUME Inv, pc \in {"map", "contexts", "overlay", "done"}
               PROVE  /\ Assigned = ProcessorCount
                      /\ \A i \in Layers : counts[i] >= 1
                      /\ \A i, j \in Layers : model[i].outputs > model[j].outputs => counts[i] >= counts[j]
    BY DEF StagesBalanced
  <2>1. model \in Models /\ Laying
    BY DEF Inv, Unshared, Sharing
  <2>2. Divisible /\ Shares /\ Assigned = ProcessorCount
    BY <2>1 DEF Laying
  <2>3. \A i \in Layers : counts[i] \in Nat \ {0} /\ model[i].outputs = Sizes[i]
    BY <2>1, <2>2, AssignedBounds, ModelType
  <2>4. \A i, j \in Layers : Sizes[i] > Sizes[j] => counts[i] >= counts[j]
    BY <2>1, <2>2, SharesOrdered
  <2> QED
    BY <2>2, <2>3, <2>4
<1> QED
  BY <1>1, Invariance, PTL

\* What is in the files once they are written.
LEMMA Done ==
  ASSUME Inv, pc = "done"
  PROVE  /\ Staged /\ Written = 0 .. ProcessorCount - 1
         /\ Len(plan) = ProcessorCount /\ DOMAIN plan = 1 .. ProcessorCount
         /\ \A p \in 0 .. ProcessorCount - 1 :
              /\ plan[p + 1] = StageOf(p) /\ overlay[p] = OperatorOf(p)
              /\ ContextAt(p) = ContextOf(p)
              /\ Sizes[LayerOf(p)] >= counts[LayerOf(p)]
<1>0. model \in Models /\ Laying /\ Staged
  BY LayingStaged DEF Inv, Unshared, Sharing
<1>1. /\ ProcessorCount \in Nat /\ OverlayCount \in Nat /\ ProcessorCount <= OverlayCount
  BY CountAssumption
<1>2. OverlaidTo(ProcessorCount) /\ ProcessorCount \in 0 .. ProcessorCount
  BY <1>0, <1>1 DEF Laying, OverlaidTo
<1>3. Written = 0 .. ProcessorCount - 1
  BY <1>0, <1>2, WrittenSoFar
<1>4. Len(plan) = ProcessorCount /\ Len(contexts) = ProcessorCount
  BY <1>0 DEF Laying, Planned, Weighed
<1>5. DOMAIN plan = 1 .. ProcessorCount
  <2>1. plan \in Seq(StageType)
    BY <1>0 DEF Laying, Planned
  <2> QED
    BY <1>4, <2>1, LenProperties
<1>6. ASSUME NEW p \in 0 .. ProcessorCount - 1
      PROVE  /\ plan[p + 1] = StageOf(p) /\ overlay[p] = OperatorOf(p)
             /\ ContextAt(p) = ContextOf(p)
             /\ Sizes[LayerOf(p)] >= counts[LayerOf(p)]
  <2>1. p \in Processor /\ p < ProcessorCount
    BY <1>1 DEF Processor
  <2>2. overlay[p] = OperatorOf(p)
    BY <1>2, <2>1 DEF OverlaidTo
  <2>3. overlay[p].ctx = p
    BY <2>2 DEF OperatorOf
  <2>4. contexts[p + 1] = ContextOf(p)
    BY <1>0, <1>4 DEF Laying, Weighed
  <2>5. plan[p + 1] = StageOf(p) /\ Sizes[LayerOf(p)] >= counts[LayerOf(p)]
    BY <1>0, <1>4 DEF Laying, Planned
  <2> QED
    BY <2>2, <2>3, <2>4, <2>5 DEF ContextAt
<1> QED
  BY <1>0, <1>3, <1>4, <1>5, <1>6

\* The neurons of an operator are those of its chunk.
LEMMA NeuronsOf ==
  ASSUME Inv, pc = "done", NEW p \in 0 .. ProcessorCount - 1
  PROVE  /\ Neurons(p) = First(p) .. Last(p)
         /\ Cardinality(Neurons(p)) = Chunks(LayerOf(p))[ChunkOf(p)]
         /\ overlay[p].outputs = Chunks(LayerOf(p))[ChunkOf(p)]
         /\ overlay[p].inputs = ContextAt(p).inputs
         /\ ContextAt(p).biases[1] = First(p)
<1> DEFINE w == Last(p) - First(p) + 1
<1>0. Staged /\ overlay[p] = OperatorOf(p) /\ ContextAt(p) = ContextOf(p) /\ Sizes[LayerOf(p)] >= counts[LayerOf(p)]
  BY Done
<1>1. First(p) \in Nat /\ Last(p) \in Nat /\ First(p) <= Last(p) /\ w = Chunks(LayerOf(p))[ChunkOf(p)] /\ w \in Nat
  BY <1>0, StageFacts, StageBusy
<1>2. ContextAt(p).biases = [n \in 1 .. w |-> First(p) + n - 1] /\ overlay[p].inputs = ContextAt(p).inputs
  BY <1>0 DEF ContextOf, OperatorOf
<1>3. Neurons(p) = First(p) .. Last(p)
  <2>1. Neurons(p) = {First(p) + n - 1 : n \in 1 .. w}
    BY <1>2 DEF Neurons
  <2>2. ASSUME NEW m \in First(p) .. Last(p) PROVE \E n \in 1 .. w : m = First(p) + n - 1
    <3>1. m - First(p) + 1 \in 1 .. w /\ m = First(p) + (m - First(p) + 1) - 1
      BY <1>1
    <3> QED
      BY <3>1
  <2>3. \A n \in 1 .. w : First(p) + n - 1 \in First(p) .. Last(p)
    BY <1>1
  <2> QED
    BY <2>1, <2>2, <2>3
<1>4. Cardinality(First(p) .. Last(p)) = w
  <2>1. First(p) \in Int /\ Last(p) \in Int
    BY <1>1
  <2>2. Cardinality(First(p) .. Last(p)) = IF First(p) > Last(p) THEN 0 ELSE Last(p) - First(p) + 1
    BY <2>1, FS_Interval
  <2> QED
    BY <1>1, <2>2
<1>5. overlay[p].outputs = w
  BY <1>0 DEF OperatorOf, StageOf
<1>6. ContextAt(p).biases[1] = First(p)
  BY <1>1, <1>2
<1> QED
  BY <1>1, <1>2, <1>3, <1>4, <1>5, <1>6

\* The operators of a layer are those of its stages.
LEMMA UsersAre ==
  ASSUME Inv, pc = "done", NEW i \in Layers
  PROVE  UsersOf(i) = {p \in 0 .. ProcessorCount - 1 : LayerOf(p) = i}
<1>1. /\ DOMAIN plan = 1 .. ProcessorCount /\ ProcessorCount \in Nat
      /\ \A p \in 0 .. ProcessorCount - 1 : plan[p + 1].proc = p /\ plan[p + 1].layer = LayerOf(p)
  <2>1. \A p \in 0 .. ProcessorCount - 1 : plan[p + 1] = StageOf(p)
    BY Done
  <2>2. \A p : StageOf(p).proc = p /\ StageOf(p).layer = LayerOf(p)
    BY DEF StageOf
  <2> QED
    BY <2>1, <2>2, Done, CountAssumption
<1>2. \A k \in 1 .. ProcessorCount : k - 1 \in 0 .. ProcessorCount - 1 /\ (k - 1) + 1 = k
  BY <1>1
<1>3. \A k \in 1 .. ProcessorCount : plan[k].proc = k - 1 /\ plan[k].layer = LayerOf(k - 1)
  BY <1>1, <1>2
<1>4. \A p \in 0 .. ProcessorCount - 1 : p + 1 \in 1 .. ProcessorCount
  BY <1>1
<1>5. ASSUME NEW p \in UsersOf(i) PROVE p \in 0 .. ProcessorCount - 1 /\ LayerOf(p) = i
  <2>1. PICK k \in 1 .. ProcessorCount : plan[k].layer = i /\ p = plan[k].proc
    BY <1>1 DEF UsersOf
  <2> QED
    BY <1>2, <1>3, <2>1
<1>6. ASSUME NEW p \in 0 .. ProcessorCount - 1, LayerOf(p) = i PROVE p \in UsersOf(i)
  <2>1. p + 1 \in DOMAIN plan /\ plan[p + 1].layer = i /\ plan[p + 1].proc = p
    BY <1>1, <1>4, <1>6
  <2> QED
    BY <2>1 DEF UsersOf
<1> QED
  BY <1>5, <1>6

\* Every neuron of a layer falls to exactly one of its chunks.
LEMMA NeuronPlaced ==
  ASSUME Staged, NEW i \in Layers, NEW n \in 0 .. Sizes[i] - 1
  PROVE  \E c \in 0 .. counts[i] - 1 :
           /\ Begin(i, c) <= n /\ n < Begin(i, c + 1)
           /\ \A d \in 0 .. counts[i] - 1 : Begin(i, d) <= n /\ n < Begin(i, d + 1) => d = c
<1> DEFINE f == Chunks(i)
           b == counts[i] - 1
<1>0. counts[i] \in Nat \ {0} /\ Sizes[i] \in Nat
  BY LayerFacts
<1>1. 0 \in Int /\ b \in Int /\ n \in Nat /\ \A x \in 0 .. b : f[x] \in Nat
  BY <1>0, ChunkSize
<1>2. Begin(i, counts[i]) = Sizes[i]
  BY ChunksCover
<1>3. n < SumFunctionOnSet(f, 0 .. b)
  BY <1>0, <1>2 DEF Begin
<1>4. \A x \in 0 .. b : /\ Begin(i, x) = SumFunctionOnSet(f, 0 .. x - 1)
                       /\ Begin(i, x + 1) = SumFunctionOnSet(f, 0 .. x)
  <2> SUFFICES ASSUME NEW x \in 0 .. b
               PROVE  /\ Begin(i, x) = SumFunctionOnSet(f, 0 .. x - 1)
                      /\ Begin(i, x + 1) = SumFunctionOnSet(f, 0 .. x)
    OBVIOUS
  <2>1. (x + 1) - 1 = x
    OBVIOUS
  <2> QED
    BY <2>1 DEF Begin
<1> HIDE DEF f, b
<1>5. PICK c \in 0 .. b : SumFunctionOnSet(f, 0 .. c - 1) <= n /\ n < SumFunctionOnSet(f, 0 .. c)
  BY <1>1, <1>3, PrefixFind
<1>6. ASSUME NEW d \in 0 .. b, SumFunctionOnSet(f, 0 .. d - 1) <= n, n < SumFunctionOnSet(f, 0 .. d)
      PROVE  d = c
  BY <1>1, <1>5, <1>6, PrefixUnique
<1>7. Begin(i, c) <= n /\ n < Begin(i, c + 1)
  BY <1>4, <1>5
<1>8. \A d \in 0 .. b : Begin(i, d) <= n /\ n < Begin(i, d + 1) => d = c
  BY <1>4, <1>6
<1> QED
  BY <1>7, <1>8 DEF b

\* The contexts build_neuron_contexts writes and the operators build_processor_overlay
\* writes agree: every neuron of every layer is computed by exactly one operator.
THEOREM Partitioned == Spec => []ChunksPartition
<1>1. Inv => ChunksPartition
  <2> SUFFICES ASSUME Inv, pc = "done"
               PROVE  /\ Written = 0 .. ProcessorCount - 1
                      /\ \A p \in Written : /\ overlay[p].inputs = ContextAt(p).inputs
                                            /\ overlay[p].outputs = Cardinality(Neurons(p))
                      /\ \A i \in Layers :
                           /\ \A n \in 0 .. model[i].outputs - 1 :
                                Cardinality({p \in UsersOf(i) : n \in Neurons(p)}) = 1
                           /\ \A p, q \in UsersOf(i) :
                                overlay[p].outputs >= 1 /\ overlay[p].outputs <= overlay[q].outputs + 1
    BY DEF ChunksPartition
  <2>0. Staged /\ Written = 0 .. ProcessorCount - 1
    BY Done
  <2>1. \A p \in Written : /\ overlay[p].inputs = ContextAt(p).inputs
                           /\ overlay[p].outputs = Cardinality(Neurons(p))
    BY <2>0, NeuronsOf
  <2>2. ASSUME NEW i \in Layers, NEW n \in 0 .. model[i].outputs - 1
        PROVE  Cardinality({p \in UsersOf(i) : n \in Neurons(p)}) = 1
    <3>0. Sizes[i] \in Nat /\ model[i].outputs = Sizes[i]
      BY <2>0, LayerFacts
    <3>1. PICK c \in 0 .. counts[i] - 1 :
            /\ Begin(i, c) <= n /\ n < Begin(i, c + 1)
            /\ \A d \in 0 .. counts[i] - 1 : Begin(i, d) <= n /\ n < Begin(i, d + 1) => d = c
      BY <2>0, <3>0, NeuronPlaced
    <3> DEFINE k == StagesBefore(i) + c
               U == {p \in UsersOf(i) : n \in Neurons(p)}
    <3>2. k \in 0 .. ProcessorCount - 1 /\ LayerOf(k) = i /\ ChunkOf(k) = c
      BY <2>0, StagesOfLayer
    <3> HIDE DEF k
    <3>3. ASSUME NEW p \in 0 .. ProcessorCount - 1, LayerOf(p) = i
          PROVE  n \in Neurons(p) <=> Begin(i, ChunkOf(p)) <= n /\ n < Begin(i, ChunkOf(p) + 1)
      <4>1. /\ First(p) = Begin(i, ChunkOf(p)) /\ Last(p) + 1 = Begin(i, ChunkOf(p) + 1)
            /\ First(p) \in Nat /\ Last(p) \in Int
        BY <2>0, <3>3, StageFacts
      <4>2. Neurons(p) = First(p) .. Last(p)
        BY NeuronsOf
      <4>3. n \in Int
        BY <3>0
      <4> QED
        BY <4>1, <4>2, <4>3
    <3>4. k \in U
      BY <3>1, <3>2, <3>3, UsersAre
    <3>5. ASSUME NEW p \in U PROVE p = k
      <4>1. p \in 0 .. ProcessorCount - 1 /\ LayerOf(p) = i /\ n \in Neurons(p)
        BY UsersAre
      <4>2. ChunkOf(p) \in 0 .. counts[i] - 1 /\ p = StagesBefore(i) + ChunkOf(p)
        BY <2>0, <4>1, StageOfLayer
      <4>3. ChunkOf(p) = c
        BY <3>1, <3>3, <4>1, <4>2
      <4> QED
        BY <4>2, <4>3 DEF k
    <3>6. U = {k}
      BY <3>4, <3>5
    <3> QED
      BY <3>6, FS_Singleton
  <2>3. ASSUME NEW i \in Layers, NEW p \in UsersOf(i), NEW q \in UsersOf(i)
        PROVE  overlay[p].outputs >= 1 /\ overlay[p].outputs <= overlay[q].outputs + 1
    <3>1. p \in 0 .. ProcessorCount - 1 /\ LayerOf(p) = i /\ q \in 0 .. ProcessorCount - 1 /\ LayerOf(q) = i
      BY UsersAre
    <3>2. overlay[p].outputs = Chunks(i)[ChunkOf(p)] /\ overlay[q].outputs = Chunks(i)[ChunkOf(q)]
      BY <3>1, NeuronsOf
    <3>3. ChunkOf(p) \in 0 .. counts[i] - 1 /\ ChunkOf(q) \in 0 .. counts[i] - 1
      BY <2>0, <3>1, StageOfLayer
    <3>4. Chunks(i)[ChunkOf(p)] >= 1
      BY <2>0, <3>1, Done, StageBusy
    <3>5. \A c \in 0 .. counts[i] - 1 :
            /\ Chunks(i)[c] = (Sizes[i] \div counts[i]) + (IF c < Sizes[i] % counts[i] THEN 1 ELSE 0)
            /\ Sizes[i] \div counts[i] \in Nat
      BY <2>0, ChunkSize
    <3> QED
      BY <3>2, <3>3, <3>4, <3>5
  <2> QED
    BY <2>0, <2>1, <2>2, <2>3
<1> QED
  BY <1>1, Invariance, PTL

\* The offsets of build_stage_mappings: no two operators write the same hidden words,
\* and none writes outside the header.
THEOREM Disjoint == Spec => []HiddenDisjoint
<1>1. Inv => HiddenDisjoint
  <2> SUFFICES ASSUME Inv, pc = "done", NEW p \in Written, overlay[p].to = "hidden"
               PROVE  /\ WordsOf(p) \subseteq 0 .. HiddenWords - 1
                      /\ \A q \in Written \ {p} : overlay[q].to = "hidden" =>
                           /\ WordsOf(p) \cap WordsOf(q) = {}
                           /\ plan[p + 1].layer = plan[q + 1].layer =>
                                overlay[q].output - overlay[p].output
                                  = ContextAt(q).biases[1] - ContextAt(p).biases[1]
    BY DEF HiddenDisjoint
  <2>0. Staged /\ Written = 0 .. ProcessorCount - 1
    BY Done
  <2>1. ASSUME NEW q \in Written, overlay[q].to = "hidden"
        PROVE  /\ q \in 0 .. ProcessorCount - 1
               /\ LayerOf(q) \in Layers \ {LastOf} /\ plan[q + 1].layer = LayerOf(q)
               /\ overlay[q].output = First(q) + HiddenBefore(LayerOf(q))
               /\ WordsOf(q) = (First(q) + HiddenBefore(LayerOf(q))) .. (Last(q) + HiddenBefore(LayerOf(q)))
               /\ First(q) \in Nat /\ Last(q) \in Nat /\ Last(q) + 1 <= Sizes[LayerOf(q)]
               /\ HiddenBefore(LayerOf(q)) \in Nat /\ Sizes[LayerOf(q)] \in Nat
    <3>0. q \in 0 .. ProcessorCount - 1
      BY <2>0
    <3>1. plan[q + 1] = StageOf(q) /\ overlay[q] = OperatorOf(q) /\ Sizes[LayerOf(q)] >= counts[LayerOf(q)]
      BY <3>0, Done
    <3>2. LayerOf(q) \in Layers
      BY <2>0, <3>0, StageOfLayer
    <3>3. LayerOf(q) # LastOf /\ plan[q + 1].layer = LayerOf(q)
      BY <2>1, <3>1 DEF OperatorOf, StageOf
    <3>4. First(q) \in Nat /\ Last(q) \in Nat /\ Last(q) + 1 <= Sizes[LayerOf(q)]
      BY <2>0, <3>0, <3>1, StageFacts, StageBusy
    <3>5. HiddenBefore(LayerOf(q)) \in Nat /\ Sizes[LayerOf(q)] \in Nat
      BY <2>0, <3>2, HiddenFacts, LayerFacts
    <3>6. /\ overlay[q].output = First(q) + HiddenBefore(LayerOf(q))
          /\ overlay[q].outputs = Last(q) - First(q) + 1
      BY <3>1, <3>3 DEF OperatorOf, StageOf
    <3>7. overlay[q].output + overlay[q].outputs - 1 = Last(q) + HiddenBefore(LayerOf(q))
      BY <3>4, <3>5, <3>6
    <3> QED
      BY <3>0, <3>2, <3>3, <3>4, <3>5, <3>6, <3>7 DEF WordsOf
  <2> DEFINE i == LayerOf(p)
  <2>2. WordsOf(p) \subseteq 0 .. HiddenWords - 1
    <3>1. i \in Layers \ {LastOf}
      BY <2>1
    <3>2. i < LastOf /\ LastOf \in Layers
      BY <2>0, <3>1, StagedType, LayerFacts DEF LastOf
    <3>3. HiddenBefore(i) + Sizes[i] <= HiddenWords /\ HiddenWords \in Nat
      BY <2>0, <3>1, <3>2, HiddenFacts
    <3> QED
      BY <2>1, <3>3, SMTT(30)
  <2>3. ASSUME NEW q \in Written \ {p}, overlay[q].to = "hidden"
        PROVE  /\ WordsOf(p) \cap WordsOf(q) = {}
               /\ plan[p + 1].layer = plan[q + 1].layer =>
                    overlay[q].output - overlay[p].output
                      = ContextAt(q).biases[1] - ContextAt(p).biases[1]
    <3> DEFINE j == LayerOf(q)
    <3>1. /\ p \in 0 .. ProcessorCount - 1 /\ i \in Layers \ {LastOf} /\ plan[p + 1].layer = i
          /\ overlay[p].output = First(p) + HiddenBefore(i)
          /\ WordsOf(p) = (First(p) + HiddenBefore(i)) .. (Last(p) + HiddenBefore(i))
          /\ First(p) \in Nat /\ Last(p) \in Nat /\ Last(p) + 1 <= Sizes[i]
          /\ HiddenBefore(i) \in Nat /\ Sizes[i] \in Nat
      BY <2>1
    <3>2. /\ q \in 0 .. ProcessorCount - 1 /\ j \in Layers \ {LastOf} /\ plan[q + 1].layer = j
          /\ overlay[q].output = First(q) + HiddenBefore(j)
          /\ WordsOf(q) = (First(q) + HiddenBefore(j)) .. (Last(q) + HiddenBefore(j))
          /\ First(q) \in Nat /\ Last(q) \in Nat /\ Last(q) + 1 <= Sizes[j]
          /\ HiddenBefore(j) \in Nat /\ Sizes[j] \in Nat
      BY <2>1, <2>3
    <3>3. /\ ContextAt(p).biases[1] = First(p) /\ ContextAt(q).biases[1] = First(q)
      BY <3>1, <3>2, NeuronsOf
    <3>4. WordsOf(p) \cap WordsOf(q) = {}
      <4>1. CASE i = j
        <5> DEFINE c == ChunkOf(p)
                   d == ChunkOf(q)
        <5>1. /\ c \in 0 .. counts[i] - 1 /\ p = StagesBefore(i) + c
              /\ d \in 0 .. counts[i] - 1 /\ q = StagesBefore(i) + d
          BY <2>0, <3>1, <3>2, <4>1, StageOfLayer
        <5>2. /\ First(p) = Begin(i, c) /\ Last(p) + 1 = Begin(i, c + 1)
              /\ First(q) = Begin(i, d) /\ Last(q) + 1 = Begin(i, d + 1)
          BY <2>0, <3>1, <3>2, <4>1, StageFacts
        <5>3. counts[i] \in Nat /\ c # d
          BY <2>0, <2>3, <3>1, <5>1, LayerFacts
        <5> HIDE DEF c, d
        <5>4. CASE c < d
          <6>1. d \in c + 1 .. counts[i]
            BY <5>1, <5>3, <5>4
          <6>2. Begin(i, c + 1) <= Begin(i, d)
            BY <2>0, <3>1, <5>1, <6>1, BeginsOrdered
          <6> QED
            BY <3>1, <3>2, <4>1, <5>2, <6>2
        <5>5. CASE d < c
          <6>1. c \in d + 1 .. counts[i]
            BY <5>1, <5>3, <5>5
          <6>2. Begin(i, d + 1) <= Begin(i, c)
            BY <2>0, <3>1, <5>1, <6>1, BeginsOrdered
          <6> QED
            BY <3>1, <3>2, <4>1, <5>2, <6>2
        <5> QED
          BY <5>1, <5>3, <5>4, <5>5
      <4>2. CASE i < j
        <5>1. HiddenBefore(i) + Sizes[i] <= HiddenBefore(j)
          BY <2>0, <3>1, <3>2, <4>2, HiddenFacts
        <5> QED
          BY <3>1, <3>2, <5>1, SMTT(30)
      <4>3. CASE j < i
        <5>1. HiddenBefore(j) + Sizes[j] <= HiddenBefore(i)
          BY <2>0, <3>1, <3>2, <4>3, HiddenFacts
        <5> QED
          BY <3>1, <3>2, <5>1, SMTT(30)
      <4>4. i \in Int /\ j \in Int
        BY <2>0, <3>1, <3>2, LayerFacts
      <4>5. i = j \/ i < j \/ j < i
        BY <4>4
      <4> QED
        BY <4>1, <4>2, <4>3, <4>5
    <3>5. i = j => overlay[q].output - overlay[p].output = First(q) - First(p)
      <4> SUFFICES ASSUME i = j PROVE overlay[q].output - overlay[p].output = First(q) - First(p)
        OBVIOUS
      <4>1. overlay[q].output = First(q) + HiddenBefore(i)
        BY <3>2
      <4> HIDE DEF i, j
      <4> QED
        BY <3>1, <3>2, <4>1
    <3> QED
      BY <3>1, <3>2, <3>3, <3>4, <3>5
  <2> QED
    BY <2>2, <2>3
<1> QED
  BY <1>1, Invariance, PTL
=============================================================================
