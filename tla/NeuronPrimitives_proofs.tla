----------------------- MODULE NeuronPrimitives_proofs -----------------------
(***************************************************************************)
(* Theorems about the neural primitives, for contexts, tables, features    *)
(* and widths of any size.  Under every request the sigmoid table is sound *)
(* and the packet thread's values keep to their types and widths.  Under   *)
(* reloads without clearing nothing dangles, and what an operator returns  *)
(* is explained, term by term, by contexts and tables that were in force.  *)
(***************************************************************************)
EXTENDS NeuronPrimitives, Sums

(***************************************************************************)
(* The arithmetic: every width has a greatest word, a shift rounds down,   *)
(* and a rescaled value stays within the width asked for.                  *)
(***************************************************************************)
\* The greatest word of a width.
LEMMA MaskType ==
  ASSUME NEW w \in Nat
  PROVE  /\ Mask(w) \in Nat \ {0}
         /\ w \in 1 .. MaxWidth => Mask(w) = 2 ^ w - 1
<1> DEFINE v == IF w = 0 \/ w > MaxWidth THEN MaxWidth ELSE w
<1>1. v \in Nat /\ 1 <= v
  BY WidthAssumption
<1>2. 2 ^ 1 <= 2 ^ v /\ 2 ^ v \in Nat
  BY <1>1, PowersGrow, PowerType
<1> HIDE DEF v
<1>3. 2 ^ v - 1 \in Nat \ {0}
  BY <1>2, PowerOne
<1>4. Mask(w) = 2 ^ v - 1
  BY DEF Mask, v
<1>5. w \in 1 .. MaxWidth => v = w
  BY WidthAssumption DEF v
<1> QED
  BY <1>3, <1>4, <1>5

\* The width of the words is one a value can be rescaled to.
LEMMA WidthFacts ==
  Width \in 1 .. MaxWidth /\ Width \in Nat /\ Width # 0 /\ Mask(Width) \in Nat \ {0}
  BY WidthAssumption, MaskType

\* arithmetic_right_shift rounds down, whatever the sign.
LEMMA ShiftFloor ==
  ASSUME NEW x \in Int, NEW s \in Nat
  PROVE  /\ ArithmeticRightShift(x, s) = x \div 2 ^ s
         /\ x \div 2 ^ s \in Int
<1> DEFINE d == 2 ^ s
           q == x \div d
           r == x % d
<1>1. d \in Nat \ {0}
  BY PowerType
<1>2. ArithmeticRightShift(x, s) = IF x >= 0 THEN x \div d ELSE - ((-x + d - 1) \div d)
  BY DEF ArithmeticRightShift
<1> HIDE DEF d
<1>3. q \in Int /\ r \in 0 .. d - 1 /\ x = (d * q) + r
  BY <1>1
<1> HIDE DEF q, r
<1>4. -x + d - 1 = (d * (-q)) + (d - 1 - r) /\ d - 1 - r \in 0 .. d - 1
  BY <1>1, <1>3
<1>5. -x + d - 1 \in Int /\ -q \in Int
  BY <1>1, <1>3
<1>6. (-x + d - 1) \div d = -q
  BY <1>1, <1>4, <1>5, Quotient
<1>7. - (-q) = q
  BY <1>3
<1>8. ArithmeticRightShift(x, s) = q
  BY <1>2, <1>6, <1>7 DEF q
<1> QED
  BY <1>8, <1>3 DEF d, q

\* clamp_to_width.
LEMMA ClampType ==
  ASSUME NEW x \in Int, NEW w \in Nat
  PROVE  Clamp(x, w) \in 0 .. Mask(w) /\ (x \in 0 .. Mask(w) => Clamp(x, w) = x)
  BY MaskType DEF Clamp

\* rescale_value stays within the width asked for, when one is asked for.
LEMMA RescaleType ==
  ASSUME NEW v \in Nat, NEW from \in 0 .. MaxWidth, NEW to \in 1 .. MaxWidth
  PROVE  Rescale(v, from, to) \in 0 .. Mask(to)
<1> DEFINE f == IF from = 0 THEN Width ELSE from
           c == Clamp(v, f)
           M == Mask(f)
           N == Mask(to)
<1>1. f \in 1 .. MaxWidth /\ f \in Nat /\ to \in Nat /\ to # 0
  BY WidthAssumption
<1>2. c \in 0 .. M /\ M \in Nat \ {0} /\ N \in Nat \ {0}
  <2> HIDE DEF f
  <2>1. M \in Nat \ {0} /\ N \in Nat \ {0}
    BY <1>1, MaskType
  <2>2. v \in Int /\ f \in Nat
    BY <1>1
  <2>3. Clamp(v, f) \in 0 .. Mask(f)
    BY <2>2, ClampType
  <2> QED
    BY <2>1, <2>3
<1>3. Rescale(v, from, to) = IF to \in {0, f} THEN c ELSE (2 * c * N + M) \div (2 * M)
  BY DEF Rescale
<1> HIDE DEF c, M, N
<1>4. CASE to = f
  BY <1>1, <1>2, <1>3, <1>4 DEF M, N
<1>5. CASE to # f
  <2> DEFINE x == 2 * c * N + M
             d == 2 * M
  <2>1. d \in Nat \ {0} /\ x \in Nat
    <3>1. c * N \in Nat
      BY <1>2
    <3> QED
      BY <3>1, <1>2
  <2> HIDE DEF x, d
  <2>2. x = (d * (x \div d)) + (x % d) /\ x % d \in 0 .. d - 1 /\ x \div d \in Nat
    BY <2>1
  <2>3. c * N <= M * N
    BY <1>2
  <2>4. x < d * (N + 1)
    <3>1. x = 2 * (c * N) + M /\ d * (N + 1) = 2 * (M * N) + 2 * M
      BY <1>2 DEF x, d
    <3>2. c * N \in Nat /\ M * N \in Nat
      BY <1>2
    <3> QED
      BY <3>1, <3>2, <2>3, <1>2
  <2>5. x \div d < N + 1
    <3> DEFINE q == x \div d
    <3> SUFFICES ASSUME q >= N + 1 PROVE FALSE
      BY <2>2, <1>2
    <3>1. d * q >= d * (N + 1)
      BY <2>1, <2>2, <1>2
    <3> QED
      BY <3>1, <2>1, <2>2, <2>4, <1>2
  <2>6. x \div d \in 0 .. N
    BY <2>2, <2>5, <1>2
  <2> QED
    BY <1>1, <1>3, <1>5, <2>6 DEF N, x, d
<1> QED
  BY <1>4, <1>5

\* One output bit: whether the value is at least half of the greatest.
LEMMA RescaleBit ==
  ASSUME NEW from \in 1 .. MaxWidth, NEW v \in 0 .. Mask(from)
  PROVE  Rescale(v, from, 1) = IF 2 * v >= Mask(from) THEN 1 ELSE 0
<1> DEFINE M == Mask(from)
<1>0. MaxWidth >= 1 /\ MaxWidth \in Nat /\ from \in Nat
  BY WidthAssumption
<1>1. M \in Nat \ {0} /\ Mask(1) = 1
  <2>1. M \in Nat \ {0}
    BY <1>0, MaskType
  <2>2. 1 \in Nat /\ 1 \in 1 .. MaxWidth
    BY <1>0
  <2>3. Mask(1) = 2 ^ 1 - 1
    BY <2>2, MaskType
  <2> QED
    BY <2>1, <2>3, PowerOne
<1>2. Clamp(v, from) = v /\ v \in Nat
  BY <1>0, <1>1, ClampType
<1>3. Rescale(v, from, 1) = IF 1 \in {0, from} THEN v ELSE (2 * v * 1 + M) \div (2 * M)
  BY <1>0, <1>1, <1>2 DEF Rescale
<1>4. CASE from = 1
  BY <1>1, <1>2, <1>3, <1>4
<1>5. CASE from # 1
  <2> HIDE DEF M
  <2> v \in 0 .. M
    BY DEF M
  <2>1. Rescale(v, from, 1) = (2 * v * 1 + M) \div (2 * M)
    BY <1>0, <1>3, <1>5
  <2>2. CASE 2 * v >= M
    <3>1. 2 * v * 1 + M = ((2 * M) * 1) + (2 * v - M) /\ 2 * v - M \in 0 .. 2 * M - 1
      BY <1>1, <1>2, <2>2
    <3>2. (2 * v * 1 + M) \div (2 * M) = 1
      BY <3>1, <1>1, <1>2, Quotient
    <3> QED
      BY <2>1, <2>2, <3>2 DEF M
  <2>3. CASE 2 * v < M
    <3>1. 2 * v * 1 + M = ((2 * M) * 0) + (2 * v + M) /\ 2 * v + M \in 0 .. 2 * M - 1
      BY <1>1, <1>2, <2>3
    <3>2. (2 * v * 1 + M) \div (2 * M) = 0
      BY <3>1, <1>1, <1>2, Quotient
    <3> QED
      BY <1>1, <1>2, <2>1, <2>3, <3>2 DEF M
  <2> QED
    BY <2>2, <2>3, <1>1, <1>2
<1> QED
  BY <1>4, <1>5

\* A word, its top bit taken for the sign, is a small int32_t.
LEMMA WordNarrow ==
  ASSUME NEW w \in Nat, w <= Mask(Width)
  PROVE  Narrow(SignExtend(w, Width)) = SignExtend(w, Width)
<1> DEFINE x == SignExtend(w, Width)
           a == 2 ^ (Width - 1)
           b == 2 ^ (IntWidth - 1)
<1>1. Width - 1 \in Nat /\ IntWidth - 1 \in Nat /\ Width - 1 <= IntWidth - 1
      /\ (Width - 1) + 1 = Width /\ (IntWidth - 1) + 1 = IntWidth
  BY WidthAssumption
<1>2. a \in Nat \ {0} /\ b \in Nat \ {0} /\ a <= b
  BY <1>1, PowerType, PowersGrow
<1>3. 2 ^ Width = 2 * a /\ 2 ^ IntWidth = 2 * b
  BY <1>1, PowerNext
<1>4. w < 2 * a
  <2>1. Mask(Width) = 2 ^ Width - 1
    BY WidthFacts, MaskType
  <2> QED
    BY <2>1, <1>2, <1>3
<1>5. x = IF w >= a THEN w - 2 * a ELSE w
  BY <1>3 DEF SignExtend
<1>6. Narrow(x) = ((x + b) % (2 * b)) - b
  BY <1>3 DEF Narrow
<1> HIDE DEF x, a, b
<1>7. x + b \in 0 .. 2 * b - 1 /\ x \in Int
  BY <1>2, <1>4, <1>5
<1>8. (x + b) % (2 * b) = x + b
  BY <1>2, <1>7
<1> QED
  BY <1>6, <1>7, <1>8, <1>2 DEF x

\* The entries of a function over 1 .. n, in a sequence.
LEMMA EntriesAreSeq ==
  ASSUME NEW n \in Nat, NEW S, NEW f, f = [i \in 1 .. n |-> f[i]], \A i \in 1 .. n : f[i] \in S
  PROVE  f \in Seq(S) /\ Len(f) = n /\ DOMAIN f = 1 .. n
<1>1. f \in [1 .. n -> S] /\ DOMAIN f = 1 .. n
  OBVIOUS
<1> QED
  BY <1>1, FunctionIsSeq

-----------------------------------------------------------------------------
(***************************************************************************)
(* The table.                                                              *)
(***************************************************************************)
\* The lowest and highest element of an interval are its ends.
LEMMA IntervalEnds ==
  ASSUME NEW low \in Int, NEW high \in Int, low <= high
  PROVE  Lowest(low .. high) = low /\ Highest(low .. high) = high
<1>1. /\ low \in low .. high /\ \A y \in low .. high : low <= y
      /\ high \in low .. high /\ \A y \in low .. high : high >= y
  OBVIOUS
<1>2. \A x \in low .. high : (\A y \in low .. high : x <= y) => x = low
  OBVIOUS
<1>3. \A x \in low .. high : (\A y \in low .. high : x >= y) => x = high
  OBVIOUS
<1> QED
  BY <1>1, <1>2, <1>3 DEF Lowest, Highest

\* A request load_table accepts becomes a table with one value per input from
\* its least to its greatest, each within the width.
LEMMA AcceptedTable ==
  ASSUME NEW q \in Loads, Acceptable(q)
  PROVE  LET t == TableOf(q)
         IN  /\ t.values # <<>>
             /\ Len(t.values) = t.max - t.min + 1
             /\ \A i \in DOMAIN t.values : t.values[i] <= Mask(t.width)
<1> DEFINE D == DOMAIN q.points
<1> DEFINE N == Cardinality(D)
<1>1. PICK low \in D, high \in D : D = low .. high
  BY DEF Acceptable
<1>2. low \in Int /\ high \in Int /\ low <= high
  BY <1>1, LoadAssumption
<1>3. Lowest(D) = low /\ Highest(D) = high
  BY <1>1, <1>2, IntervalEnds
<1>4. N = high - low + 1
  BY <1>1, <1>2, FS_Interval
<1>5. TableOf(q).min = low /\ TableOf(q).max = high /\ TableOf(q).width = q.width
  BY <1>3 DEF TableOf
<1>6. TableOf(q).values = [i \in 1 .. N |-> q.points[low + i - 1]]
  BY <1>3 DEF TableOf
<1> HIDE DEF N
<1>7. \A i \in 1 .. N : low + i - 1 \in D
  BY <1>1, <1>2, <1>4
<1>8. \A i \in 1 .. N : TableOf(q).values[i] <= Mask(q.width)
  BY <1>6, <1>7 DEF Acceptable
<1>9. N \in Nat /\ N > 0
  BY <1>2, <1>4
<1>10. Len(TableOf(q).values) = N /\ DOMAIN TableOf(q).values = 1 .. N
  BY <1>6, <1>9
<1> QED
  BY <1>4, <1>5, <1>8, <1>9, <1>10

\* The table changes in two actions only.
LEMMA TableSteps ==
  ASSUME [Next]_vars
  PROVE  \/ UNCHANGED table
         \/ \E q \in Loads : Acceptable(q) /\ table' = TableOf(q)
         \/ table' = [EmptyTable EXCEPT !.mult = table.mult]
<1>1. CASE UNCHANGED vars
  BY <1>1 DEF vars
<1>2. CASE PacketStep
  BY <1>2 DEF PacketStep, managers, FetchContext, FollowFreed, Decode, SumNeuron, LastSum,
              Activate, TableWidth, PushNeuron, LastNeuron, Sigmoid, DesiredWidth, SigmoidLookup,
              SigmoidRescale
<1>3. CASE ServerStep
  BY <1>3 DEF ServerStep, LoadContext, ClearContexts, LoadSigmoid, ClearSigmoid
<1> QED
  BY <1>1, <1>2, <1>3 DEF Next

\* Every index lookup clamps to lies in the table and every value in its width,
\* whatever is loaded, refused or cleared, for tables of any size.
THEOREM SoundTable == Spec => []TableSound
<1>1. Init => TableSound
  BY DEF Init, TableSound, Loaded, EmptyTable
<1>2. TableSound /\ [Next]_vars => TableSound'
  <2> SUFFICES ASSUME TableSound, [Next]_vars PROVE TableSound'
    OBVIOUS
  <2>1. CASE UNCHANGED table
    BY <2>1 DEF TableSound, Loaded
  <2>2. ASSUME NEW q \in Loads, Acceptable(q), table' = TableOf(q) PROVE TableSound'
    BY <2>2, AcceptedTable DEF TableSound, Loaded
  <2>3. CASE table' = [EmptyTable EXCEPT !.mult = table.mult]
    BY <2>3 DEF TableSound, Loaded, EmptyTable
  <2> QED
    BY <2>1, <2>2, <2>3, TableSteps
<1> QED
  BY <1>1, <1>2, PTL DEF Spec

-----------------------------------------------------------------------------
(***************************************************************************)
(* The packet thread under every request.                                  *)
(***************************************************************************)
\* What a request load_table accepts leaves in the table.
LEMMA AcceptedType ==
  ASSUME NEW q \in Loads, Acceptable(q)
  PROVE  TableOf(q) \in TableState /\ TableOf(q).width = q.width /\ q.width \in 1 .. MaxWidth
<1> DEFINE D == DOMAIN q.points
           N == Cardinality(D)
           t == TableOf(q)
<1>1. PICK low \in D, high \in D : D = low .. high
  BY DEF Acceptable
<1>2. low \in Int /\ high \in Int /\ low <= high
  BY <1>1, LoadAssumption
<1>3. Lowest(D) = low /\ Highest(D) = high
  BY <1>1, <1>2, IntervalEnds
<1>4. N = high - low + 1
  BY <1>1, <1>2, FS_Interval
<1>5. t = [min |-> low, max |-> high, width |-> q.width,
           mult |-> IF q.mult = 0 THEN 1 ELSE q.mult,
           values |-> [i \in 1 .. N |-> q.points[low + i - 1]]]
  BY <1>3 DEF TableOf
<1> HIDE DEF N, t
<1>6. q.width \in 1 .. MaxWidth /\ q.mult \in Nat /\ q.width \in 0 .. MaxWidth
  BY LoadAssumption, WidthAssumption DEF Acceptable
<1>7. N \in Nat
  BY <1>2, <1>4
<1>8. \A i \in 1 .. N : q.points[low + i - 1] \in Nat
  <2>1. \A i \in 1 .. N : low + i - 1 \in D
    BY <1>1, <1>2, <1>4
  <2> QED
    BY <2>1, LoadAssumption
<1> DEFINE f == [i \in 1 .. N |-> q.points[low + i - 1]]
<1>9. f \in Seq(Nat)
  <2>1. f = [i \in 1 .. N |-> f[i]] /\ \A i \in 1 .. N : f[i] \in Nat
    BY <1>8
  <2> HIDE DEF f
  <2> QED
    BY <2>1, <1>7, EntriesAreSeq
<1>10. t = [min |-> low, max |-> high, width |-> q.width,
            mult |-> IF q.mult = 0 THEN 1 ELSE q.mult, values |-> f]
  BY <1>5
<1> HIDE DEF f
<1>11. t \in TableState /\ t.width = q.width
  BY <1>2, <1>6, <1>9, <1>10 DEF TableState
<1> QED
  BY <1>6, <1>11 DEF t

\* A loaded table answers every input with one of its values.
LEMMA LookupType ==
  ASSUME NEW t \in TableState, t.values # <<>>, Len(t.values) = t.max - t.min + 1,
         NEW x \in Int
  PROVE  \E i \in DOMAIN t.values : LookupIn(t, x) = t.values[i] /\ LookupIn(t, x) \in Nat
<1> DEFINE y == x * t.mult
           at == IF y < t.min THEN t.min ELSE IF y > t.max THEN t.max ELSE y
<1>1. t.min \in Int /\ t.max \in Int /\ t.mult \in Nat /\ t.values \in Seq(Nat)
  BY DEF TableState
<1>2. Len(t.values) \in Nat \ {0} /\ DOMAIN t.values = 1 .. Len(t.values)
  BY <1>1
<1>3. y \in Int
  BY <1>1
<1> HIDE DEF y
<1>4. at - t.min + 1 \in 1 .. Len(t.values)
  BY <1>1, <1>2, <1>3
<1>5. LookupIn(t, x) = t.values[at - t.min + 1]
  BY DEF LookupIn, y
<1> QED
  BY <1>1, <1>2, <1>4, <1>5, SMTT(30)

\* A conversion to int32_t gives a number.
LEMMA NarrowType ==
  ASSUME NEW x \in Int
  PROVE  Narrow(x) \in Int
<1>1. 2 ^ (IntWidth - 1) \in Nat \ {0} /\ 2 ^ IntWidth \in Nat \ {0}
  <2>1. IntWidth \in Nat /\ IntWidth - 1 \in Nat
    BY WidthAssumption
  <2> QED
    BY <2>1, PowerType
<1> QED
  BY <1>1 DEF Narrow

\* So does the reading of a word with a sign.
LEMMA SignExtendType ==
  ASSUME NEW w \in Int
  PROVE  SignExtend(w, Width) \in Int
<1>1. 2 ^ Width \in Nat \ {0}
  BY WidthAssumption, PowerType
<1> QED
  BY <1>1 DEF SignExtend

\* lookup answers with a value of the table, or 0.
LEMMA AnswerType ==
  ASSUME TableSound, table \in TableState, NEW x \in Int
  PROVE  Answer(x) \in Nat
  BY LookupType, NarrowType DEF Answer, TableSound, Loaded

\* A sum whose words, weights and bias are there is a number.
LEMMA MixedSumType ==
  ASSUME NEW S, S \subseteq Layers, NEW L, L.inputs \in Nat, NEW src \in [0 .. L.inputs -> S],
         NEW x \in Seq(Int), L.inputs <= Len(x), NEW n \in Nat \ {0}, n <= Len(src[0].biases),
         \A i \in 1 .. L.inputs : (n - 1) * L.inputs + i <= Len(src[i].weights)
  PROVE  MixedSum(L, src, x, n) \in Int
<1> DEFINE k == L.inputs
           g == [i \in 1 .. k |-> x[i] * src[i].weights[(n - 1) * k + i]]
<1>1. \A i \in 0 .. k : src[i].weights \in Seq(Int) /\ src[i].biases \in Seq(Int)
  <2> TAKE i \in 0 .. k
  <2>1. src[i] \in Layer
    BY LayerAssumption
  <2> QED
    BY <2>1 DEF Layer
<1>2. \A i \in 1 .. k : src[i].weights[(n - 1) * k + i] \in Int
  <2> TAKE i \in 1 .. k
  <2>1. i \in 0 .. k /\ src[i].weights \in Seq(Int)
    BY <1>1
  <2>2. (n - 1) * k \in Nat
    BY k \in Nat, n - 1 \in Nat, SMTT(30)
  <2>3. (n - 1) * k + i <= Len(src[i].weights)
    OBVIOUS
  <2> DEFINE w == (n - 1) * k
  <2>4. w + i \in 1 .. Len(src[i].weights)
    <3>1. w \in Nat /\ w + i <= Len(src[i].weights) /\ i \in Nat \ {0}
          /\ Len(src[i].weights) \in Nat
      <4>1. Len(src[i].weights) \in Nat /\ i \in Nat \ {0}
        BY <2>1
      <4> QED
        BY <2>2, <2>3, <4>1, Zenon
    <3> HIDE DEF w
    <3> QED
      BY <3>1
  <2> QED
    BY <2>1, <2>4
<1>3. \A i \in 1 .. k : x[i] \in Int
  BY Len(x) \in Nat
<1>4. \A i \in 1 .. k : g[i] \in Int
  BY <1>2, <1>3, SMTT(30)
<1>5. DOMAIN g = 1 .. k /\ IsFiniteSet(1 .. k)
  BY CountTo
<1>6. SumFunction(g) \in Int
  <2> HIDE DEF g
  <2> QED
    BY <1>4, <1>5, SumInt DEF SumFunction
<1>7. src[0].biases[n] \in Int
  <2>1. src[0].biases \in Seq(Int)
    BY <1>1
  <2> QED
    BY <2>1
<1> QED
  BY <1>6, <1>7 DEF MixedSum

\* The contexts and the table are what the managers' checks let in.
HeldInv ==
  /\ contexts \in [CtxIds -> Layers \cup {None}]
  /\ \A id \in CtxIds : contexts[id] # None => WellFormed(contexts[id])
  /\ table \in TableState /\ TableSound

\* The operator at hand, and the context its pointer points to.
OperatorInv ==
  /\ pc \in {"idle", "mac", "sums", "activate", "width", "push", "desired", "lookup", "rescale"}
  /\ op \in Operator
  /\ ptr \in {"live", "freed"} /\ alive \in BOOLEAN
  /\ Pointing => op.kind = "neuron" /\ (ptr = "live" => contexts[op.id] # None)
  /\ pc \in {"desired", "lookup", "rescale"} => op.kind = "sigmoid"

\* What it has computed so far: no output exceeds the width it is rescaled to.
ValueInv ==
  /\ inputs \in Seq(Int) /\ turn \in Nat /\ mac \in Seq(Int)
  /\ width \in 0 .. MaxWidth /\ val \in Nat /\ out \in Seq(Nat)
  /\ pc \in {"lookup", "rescale"} => width # 0
  /\ pc \in {"mac", "sums", "activate", "width"} => out = <<>>
  /\ pc = "push" => \A n \in DOMAIN out : out[n] <= Mask(Width)
  /\ NothingCut

HistoryInv == layers \subseteq Layers /\ \A t \in tables : t \in TableState

StepInv == HeldInv /\ OperatorInv /\ ValueInv /\ HistoryInv

\* The context of a live pointer.
LEMMA LivePointer ==
  ASSUME HeldInv, OperatorInv, Pointing, ptr = "live"
  PROVE  /\ op.id \in CtxIds /\ op.features \in Seq(Word)
         /\ Ctx \in Layers /\ Ctx \in Layer /\ WellFormed(Ctx)
         /\ Ctx.neurons \in Nat /\ Ctx.inputs \in Nat /\ Ctx.shift \in Nat
<1>1. op.kind = "neuron" /\ op \in Operator
  BY DEF OperatorInv
<1>2. op.id \in CtxIds /\ op.features \in Seq(Word)
  BY <1>1 DEF Operator
<1>3. Ctx \in Layers /\ WellFormed(Ctx)
  BY <1>2 DEF OperatorInv, HeldInv, Ctx
<1>4. Ctx \in Layer
  BY <1>3, LayerAssumption
<1> QED
  BY <1>2, <1>3, <1>4 DEF Layer

\* What the activation is given is the floor of two quotients.
LEMMA ShiftedType ==
  ASSUME HeldInv, OperatorInv, mac \in Seq(Int), Pointing, ptr = "live", NEW n \in 1 .. Len(mac)
  PROVE  /\ Shifted(n) \in Int
         /\ Shifted(n) = (mac[n] \div 2 ^ CoeffShift) \div 2 ^ Ctx.shift
<1>1. Ctx.shift \in Nat /\ CoeffShift \in Nat
  BY LivePointer, WidthAssumption
<1>2. mac[n] \in Int
  OBVIOUS
<1>3. ArithmeticRightShift(mac[n], CoeffShift) = mac[n] \div 2 ^ CoeffShift
      /\ mac[n] \div 2 ^ CoeffShift \in Int
  BY <1>1, <1>2, ShiftFloor
<1> QED
  BY <1>1, <1>3, ShiftFloor DEF Shifted

\* The answer of a layer that cannot be computed.
LEMMA ZerosType ==
  ASSUME NEW n \in Nat
  PROVE  Zeros(n) \in Seq(Nat) /\ \A i \in DOMAIN Zeros(n) : Zeros(n)[i] = 0
<1>1. Zeros(n) = [i \in 1 .. n |-> Zeros(n)[i]] /\ \A i \in 1 .. n : Zeros(n)[i] = 0
  BY DEF Zeros
<1>2. Zeros(n) \in Seq(Nat) /\ DOMAIN Zeros(n) = 1 .. n
  BY <1>1, EntriesAreSeq
<1> QED
  BY <1>1, <1>2

\* What the packet thread's next line of execute leaves.
LEMMA FetchStep ==
  ASSUME StepInv, NEW id \in CtxIds, NEW f \in Features, FetchContext(id, f)
  PROVE  StepInv'
<1> USE DEF StepInv, At, managers, summing
<1>0. f \in Seq(Word)
  BY FeatureAssumption
<1>1. HeldInv'
  BY DEF FetchContext, HeldInv, TableSound, Loaded
<1>2. OperatorInv'
  <2>1. op' \in Operator /\ op'.kind = "neuron" /\ op'.id = id
    BY <1>0 DEF FetchContext, Operator
  <2> QED
    BY <2>1 DEF FetchContext, OperatorInv, Pointing
<1>3. ValueInv'
  <2>1. out' \in Seq(Nat) /\ (\A n \in DOMAIN out' : out'[n] = 0) /\ (pc' = "mac" => out' = <<>>)
    <3>1. CASE contexts[id] = None
      <4>1. out' = <<0>> /\ pc' = "idle"
        BY <3>1 DEF FetchContext
      <4> QED
        BY <4>1
    <3>2. CASE contexts[id] # None
      <4>1. out' = <<>>
        BY <3>2 DEF FetchContext
      <4> QED
        BY <4>1
    <3> QED
      BY <3>1, <3>2
  <2>2. op'.kind = "neuron"
    BY DEF FetchContext
  <2>3. pc' \in {"idle", "mac"} /\ UNCHANGED <<inputs, turn, mac, width, val>>
    BY DEF FetchContext, OperatorInv
  <2> QED
    BY <2>1, <2>2, <2>3, WidthFacts DEF ValueInv, NothingCut
<1>4. HistoryInv'
  BY DEF FetchContext, HistoryInv, HeldInv
<1> QED
  BY <1>1, <1>2, <1>3, <1>4

\* A freed node is followed: the process is lost.
LEMMA FreedStep ==
  ASSUME StepInv, FollowFreed
  PROVE  StepInv'
  BY DEF StepInv, FollowFreed, HeldInv, TableSound, Loaded, OperatorInv, Pointing, ValueInv,
         NothingCut, HistoryInv, managers, summing

\* The vectors of an operator that returns are gone.
LEMMA NoSums == <<>> \in Seq(Int)
  OBVIOUS

\* The sizes are checked and the words decoded.
LEMMA DecodeStep ==
  ASSUME StepInv, Decode
  PROVE  StepInv'
<1> USE DEF StepInv, At, managers
<1>0. Pointing /\ ptr = "live" /\ pc = "mac"
  BY DEF Decode, Pointing
<1>1. HeldInv'
  BY DEF Decode, HeldInv, TableSound, Loaded
<1>2. UNCHANGED <<contexts, op, ptr, alive, width, val, tables>> /\ pc' \in {"idle", "sums"}
  BY DEF Decode, Return, Finish
<1>3. OperatorInv'
  BY <1>0, <1>2 DEF OperatorInv, Pointing
<1>4. op.kind = "neuron" /\ op.features \in Seq(Word) /\ Ctx.neurons \in Nat /\ Ctx.inputs \in Nat
  BY <1>0, LivePointer DEF OperatorInv
<1>5. ASSUME NEW k \in Nat, Return(Zeros(k)), layers' = {} PROVE StepInv'
  <2>1. pc' = "idle" /\ out' = Zeros(k) /\ inputs' = <<>> /\ turn' = 0 /\ mac' = <<>>
    BY <1>5 DEF Return, Finish
  <2>2. out' \in Seq(Nat) /\ \A n \in DOMAIN out' : out'[n] <= Mask(Width)
    BY <2>1, ZerosType, WidthFacts
  <2>3. ValueInv'
    BY <1>2, <1>4, <2>1, <2>2, NoSums DEF ValueInv, NothingCut
  <2> QED
    BY <1>1, <1>2, <1>3, <1>5, <2>3 DEF HistoryInv
<1>6. CASE Return(Zeros(MaxWidth \div Width)) /\ layers' = {}
  <2>1. MaxWidth \div Width \in Nat
    BY WidthAssumption
  <2> QED
    BY <1>5, <1>6, <2>1
<1>7. CASE Return(Zeros(Ctx.neurons)) /\ layers' = {}
  BY <1>4, <1>5, <1>7
<1>8. CASE /\ Len(op.features) >= Ctx.inputs
           /\ inputs' = [i \in 1 .. Ctx.inputs |-> Feature(Ctx, op.features, i)]
           /\ mac' = Zeros(Ctx.neurons) /\ turn' = 0
           /\ pc' = "sums"
           /\ UNCHANGED <<out, layers>>
  <2>1. \A i \in 1 .. Ctx.inputs : Feature(Ctx, op.features, i) \in Int
    <3> TAKE i \in 1 .. Ctx.inputs
    <3>1. Len(op.features) \in Nat /\ i \in 1 .. Len(op.features)
      BY <1>4, <1>8
    <3>2. op.features[i] \in Word
      BY <1>4, <3>1
    <3>3. op.features[i] \in Int
      BY <3>2 DEF Word
    <3> QED
      BY <3>3, SignExtendType DEF Feature
  <2>2. inputs' = [i \in 1 .. Ctx.inputs |-> inputs'[i]] /\ \A i \in 1 .. Ctx.inputs : inputs'[i] \in Int
    BY <1>8, <2>1
  <2>3. inputs' \in Seq(Int)
    BY <2>2, <1>4, EntriesAreSeq
  <2>4. mac' \in Seq(Int)
    <3>1. mac' \in Seq(Nat)
      BY <1>4, <1>8, ZerosType
    <3> QED
      BY <3>1
  <2>5. ValueInv'
    BY <1>0, <1>2, <1>8, <2>3, <2>4 DEF ValueInv, NothingCut
  <2> QED
    BY <1>1, <1>2, <1>3, <1>8, <2>5 DEF HistoryInv
<1> QED
  BY <1>6, <1>7, <1>8 DEF Decode

\* One neuron's sum is made, from coefficients that are there.
LEMMA SumStep ==
  ASSUME StepInv, SumNeuron
  PROVE  StepInv'
<1> USE DEF StepInv, At, managers
<1>0. Pointing /\ ptr = "live" /\ pc = "sums"
  BY DEF SumNeuron, Pointing
<1>1. HeldInv' /\ HistoryInv'
  BY DEF SumNeuron, HeldInv, TableSound, Loaded, HistoryInv
<1>2. UNCHANGED <<contexts, pc, op, ptr, inputs, width, val, out>> /\ alive' \in BOOLEAN
  BY DEF SumNeuron, OperatorInv
<1>3. OperatorInv'
  BY <1>0, <1>2 DEF OperatorInv, Pointing
<1>4. CASE UNCHANGED <<mac, turn>>
  BY <1>0, <1>1, <1>2, <1>3, <1>4 DEF ValueInv, NothingCut
<1>5. ASSUME NEW src \in [0 .. Ctx.inputs -> layers], InBounds(src), turn' = turn + 1,
             mac' = [mac EXCEPT ![turn + 1] = MixedSum(Ctx, src, inputs, turn + 1)]
      PROVE  StepInv'
  <2>1. turn \in Nat /\ mac \in Seq(Int) /\ inputs \in Seq(Int) /\ Len(mac) \in Nat
    BY DEF ValueInv
  <2>2. Ctx.inputs \in Nat
    BY <1>0, LivePointer
  <2>3. turn + 1 \in 1 .. Len(mac) /\ turn + 1 \in Nat \ {0} /\ (turn + 1) - 1 = turn
    BY <1>5, <2>1 DEF InBounds
  <2>4. MixedSum(Ctx, src, inputs, turn + 1) \in Int
    <3>1. src[0].biases \in Seq(Int)
      BY <2>2, LayerAssumption DEF HistoryInv, Layer
    <3>2. turn + 1 <= Len(src[0].biases)
      BY <1>5, <2>1, <3>1 DEF InBounds
    <3>3. \A i \in 1 .. Ctx.inputs :
            ((turn + 1) - 1) * Ctx.inputs + i <= Len(src[i].weights)
      BY <1>5, <2>3 DEF InBounds
    <3> QED
      BY <1>5, <2>1, <2>2, <2>3, <3>2, <3>3, MixedSumType DEF HistoryInv, InBounds
  <2>5. mac' \in Seq(Int)
    BY <1>5, <2>1, <2>3, <2>4, ExceptSeq
  <2>6. ValueInv'
    BY <1>0, <1>2, <1>5, <2>1, <2>5 DEF ValueInv, NothingCut
  <2> QED
    BY <1>1, <1>3, <2>6
<1> QED
  BY <1>4, <1>5 DEF SumNeuron

\* There is a sum for every neuron.
LEMMA LastSumStep ==
  ASSUME StepInv, LastSum
  PROVE  StepInv'
<1> USE DEF StepInv, At, managers, summing
<1>0. Pointing /\ pc = "sums"
  BY DEF LastSum, Pointing
<1>1. HeldInv' /\ HistoryInv'
  BY DEF LastSum, HeldInv, TableSound, Loaded, HistoryInv
<1>2. OperatorInv'
  BY <1>0 DEF LastSum, OperatorInv, Pointing
<1> QED
  BY <1>0, <1>1, <1>2 DEF LastSum, ValueInv, NothingCut

\* Every output of RELU and of NONE is held to the width.
LEMMA ActivateStep ==
  ASSUME StepInv, Activate
  PROVE  StepInv'
<1> USE DEF StepInv, At, managers, summing
<1>0. Pointing /\ ptr = "live" /\ pc = "activate"
  BY DEF Activate, Pointing
<1>1. HeldInv'
  BY DEF Activate, HeldInv, TableSound, Loaded
<1>2. UNCHANGED <<contexts, op, ptr, width, val, layers>>
      /\ pc' \in {"activate", "idle", "width"} /\ alive' \in BOOLEAN
      /\ (pc' # "idle" => UNCHANGED out)
  BY <1>0 DEF Activate, Return, Finish, OperatorInv
<1>8. inputs' \in Seq(Int) /\ turn' \in Nat /\ mac' \in Seq(Int)
  <2>1. \/ inputs' = inputs /\ turn' = turn /\ mac' = mac
        \/ inputs' = <<>> /\ turn' = 0 /\ mac' = <<>>
    <3>1. CASE Ctx.activation # "SIGMOID" /\ Outrun
      BY <3>1 DEF Activate
    <3>2. CASE Ctx.activation # "SIGMOID" /\ ~ Outrun
      BY <3>2 DEF Activate, Return
    <3>3. CASE Ctx.activation = "SIGMOID" /\ ~ Loaded
      BY <3>3 DEF Activate, Return
    <3>4. CASE Ctx.activation = "SIGMOID" /\ Loaded
      BY <3>4 DEF Activate
    <3> QED
      BY <3>1, <3>2, <3>3, <3>4
  <2>2. inputs \in Seq(Int) /\ turn \in Nat /\ mac \in Seq(Int)
    BY DEF ValueInv
  <2>3. 0 \in Nat
    OBVIOUS
  <2> QED
    BY <2>1, <2>2, <2>3, NoSums, Zenon
<1>3. OperatorInv'
  BY <1>0, <1>2 DEF OperatorInv, Pointing
<1>4. op.kind = "neuron" /\ Ctx.neurons \in Nat
  BY <1>0, LivePointer DEF OperatorInv
<1>5. HistoryInv'
  BY DEF Activate, HistoryInv, HeldInv
<1>6. out' \in Seq(Nat) /\ (pc' = "idle" => \A n \in DOMAIN out' : out'[n] <= Mask(Width))
  <2>1. CASE pc' # "idle"
    BY <2>1 DEF Activate, Return, Finish, ValueInv
  <2>2. CASE pc' = "idle" /\ out' = Zeros(Ctx.neurons)
    BY <1>4, <2>2, ZerosType, WidthFacts, SMTT(30)
  <2>3. CASE ~ Outrun /\ out' = [n \in 1 .. Ctx.neurons |-> Clamp(Shifted(n), Width)]
    <3>1. \A n \in 1 .. Ctx.neurons : n \in 1 .. Len(mac)
      BY <1>4, <2>3 DEF Outrun, ValueInv
    <3>2. \A n \in 1 .. Ctx.neurons : Shifted(n) \in Int
      BY <1>0, <3>1, ShiftedType DEF ValueInv
    <3>3. \A n \in 1 .. Ctx.neurons : Clamp(Shifted(n), Width) \in 0 .. Mask(Width)
      BY <3>2, ClampType, WidthFacts
    <3>4. out' = [n \in 1 .. Ctx.neurons |-> out'[n]]
          /\ \A n \in 1 .. Ctx.neurons : out'[n] \in Nat /\ out'[n] <= Mask(Width)
      BY <2>3, <3>3, WidthFacts
    <3>5. out' \in Seq(Nat) /\ DOMAIN out' = 1 .. Ctx.neurons
      BY <3>4, <1>4, EntriesAreSeq
    <3> QED
      BY <3>4, <3>5
  <2> QED
    BY <2>1, <2>2, <2>3, <1>0 DEF Activate, Return, Finish
<1>7. ValueInv'
  BY <1>0, <1>2, <1>4, <1>6, <1>8 DEF ValueInv, NothingCut
<1> QED
  BY <1>1, <1>3, <1>5, <1>7

\* No output has been made when the width is read.
LEMMA TableWidthStep ==
  ASSUME StepInv, TableWidth
  PROVE  StepInv'
<1> USE DEF StepInv, At, managers, summing
<1>1. HeldInv' /\ OperatorInv' /\ HistoryInv'
  BY DEF TableWidth, HeldInv, TableSound, Loaded, OperatorInv, Pointing, HistoryInv
<1>2. pc' = "push" /\ out' = <<>> /\ width' = table.width /\ UNCHANGED <<inputs, turn, mac, val>>
  BY DEF TableWidth, ValueInv
<1>3. width' \in 0 .. MaxWidth
  BY <1>2 DEF HeldInv, TableState
<1>4. ValueInv'
  BY <1>2, <1>3 DEF ValueInv, NothingCut
<1> QED
  BY <1>1, <1>4

\* An output is rescaled to the width of the words, by whatever width was read.
LEMMA PushStep ==
  ASSUME StepInv, PushNeuron
  PROVE  StepInv'
<1> USE DEF StepInv, At, managers, summing
<1>0. Pointing /\ ptr = "live" /\ pc = "push" /\ op.kind = "neuron"
  BY DEF PushNeuron, Pointing, OperatorInv
<1>1. HeldInv' /\ HistoryInv'
  BY DEF PushNeuron, HeldInv, TableSound, Loaded, HistoryInv
<1>2. UNCHANGED <<contexts, pc, op, ptr, inputs, turn, mac, width, val>>
  BY DEF PushNeuron
<1>3. out \in Seq(Nat) /\ mac \in Seq(Int) /\ Len(out) \in Nat /\ \A n \in DOMAIN out : out[n] <= Mask(Width)
  BY <1>0 DEF ValueInv
<1>4. CASE Len(out) + 1 > Len(mac)
  <2>1. alive' = FALSE /\ UNCHANGED out
    BY <1>4 DEF PushNeuron
  <2> QED
    BY <1>0, <1>1, <1>2, <2>1 DEF OperatorInv, Pointing, ValueInv, NothingCut
<1>5. CASE ~ (Len(out) + 1 > Len(mac))
  <2> DEFINE e == Rescale(Answer(Shifted(Len(out) + 1)), width, Width)
  <2>1. out' = Append(out, e) /\ UNCHANGED alive
    BY <1>5 DEF PushNeuron
  <2>2. Len(out) + 1 \in 1 .. Len(mac)
    BY <1>3, <1>5
  <2>3. Shifted(Len(out) + 1) \in Int
    BY <1>0, <1>3, <2>2, ShiftedType
  <2>4. Answer(Shifted(Len(out) + 1)) \in Nat
    BY <2>3, AnswerType DEF HeldInv
  <2>5. e \in 0 .. Mask(Width)
    BY <2>4, WidthFacts, RescaleType DEF ValueInv
  <2> HIDE DEF e
  <2>6. out' \in Seq(Nat) /\ \A n \in DOMAIN out' : out'[n] <= Mask(Width)
    <3>1. e \in Nat /\ e <= Mask(Width)
      BY <2>5, WidthFacts
    <3>2. out' \in Seq(Nat) /\ DOMAIN out' = 1 .. Len(out) + 1
      BY <1>3, <2>1, <3>1
    <3>3. \A n \in 1 .. Len(out) : out'[n] = out[n] /\ n \in DOMAIN out
      BY <1>3, <2>1, <3>1, AppendProperties
    <3>4. out'[Len(out) + 1] = e
      BY <1>3, <2>1, <3>1, AppendProperties
    <3>5. \A n \in 1 .. Len(out) + 1 : n \in 1 .. Len(out) \/ n = Len(out) + 1
      BY <1>3
    <3>6. \A n \in 1 .. Len(out) : out'[n] <= Mask(Width)
      BY <1>3, <3>3
    <3>7. \A n \in DOMAIN out' : out'[n] <= Mask(Width)
      BY <3>1, <3>2, <3>4, <3>5, <3>6
    <3> QED
      BY <3>2, <3>7
  <2>7. OperatorInv'
    BY <1>0, <1>2, <2>1 DEF OperatorInv, Pointing
  <2>8. ValueInv'
    BY <1>0, <1>2, <2>6 DEF ValueInv, NothingCut
  <2> QED
    BY <1>1, <2>7, <2>8
<1> QED
  BY <1>4, <1>5

\* The outputs are packed.
LEMMA LastStep ==
  ASSUME StepInv, LastNeuron
  PROVE  StepInv'
<1> USE DEF StepInv, At, managers, summing
<1>0. Pointing /\ pc = "push" /\ op.kind = "neuron"
  BY DEF LastNeuron, Pointing, OperatorInv
<1>1. HeldInv' /\ HistoryInv'
  BY DEF LastNeuron, HeldInv, TableSound, Loaded, HistoryInv
<1> QED
  BY <1>0, <1>1, NoSums DEF LastNeuron, Return, Finish, OperatorInv, Pointing, ValueInv, NothingCut

\* The sigmoid operator begins with one of the words.
LEMMA SigmoidStep ==
  ASSUME StepInv, NEW n \in DOMAIN out, NEW w \in Widths, Sigmoid(n, w)
  PROVE  StepInv'
<1> USE DEF StepInv, At, managers, summing
<1>1. HeldInv'
  BY DEF Sigmoid, HeldInv, TableSound, Loaded
<1>2. HistoryInv'
  BY DEF Sigmoid, HeldInv, HistoryInv
<1>3. op.features \in Seq(Word)
  BY DEF Sigmoid, OperatorInv, Operator
<1>4. n \in Nat /\ out[n] \in Nat
  BY DEF ValueInv
<1>5. op' \in Operator /\ op'.kind = "sigmoid"
  BY <1>3, <1>4 DEF Sigmoid, Operator
<1>6. OperatorInv'
  BY <1>5 DEF Sigmoid, OperatorInv, Pointing, Finish
<1>7. \/ pc' = "desired" /\ out' = <<>>
      \/ pc' = "idle" /\ out' = <<0>>
  BY DEF Sigmoid, Finish
<1>8. out' \in Seq(Nat) /\ \A k \in DOMAIN out' : out'[k] = 0
  <2>1. CASE out' = <<>>
    BY <2>1
  <2>2. CASE out' = <<0>>
    BY <2>2
  <2> QED
    BY <1>7, <2>1, <2>2
<1>9. width \in Nat /\ UNCHANGED <<inputs, turn, mac, width, val>>
  BY WidthAssumption DEF Sigmoid, ValueInv
<1>10. Mask(width) \in Nat /\ 0 <= Mask(width)
  BY <1>9, MaskType
<1>11. ValueInv'
  BY <1>5, <1>7, <1>8, <1>9, <1>10 DEF ValueInv, NothingCut
<1> QED
  BY <1>1, <1>2, <1>6, <1>11

\* The width to rescale to is never 0.
LEMMA DesiredStep ==
  ASSUME StepInv, DesiredWidth
  PROVE  StepInv'
<1> USE DEF StepInv, At, managers, summing
<1>0. op.kind = "sigmoid" /\ op \in Operator
  BY DEF DesiredWidth, OperatorInv
<1>1. HeldInv' /\ HistoryInv'
  BY DEF DesiredWidth, HeldInv, TableSound, Loaded, HistoryInv
<1>2. OperatorInv'
  BY <1>0 DEF DesiredWidth, OperatorInv, Pointing
<1>3. op.bits \in 0 .. MaxWidth /\ table.width \in 0 .. MaxWidth
  BY <1>0, WidthAssumption DEF Operator, HeldInv, TableState
<1>4. width' \in 1 .. MaxWidth
  BY <1>3, WidthAssumption DEF DesiredWidth
<1>5. ValueInv'
  BY <1>4 DEF DesiredWidth, ValueInv, NothingCut
<1> QED
  BY <1>1, <1>2, <1>5

\* The table is asked.
LEMMA LookupStep ==
  ASSUME StepInv, SigmoidLookup
  PROVE  StepInv'
<1> USE DEF StepInv, At, managers, summing
<1>0. op.kind = "sigmoid" /\ op \in Operator
  BY DEF SigmoidLookup, OperatorInv
<1>1. HeldInv' /\ HistoryInv'
  BY DEF SigmoidLookup, HeldInv, TableSound, Loaded, HistoryInv
<1>2. OperatorInv'
  BY <1>0 DEF SigmoidLookup, OperatorInv, Pointing
<1>3. op.word \in Int
  BY <1>0 DEF Operator
<1>4. Answer(SignExtend(op.word, Width)) \in Nat
  BY <1>3, SignExtendType, AnswerType DEF HeldInv
<1>5. ValueInv'
  BY <1>4 DEF SigmoidLookup, ValueInv, NothingCut
<1> QED
  BY <1>1, <1>2, <1>5

\* The value is rescaled by the width the table has now.
LEMMA RescaleStep ==
  ASSUME StepInv, SigmoidRescale
  PROVE  StepInv'
<1> USE DEF StepInv, At, managers, summing
<1>0. op.kind = "sigmoid"
  BY DEF SigmoidRescale, OperatorInv
<1>1. HeldInv' /\ HistoryInv'
  BY DEF SigmoidRescale, HeldInv, TableSound, Loaded, HistoryInv
<1>2. OperatorInv'
  BY <1>0 DEF SigmoidRescale, OperatorInv, Pointing, Finish
<1> DEFINE r == Rescale(val, table.width, width)
<1>3. out' = <<r>> /\ pc' = "idle" /\ UNCHANGED <<op, inputs, turn, mac, width, val>>
  BY DEF SigmoidRescale, Finish
<1>4. table.width \in 0 .. MaxWidth /\ width \in 1 .. MaxWidth
  BY WidthAssumption DEF SigmoidRescale, ValueInv, HeldInv, TableState
<1>5. r \in 0 .. Mask(width) /\ Mask(width) \in Nat
  <2>1. width \in Nat
    BY <1>4, WidthAssumption
  <2> QED
    BY <1>4, <2>1, RescaleType, MaskType DEF ValueInv
<1> HIDE DEF r
<1>6. out' \in Seq(Nat) /\ \A n \in DOMAIN out' : out'[n] <= Mask(width)
  BY <1>3, <1>5
<1>7. ValueInv'
  BY <1>0, <1>3, <1>6 DEF ValueInv, NothingCut
<1> QED
  BY <1>1, <1>2, <1>7

\* Every step of the packet thread ...
LEMMA ThreadStep ==
  ASSUME StepInv, PacketStep
  PROVE  StepInv'
  BY FetchStep, FreedStep, DecodeStep, SumStep, LastSumStep, ActivateStep, TableWidthStep, PushStep, LastStep,
     SigmoidStep, DesiredStep, LookupStep, RescaleStep DEF PacketStep

\* ... and every step of the server keeps the invariant.
LEMMA ManagerStep ==
  ASSUME StepInv, ServerStep
  PROVE  StepInv'
<1> USE DEF StepInv
<1>1. ASSUME NEW id \in CtxIds, NEW L \in Layers, LoadContext(id, L) PROVE StepInv'
  <2>1. HeldInv'
    BY <1>1 DEF LoadContext, HeldInv, TableSound, Loaded
  <2>2. OperatorInv'
    <3>1. Pointing => op.id \in CtxIds
      BY DEF OperatorInv, Operator
    <3> QED
      BY <1>1, <3>1, LayerAssumption DEF LoadContext, running, OperatorInv, Pointing, HeldInv
  <2> QED
    BY <1>1, <2>1, <2>2 DEF LoadContext, NoteLayer, running, ValueInv, NothingCut, HistoryInv
<1>2. CASE ClearContexts
  <2>1. HeldInv'
    BY <1>2 DEF ClearContexts, HeldInv, TableSound, Loaded
  <2>2. OperatorInv'
    BY <1>2 DEF ClearContexts, OperatorInv, Pointing
  <2> QED
    BY <1>2, <2>1, <2>2 DEF ClearContexts, summing, ValueInv, NothingCut, HistoryInv
<1>3. ASSUME NEW q \in Loads, LoadSigmoid(q) PROVE StepInv'
  <2>1. table' \in TableState
    BY <1>3, AcceptedType DEF LoadSigmoid
  <2>2. TableSound'
    BY <1>3, AcceptedTable DEF LoadSigmoid, TableSound, Loaded
  <2>3. HeldInv'
    BY <1>3, <2>1, <2>2 DEF LoadSigmoid, HeldInv
  <2>4. OperatorInv'
    BY <1>3 DEF LoadSigmoid, running, OperatorInv, Pointing
  <2>5. ValueInv'
    BY <1>3 DEF LoadSigmoid, running, ValueInv, NothingCut
  <2> QED
    BY <1>3, <2>1, <2>3, <2>4, <2>5 DEF LoadSigmoid, HistoryInv
<1>4. CASE ClearSigmoid
  <2>1. table' = [min |-> 0, max |-> -1, width |-> 0, mult |-> table.mult, values |-> <<>>]
    BY <1>4 DEF ClearSigmoid, EmptyTable
  <2>2. table' \in TableState
    BY <2>1, WidthAssumption DEF TableState, HeldInv
  <2>3. HeldInv'
    BY <1>4, <2>1, <2>2 DEF ClearSigmoid, HeldInv, TableSound, Loaded
  <2> QED
    BY <1>4, <2>3 DEF ClearSigmoid, running, OperatorInv, Pointing, ValueInv, NothingCut, HistoryInv
<1> QED
  BY <1>1, <1>2, <1>3, <1>4 DEF ServerStep

\* It holds at the start.
LEMMA StartsSound == Init => StepInv
<1> SUFFICES ASSUME Init PROVE StepInv
  OBVIOUS
<1>1. EmptyTable \in TableState
  BY WidthAssumption DEF EmptyTable, TableState
<1>2. HeldInv
  BY <1>1 DEF Init, HeldInv, TableSound, Loaded, EmptyTable
<1>3. OperatorInv
  BY DEF Init, OperatorInv, Operator, Pointing
<1>4. ValueInv
  BY WidthAssumption DEF Init, ValueInv, NothingCut
<1> QED
  BY <1>2, <1>3, <1>4 DEF Init, StepInv, HistoryInv

\* It is inductive.
LEMMA StaysSound == StepInv /\ [Next]_vars => StepInv'
<1>1. ASSUME StepInv, UNCHANGED vars PROVE StepInv'
  BY <1>1 DEF vars, StepInv, HeldInv, TableSound, Loaded, OperatorInv, Pointing, ValueInv,
              NothingCut, HistoryInv
<1> QED
  BY <1>1, ThreadStep, ManagerStep DEF Next

\* The invariant of the packet thread under every load, reload and clear.
THEOREM ThreadInvariant == Spec => []StepInv
<1> QED
  BY StartsSound, StaysSound, PTL DEF Spec

\* Every variable keeps its type: no index leaves a sequence, no sum reads a weight
\* or a word that is not there, for contexts and tables of any size.
THEOREM TypeCorrect == Spec => []TypeOK
<1>1. StepInv => TypeOK
  BY DEF StepInv, HeldInv, OperatorInv, ValueInv, HistoryInv, TypeOK
<1> QED
  BY <1>1, ThreadInvariant, PTL

\* Packing cuts no bit off, although value and width may come from two tables.
THEOREM NoBitCut == Spec => []NothingCut
<1>1. StepInv => NothingCut
  BY DEF StepInv, ValueInv
<1> QED
  BY <1>1, ThreadInvariant, PTL

-----------------------------------------------------------------------------
(***************************************************************************)
(* Reloading without clearing.                                             *)
(***************************************************************************)
\* A sigmoid table, once loaded, is only ever replaced by another.
LEMMA ReloadKeepsLoaded ==
  ASSUME Loaded, [ReloadNext]_vars
  PROVE  Loaded'
<1>1. CASE UNCHANGED vars
  BY <1>1 DEF vars, Loaded
<1>2. CASE PacketStep
  BY <1>2 DEF PacketStep, managers, FetchContext, FollowFreed, Decode, SumNeuron, LastSum,
              Activate, TableWidth, PushNeuron, LastNeuron, Sigmoid, DesiredWidth, SigmoidLookup,
              SigmoidRescale, Loaded
<1>3. ASSUME NEW id \in CtxIds, NEW L \in Layers, LoadContext(id, L) PROVE Loaded'
  BY <1>3 DEF LoadContext, Loaded
<1>4. ASSUME NEW q \in Loads, LoadSigmoid(q) PROVE Loaded'
  BY <1>4, AcceptedTable DEF LoadSigmoid, Loaded
<1> QED
  BY <1>1, <1>2, <1>3, <1>4 DEF ReloadNext, ReloadStep

\* An operator that found a table loaded finds one at its next look ...
LEMMA FoundStaysStep ==
  ASSUME FoundStaysLoaded, [ReloadNext]_vars
  PROVE  FoundStaysLoaded'
<1>1. CASE Loaded
  BY <1>1, ReloadKeepsLoaded DEF FoundStaysLoaded
<1>2. CASE ~ Loaded
  <2> DEFINE before == {"width", "push", "desired", "lookup", "rescale"}
  <2>0. pc \notin before
    BY <1>2 DEF FoundStaysLoaded
  <2>1. CASE pc' = pc
    BY <2>0, <2>1 DEF FoundStaysLoaded
  <2>2. CASE PacketStep
    BY <1>2, <2>0, <2>2 DEF FoundStaysLoaded, PacketStep, FetchContext, FollowFreed, Decode,
       SumNeuron, LastSum, Activate, TableWidth, PushNeuron, LastNeuron, Sigmoid, DesiredWidth,
       SigmoidLookup, SigmoidRescale, At, Return, Finish
  <2> QED
    BY <2>1, <2>2 DEF ReloadNext, ReloadStep, LoadContext, LoadSigmoid, running, vars
<1> QED
  BY <1>1, <1>2

\* ... and at each later one, with any number of tables reloaded or refused in
\* between.
THEOREM FoundTableStays == ReloadSpec => []FoundStaysLoaded
<1>1. Init => FoundStaysLoaded
  BY DEF Init, FoundStaysLoaded
<1> QED
  BY <1>1, FoundStaysStep, PTL DEF ReloadSpec

\* Reloading is among what clients may do.
LEMMA ReloadIsNext == ReloadNext => Next
  BY DEF ReloadNext, ReloadStep, Next, ServerStep

\* While an operator holds its context's pointer the contexts that were in force have
\* one shape, so that no vector moves, and there is one sum for each neuron.
ReloadInv ==
  /\ alive /\ ptr = "live"
  /\ Pointing => Ctx \in layers /\ \A L \in layers : SameShape(L, Ctx)
  /\ pc \in {"sums", "activate", "width", "push"} => Len(mac) = Ctx.neurons

\* Contexts of one shape have their vectors where they were.
LEMMA NotResized ==
  ASSUME ReloadInv, Pointing
  PROVE  ~ Resized
  BY DEF ReloadInv, Resized, SameShape

\* The operator's steps ...
LEMMA ReloadPacketStep ==
  ASSUME StepInv, ReloadInv, PacketStep
  PROVE  ReloadInv'
<1> USE DEF ReloadInv, Ctx, Pointing, At, managers
<1>0. /\ Pointing => Ctx.neurons \in Nat /\ ~ Resized
      /\ mac \in Seq(Int) /\ out \in Seq(Nat) /\ turn \in Nat
      /\ Len(mac) \in Nat /\ Len(out) \in Nat
  BY LivePointer, NotResized DEF StepInv, ValueInv
<1>1. ASSUME NEW id \in CtxIds, NEW f \in Features, FetchContext(id, f) PROVE ReloadInv'
  <2>1. CASE contexts[id] = None
    BY <1>1, <2>1 DEF FetchContext
  <2>2. CASE contexts[id] # None
    BY <1>1, <2>2 DEF FetchContext, SameShape
  <2> QED
    BY <2>1, <2>2
<1>2. CASE FollowFreed
  BY <1>2 DEF FollowFreed
<1>3. CASE Decode
  <2>1. Pointing /\ UNCHANGED <<contexts, op, ptr, alive>>
    BY <1>3 DEF Decode
  <2>2. \/ pc' = "idle"
        \/ pc' = "sums" /\ mac' = Zeros(Ctx.neurons) /\ UNCHANGED layers
    BY <1>3 DEF Decode, Return, Finish
  <2>3. mac' = Zeros(Ctx.neurons) => Len(mac') = Ctx.neurons
    <3>1. Zeros(Ctx.neurons) = [i \in 1 .. Ctx.neurons |-> Zeros(Ctx.neurons)[i]]
      BY DEF Zeros
    <3> QED
      BY <1>0, <2>1, <3>1
  <2> QED
    BY <2>1, <2>2, <2>3
<1>4. CASE SumNeuron
  <2>1. Pointing /\ ~ Resized /\ UNCHANGED <<contexts, pc, op, ptr, layers>>
    BY <1>0, <1>4 DEF SumNeuron
  <2>2. PICK src \in [0 .. Ctx.inputs -> layers] :
          /\ InBounds(src) /\ UNCHANGED alive
          /\ mac' = [mac EXCEPT ![turn + 1] = MixedSum(Ctx, src, inputs, turn + 1)]
    BY <1>4, <2>1 DEF SumNeuron
  <2>3. Len(mac') = Len(mac)
    <3> DEFINE e == MixedSum(Ctx, src, inputs, turn + 1)
    <3>1. turn + 1 \in 1 .. Len(mac)
      BY <1>0, <2>2 DEF InBounds
    <3>2. mac' = [mac EXCEPT ![turn + 1] = e]
      BY <2>2
    <3> HIDE DEF e
    <3>3. mac \in Seq(Int \cup {e})
      BY <1>0
    <3> QED
      BY <3>1, <3>2, <3>3, ExceptSeq
  <2> QED
    BY <1>4, <2>1, <2>2, <2>3 DEF SumNeuron
<1>5. CASE LastSum
  BY <1>5 DEF LastSum, summing
<1>6. CASE Activate
  <2>1. ~ Outrun
    BY <1>0, <1>6 DEF Activate, Outrun
  <2> QED
    BY <1>6, <2>1 DEF Activate, Return, Finish, summing
<1>7. CASE TableWidth
  BY <1>7 DEF TableWidth, summing
<1>8. CASE PushNeuron
  <2>1. ~ (Len(out) + 1 > Len(mac))
    BY <1>0, <1>8 DEF PushNeuron
  <2> QED
    BY <1>8, <2>1 DEF PushNeuron, summing
<1>9. CASE LastNeuron
  BY <1>9 DEF LastNeuron, Return, Finish
<1>10. ASSUME NEW n \in DOMAIN out, NEW w \in Widths, Sigmoid(n, w) PROVE ReloadInv'
  BY <1>10 DEF Sigmoid, Finish
<1>11. CASE DesiredWidth \/ SigmoidLookup \/ SigmoidRescale
  BY <1>11 DEF DesiredWidth, SigmoidLookup, SigmoidRescale, Finish
<1> QED
  BY <1>1, <1>2, <1>3, <1>4, <1>5, <1>6, <1>7, <1>8, <1>9, <1>10, <1>11 DEF PacketStep

\* ... and those of the server.
LEMMA ReloadServerStep ==
  ASSUME StepInv, ReloadInv, ReloadStep
  PROVE  ReloadInv'
<1>1. ASSUME NEW id \in CtxIds, NEW L \in Layers, LoadContext(id, L),
             contexts[id] # None => SameShape(contexts[id], L)
      PROVE  ReloadInv'
  <2>1. contexts' = [contexts EXCEPT ![id] = L] /\ UNCHANGED <<alive, ptr, pc, op, mac>>
        /\ layers' = IF Pointing /\ op.id = id THEN layers \cup {L} ELSE layers
    BY <1>1 DEF LoadContext, NoteLayer, running
  <2>2. CASE ~ Pointing
    BY <2>1, <2>2 DEF ReloadInv, Pointing
  <2>3. CASE Pointing
    <3>1. op.id \in CtxIds /\ Ctx # None /\ contexts \in [CtxIds -> Layers \cup {None}]
      BY <2>3, LivePointer, LayerAssumption DEF ReloadInv, StepInv, HeldInv
    <3>2. CASE op.id # id
      <4>1. Ctx' = Ctx /\ layers' = layers
        BY <2>1, <3>1, <3>2 DEF Ctx
      <4> QED
        BY <2>1, <2>3, <4>1 DEF ReloadInv, Pointing
    <3>3. CASE op.id = id
      <4>1. Ctx' = L /\ SameShape(Ctx, L) /\ layers' = layers \cup {L}
        BY <1>1, <2>1, <2>3, <3>1, <3>3 DEF Ctx
      <4>2. \A K \in layers : SameShape(K, L)
        BY <2>3, <4>1 DEF ReloadInv, SameShape
      <4> QED
        BY <2>1, <2>3, <4>1, <4>2 DEF ReloadInv, Pointing, SameShape
    <3> QED
      BY <3>2, <3>3
  <2> QED
    BY <2>2, <2>3
<1>2. ASSUME NEW q \in Loads, LoadSigmoid(q) PROVE ReloadInv'
  BY <1>2 DEF LoadSigmoid, running, ReloadInv, Pointing, Ctx
<1> QED
  BY <1>1, <1>2 DEF ReloadStep

\* Both invariants are inductive together.
LEMMA ReloadInvStep ==
  ASSUME StepInv, ReloadInv, [ReloadNext]_vars
  PROVE  StepInv' /\ ReloadInv'
<1>1. StepInv'
  BY ReloadIsNext, StaysSound
<1>2. CASE UNCHANGED vars
  BY <1>1, <1>2 DEF vars, ReloadInv, Pointing, Ctx
<1> QED
  BY <1>1, <1>2, ReloadPacketStep, ReloadServerStep DEF ReloadNext

\* Reloading contexts of one shape under packets is safe: no freed node is
\* followed, no vector is read where it was and mac_outputs is long enough, for any
\* contexts and any number of reloads in an operator.
THEOREM ReloadAlive == ReloadSpec => []ReloadKeepsAlive
<1>1. Init => StepInv /\ ReloadInv
  BY StartsSound DEF Init, ReloadInv, Pointing
<1>2. (StepInv /\ ReloadInv) /\ [ReloadNext]_vars => (StepInv /\ ReloadInv)'
  BY ReloadInvStep
<1>3. ReloadInv => ReloadKeepsAlive
  BY DEF ReloadInv, ReloadKeepsAlive
<1> QED
  BY <1>1, <1>2, <1>3, PTL DEF ReloadSpec

-----------------------------------------------------------------------------
(***************************************************************************)
(* What a layer and a class bit mean while contexts are reloaded.          *)
(***************************************************************************)
\* A table an accepted request makes.
Sound(t) ==
  /\ t \in TableState /\ t.values # <<>> /\ t.width \in 1 .. MaxWidth
  /\ Len(t.values) = t.max - t.min + 1
  /\ \A i \in DOMAIN t.values : t.values[i] <= Mask(t.width)

\* The sums the n-th neuron of a layer like L may make of the words f, taking each
\* coefficient from one of the contexts S ...
TermsOf(S, L, f, n) == {MixedSum(L, src, Decoded(L, f), n) : src \in [0 .. L.inputs -> S]}

\* ... what a sum becomes by one of the tables T ...
OutcomesOf(T, L, sum) ==
  IF L.activation # "SIGMOID" THEN {Clamp(Scaled(L, sum), Width)}
  ELSE IF T = {} THEN {0}
  ELSE {Rescale(LookupIn(t, Narrow(Scaled(L, sum))), t.width, Width) : t \in T}

\* ... and the outputs of that neuron.
ValuesOf(S, T, L, f, n) == UNION {OutcomesOf(T, L, sum) : sum \in TermsOf(S, L, f, n)}

\* The first m sums are made of the contexts that were in force.
Summed(m) == \A n \in 1 .. m : mac[n] \in TermsOf(layers, Ctx, op.features, n)

LayerInv ==
  /\ pc = "sums" => inputs = Decoded(Ctx, op.features) /\ turn <= Ctx.neurons /\ Summed(turn)
  /\ pc \in {"activate", "width", "push"} => Summed(Ctx.neurons)
  /\ pc = "push" => /\ Len(out) <= Ctx.neurons
                    /\ \A n \in DOMAIN out : out[n] \in ValuesOf(layers, tables, Ctx, op.features, n)
  /\ pc \in {"width", "push"} => Ctx.activation = "SIGMOID"

\* The tables in force since then have one width.
TableInv ==
  /\ Loaded => Sound(table)
  /\ pc \in {"mac", "sums", "activate"} => tables = {}
  /\ pc \in {"width", "push", "desired", "lookup", "rescale"} =>
       table \in tables /\ \A t \in tables : Sound(t) /\ t.width = table.width
  /\ pc = "push" => width = table.width
  /\ pc \in {"desired", "lookup", "rescale"} => op.word <= Mask(Width)
  /\ pc \in {"lookup", "rescale"} => (op.bits = 1 => width = 1)
  /\ pc = "rescale" => \E t \in tables : val = LookupIn(t, SignExtend(op.word, Width))

BasisInv   == StepInv /\ ReloadInv /\ FoundStaysLoaded
ExplainInv == BasisInv /\ LayerInv /\ TableInv /\ TermsExplain /\ ClassBit

\* An accepted request gives a sound table of its width.
LEMMA AcceptedSound ==
  ASSUME NEW q \in Loads, Acceptable(q)
  PROVE  Sound(TableOf(q)) /\ TableOf(q).width = q.width
  BY AcceptedType, AcceptedTable DEF Sound

\* A sum stays possible while contexts of its shape are added and take its place.
LEMMA TermsGrow ==
  ASSUME NEW S, NEW R, S \subseteq R, NEW K, NEW L, SameShape(K, L), NEW f, NEW n
  PROVE  TermsOf(S, K, f, n) \subseteq TermsOf(R, L, f, n)
<1>1. K.inputs = L.inputs /\ K.signed = L.signed
  BY DEF SameShape
<1>2. Decoded(K, f) = Decoded(L, f)
  BY <1>1 DEF Decoded, Feature
<1>3. \A src, x : MixedSum(K, src, x, n) = MixedSum(L, src, x, n)
  BY <1>1 DEF MixedSum
<1>4. [0 .. K.inputs -> S] \subseteq [0 .. L.inputs -> R]
  BY <1>1
<1> QED
  BY <1>2, <1>3, <1>4 DEF TermsOf

\* And so does an output, while tables are added too.
LEMMA ValuesGrow ==
  ASSUME NEW S, NEW R, S \subseteq R, NEW K, NEW L, SameShape(K, L), NEW f, NEW n,
         NEW T, NEW U, T \subseteq U, T # {} \/ U = {}
  PROVE  ValuesOf(S, T, K, f, n) \subseteq ValuesOf(R, U, L, f, n)
<1>1. \A sum : Scaled(K, sum) = Scaled(L, sum)
  BY DEF Scaled, SameShape
<1>2. \A sum : OutcomesOf(T, K, sum) \subseteq OutcomesOf(U, L, sum)
  <2> TAKE sum
  <2>1. CASE K.activation # "SIGMOID"
    BY <1>1, <2>1 DEF OutcomesOf, SameShape
  <2>2. CASE K.activation = "SIGMOID" /\ T = {}
    BY <2>2 DEF OutcomesOf, SameShape
  <2>3. CASE K.activation = "SIGMOID" /\ T # {}
    <3> DEFINE F(t) == Rescale(LookupIn(t, Narrow(Scaled(K, sum))), t.width, Width)
    <3>1. OutcomesOf(T, K, sum) = {F(t) : t \in T} /\ OutcomesOf(U, L, sum) = {F(t) : t \in U}
      BY <1>1, <2>3 DEF OutcomesOf, SameShape
    <3> HIDE DEF F
    <3> QED
      BY <3>1
  <2> QED
    BY <2>1, <2>2, <2>3
<1>3. TermsOf(S, K, f, n) \subseteq TermsOf(R, L, f, n)
  BY TermsGrow
<1> QED
  BY <1>2, <1>3 DEF ValuesOf

\* An explanation of the outputs by one of the contexts, in the words of the property.
LEMMA ExplainedNext ==
  ASSUME NEW L, L \in layers', Len(out') = L.neurons,
         \A n \in 1 .. L.neurons : out'[n] \in ValuesOf(layers', tables', L, op'.features, n)
  PROVE  TermsExplain'
<1>1. \A sum : Outcomes(L, sum)' = OutcomesOf(tables', L, sum)
  BY DEF Outcomes, OutcomesOf
<1>2. ASSUME NEW n \in 1 .. L.neurons
      PROVE  (\E src \in [0 .. L.inputs -> layers] :
                out[n] \in Outcomes(L, MixedSum(L, src, Decoded(L, op.features), n)))'
  <2>1. PICK sum \in TermsOf(layers', L, op'.features, n) : out'[n] \in OutcomesOf(tables', L, sum)
    BY DEF ValuesOf
  <2>2. PICK src \in [0 .. L.inputs -> layers'] : sum = MixedSum(L, src, Decoded(L, op'.features), n)
    BY DEF TermsOf
  <2> QED
    BY <1>1, <2>1, <2>2
<1> QED
  BY <1>2 DEF TermsExplain

\* An operator begins with nothing summed.
LEMMA FetchExplains ==
  ASSUME ExplainInv, NEW id \in CtxIds, NEW f \in Features, FetchContext(id, f)
  PROVE  (LayerInv /\ TableInv /\ TermsExplain /\ ClassBit)'
<1>0. op'.kind = "neuron" /\ tables' = {} /\ table' = table /\ pc' \in {"idle", "mac"}
      /\ (pc' = "idle" => layers' = {})
  BY DEF FetchContext, At, managers
<1> QED
  BY <1>0 DEF ExplainInv, LayerInv, TableInv, TermsExplain, ClassBit, Loaded

\* What the operator knows of its context.
LEMMA HeldContext ==
  ASSUME ExplainInv, Pointing
  PROVE  /\ ptr = "live" /\ op.kind = "neuron" /\ Ctx \in layers /\ ~ Resized
         /\ Ctx.neurons \in Nat /\ Ctx.inputs \in Nat
         /\ mac \in Seq(Int) /\ out \in Seq(Nat) /\ turn \in Nat /\ Len(out) \in Nat
<1>1. ptr = "live" /\ op.kind = "neuron" /\ Ctx \in layers /\ ~ Resized
  BY NotResized DEF ExplainInv, BasisInv, ReloadInv, StepInv, OperatorInv
<1> QED
  BY <1>1, LivePointer DEF ExplainInv, BasisInv, StepInv, ValueInv

\* The words are decoded as the context in force says.
LEMMA DecodeExplains ==
  ASSUME ExplainInv, Decode
  PROVE  (LayerInv /\ TableInv /\ TermsExplain /\ ClassBit)'
<1>0. pc = "mac" /\ Pointing /\ UNCHANGED <<contexts, table, op, tables>> /\ tables = {}
      /\ (Loaded => Sound(table))
  BY DEF ExplainInv, Decode, At, managers, Pointing, TableInv
<1>1. op.kind = "neuron" /\ Ctx.neurons \in Nat
  BY <1>0, HeldContext
<1>2. CASE pc' = "idle" /\ layers' = {}
  BY <1>0, <1>1, <1>2 DEF LayerInv, TableInv, TermsExplain, ClassBit, Loaded
<1>3. CASE pc' = "sums" /\ turn' = 0 /\ inputs' = [i \in 1 .. Ctx.inputs |-> Feature(Ctx, op.features, i)]
  <2>1. LayerInv'
    BY <1>0, <1>1, <1>3 DEF LayerInv, Summed, Ctx, Decoded
  <2> QED
    BY <1>0, <1>3, <2>1 DEF TableInv, TermsExplain, ClassBit, Loaded
<1> QED
  BY <1>2, <1>3 DEF Decode, Return, Finish

\* A sum takes each coefficient from one of the contexts.
LEMMA SumExplains ==
  ASSUME ExplainInv, SumNeuron
  PROVE  (LayerInv /\ TableInv /\ TermsExplain /\ ClassBit)'
<1>0. pc = "sums" /\ Pointing /\ turn < Ctx.neurons
      /\ UNCHANGED <<contexts, table, pc, op, inputs, out, width, val, layers, tables>>
  BY DEF SumNeuron, At, managers, Pointing
<1>1. Ctx.neurons \in Nat /\ turn \in Nat /\ mac \in Seq(Int) /\ ~ Resized
  BY <1>0, HeldContext
<1>2. inputs = Decoded(Ctx, op.features) /\ Summed(turn)
  BY <1>0 DEF ExplainInv, LayerInv
<1>3. PICK src \in [0 .. Ctx.inputs -> layers] :
        /\ InBounds(src) /\ turn' = turn + 1
        /\ mac' = [mac EXCEPT ![turn + 1] = MixedSum(Ctx, src, inputs, turn + 1)]
  BY <1>1 DEF SumNeuron
<1>4. turn + 1 \in DOMAIN mac
  BY <1>1, <1>3 DEF InBounds
<1>5. mac'[turn + 1] \in TermsOf(layers, Ctx, op.features, turn + 1)
  BY <1>2, <1>3, <1>4 DEF TermsOf
<1>6. \A n \in 1 .. turn + 1 : (n \in 1 .. turn /\ mac'[n] = mac[n]) \/ n = turn + 1
  BY <1>1, <1>3, <1>4
<1>7. \A n \in 1 .. turn' : mac'[n] \in TermsOf(layers, Ctx, op.features, n)
  BY <1>2, <1>3, <1>5, <1>6 DEF Summed
<1>8. LayerInv'
  BY <1>0, <1>1, <1>2, <1>3, <1>7 DEF LayerInv, Summed, Ctx
<1>9. TableInv'
  BY <1>0 DEF ExplainInv, TableInv, Loaded
<1> QED
  BY <1>0, <1>8, <1>9 DEF TermsExplain, ClassBit

\* Then there is a sum for every neuron.
LEMMA LastSumExplains ==
  ASSUME ExplainInv, LastSum
  PROVE  (LayerInv /\ TableInv /\ TermsExplain /\ ClassBit)'
<1>0. pc = "sums" /\ pc' = "activate" /\ Pointing /\ turn >= Ctx.neurons
      /\ UNCHANGED <<contexts, table, op, mac, layers, tables>>
  BY DEF LastSum, At, managers, Pointing, summing
<1>1. turn = Ctx.neurons /\ Summed(turn)
  <2>1. Ctx.neurons \in Nat /\ turn \in Nat
    BY <1>0, HeldContext
  <2> QED
    BY <1>0, <2>1 DEF ExplainInv, LayerInv
<1>2. LayerInv'
  BY <1>0, <1>1 DEF LayerInv, Summed, Ctx
<1> QED
  BY <1>0, <1>2 DEF ExplainInv, TableInv, TermsExplain, ClassBit, Loaded

\* Every sum is there, and the shifts make of it what the neuron means.
LEMMA SumsThere ==
  ASSUME ExplainInv, pc \in {"activate", "width", "push"}, NEW n \in 1 .. Ctx.neurons
  PROVE  /\ Len(mac) = Ctx.neurons /\ ~ Outrun
         /\ mac[n] \in TermsOf(layers, Ctx, op.features, n)
         /\ Shifted(n) = Scaled(Ctx, mac[n])
<1>1. Pointing
  BY DEF Pointing
<1>2. Len(mac) = Ctx.neurons /\ Ctx.neurons \in Nat /\ ptr = "live"
  BY <1>1, HeldContext DEF ExplainInv, BasisInv, ReloadInv
<1>3. mac[n] \in TermsOf(layers, Ctx, op.features, n)
  BY DEF ExplainInv, LayerInv, Summed
<1>4. Shifted(n) = (mac[n] \div 2 ^ CoeffShift) \div 2 ^ Ctx.shift
  BY <1>1, <1>2, HeldContext, ShiftedType DEF ExplainInv, BasisInv, StepInv
<1> QED
  BY <1>2, <1>3, <1>4 DEF Outrun, Scaled

\* RELU and NONE clamp the sums; a sigmoid without table puts out zeros.
LEMMA ActivateExplains ==
  ASSUME ExplainInv, Activate
  PROVE  (LayerInv /\ TableInv /\ TermsExplain /\ ClassBit)'
<1>0. pc = "activate" /\ Pointing /\ UNCHANGED <<contexts, table, op, layers>>
      /\ tables = {} /\ out = <<>> /\ (Loaded => Sound(table))
  BY DEF ExplainInv, BasisInv, StepInv, Activate, At, managers, Pointing, TableInv, ValueInv
<1>1. op.kind = "neuron" /\ Ctx.neurons \in Nat /\ Ctx \in layers
  BY <1>0, HeldContext
<1>2. \A n \in 1 .. Ctx.neurons : mac[n] \in TermsOf(layers, Ctx, op.features, n)
                                  /\ Shifted(n) = Scaled(Ctx, mac[n])
  BY <1>0, SumsThere
<1>3. ~ Outrun
  BY <1>0 DEF ExplainInv, BasisInv, ReloadInv, Outrun, StepInv, ValueInv
<1>4. PICK L \in layers : L = Ctx
  BY <1>1
<1>5. ASSUME NEW r, pc' = "idle", out' = [n \in 1 .. L.neurons |-> r[n]], tables' = {},
             \A n \in 1 .. L.neurons : r[n] \in OutcomesOf({}, L, mac[n])
      PROVE  (LayerInv /\ TableInv /\ TermsExplain /\ ClassBit)'
  <2>1. Len(out') = L.neurons
    <3>1. out' = [n \in 1 .. L.neurons |-> out'[n]]
      BY <1>5
    <3> QED
      BY <3>1, <1>1, <1>4
  <2>2. \A n \in 1 .. L.neurons : out'[n] \in ValuesOf(layers', tables', L, op'.features, n)
    BY <1>0, <1>2, <1>4, <1>5 DEF ValuesOf
  <2>3. TermsExplain'
    BY <1>0, <2>1, <2>2, ExplainedNext
  <2> QED
    BY <1>0, <1>1, <1>5, <2>3 DEF LayerInv, TableInv, ClassBit, Loaded
<1>6. CASE Ctx.activation # "SIGMOID"
  <2> DEFINE r == [n \in 1 .. L.neurons |-> Clamp(Scaled(L, mac[n]), Width)]
  <2>1. pc' = "idle" /\ out' = [n \in 1 .. Ctx.neurons |-> Clamp(Shifted(n), Width)] /\ tables' = tables
    BY <1>3, <1>6 DEF Activate, Return, Finish
  <2>2. out' = [n \in 1 .. L.neurons |-> r[n]]
    BY <1>2, <1>4, <2>1
  <2>3. \A n \in 1 .. L.neurons : r[n] \in OutcomesOf({}, L, mac[n])
    BY <1>4, <1>6 DEF OutcomesOf
  <2> HIDE DEF r
  <2> QED
    BY <1>0, <1>5, <2>1, <2>2, <2>3
<1>7. CASE Ctx.activation = "SIGMOID" /\ ~ Loaded
  <2> DEFINE r == [n \in 1 .. L.neurons |-> 0]
  <2>1. pc' = "idle" /\ out' = [n \in 1 .. L.neurons |-> r[n]] /\ tables' = tables
    BY <1>4, <1>7 DEF Activate, Return, Finish, Zeros
  <2>2. \A n \in 1 .. L.neurons : r[n] \in OutcomesOf({}, L, mac[n])
    BY <1>4, <1>7 DEF OutcomesOf
  <2> HIDE DEF r
  <2> QED
    BY <1>0, <1>5, <2>1, <2>2
<1>8. CASE Ctx.activation = "SIGMOID" /\ Loaded
  <2>1. pc' = "width" /\ out' = <<>> /\ mac' = mac /\ tables' = {table}
    BY <1>0, <1>8 DEF Activate, summing
  <2>2. LayerInv'
    BY <1>0, <1>8, <2>1 DEF ExplainInv, LayerInv, Summed, Ctx
  <2>3. TableInv'
    BY <1>0, <1>8, <2>1 DEF TableInv, Loaded
  <2> QED
    BY <2>1, <2>2, <2>3 DEF TermsExplain, ClassBit
<1> QED
  BY <1>6, <1>7, <1>8

\* The width read is the one of every table in force.
LEMMA TableWidthExplains ==
  ASSUME ExplainInv, TableWidth
  PROVE  (LayerInv /\ TableInv /\ TermsExplain /\ ClassBit)'
<1>0. pc = "width" /\ pc' = "push" /\ UNCHANGED <<contexts, table, op, mac, out, layers, tables>>
      /\ width' = table.width /\ out = <<>>
  BY DEF TableWidth, At, managers, summing, ExplainInv, BasisInv, StepInv, ValueInv
<1>1. Ctx.neurons \in Nat
  BY <1>0, HeldContext DEF Pointing
<1>2. LayerInv'
  BY <1>0, <1>1 DEF ExplainInv, LayerInv, Summed, Ctx
<1>3. TableInv'
  BY <1>0 DEF ExplainInv, TableInv, Loaded
<1> QED
  BY <1>0, <1>2, <1>3 DEF TermsExplain, ClassBit

\* An output is the one of the table in force when it is made.
LEMMA PushExplains ==
  ASSUME ExplainInv, PushNeuron
  PROVE  (LayerInv /\ TableInv /\ TermsExplain /\ ClassBit)'
<1>0. pc = "push" /\ Pointing /\ UNCHANGED <<contexts, table, pc, op, mac, width, layers, tables>>
      /\ Len(out) < Ctx.neurons
  BY DEF PushNeuron, At, managers, Pointing, summing
<1>1. Ctx.neurons \in Nat /\ Len(out) \in Nat /\ out \in Seq(Nat)
  BY <1>0, HeldContext
<1>2. Ctx.activation = "SIGMOID" /\ table \in tables /\ width = table.width /\ Loaded
  BY <1>0 DEF ExplainInv, LayerInv, TableInv, BasisInv, FoundStaysLoaded
<1> DEFINE n == Len(out) + 1
           e == Rescale(LookupIn(table, Narrow(Scaled(Ctx, mac[n]))), table.width, Width)
<1>3. n \in 1 .. Ctx.neurons
  BY <1>0, <1>1
<1>4. Len(mac) = Ctx.neurons /\ mac[n] \in TermsOf(layers, Ctx, op.features, n)
      /\ Shifted(n) = Scaled(Ctx, mac[n])
  BY <1>0, <1>3, SumsThere
<1>5. out' = Append(out, e)
  BY <1>1, <1>2, <1>3, <1>4 DEF PushNeuron, Answer
<1>6. e \in ValuesOf(layers, tables, Ctx, op.features, n)
  <2>1. e \in OutcomesOf(tables, Ctx, mac[n])
    BY <1>2 DEF OutcomesOf
  <2> HIDE DEF e, n
  <2> QED
    BY <1>4, <2>1 DEF ValuesOf
<1> HIDE DEF e
<1>7. Len(out') = n /\ \A k \in DOMAIN out' : out'[k] \in ValuesOf(layers, tables, Ctx, op.features, k)
  <2>1. out \in Seq(Nat \cup {e}) /\ e \in Nat \cup {e}
    BY <1>1
  <2>2. Len(out') = n /\ out' \in Seq(Nat \cup {e}) /\ out'[n] = e
        /\ \A k \in 1 .. Len(out) : out'[k] = out[k]
    BY <1>5, <2>1, AppendProperties
  <2>3. DOMAIN out' = 1 .. n /\ DOMAIN out = 1 .. Len(out)
    BY <1>1, <2>2
  <2>4. \A k \in 1 .. n : k \in 1 .. Len(out) \/ k = n
    BY <1>1
  <2>5. \A k \in 1 .. Len(out) : out'[k] \in ValuesOf(layers, tables, Ctx, op.features, k)
    BY <1>0, <2>2, <2>3 DEF ExplainInv, LayerInv
  <2> HIDE DEF n
  <2> QED
    BY <1>6, <2>2, <2>3, <2>4, <2>5
<1>8. LayerInv'
  BY <1>0, <1>1, <1>3, <1>7 DEF ExplainInv, LayerInv, Summed, Ctx
<1>9. TableInv'
  BY <1>0 DEF ExplainInv, TableInv, Loaded
<1> QED
  BY <1>0, <1>8, <1>9 DEF TermsExplain, ClassBit

\* There is an output for every neuron.
LEMMA LastExplains ==
  ASSUME ExplainInv, LastNeuron
  PROVE  (LayerInv /\ TableInv /\ TermsExplain /\ ClassBit)'
<1>0. pc = "push" /\ pc' = "idle" /\ Pointing /\ UNCHANGED <<contexts, table, op, out, layers, tables>>
      /\ Len(out) >= Ctx.neurons
  BY DEF LastNeuron, At, managers, Pointing, Return, Finish
<1>1. op.kind = "neuron" /\ Ctx \in layers /\ Ctx.neurons \in Nat /\ out \in Seq(Nat) /\ Len(out) \in Nat
  BY <1>0, HeldContext
<1>2. PICK L \in layers : L = Ctx
  BY <1>1
<1>3. Len(out) = L.neurons /\ DOMAIN out = 1 .. L.neurons
  BY <1>0, <1>1, <1>2 DEF ExplainInv, LayerInv
<1>4. \A n \in 1 .. L.neurons : out[n] \in ValuesOf(layers, tables, L, op.features, n)
  BY <1>0, <1>2, <1>3 DEF ExplainInv, LayerInv
<1>5. TermsExplain'
  BY <1>0, <1>3, <1>4, ExplainedNext
<1> QED
  BY <1>0, <1>1, <1>5 DEF ExplainInv, LayerInv, TableInv, ClassBit, Loaded

\* A sigmoid operator begins.
LEMMA SigmoidExplains ==
  ASSUME ExplainInv, NEW n \in DOMAIN out, NEW w \in Widths, Sigmoid(n, w)
  PROVE  (LayerInv /\ TableInv /\ TermsExplain /\ ClassBit)'
<1>0. pc = "idle" /\ UNCHANGED table /\ op'.kind = "sigmoid" /\ (Loaded => Sound(table))
  BY DEF Sigmoid, At, managers, ExplainInv, TableInv
<1>1. CASE Loaded
  <2>1. pc' = "desired" /\ tables' = {table} /\ op'.word <= Mask(Width)
    BY <1>0, <1>1 DEF Sigmoid, ExplainInv, BasisInv, StepInv, ValueInv, NothingCut
  <2>2. TableInv'
    BY <1>0, <1>1, <2>1 DEF TableInv, Loaded
  <2> QED
    BY <1>0, <2>1, <2>2 DEF LayerInv, TermsExplain, ClassBit
<1>2. CASE ~ Loaded
  <2>1. pc' = "idle" /\ tables' = {}
    BY <1>0, <1>2 DEF Sigmoid, Finish
  <2> QED
    BY <1>0, <2>1 DEF LayerInv, TableInv, TermsExplain, ClassBit, Loaded
<1> QED
  BY <1>1, <1>2

\* One bit is asked for.
LEMMA DesiredExplains ==
  ASSUME ExplainInv, DesiredWidth
  PROVE  (LayerInv /\ TableInv /\ TermsExplain /\ ClassBit)'
<1>0. pc = "desired" /\ pc' = "lookup" /\ UNCHANGED <<table, op, tables>>
      /\ (op.bits = 1 => width' = 1)
  BY DEF DesiredWidth, At, managers
<1> QED
  BY <1>0 DEF ExplainInv, LayerInv, TableInv, TermsExplain, ClassBit, Loaded

\* The value is from a table in force.
LEMMA LookupExplains ==
  ASSUME ExplainInv, SigmoidLookup
  PROVE  (LayerInv /\ TableInv /\ TermsExplain /\ ClassBit)'
<1>0. pc = "lookup" /\ pc' = "rescale" /\ UNCHANGED <<table, op, width, tables>>
      /\ val' = Answer(SignExtend(op.word, Width))
  BY DEF SigmoidLookup, At, managers
<1>1. Loaded /\ table \in tables
  BY <1>0 DEF ExplainInv, TableInv, BasisInv, FoundStaysLoaded
<1>2. Narrow(SignExtend(op.word, Width)) = SignExtend(op.word, Width)
  <2>1. op.kind = "sigmoid" /\ op \in Operator
    BY <1>0 DEF ExplainInv, BasisInv, StepInv, OperatorInv
  <2>2. op.word \in Nat /\ op.word <= Mask(Width)
    BY <1>0, <2>1 DEF Operator, ExplainInv, TableInv
  <2> QED
    BY <2>2, WordNarrow
<1>3. val' = LookupIn(table, SignExtend(op.word, Width))
  BY <1>0, <1>1, <1>2 DEF Answer
<1> QED
  BY <1>0, <1>1, <1>3 DEF ExplainInv, LayerInv, TableInv, TermsExplain, ClassBit, Loaded

\* The bit is the class of that value: the masks of all tables in force are the same.
LEMMA RescaleExplains ==
  ASSUME ExplainInv, SigmoidRescale
  PROVE  (LayerInv /\ TableInv /\ TermsExplain /\ ClassBit)'
<1>0. pc = "rescale" /\ pc' = "idle" /\ UNCHANGED <<table, op, tables>> /\ op.kind = "sigmoid"
      /\ out' = <<Rescale(val, table.width, width)>> /\ op.word \in Int
  <2>1. op.kind = "sigmoid" /\ op \in Operator
    BY DEF SigmoidRescale, At, ExplainInv, BasisInv, StepInv, OperatorInv
  <2> QED
    BY <2>1 DEF SigmoidRescale, At, managers, Finish, Operator
<1>1. PICK t \in tables : val = LookupIn(t, SignExtend(op.word, Width))
  BY <1>0 DEF ExplainInv, TableInv
<1>2. Sound(t) /\ t.width = table.width
  BY <1>0 DEF ExplainInv, TableInv
<1>3. ASSUME op.bits = 1 PROVE out'[1] = Class(t, SignExtend(op.word, Width))
  <2>1. width = 1
    BY <1>0, <1>3 DEF ExplainInv, TableInv
  <2>2. val \in 0 .. Mask(t.width)
    <3>1. PICK i \in DOMAIN t.values : val = t.values[i] /\ val \in Nat
      BY <1>0, <1>1, <1>2, SignExtendType, LookupType DEF Sound
    <3>2. t.width \in Nat /\ Mask(t.width) \in Nat
      BY <1>2, WidthAssumption, MaskType DEF Sound
    <3> QED
      BY <3>1, <3>2, <1>2 DEF Sound
  <2>3. Rescale(val, t.width, 1) = IF 2 * val >= Mask(t.width) THEN 1 ELSE 0
    BY <1>2, <2>2, RescaleBit DEF Sound
  <2>4. out'[1] = Rescale(val, t.width, 1)
    BY <1>0, <1>2, <2>1
  <2> QED
    BY <1>1, <2>3, <2>4 DEF Class
<1>4. ClassBit'
  BY <1>0, <1>3 DEF ClassBit, Class
<1> QED
  BY <1>0, <1>4 DEF ExplainInv, LayerInv, TableInv, TermsExplain, Loaded

\* The invariants proved before are inductive together.
LEMMA BasisStep ==
  ASSUME BasisInv, [ReloadNext]_vars
  PROVE  BasisInv'
<1>1. StepInv' /\ ReloadInv'
  BY ReloadInvStep DEF BasisInv
<1>2. FoundStaysLoaded'
  BY FoundStaysStep DEF BasisInv
<1> QED
  BY <1>1, <1>2 DEF BasisInv

\* Neither says anything of the table loaded, nor of the values being looked up.
LEMMA ExplainsKept ==
  ASSUME ExplainInv, UNCHANGED <<contexts, pc, op, inputs, turn, mac, out, layers, tables>>
  PROVE  LayerInv' /\ TermsExplain' /\ ClassBit'
<1>1. LayerInv'
  BY DEF ExplainInv, LayerInv, Summed, Ctx
<1>2. TermsExplain'
  <2>1. \A L, sum : Outcomes(L, sum)' = Outcomes(L, sum)
    BY DEF Outcomes
  <2> QED
    BY <2>1 DEF ExplainInv, TermsExplain
<1>3. ClassBit'
  BY DEF ExplainInv, ClassBit
<1> QED
  BY <1>1, <1>2, <1>3

\* A new context has the shape of the one it replaces.
LEMMA ContextExplains ==
  ASSUME ExplainInv, NEW id \in CtxIds, NEW L \in Layers, LoadContext(id, L),
         contexts[id] # None => SameShape(contexts[id], L)
  PROVE  (LayerInv /\ TableInv /\ TermsExplain /\ ClassBit)'
<1>0. UNCHANGED <<table, pc, op, inputs, turn, mac, width, val, out, tables>>
      /\ contexts' = [contexts EXCEPT ![id] = L]
      /\ layers' = IF Pointing /\ op.id = id THEN layers \cup {L} ELSE layers
  BY DEF LoadContext, running, NoteLayer
<1>1. TableInv'
  BY <1>0 DEF ExplainInv, TableInv, Loaded
<1>2. TermsExplain' /\ ClassBit'
  <2>1. \A K, sum : Outcomes(K, sum)' = Outcomes(K, sum)
    BY <1>0 DEF Outcomes
  <2>2. pc = "idle" => layers' = layers
    BY <1>0 DEF Pointing
  <2> QED
    BY <1>0, <2>1, <2>2 DEF ExplainInv, TermsExplain, ClassBit
<1>3. CASE ~ Pointing
  BY <1>0, <1>1, <1>2, <1>3 DEF LayerInv, Pointing
<1>4. CASE Pointing
  <2>1. op.id \in CtxIds /\ contexts \in [CtxIds -> Layers \cup {None}] /\ Ctx # None
    BY <1>4, LivePointer, HeldContext, LayerAssumption DEF ExplainInv, BasisInv, StepInv, HeldInv
  <2>2. layers \subseteq layers' /\ SameShape(Ctx, Ctx')
    <3>1. CASE op.id = id
      BY <1>0, <2>1, <3>1 DEF Ctx
    <3>2. CASE op.id # id
      BY <1>0, <2>1, <3>2 DEF Ctx, SameShape
    <3> QED
      BY <1>0, <3>1, <3>2
  <2>3. PICK K, M : K = Ctx /\ M = Ctx'
    OBVIOUS
  <2>4. K.inputs = M.inputs /\ K.neurons = M.neurons /\ K.signed = M.signed
        /\ K.activation = M.activation /\ SameShape(K, M)
    BY <2>2, <2>3 DEF SameShape
  <2>5. \A n : TermsOf(layers, K, op.features, n) \subseteq TermsOf(layers', M, op.features, n)
    BY <2>2, <2>4, TermsGrow
  <2>6. \A n : ValuesOf(layers, tables, K, op.features, n)
                 \subseteq ValuesOf(layers', tables, M, op.features, n)
    <3> DEFINE T == tables
               R == layers'
    <3>1. T # {} \/ T = {}
      OBVIOUS
    <3> QED
      BY <2>2, <2>4, <3>1, ValuesGrow
  <2>7. Decoded(K, op.features) = Decoded(M, op.features)
    BY <2>4 DEF Decoded, Feature
  <2>8. \A m : (\A n \in 1 .. m : mac[n] \in TermsOf(layers, K, op.features, n))
               => \A n \in 1 .. m : mac[n] \in TermsOf(layers', M, op.features, n)
    BY <2>5
  <2>9. LayerInv'
    BY <1>0, <2>3, <2>4, <2>6, <2>7, <2>8 DEF ExplainInv, LayerInv, Summed
  <2> QED
    BY <1>1, <1>2, <2>9
<1> QED
  BY <1>3, <1>4

\* A new table has the width of the one it replaces.
LEMMA SigmoidLoadExplains ==
  ASSUME ExplainInv, NEW q \in Loads, LoadSigmoid(q), Loaded => q.width = table.width
  PROVE  (LayerInv /\ TableInv /\ TermsExplain /\ ClassBit)'
<1>0. UNCHANGED <<contexts, pc, op, inputs, turn, mac, width, val, out, layers>> /\ table' = TableOf(q)
      /\ tables' = IF pc # "idle" /\ tables # {} THEN tables \cup {table'} ELSE tables
  BY DEF LoadSigmoid, running
<1>1. Sound(table') /\ table'.width = q.width
  BY <1>0, AcceptedSound DEF LoadSigmoid
<1>2. CASE pc = "idle" \/ tables = {}
  <2>1. UNCHANGED tables
    BY <1>0, <1>2
  <2>2. TableInv'
    BY <1>0, <1>1, <1>2, <2>1 DEF ExplainInv, TableInv
  <2>3. LayerInv' /\ TermsExplain' /\ ClassBit'
    BY <1>0, <2>1, ExplainsKept
  <2> QED
    BY <2>2, <2>3
<1>3. CASE pc # "idle" /\ tables # {}
  <2>1. tables' = tables \cup {table'} /\ pc' = pc
    BY <1>0, <1>3
  <2>2. pc \in {"width", "push", "desired", "lookup", "rescale"}
    BY <1>3 DEF ExplainInv, TableInv, BasisInv, StepInv, OperatorInv
  <2>3. table'.width = table.width
    BY <1>1, <2>2 DEF ExplainInv, BasisInv, FoundStaysLoaded
  <2>4. \A t \in tables' : Sound(t) /\ t.width = table'.width
    BY <1>1, <2>1, <2>2, <2>3 DEF ExplainInv, TableInv
  <2>5. TableInv'
    <3>1. pc = "push" => width' = table'.width
      BY <1>0, <2>3 DEF ExplainInv, TableInv
    <3>2. pc = "rescale" => \E t \in tables' : val = LookupIn(t, SignExtend(op.word, Width))
      BY <2>1 DEF ExplainInv, TableInv
    <3> QED
      BY <1>0, <1>1, <2>1, <2>2, <2>4, <3>1, <3>2 DEF ExplainInv, TableInv
  <2>6. \A n : ValuesOf(layers, tables, Ctx, op.features, n)
                 \subseteq ValuesOf(layers, tables', Ctx, op.features, n)
    BY <1>3, <2>1, ValuesGrow DEF SameShape
  <2>7. LayerInv'
    BY <1>0, <2>6 DEF ExplainInv, LayerInv, Summed, Ctx
  <2> QED
    BY <1>0, <1>3, <2>5, <2>7 DEF TermsExplain, ClassBit
<1> QED
  BY <1>2, <1>3

\* Every step keeps the explanation of what has been computed.
LEMMA ExplainsStep ==
  ASSUME ExplainInv, ReloadNext
  PROVE  (LayerInv /\ TableInv /\ TermsExplain /\ ClassBit)'
<1>1. ~ FollowFreed
  BY DEF ExplainInv, BasisInv, ReloadInv, FollowFreed
<1>2. CASE PacketStep
  BY <1>1, <1>2, FetchExplains, DecodeExplains, SumExplains,
     LastSumExplains, ActivateExplains, TableWidthExplains, PushExplains,
     LastExplains, SigmoidExplains, DesiredExplains, LookupExplains, RescaleExplains DEF PacketStep
<1>3. CASE ReloadStep
  BY <1>3, ContextExplains, SigmoidLoadExplains DEF ReloadStep
<1> QED
  BY <1>2, <1>3 DEF ReloadNext

\* The invariant of a packet thread whose contexts and tables are reloaded.
THEOREM ReloadExplained == ReloadSpec => []ExplainInv
<1>1. Init => ExplainInv
  <2> SUFFICES ASSUME Init PROVE ExplainInv
    OBVIOUS
  <2>1. ReloadInv /\ FoundStaysLoaded
    BY DEF Init, ReloadInv, Pointing, FoundStaysLoaded
  <2>2. LayerInv /\ TableInv /\ TermsExplain /\ ClassBit
    BY DEF Init, LayerInv, TableInv, Loaded, EmptyTable, TermsExplain, ClassBit
  <2> QED
    BY <2>1, <2>2, StartsSound DEF ExplainInv, BasisInv
<1>2. ExplainInv /\ [ReloadNext]_vars => ExplainInv'
  <2>1. ASSUME ExplainInv, ReloadNext PROVE ExplainInv'
    BY <2>1, BasisStep, ExplainsStep DEF ExplainInv
  <2>2. ASSUME ExplainInv, UNCHANGED vars PROVE ExplainInv'
    <3>1. BasisInv'
      BY <2>2, BasisStep DEF ExplainInv
    <3>2. (LayerInv /\ TableInv /\ TermsExplain /\ ClassBit)'
      BY <2>2, ExplainsKept DEF vars, ExplainInv, TableInv, Loaded
    <3> QED
      BY <3>1, <3>2 DEF ExplainInv
  <2> QED
    BY <2>1, <2>2
<1> QED
  BY <1>1, <1>2, PTL DEF ReloadSpec

\* Every term of an output of a layer is of a context that was in force while the
\* operator ran, at its own place, and the table it went through too, for contexts of
\* any size and any number of reloads between any two reads of a neuron's loop.
THEOREM LayersExplained == ReloadSpec => []TermsExplain
<1>1. ExplainInv => TermsExplain
  BY DEF ExplainInv
<1> QED
  BY <1>1, ReloadExplained, PTL

\* The single bit of sigmoid(x, 1) is the class of x by one of the tables in force.
THEOREM BitClassifies == ReloadSpec => []ClassBit
<1>1. ExplainInv => ClassBit
  BY DEF ExplainInv
<1> QED
  BY <1>1, ReloadExplained, PTL
=============================================================================
