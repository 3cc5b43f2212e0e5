-------------------------- MODULE NeuronPrimitives --------------------------
(***************************************************************************)
(* The neural primitives of the switch: NeuronPrimitiveManager (the layer  *)
(* contexts), SigmoidTableManager (one lookup table) and the packet thread *)
(* running the neuron and the sigmoid operator of an action.               *)
(*                                                                         *)
(* Unlike the pipeline, both managers have a mutex, which every method     *)
(* holds from its first read or write of the fields to its return.  One    *)
(* step of this module is one such method, or the code between two of      *)
(* them.  The operators take and release the locks several times, and      *)
(* get_context hands out a pointer that is used after the lock is gone: a  *)
(* layer reads its coefficients while upsert_context may be copying others *)
(* over them.  LoadContext is the moment such a copy begins.  From then on *)
(* until the operator ends, a read of a coefficient may find the old one   *)
(* or the new one.                                                         *)
(***************************************************************************)
EXTENDS Integers, Sequences, FiniteSets, Functions

CONSTANTS
  CtxIds,      \* context ids
  Layers,      \* the contexts clients may send, ill-formed ones included
  Loads,       \* the sigmoid tables clients may send, ill-formed ones included
  Features,    \* what the packets' feature fields hold: sequences of words
  Widths,      \* the output widths asked of the sigmoid operator; 0 is "the table's"
  Width,       \* kFixedPointBitwidth: bits of an input word and of an output
  CoeffShift,  \* kNeuronCoeffShift: fraction bits of weights and biases
  IntWidth,    \* bits of an int32_t
  MaxWidth,    \* kMaxSupportedBitwidth
  None         \* no context

ASSUME WidthAssumption ==
  /\ Width \in Nat \ {0} /\ CoeffShift \in Nat /\ IntWidth \in Nat /\ IntWidth >= Width
  /\ MaxWidth \in Nat /\ MaxWidth >= Width
  /\ Widths \subseteq 0 .. MaxWidth

Word == 0 .. 2 ^ Width - 1

Layer == [inputs : Nat, neurons : Nat, weights : Seq(Int), biases : Seq(Int),
          shift : Nat, activation : {"NONE", "RELU", "SIGMOID"}, signed : BOOLEAN]

ASSUME LayerAssumption == Layers \subseteq Layer /\ None \notin Layers
ASSUME FeatureAssumption == Features \subseteq Seq(Word)

\* A LoadSigmoidTableReq: the points as a map from input to value.
ASSUME LoadAssumption ==
  \A q \in Loads : /\ q.width \in Nat /\ q.mult \in Nat
                   /\ IsFiniteSet(DOMAIN q.points) /\ DOMAIN q.points \subseteq Int
                   /\ \A k \in DOMAIN q.points : q.points[k] \in Nat

VARIABLES
  contexts,  \* contexts_: per id a layer or None
  table,     \* the fields of SigmoidTableManager
  pc,        \* where the packet thread is in its operator
  op,        \* the operator running, or the last one that ran
  ptr,       \* what the pointer of get_context points to: a live or a freed node
  inputs,    \* input_vector
  turn,      \* the neurons summed so far
  mac,       \* mac_outputs
  width,     \* the table or output width read so far
  val,       \* lut_val
  out,       \* the values to pack, then the result
  alive,     \* FALSE once memory that is not there has been read
  layers,    \* the contexts in force under op's id since it began, each of which
             \* the operator may still find parts of
  tables     \* history: the sigmoid tables in force since op began

managers == <<contexts, table>>
summing  == <<inputs, turn, mac>>
running  == <<pc, op, ptr, inputs, turn, mac, width, val, out, alive>>
vars     == <<contexts, table, pc, op, ptr, inputs, turn, mac, width, val, out, alive,
              layers, tables>>

-----------------------------------------------------------------------------
(* Fixed-point arithmetic.                                                 *)

\* static_cast<int32_t>
Narrow(x) == ((x + 2 ^ (IntWidth - 1)) % 2 ^ IntWidth) - 2 ^ (IntWidth - 1)

\* extract_bits with is_signed: the top bit of the field is the sign.
SignExtend(w, bits) == IF w >= 2 ^ (bits - 1) THEN w - 2 ^ bits ELSE w

\* Mutant: a negative value loses its magnitude's low bits.
ShiftTowardZero(x, s) == IF x >= 0 THEN x \div 2 ^ s ELSE - ((-x) \div 2 ^ s)

\* arithmetic_right_shift: negative values by way of their magnitude.
ArithmeticRightShift(x, s) ==
  IF x >= 0 THEN x \div 2 ^ s ELSE - ((-x + 2 ^ s - 1) \div 2 ^ s)

\* mask_for_width
Mask(w) == 2 ^ (IF w = 0 \/ w > MaxWidth THEN MaxWidth ELSE w) - 1

\* Mutant: only the upper end is held.
ClampTopOnly(x, w) == IF x > Mask(w) THEN Mask(w) ELSE x

\* clamp_to_width
Clamp(x, w) == IF x < 0 THEN 0 ELSE IF x > Mask(w) THEN Mask(w) ELSE x

\* Mutant: the ratio is not held to 1.
RescaleUnclamped(v, from, to) ==
  LET f == IF from = 0 THEN Width ELSE from
  IN  IF to \in {0, f} THEN Clamp(v, f)
      ELSE (2 * v * Mask(to) + Mask(f)) \div (2 * Mask(f))

\* Mutant: llround becomes a conversion to integer.
RescaleFloor(v, from, to) ==
  LET f == IF from = 0 THEN Width ELSE from
  IN  IF to \in {0, f} THEN Clamp(v, f)
      ELSE (Clamp(v, f) * Mask(to)) \div Mask(f)

\* rescale_value: the nearest integer to v * Mask(to) / Mask(from).  The masks
\* are odd, so no quotient lies half-way, and long double tells the rest apart.
Rescale(v, from, to) ==
  LET f == IF from = 0 THEN Width ELSE from
  IN  IF to \in {0, f} THEN Clamp(v, f)
      ELSE (2 * Clamp(v, f) * Mask(to) + Mask(f)) \div (2 * Mask(f))

-----------------------------------------------------------------------------
(* The two managers, as the server's handlers call them.                   *)

EmptyTable == [min |-> 0, max |-> -1, width |-> 0, mult |-> 1, values |-> <<>>]

Loaded == table.values # <<>>

LookupIn(t, x) ==
  LET scaled == x * t.mult
      at     == IF scaled < t.min THEN t.min ELSE IF scaled > t.max THEN t.max ELSE scaled
  IN  t.values[at - t.min + 1]

WellFormed(L) ==
  /\ L.inputs > 0 /\ L.neurons > 0
  /\ Len(L.weights) = L.inputs * L.neurons
  /\ Len(L.biases) = L.neurons

\* Some operator between get_context and its last use of the pointer.
Pointing == pc \in {"mac", "sums", "activate", "width", "push"}

NoteLayer(id, L) == layers' = IF Pointing /\ op.id = id THEN layers \cup {L} ELSE layers

\* Mutant: the former node is erased and a new one inserted.
LoadContextReplacing(id, L) ==
  /\ alive /\ WellFormed(L)
  /\ contexts' = [contexts EXCEPT ![id] = L]
  /\ ptr' = IF Pointing /\ op.id = id THEN "freed" ELSE ptr
  /\ NoteLayer(id, L)
  /\ UNCHANGED <<table, pc, op, summing, width, val, out, alive, tables>>

\* loadNeuronPrimitiveContext: upsert_context assigns to the node already there.
LoadContext(id, L) ==
  /\ alive /\ WellFormed(L)
  /\ contexts' = [contexts EXCEPT ![id] = L]
  /\ NoteLayer(id, L)
  /\ UNCHANGED <<table, running, tables>>

\* clearNeuronPrimitiveContexts: every node is freed.
ClearContexts ==
  /\ alive
  /\ contexts' = [id \in CtxIds |-> None]
  /\ ptr' = IF Pointing THEN "freed" ELSE ptr
  /\ UNCHANGED <<table, pc, op, summing, width, val, out, alive, layers, tables>>

Lowest(S)  == CHOOSE x \in S : \A y \in S : x <= y
Highest(S) == CHOOSE x \in S : \A y \in S : x >= y

\* The checks of loadSigmoidTable and load_table: no hole between the points,
\* a width of 1 to 32 bits, and every value within it.
Acceptable(q) ==
  /\ \E low, high \in DOMAIN q.points : DOMAIN q.points = low .. high
  /\ q.width \in 1 .. MaxWidth
  /\ \A k \in DOMAIN q.points : q.points[k] <= Mask(q.width)

TableOf(q) ==
  LET low == Lowest(DOMAIN q.points)
  IN  [min |-> low, max |-> Highest(DOMAIN q.points), width |-> q.width,
       mult |-> IF q.mult = 0 THEN 1 ELSE q.mult,
       values |-> [i \in 1 .. Cardinality(DOMAIN q.points) |-> q.points[low + i - 1]]]

\* Mutant: the former table is dropped before the new one is checked.
LoadSigmoidClearingFirst(q) ==
  /\ alive
  /\ table' = IF Acceptable(q) THEN TableOf(q) ELSE EmptyTable
  /\ tables' = IF pc # "idle" /\ tables # {} /\ Acceptable(q)
               THEN tables \cup {TableOf(q)} ELSE tables
  /\ UNCHANGED <<contexts, running, layers>>

\* Mutant: the values are not held against the width.
LoadSigmoidAnyValue(q) ==
  /\ alive
  /\ Acceptable([q EXCEPT !.points = [k \in DOMAIN @ |-> 0]])
  /\ table' = TableOf(q)
  /\ tables' = IF pc # "idle" /\ tables # {} THEN tables \cup {TableOf(q)} ELSE tables
  /\ UNCHANGED <<contexts, running, layers>>

LoadSigmoid(q) ==
  /\ alive /\ Acceptable(q)
  /\ table' = TableOf(q)
  /\ tables' = IF pc # "idle" /\ tables # {} THEN tables \cup {TableOf(q)} ELSE tables
  /\ UNCHANGED <<contexts, running, layers>>

\* clearSigmoidTable: the multiplier is left behind.
ClearSigmoid ==
  /\ alive
  /\ table' = [EmptyTable EXCEPT !.mult = table.mult]
  /\ UNCHANGED <<contexts, running, layers, tables>>

-----------------------------------------------------------------------------
(* The packet thread.  A layer's operator (NPB) leaves its outputs in      *)
(* metadata words; a sigmoid operator may then be applied to one of them.  *)

At(from) == alive /\ pc = from

Zeros(n) == [i \in 1 .. n |-> 0]

\* execute, case NEURON_PRIMITIVE: the context is looked up under the lock.
FetchContext(id, f) ==
  /\ At("idle")
  /\ op' = [kind |-> "neuron", id |-> id, features |-> f]
  /\ tables' = {}
  /\ IF contexts[id] = None
     THEN /\ out' = <<0>> /\ layers' = {}
          /\ UNCHANGED <<pc, ptr>>
     ELSE /\ out' = <<>> /\ layers' = {contexts[id]}
          /\ pc' = "mac" /\ ptr' = "live"
  /\ UNCHANGED <<managers, summing, width, val, alive>>

\* Every use of the pointer: the node is there, or the process is lost.
Ctx == contexts[op.id]

FollowFreed ==
  /\ alive /\ Pointing /\ pc # "width" /\ ptr = "freed"
  /\ alive' = FALSE
  /\ UNCHANGED <<managers, pc, op, ptr, summing, width, val, out, layers, tables>>

Finish(result) == pc' = "idle" /\ out' = result

\* The vectors of execute_neuron_primitive go when it returns.
Return(result) == Finish(result) /\ inputs' = <<>> /\ turn' = 0 /\ mac' = <<>>

Feature(L, f, i) == IF L.signed THEN SignExtend(f[i], Width) ELSE f[i]

\* Contexts of different sizes: upsert_context moves the vectors, or their ends.
Resized == \E K, L \in layers : K.inputs # L.inputs \/ K.neurons # L.neurons

\* execute_neuron_primitive up to the sums: the sizes are checked, which a copy under
\* way may have made disagree, and the words of the packet decoded.
Decode ==
  /\ At("mac") /\ ptr = "live"
  /\ \/ /\ Resized
        /\ Return(Zeros(MaxWidth \div Width)) /\ layers' = {}
     \/ /\ Len(op.features) < Ctx.inputs
        /\ Return(Zeros(Ctx.neurons)) /\ layers' = {}
     \/ /\ Len(op.features) >= Ctx.inputs
        /\ inputs' = [i \in 1 .. Ctx.inputs |-> Feature(Ctx, op.features, i)]
        /\ mac' = Zeros(Ctx.neurons) /\ turn' = 0
        /\ pc' = "sums"
        /\ UNCHANGED <<out, layers>>
  /\ UNCHANGED <<managers, op, ptr, width, val, alive, tables>>

\* The sum of the n-th neuron of a layer like L over its inputs x, the bias and each
\* weight taken from the context that src names for it.
MixedSum(L, src, x, n) ==
  src[0].biases[n]
    + SumFunction([i \in 1 .. L.inputs |-> x[i] * src[i].weights[(n - 1) * L.inputs + i]])

\* All that one neuron reads is there.
InBounds(src) ==
  /\ turn < Len(mac) /\ turn < Len(src[0].biases)
  /\ Ctx.inputs <= Len(inputs)
  /\ \A i \in 1 .. Ctx.inputs : turn * Ctx.inputs + i <= Len(src[i].weights)

\* One turn of the loop over the neurons, with the loop over the inputs.  No lock is
\* held: each coefficient is that of any context in force since the operator began.
\* Once the vectors have moved, one of them may be gone.
SumNeuron ==
  /\ At("sums") /\ ptr = "live" /\ turn < Ctx.neurons
  /\ \/ \E src \in [0 .. Ctx.inputs -> layers] :
          /\ InBounds(src)
          /\ mac' = [mac EXCEPT ![turn + 1] = MixedSum(Ctx, src, inputs, turn + 1)]
          /\ turn' = turn + 1
          /\ UNCHANGED alive
     \/ /\ Resized
        /\ alive' = FALSE
        /\ UNCHANGED <<mac, turn>>
  /\ UNCHANGED <<managers, pc, op, ptr, inputs, width, val, out, layers, tables>>

LastSum ==
  /\ At("sums") /\ ptr = "live" /\ turn >= Ctx.neurons
  /\ pc' = "activate"
  /\ UNCHANGED <<managers, op, ptr, summing, width, val, out, alive, layers, tables>>

\* What the activation is given, with output_shift read from the context again.
Shifted(n) == ArithmeticRightShift(ArithmeticRightShift(mac[n], CoeffShift), Ctx.shift)

\* num_neurons is read again too: mac_outputs may have become too short for it.
Outrun == Len(mac) < Ctx.neurons

\* RELU and NONE, or the check that a table is loaded.
Activate ==
  /\ At("activate") /\ ptr = "live"
  /\ \/ /\ Ctx.activation # "SIGMOID" /\ Outrun
        /\ alive' = FALSE
        /\ UNCHANGED <<pc, summing, out, tables>>
     \/ /\ Ctx.activation # "SIGMOID" /\ ~ Outrun
        /\ Return([n \in 1 .. Ctx.neurons |-> Clamp(Shifted(n), Width)])
        /\ UNCHANGED <<alive, tables>>
     \/ /\ Ctx.activation = "SIGMOID" /\ ~ Loaded
        /\ Return(Zeros(Ctx.neurons))
        /\ UNCHANGED <<alive, tables>>
     \/ /\ Ctx.activation = "SIGMOID" /\ Loaded
        /\ pc' = "width" /\ tables' = {table}
        /\ UNCHANGED <<summing, out, alive>>
  /\ UNCHANGED <<managers, op, ptr, width, val, layers>>

TableWidth ==
  /\ At("width")
  /\ width' = table.width /\ pc' = "push"
  /\ UNCHANGED <<managers, op, ptr, summing, val, out, alive, layers, tables>>

\* lookup answers 0 from an empty table.
Answer(x) == IF Loaded THEN LookupIn(table, Narrow(x)) ELSE 0

\* One turn of the loop over the neurons.
PushNeuron ==
  /\ At("push") /\ ptr = "live" /\ Len(out) < Ctx.neurons
  /\ LET n == Len(out) + 1
     IN  IF n > Len(mac)
         THEN alive' = FALSE /\ UNCHANGED out
         ELSE out' = Append(out, Rescale(Answer(Shifted(n)), width, Width)) /\ UNCHANGED alive
  /\ UNCHANGED <<managers, pc, op, ptr, summing, width, val, layers, tables>>

LastNeuron ==
  /\ At("push") /\ ptr = "live" /\ Len(out) >= Ctx.neurons
  /\ Return(out)
  /\ UNCHANGED <<managers, op, ptr, width, val, alive, layers, tables>>

\* apply_sigmoid_lookup: is a table loaded?
Sigmoid(n, w) ==
  /\ At("idle") /\ op.kind = "neuron" /\ n \in DOMAIN out
  /\ op' = [kind |-> "sigmoid", word |-> out[n], bits |-> w,
            features |-> op.features, neuron |-> n]
  /\ tables' = IF Loaded THEN {table} ELSE {}
  /\ IF Loaded THEN pc' = "desired" /\ out' = <<>> ELSE Finish(<<0>>)
  /\ UNCHANGED <<managers, ptr, summing, width, val, alive, layers>>

DesiredWidth ==
  /\ At("desired")
  /\ width' = LET w == IF op.bits = 0 THEN table.width ELSE op.bits
              IN  IF w = 0 THEN MaxWidth ELSE w
  /\ pc' = "lookup"
  /\ UNCHANGED <<managers, op, ptr, summing, val, out, alive, layers, tables>>

SigmoidLookup ==
  /\ At("lookup")
  /\ val' = Answer(SignExtend(op.word, Width)) /\ pc' = "rescale"
  /\ UNCHANGED <<managers, op, ptr, summing, width, out, alive, layers, tables>>

SigmoidRescale ==
  /\ At("rescale")
  /\ Finish(<<Rescale(val, table.width, width)>>)
  /\ UNCHANGED <<managers, op, ptr, summing, width, val, alive, layers, tables>>

-----------------------------------------------------------------------------
Init ==
  /\ contexts = [id \in CtxIds |-> None]
  /\ table = EmptyTable
  /\ pc = "idle" /\ op = [kind |-> "none"] /\ ptr = "live"
  /\ inputs = <<>> /\ turn = 0 /\ mac = <<>> /\ width = 0 /\ val = 0 /\ out = <<>>
  /\ alive = TRUE
  /\ layers = {} /\ tables = {}

PacketStep ==
  \/ \E id \in CtxIds, f \in Features : FetchContext(id, f)
  \/ FollowFreed
  \/ Decode
  \/ SumNeuron
  \/ LastSum
  \/ Activate
  \/ TableWidth
  \/ PushNeuron
  \/ LastNeuron
  \/ \E n \in DOMAIN out, w \in Widths : Sigmoid(n, w)
  \/ DesiredWidth
  \/ SigmoidLookup
  \/ SigmoidRescale

ServerStep ==
  \/ \E id \in CtxIds, L \in Layers : LoadContext(id, L)
  \/ ClearContexts
  \/ \E q \in Loads : LoadSigmoid(q)
  \/ ClearSigmoid

Next == PacketStep \/ ServerStep

Spec == Init /\ [][Next]_vars

(***************************************************************************)
(* Reloading without clearing: a context is replaced by one of its shape,  *)
(* a sigmoid table by one of its width.  The remote interface allows it;   *)
(* the controller program does not keep to it, it clears first.            *)
(***************************************************************************)
SameShape(K, L) ==
  /\ K.inputs = L.inputs /\ K.neurons = L.neurons /\ K.shift = L.shift
  /\ K.activation = L.activation /\ K.signed = L.signed

ReloadStep ==
  \/ \E id \in CtxIds, L \in Layers :
        /\ contexts[id] # None => SameShape(contexts[id], L)
        /\ LoadContext(id, L)
  \/ \E q \in Loads : (Loaded => q.width = table.width) /\ LoadSigmoid(q)

ReloadNext == PacketStep \/ ReloadStep

ReloadSpec == Init /\ [][ReloadNext]_vars

-----------------------------------------------------------------------------
(* Properties.                                                             *)

TableState == [min : Int, max : Int, width : 0 .. MaxWidth, mult : Nat \ {0},
               values : Seq(Nat)]

Operator ==
  [kind : {"none"}]
    \cup [kind : {"neuron"}, id : CtxIds, features : Seq(Word)]
    \cup [kind : {"sigmoid"}, word : Nat, bits : Widths, features : Seq(Word),
          neuron : Nat]

\* Types of the two managers and of the packet thread's working variables.
TypeOK ==
  /\ contexts \in [CtxIds -> Layers \cup {None}]
  /\ table \in TableState
  /\ pc \in {"idle", "mac", "sums", "activate", "width", "push", "desired", "lookup", "rescale"}
  /\ op \in Operator
  /\ ptr \in {"live", "freed"}
  /\ inputs \in Seq(Int) /\ turn \in Nat /\ mac \in Seq(Int)
  /\ width \in 0 .. MaxWidth /\ val \in Nat
  /\ out \in Seq(Nat)
  /\ alive \in BOOLEAN
  /\ layers \subseteq Layers
  /\ \A t \in tables : t \in TableState

\* Whatever was loaded, cleared or refused, every index that lookup clamps to
\* lies in the table, whose values keep to its width (load_table's checks, made
\* before it takes the lock).
TableSound ==
  Loaded => /\ Len(table.values) = table.max - table.min + 1
            /\ \A i \in DOMAIN table.values : table.values[i] <= Mask(table.width)

\* Packing cuts no bit off: an output fits its field even when its value came
\* from one sigmoid table and the width to rescale it by from another.
NothingCut ==
  pc = "idle" =>
    \A n \in DOMAIN out :
      out[n] <= Mask(IF op.kind = "sigmoid" THEN width ELSE Width)

\* A table found loaded is still there when the operator looks it up: reloading,
\* a refused reload included, never leaves a moment without a table.
FoundStaysLoaded == pc \in {"width", "push", "desired", "lookup", "rescale"} => Loaded

\* Reloading contexts and tables under running packets never makes the packet
\* thread read a freed node or past the end of mac_outputs.
ReloadKeepsAlive == alive

Decoded(L, f) == [i \in 1 .. L.inputs |-> Feature(L, f, i)]

\* What a sum means: scaled down to the floor of the quotient.  It is held to an
\* int32_t on its way into a table only.
Scaled(L, sum) == (sum \div 2 ^ CoeffShift) \div 2 ^ L.shift

Outcomes(L, sum) ==
  IF L.activation # "SIGMOID" THEN {Clamp(Scaled(L, sum), Width)}
  ELSE IF tables = {} THEN {0}
  ELSE {Rescale(LookupIn(t, Narrow(Scaled(L, sum))), t.width, Width) : t \in tables}

\* However often its context is reloaded while it runs, a layer puts out one value
\* for each of its neurons: the sum of that neuron over the packet's own words, whose
\* bias and weights are each, at its own place, those of a context that was in force
\* while the operator ran (of one context, when it was not reloaded), through one
\* table that was in force.  The contexts may be mixed within one sum, no lock being
\* held, but no term is lost, taken twice or taken from another place.
TermsExplain ==
  (pc = "idle" /\ op.kind = "neuron" /\ layers # {}) =>
    \E L \in layers :
      /\ Len(out) = L.neurons
      /\ \A n \in 1 .. L.neurons : \E src \in [0 .. L.inputs -> layers] :
           out[n] \in Outcomes(L, MixedSum(L, src, Decoded(L, op.features), n))

Class(t, x) == IF 2 * LookupIn(t, x) >= Mask(t.width) THEN 1 ELSE 0

\* sigmoid(x, 1) is 0 below one half and 1 from there on (README.md:89), by one
\* of the tables in force while it ran.
ClassBit ==
  (pc = "idle" /\ op.kind = "sigmoid" /\ op.bits = 1 /\ tables # {}) =>
    \E t \in tables : out[1] = Class(t, SignExtend(op.word, Width))

\* The documented recipe (README.md:89): a last layer without activation, then
\* sigmoid(.., 1), gives the class of what that layer computed.
RecipeClassifies ==
  (pc = "idle" /\ op.kind = "sigmoid" /\ op.bits = 1 /\ tables # {}) =>
    \A L \in layers : L.activation = "NONE" =>
      LET sum == MixedSum(L, [i \in 0 .. L.inputs |-> L], Decoded(L, op.features), op.neuron)
      IN  \E t \in tables : out[1] = Class(t, Narrow(Scaled(L, sum)))
=============================================================================
