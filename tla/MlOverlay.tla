------------------------------ MODULE MlOverlay -----------------------------
(***************************************************************************)
(* ml_compiler: the Dense layers of a trained model become contexts and    *)
(* operators on the switch.  The stages are divided among the layers       *)
(* (allocate_stage_counts), the neurons of a layer among its stages        *)
(* (build_stage_mappings), and then weights (build_neuron_contexts) and    *)
(* operators (build_processor_overlay) are written, each in a loop of its  *)
(* own over layers and chunks.                                             *)
(*                                                                         *)
(* Lengths and offsets are counted in words of kNeuronBitwidth bits.  A    *)
(* weight is the pair of its input and its neuron, a bias its neuron, both *)
(* numbered from 0; their quantisation is left out.                        *)
(***************************************************************************)
EXTENDS Integers, Sequences, FiniteSets, Functions

CONSTANTS
  ProcessorCount,  \* processors the layers are divided over (kProcessorCount)
  OverlayCount,    \* processors of the overlay (kOverlayProcessorCount)
  Models           \* manifests: sequences of layers [inputs, outputs, whole]; whole,
                   \* when the arrays of the layer have the lengths it declares

ASSUME CountAssumption ==
  /\ ProcessorCount \in Nat \ {0} /\ OverlayCount \in Nat /\ ProcessorCount <= OverlayCount
  /\ \A m \in Models : m \in Seq([inputs : Nat, outputs : Nat, whole : BOOLEAN])

Processor == 0 .. OverlayCount - 1

VARIABLES
  pc,        \* "load", "share", "map", "contexts", "overlay"; "done", "threw"
  model,     \* the layers
  counts,    \* allocate_stage_counts: stages per layer
  rests,     \* fractional, in units of 1 / total_outputs; -1 once served
  plan,      \* mappings: [proc, layer, first, last, from, input, to, output]
  cursor,    \* hidden_input_cursor_bits
  contexts,  \* neuron_primitive_contexts: [inputs, weights, biases], context 0 first
  overlay    \* processor.json: [ctx, from, input, inputs, to, output, outputs] or None

vars == <<pc, model, counts, rests, plan, cursor, contexts, overlay>>

None == [ctx |-> -1]

Layers   == DOMAIN model
LastOf   == Len(model)
Sizes    == [i \in Layers |-> model[i].outputs]
Outputs  == SumFunctionOnSet(Sizes, Layers)
Extra    == ProcessorCount - Len(model)
Assigned == SumFunctionOnSet(counts, Layers)

Init ==
  /\ pc = "load" /\ model \in Models
  /\ counts = <<>> /\ rests = <<>> /\ plan = <<>> /\ cursor = 0
  /\ contexts = <<>> /\ overlay = [p \in Processor |-> None]

Throw == /\ pc' = "threw"
         /\ UNCHANGED <<model, counts, rests, plan, cursor, contexts, overlay>>

\* parse_dense_layer refuses arrays of other lengths than declared.
Accepted == \A i \in Layers : model[i].whole

\* The tests of allocate_stage_counts.
Divisible == model # <<>> /\ Len(model) <= ProcessorCount /\ Outputs > 0

Refuse ==
  /\ pc = "load"
  /\ ~ (Accepted /\ Divisible)
  /\ Throw

\* A fault: the fractions of the ideal shares are not kept.
ShareFloorsOnly ==
  /\ pc = "load" /\ Accepted /\ Divisible
  /\ pc' = "share"
  /\ counts' = [i \in Layers |-> 1 + (model[i].outputs * Extra) \div Outputs]
  /\ rests'  = [i \in Layers |-> 0]
  /\ UNCHANGED <<model, plan, cursor, contexts, overlay>>

\* One stage each, and the whole part of what a layer's share of the others is.
ShareFloors ==
  /\ pc = "load" /\ Accepted /\ Divisible
  /\ pc' = "share"
  /\ counts' = [i \in Layers |-> 1 + (model[i].outputs * Extra) \div Outputs]
  /\ rests'  = [i \in Layers |-> (model[i].outputs * Extra) % Outputs]
  /\ UNCHANGED <<model, plan, cursor, contexts, overlay>>

\* A fault: one stage more than there are processors.
ShareRestOnceMore ==
  /\ pc = "share" /\ Assigned <= ProcessorCount
  /\ \E i \in Layers :
       /\ \A j \in Layers : rests[j] <= rests[i]
       /\ counts' = [counts EXCEPT ![i] = @ + 1]
       /\ rests'  = [rests EXCEPT ![i] = -1]
  /\ UNCHANGED <<pc, model, plan, cursor, contexts, overlay>>

\* The stages left over go to the largest fractions.  Of equal ones the first wins,
\* but the rounding of the doubles may make any of them the largest.
ShareRest ==
  /\ pc = "share" /\ Assigned < ProcessorCount
  /\ \E i \in Layers :
       /\ \A j \in Layers : rests[j] <= rests[i]
       /\ counts' = [counts EXCEPT ![i] = @ + 1]
       /\ rests'  = [rests EXCEPT ![i] = -1]
  /\ UNCHANGED <<pc, model, plan, cursor, contexts, overlay>>

Shared ==
  /\ pc = "share" /\ Assigned >= ProcessorCount
  /\ pc' = "map"
  /\ UNCHANGED <<model, counts, rests, plan, cursor, contexts, overlay>>

-----------------------------------------------------------------------------
(***************************************************************************)
(* The three loops over layers and chunks.                                 *)
(***************************************************************************)
\* Stage k, from 0, is chunk ChunkOf(k) of layer LayerOf(k).
StagesBefore(i) == SumFunctionOnSet(counts, 1 .. i - 1)
LayerOf(k)      == CHOOSE i \in Layers : k \in StagesBefore(i) .. StagesBefore(i) + counts[i] - 1
ChunkOf(k)      == k - StagesBefore(LayerOf(k))

\* split_evenly: the size of chunk c of a layer, c from 0.
Split(neurons, chunks, c) == neurons \div chunks + IF c < neurons % chunks THEN 1 ELSE 0

\* chunk_begin and chunk_end of stage k.
Chunks(i) == [c \in 0 .. counts[i] - 1 |-> Split(model[i].outputs, counts[i], c)]
First(k)  == SumFunctionOnSet(Chunks(LayerOf(k)), 0 .. ChunkOf(k) - 1)
Last(k)   == First(k) + Chunks(LayerOf(k))[ChunkOf(k)] - 1

\* A fault: the cursor never moves on.
MapStageInPlace ==
  /\ pc = "map" /\ Len(plan) < Assigned
  /\ LET k == Len(plan)
         i == LayerOf(k)
     IN /\ model[i].outputs >= counts[i]
        /\ plan' = Append(plan,
             [proc  |-> k, layer |-> i, first |-> First(k), last |-> Last(k),
              from  |-> IF i = 1 THEN "input" ELSE "hidden",
              input |-> IF i = 1 THEN 0 ELSE cursor,
              to    |-> IF i = LastOf THEN "final" ELSE "hidden",
              output |-> First(k) + IF i = LastOf THEN 0 ELSE cursor])
  /\ UNCHANGED <<pc, model, counts, rests, cursor, contexts, overlay>>

\* build_stage_mappings, one chunk of one layer.
MapStage ==
  /\ pc = "map" /\ Len(plan) < Assigned
  /\ LET k == Len(plan)
         i == LayerOf(k)
     IN /\ model[i].outputs >= counts[i]
        /\ plan' = Append(plan,
             [proc  |-> k, layer |-> i, first |-> First(k), last |-> Last(k),
              from  |-> IF i = 1 THEN "input" ELSE "hidden",
              input |-> IF i = 1 THEN 0 ELSE cursor,
              to    |-> IF i = LastOf THEN "final" ELSE "hidden",
              output |-> First(k) + IF i = LastOf THEN 0 ELSE cursor])
        /\ cursor' = IF ChunkOf(k) + 1 = counts[i] /\ i # LastOf
                     THEN cursor + model[i].outputs ELSE cursor
  /\ UNCHANGED <<pc, model, counts, rests, contexts, overlay>>

\* split_evenly: a layer of fewer neurons than stages.
RefuseSplit ==
  /\ pc = "map" /\ Len(plan) < Assigned
  /\ model[LayerOf(Len(plan))].outputs < counts[LayerOf(Len(plan))]
  /\ Throw

Mapped ==
  /\ pc = "map" /\ Len(plan) = Assigned
  /\ pc' = "contexts"
  /\ UNCHANGED <<model, counts, rests, plan, cursor, contexts, overlay>>

\* flatten_chunk_weights: input by input, and for each the neurons first .. last.
Flat(inputs, first, last) ==
  LET width == last - first + 1
  IN [n \in 1 .. inputs * width |-> <<(n - 1) \div width, first + ((n - 1) % width)>>]

\* build_neuron_contexts, one context.
AddContext ==
  /\ pc = "contexts" /\ Len(contexts) < Assigned
  /\ LET k == Len(contexts)
     IN contexts' = Append(contexts,
          [inputs  |-> model[LayerOf(k)].inputs,
           weights |-> Flat(model[LayerOf(k)].inputs, First(k), Last(k)),
           biases  |-> [n \in 1 .. Last(k) - First(k) + 1 |-> First(k) + n - 1]])
  /\ UNCHANGED <<pc, model, counts, rests, plan, cursor, overlay>>

ContextsBuilt ==
  /\ pc = "contexts" /\ Len(contexts) = Assigned
  /\ pc' = "overlay"
  /\ UNCHANGED <<model, counts, rests, plan, cursor, contexts, overlay>>

Written == {p \in Processor : overlay[p] # None}

\* A fault: the contexts are counted from 0 again in every layer.
AddProcessorPerLayer ==
  /\ pc = "overlay" /\ Cardinality(Written) < Assigned
  /\ LET k == Cardinality(Written)
         m == plan[k + 1]
     IN overlay' = [overlay EXCEPT ![m.proc] =
          [ctx |-> ChunkOf(k), from |-> m.from, input |-> m.input,
           inputs |-> model[LayerOf(k)].inputs,
           to |-> m.to, output |-> m.output, outputs |-> m.last - m.first + 1]]
  /\ UNCHANGED <<pc, model, counts, rests, plan, cursor, contexts>>

\* build_processor_overlay and build_processor_stage, one processor: npb applied to the
\* operand and the context, its result stored in the hidden or the final header.
AddProcessor ==
  /\ pc = "overlay" /\ Cardinality(Written) < Assigned
  /\ LET k == Cardinality(Written)
         m == plan[k + 1]
     IN overlay' = [overlay EXCEPT ![m.proc] =
          [ctx |-> k, from |-> m.from, input |-> m.input,
           inputs |-> model[LayerOf(k)].inputs,
           to |-> m.to, output |-> m.output, outputs |-> m.last - m.first + 1]]
  /\ UNCHANGED <<pc, model, counts, rests, plan, cursor, contexts>>

OverlayBuilt ==
  /\ pc = "overlay" /\ Cardinality(Written) = Assigned
  /\ pc' = "done"
  /\ UNCHANGED <<model, counts, rests, plan, cursor, contexts, overlay>>

Next ==
  \/ Refuse \/ ShareFloors \/ ShareRest \/ Shared
  \/ MapStage \/ RefuseSplit \/ Mapped
  \/ AddContext \/ ContextsBuilt \/ AddProcessor \/ OverlayBuilt

Spec == Init /\ [][Next]_vars

-----------------------------------------------------------------------------
StageType == [proc : Processor, layer : Nat, first : Nat, last : Nat,
              from : {"input", "hidden"}, input : Nat,
              to : {"hidden", "final"}, output : Nat]

ContextType == [inputs : Nat, weights : Seq(Nat \X Nat), biases : Seq(Nat)]

OperatorType == [ctx : Nat, from : {"input", "hidden"}, input : Nat, inputs : Nat,
                 to : {"hidden", "final"}, output : Nat, outputs : Nat]

\* Types; no more stages, contexts or operators than processors.
TypeOK ==
  /\ pc \in {"load", "share", "map", "contexts", "overlay", "done", "threw"}
  /\ model \in Models
  /\ counts \in Seq(1 .. ProcessorCount) /\ Len(counts) \in {0, Len(model)}
  /\ rests \in Seq(Nat \cup {-1}) /\ Len(rests) = Len(counts)
  /\ plan \in Seq(StageType) /\ Len(plan) <= ProcessorCount
  /\ cursor \in Nat
  /\ contexts \in Seq(ContextType) /\ Len(contexts) <= ProcessorCount
  /\ \A p \in Processor : overlay[p] = None \/ (p < ProcessorCount /\ overlay[p] \in OperatorType)

\* allocate_stage_counts: once the remainders are served every processor has a
\* stage and every layer at least one, and a layer of more neurons never gets fewer
\* stages than one of less, in whatever order equal fractions are served.
StagesBalanced ==
  pc \in {"map", "contexts", "overlay", "done"} =>
    /\ Assigned = ProcessorCount
    /\ \A i \in Layers : counts[i] >= 1
    /\ \A i, j \in Layers : model[i].outputs > model[j].outputs => counts[i] >= counts[j]

\* The contexts the switch will hold for a layer, by the operators that use them.
UsersOf(i)   == {plan[k].proc : k \in {k \in DOMAIN plan : plan[k].layer = i}}
ContextAt(p) == contexts[overlay[p].ctx + 1]
Neurons(p)   == {ContextAt(p).biases[n] : n \in DOMAIN ContextAt(p).biases}

\* The three loops agree: an operator is given as many words as its context has
\* inputs and room for as many as it has neurons; the operators of a layer together
\* compute each of its neurons exactly once, none of them idles, and none has over
\* one neuron more than another.
ChunksPartition ==
  pc = "done" =>
    /\ Written = 0 .. ProcessorCount - 1
    /\ \A p \in Written : /\ overlay[p].inputs = ContextAt(p).inputs
                          /\ overlay[p].outputs = Cardinality(Neurons(p))
    /\ \A i \in Layers :
         /\ \A n \in 0 .. model[i].outputs - 1 :
              Cardinality({p \in UsersOf(i) : n \in Neurons(p)}) = 1
         /\ \A p, q \in UsersOf(i) :
              overlay[p].outputs >= 1 /\ overlay[p].outputs <= overlay[q].outputs + 1

\* The hidden layers share header 31: no two operators write one place of it, none
\* writes outside the length build_metadata_context gives it, and a neuron's place in
\* its layer's part is its number, whichever operator computes it.
HiddenWords == SumFunctionOnSet(Sizes, Layers \ {LastOf})

WordsOf(p) == overlay[p].output .. overlay[p].output + overlay[p].outputs - 1

HiddenDisjoint ==
  pc = "done" =>
    \A p \in Written : overlay[p].to = "hidden" =>
      /\ WordsOf(p) \subseteq 0 .. HiddenWords - 1
      /\ \A q \in Written \ {p} : overlay[q].to = "hidden" =>
           /\ WordsOf(p) \cap WordsOf(q) = {}
           /\ plan[p + 1].layer = plan[q + 1].layer =>
                overlay[q].output - overlay[p].output
                  = ContextAt(q).biases[1] - ContextAt(p).biases[1]

\* What the switch multiplies word x of the operand by for the n-th neuron of a
\* context (execute_neuron_primitive).
WeightUsed(c, n, x) == c.weights[(n - 1) * c.inputs + x + 1]

\* For models whose layers fit together, each with as many inputs as the layer before
\* has neurons.
Chained == \A i \in Layers \ {1} : model[i].inputs = model[i - 1].outputs

\* README.md of HwFramework-IPSA: processor.json holds processors "that chain the neuron
\* operations".  The operators compute the Dense layers of the model: each neuron
\* weighs every input by its own weight for it, and the operand of a later layer is
\* what the operators of the layer before it write.
LayersChained ==
  pc = "done" /\ Chained =>
    \A p \in Written :
      /\ \A n \in 1 .. overlay[p].outputs, x \in 0 .. overlay[p].inputs - 1 :
           WeightUsed(ContextAt(p), n, x) = <<x, ContextAt(p).biases[n]>>
      /\ plan[p + 1].layer > 1 =>
           overlay[p].input .. overlay[p].input + overlay[p].inputs - 1
             = UNION {WordsOf(q) : q \in UsersOf(plan[p + 1].layer - 1)}
=============================================================================
