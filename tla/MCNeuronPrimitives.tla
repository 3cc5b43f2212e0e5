------------------------ MODULE MCNeuronPrimitives ------------------------
(* Small instances of NeuronPrimitives: words of three bits, one fraction  *)
(* bit in the coefficients, one or two contexts.                           *)
EXTENDS NeuronPrimitives, TLC

LayerOf(i, ws, bs, act) ==
  [inputs |-> i, neurons |-> Len(bs), weights |-> ws, biases |-> bs,
   shift |-> 0, activation |-> act, signed |-> TRUE]

\* Two words in, two neurons out, and what retraining makes of it.
Old  == LayerOf(2, <<2, 1, -1, 2>>, <<0, -3>>, "SIGMOID")
New  == LayerOf(2, <<-2, 1, 1, -3>>, <<1, 2>>, "SIGMOID")
Thin == LayerOf(1, <<3>>, <<-1>>, "NONE")
Relu == LayerOf(2, <<1, 2, -1, -1>>, <<0, 1>>, "RELU")
Flat == LayerOf(2, <<3, -2, -2, 1>>, <<1, 0>>, "NONE")
Bad  == LayerOf(2, <<1, 2, 3>>, <<0, 0>>, "NONE")

TwoWords == {<<3, 6>>, <<7, 1>>}
AndShort == TwoWords \cup {<<2>>}

Points(low, vs) == [k \in low .. low + Len(vs) - 1 |-> vs[k - low + 1]]

Rising == [points |-> Points(-2, <<0, 2, 4, 7>>), width |-> 3, mult |-> 1]
Steep  == [points |-> Points(-1, <<0, 5, 6>>), width |-> 3, mult |-> 2]
Wide   == [points |-> Points(-1, <<1, 8, 15>>), width |-> 4, mult |-> 0]
Holed  == [points |-> (-2 :> 0) @@ (0 :> 4), width |-> 3, mult |-> 1]
Over   == [points |-> Points(-1, <<1, 8>>), width |-> 3, mult |-> 1]

AnyLayers  == {Old, Thin, Bad}
AnyLoads   == {Rising, Wide, Over, Holed}
NewLayers  == {Old, New, Relu, Flat}
SameWidth  == {Rising, Steep, Over}
OneNone    == {Thin, Flat}
===========================================================================
