----------------------------- MODULE MCMlOverlay ----------------------------
(***************************************************************************)
(* Instances of MlOverlay for TLC: models of up to three layers, and some  *)
(* larger ones, on the twelve processors of the code.                      *)
(***************************************************************************)
EXTENDS MlOverlay

\* A stack of Dense layers that fit together, of the numbers of neurons given.
Stack(ns) == [i \in 1 .. Len(ns) - 1 |-> [inputs |-> ns[i], outputs |-> ns[i + 1], whole |-> TRUE]]

\* Every stack of up to three layers with up to MaxNeurons neurons each, an empty
\* layer among them; that of the NSL-KDD model; and one of more layers than there
\* are processors.
MaxNeurons == 12
NslKdd     == Stack(<<16, 16, 8, 4, 1>>)
Stacks == {Stack(<<4>> \o ns) : ns \in UNION {[1 .. k -> 0 .. MaxNeurons] : k \in 0 .. 3}}
            \cup {NslKdd, Stack(<<2, 30>>), Stack([i \in 1 .. ProcessorCount + 2 |-> 1])}

\* Layers that do not fit together, which nothing compares, and one with a row too few.
Layer(i, o, w) == [inputs |-> i, outputs |-> o, whole |-> w]
Unfit == {<<Layer(2, 8, TRUE), Layer(3, 8, TRUE)>>, <<Layer(2, 12, TRUE), Layer(12, 3, FALSE)>>}

AllModels == Stacks \cup Unfit
OneModel  == {NslKdd}
=============================================================================
