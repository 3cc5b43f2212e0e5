---------------------------- MODULE MCRp4Runtime ----------------------------
(***************************************************************************)
(* Programs for Rp4Runtime: three or four stages, two small clusters.      *)
(***************************************************************************)
EXTENDS Rp4Runtime

Act(a, n)   == [act |-> a, next |-> n]
Match(t)    == [default |-> TRUE, type |-> "TABLE", to |-> t]
When(t)     == [default |-> FALSE, type |-> "TABLE", to |-> t]
WhenTo(k)   == [default |-> FALSE, type |-> "STAGE", to |-> k]
Else(k)     == [default |-> TRUE, type |-> "STAGE", to |-> k]
Stage(exec, switch, headers) == [exec |-> exec, switch |-> switch, headers |-> headers]

\* The actions by number; 1 and 3 assign the same field, 0 nothing.
Set(x)  == <<[lv |-> x, rv |-> x]>>
Prims   == [a \in 0 .. 7 |-> IF a = 0 THEN <<>> ELSE IF a = 3 THEN <<[lv |-> 1, rv |-> 3]>> ELSE Set(a)]
Params  == [a \in 0 .. 7 |-> IF a = 5 THEN 1 ELSE 0]

\* Ethernet, then IP or IPv6, then TCP after either.
Parse   == [l \in 0 .. 3 |-> CASE l = 0 -> {<<"eth", 1>>} [] l = 1 -> {<<"ip", 2>>, <<"ip6", 3>>}
                               [] l = 2 -> {<<"tcp", 3>>} [] l = 3 -> {}]

Exact(k, v)   == [keyed |-> TRUE, type |-> "SRAM", key |-> k, value |-> v]
Ternary(k, v) == [keyed |-> TRUE, type |-> "TCAM", key |-> k, value |-> v]
Keyless       == [keyed |-> FALSE, type |-> "SRAM", key |-> 0, value |-> 0]

Program(stages, memory) ==
  [stages |-> stages, prims |-> Prims, params |-> Params, mem |-> memory, levels |-> Parse]

\* A classifier of three stages.  The first branches; the second may be merged into
\* it, clashes with it or takes a parameter; the third may be merged and ends the
\* program, or has two actions.
Branch  == Stage(<<Act(1, 1), Act(2, 2)>>, <<Match(0)>>, {"eth"})
Skip    == Stage(<<Act(1, 1), Act(2, -1)>>, <<When(0), Else(2)>>, {})
Both    == Stage(<<Act(4, 2), Act(0, -1)>>, <<When(1), Else(-1)>>, {"tcp"})
Seconds == {Stage(<<Act(3, 2)>>, <<Match(1)>>, {"ip"}),
            Stage(<<Act(4, 2)>>, <<Match(1)>>, {"ip"}),
            Stage(<<Act(5, 2)>>, <<Match(1)>>, {"tcp"}), Both}
Single  == Stage(<<Act(6, -1)>>, <<Match(2)>>, {"ip6"})
Double  == Stage(<<Act(6, -1), Act(7, -1)>>, <<Match(2), WhenTo(-1)>>, {"ip"})
Small   == <<Exact(1, 1), Ternary(1, 1), Exact(1, 1)>>
Large   == <<Exact(2, 1), Exact(1, 1), Ternary(2, 3)>>

Classifier(a, b, c, m) ==
  Program([k \in 0 .. 2 |-> <<a, b, c>>[k + 1]], [t \in 0 .. 2 |-> m[t + 1]])

Three == {Classifier(Branch, b, Single, Small) : b \in Seconds}
           \cup {Classifier(Skip, b, Double, Small) : b \in Seconds}
           \cup {Classifier(Branch, Both, Double, Large)}

\* The same with one more table in the last stage, and with none in the first; five
\* stages for four processors; a table of more blocks than a cluster has.
Row(n, t) == Stage(<<Act(n, -1), Act(0, -1)>>, <<Match(t)>>, {})
Chain(k, n) == Stage(<<Act(k + 1, IF k = n - 1 THEN -1 ELSE k + 1), Act(0, -1)>>, <<Match(k)>>, {})
Line(n, m) == Program([k \in 0 .. n - 1 |-> Chain(k, n)], [t \in 0 .. n - 1 |-> m])

Wider ==
  LET base == Program([k \in 0 .. 1 |-> <<Stage(<<Act(1, 1), Act(2, 1)>>, <<Match(0)>>, {"eth"}),
                                         Stage(<<Act(6, -1), Act(7, -1)>>, <<Match(2), When(3), When(4)>>, {"ip"})>>[k + 1]],
                      [t \in {0, 2, 3, 4} |-> CASE t = 0 -> Exact(1, 1) [] t = 2 -> Ternary(1, 0)
                                            [] t = 3 -> Exact(1, 0) [] t = 4 -> Exact(0, 1)])
  IN {base, [base EXCEPT !.mem = [t \in {0, 2, 3, 4} |-> IF t = 0 THEN Keyless ELSE base.mem[t]]]}

Long == {Line(5, Exact(1, 0)), Line(2, Exact(4, 1)), Line(2, Exact(1, 0))}

\* Stages listed after the ones they lead to; a cycle; a program that did not parse.
Backward ==
  {Program([k \in 0 .. 2 |-> <<Stage(<<Act(4, 1)>>, <<Match(0)>>, {}),
                              Stage(<<Act(6, -1), Act(7, -1)>>, <<Match(1)>>, {}),
                              Stage(<<Act(1, 0), Act(2, 1)>>, <<Match(2)>>, {})>>[k + 1]],
           [t \in 0 .. 2 |-> Exact(1, 0)]),
   Program([k \in 0 .. 1 |-> Stage(<<Act(1, 1 - k), Act(2, -1)>>, <<Match(k)>>, {})],
           [t \in 0 .. 1 |-> Exact(1, 0)]),
   NoProgram}

AllPrograms == Three \cup Wider \cup Long \cup Backward
WildNumbers == {-1, 0}

\* No program here names a table in two entries of its switches: what the theorem about
\* updates assumes of the programs it is about.
ASSUME TablesNamedOnce == \A p \in AllPrograms : NamedOnce(p)
=============================================================================
