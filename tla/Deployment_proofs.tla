------------------------- MODULE Deployment_proofs --------------------------
(***************************************************************************)
(* Theorems about Deployment, for all configurations, any number of        *)
(* processors, tables, actions and clients, and any number of deployments  *)
(* and lost calls: that a deployment which ends without a failure has      *)
(* installed what its configuration lists, and that after a first one the  *)
(* process dies of nothing but what the configuration asks for in vain.    *)
(*                                                                         *)
(* The proof follows the script.  A call, once made, stands until a later  *)
(* one of the script undoes it: neither a packet nor ctrl_mod_table does.  *)
(* At the end of the script what stands is the configuration.              *)
(***************************************************************************)
EXTENDS Deployment, IpsaSwitch_proofs, Sums

-----------------------------------------------------------------------------
(***************************************************************************)
(* Sequences joined one after the other: FlattenSeq, one sequence at a time. *)
(***************************************************************************)
\* The recursion of FlattenSeq.
LEMMA FlattenIsFlattens ==
  ASSUME NEW ss, Len(ss) # 0
  PROVE  FlattenSeq(ss) = (CHOOSE g : Flattens(ss, Len(ss), g))[Len(ss)]
  BY DEF FlattenSeq, Flattens, Joined

\* Two functions have the same first n values.
Agree(f, g, n) == \A i \in 1 .. n : f[i] = g[i]

\* What is joined first does not depend on what follows.
LEMMA FlattensAgree ==
  ASSUME NEW ss, NEW tt, NEW N \in Nat, NEW M \in Nat, NEW g, NEW h,
         Flattens(ss, N, g), Flattens(tt, M, h), N <= M, Agree(ss, tt, N)
  PROVE  Agree(g, h, N)
<1> DEFINE T == {n \in Nat : n \in 1 .. N => g[n] = h[n]}
<1>1. 0 \in T
  OBVIOUS
<1>2. ASSUME NEW n \in T PROVE n + 1 \in T
  <2>1. SUFFICES ASSUME n + 1 \in 1 .. N PROVE g[n + 1] = h[n + 1]
    OBVIOUS
  <2>2. n \in Nat /\ n + 1 \in 1 .. M /\ (n + 1) - 1 = n
    BY <2>1
  <2>3. CASE n = 0
    BY <2>1, <2>2, <2>3 DEF Flattens, Agree
  <2>4. CASE n # 0
    <3>1. n \in 1 .. N /\ g[n] = h[n]
      BY <2>1, <2>2, <2>4
    <3>2. g[n + 1] = Joined(g[n], ss[n + 1])
      BY <2>1, <2>2, <2>4 DEF Flattens
    <3>3. h[n + 1] = Joined(h[n], tt[n + 1])
      BY <2>1, <2>2, <2>4 DEF Flattens
    <3> QED BY <2>1, <3>1, <3>2, <3>3 DEF Agree
  <2> QED BY <2>3, <2>4
<1>3. T = Nat
  <2>1. T \in SUBSET Nat
    OBVIOUS
  <2> HIDE DEF T
  <2> QED BY <1>1, <1>2, <2>1, Induction
<1> QED
  BY <1>3 DEF Agree

\* FlattenSeq of one sequence more.
LEMMA FlattenNext ==
  ASSUME NEW S, NEW n \in Nat, NEW ss \in [1 .. n + 1 -> Seq(S)],
         NEW tt \in [1 .. n -> Seq(S)], \A i \in 1 .. n : tt[i] = ss[i]
  PROVE  FlattenSeq(ss) = FlattenSeq(tt) \o ss[n + 1]
<1>1. Len(ss) = n + 1 /\ Len(tt) = n
  BY FunctionIsSeq
<1>2. PICK g : g = CHOOSE x : Flattens(ss, n + 1, x)
  OBVIOUS
<1>3. Flattens(ss, n + 1, g) /\ FlattenSeq(ss) = g[n + 1]
  <2>1. n + 1 \in Nat /\ n + 1 # 0
    OBVIOUS
  <2>2. \E x : Flattens(ss, n + 1, x)
    BY <2>1, FlattensExist
  <2>3. FlattenSeq(ss) = (CHOOSE x : Flattens(ss, Len(ss), x))[Len(ss)]
    BY <1>1, <2>1, FlattenIsFlattens
  <2> QED BY <1>1, <1>2, <2>2, <2>3
<1>4. CASE n = 0
  <2>1. FlattenSeq(tt) = tt /\ tt = <<>>
    BY <1>1, <1>4 DEF FlattenSeq
  <2>2. g[n + 1] = ss[n + 1]
    BY <1>3, <1>4 DEF Flattens
  <2>3. ss[n + 1] \in Seq(S)
    <3>1. n + 1 \in 1 .. n + 1
      OBVIOUS
    <3> QED BY <3>1
  <2> QED BY <1>3, <2>1, <2>2, <2>3
<1>5. CASE n # 0
  <2>1. PICK h : h = CHOOSE x : Flattens(tt, n, x)
    OBVIOUS
  <2>2. Flattens(tt, n, h) /\ FlattenSeq(tt) = h[n]
    <3>1. \E x : Flattens(tt, n, x)
      BY FlattensExist
    <3>2. FlattenSeq(tt) = (CHOOSE x : Flattens(tt, Len(tt), x))[Len(tt)]
      BY <1>1, <1>5, FlattenIsFlattens
    <3> QED BY <1>1, <2>1, <3>1, <3>2
  <2>3. n \in 1 .. n /\ n <= n + 1
    BY <1>5
  <2>4. h[n] = g[n]
    <3>1. n + 1 \in Nat /\ \A i \in 1 .. n : tt[i] = ss[i]
      OBVIOUS
    <3>2. Flattens(ss, n + 1, g) /\ Flattens(tt, n, h) /\ n <= n + 1
      BY <1>3, <2>2, <2>3
    <3>3. \A i \in 1 .. n : h[i] = g[i]
      <4>1. PICK m \in Nat : m = n + 1
        BY <3>1
      <4>2. Flattens(ss, m, g) /\ n <= m
        BY <3>2, <4>1
      <4>3. Agree(tt, ss, n)
        BY <3>1 DEF Agree
      <4>4. Agree(h, g, n)
        BY <3>2, <4>2, <4>3, FlattensAgree
      <4> QED BY <4>4 DEF Agree
    <3> QED BY <2>3, <3>3
  <2>5. g[n + 1] = Joined(g[n], ss[n + 1])
    BY <1>3, <1>5 DEF Flattens
  <2> QED BY <1>3, <2>2, <2>4, <2>5 DEF Joined
<1> QED
  BY <1>4, <1>5

-----------------------------------------------------------------------------
(***************************************************************************)
(* The calls of one processor: how many each part makes and what each of   *)
(* them is.                                                                *)
(***************************************************************************)
\* The configurations ConfigAssumption is about.
ConfigSpace == [Proc -> ProcConfig \cup {None}]

\* The places of two sequences joined.
Adjoin(a, b, ab) ==
  /\ ab \in Seq(Request) /\ Len(ab) = Len(a) + Len(b) /\ Len(a) \in Nat /\ Len(b) \in Nat
  /\ \A i \in 1 .. Len(a) : ab[i] = a[i]
  /\ \A i \in 1 .. Len(b) : ab[Len(a) + i] = b[i]

\* Two sequences joined have their places side by side.
LEMMA Adjoining ==
  ASSUME NEW a \in Seq(Request), NEW b \in Seq(Request), NEW ab, ab = a \o b
  PROVE  Adjoin(a, b, ab)
  BY DEF Adjoin

\* The calls of the parser: the level, and one for every entry.
ParserCalls(p, c, s) ==
  /\ s \in Seq(Request) /\ Len(s) = 1 + Len(c.entries)
  /\ s[1] = [op |-> "initParserLevel", p |-> p, level |-> c.level]
  /\ \A n \in DOMAIN c.entries :
       s[1 + n] = [op |-> "modParserEntry", p |-> p, l |-> c.entries[n].l,
                   i |-> c.entries[n].i, covers |-> c.entries[n].covers,
                   drop |-> c.entries[n].drop]

\* extract_parser makes those calls.
LEMMA ParserScriptFacts ==
  ASSUME NEW p \in Proc, NEW c \in ProcConfig, NEW s, s = ParserScript(p, c)
  PROVE  ParserCalls(p, c, s)
<1> DEFINE e == [n \in DOMAIN c.entries |->
          [op |-> "modParserEntry", p |-> p, l |-> c.entries[n].l, i |-> c.entries[n].i,
           covers |-> c.entries[n].covers, drop |-> c.entries[n].drop]]
           r == [op |-> "initParserLevel", p |-> p, level |-> c.level]
<1>1. PICK N \in Nat : N = Len(c.entries) /\ DOMAIN c.entries = 1 .. N
  BY DEF ProcConfig
<1>2. r \in Request
  BY DEF ProcConfig, Request, ParserRequest
<1>3. \A n \in 1 .. N : e[n] \in Request
  <2>1. SUFFICES ASSUME NEW n \in 1 .. N PROVE e[n] \in Request
    OBVIOUS
  <2>2. c.entries[n] \in [l : Level, i : Entry, covers : SUBSET Flows, drop : BOOLEAN]
    <3>1. c.entries \in Seq([l : Level, i : Entry, covers : SUBSET Flows, drop : BOOLEAN])
      BY DEF ProcConfig
    <3> QED BY <1>1, <3>1, ElementOfSeq
  <2>3. e[n] \in ParserRequest
    BY <1>1, <2>2 DEF ParserRequest
  <2> QED BY <2>3 DEF Request
<1>4. e \in Seq(Request) /\ Len(e) = N
  <2>1. e \in [1 .. N -> Request]
    BY <1>1, <1>3
  <2> HIDE DEF e
  <2> QED BY <2>1, FunctionIsSeq
<1>5. \A n \in DOMAIN c.entries :
        e[n] = [op |-> "modParserEntry", p |-> p, l |-> c.entries[n].l, i |-> c.entries[n].i,
                covers |-> c.entries[n].covers, drop |-> c.entries[n].drop]
  OBVIOUS
<1>6. s = <<r>> \o e
  BY DEF ParserScript
<1> HIDE DEF e, r
<1>7. <<r>> \in Seq(Request) /\ Len(<<r>>) = 1 /\ <<r>>[1] = r
  BY <1>2
<1>8. /\ s \in Seq(Request) /\ Len(s) = 1 + N /\ s[1] = r
      /\ \A n \in 1 .. N : s[1 + n] = e[n]
  BY <1>4, <1>6, <1>7, Adjoining DEF Adjoin
<1> QED
  BY <1>1, <1>5, <1>8 DEF r, ParserCalls

\* The calls of the gateway: it is emptied, its relations are inserted, its default
\* entry is set and then the operations its bitmaps select.
GatewayCalls(p, c, s) ==
  /\ s \in Seq(Request) /\ Len(s) = 2 + Len(c.exps) + Len(c.next)
  /\ s[1] = [op |-> "clearRelationExp", p |-> p]
  /\ \A n \in DOMAIN c.exps :
       s[1 + n] = [op |-> "insertRelationExp", p |-> p, rel |-> c.exps[n]]
  /\ s[2 + Len(c.exps)] = [op |-> "setDefaultGateEntry", p |-> p, to |-> c.default]
  /\ \A n \in DOMAIN c.next :
       s[2 + Len(c.exps) + n] = [op |-> "modResMap", p |-> p, key |-> c.next[n].key,
                                 to |-> c.next[n].to]

\* extract_gateway makes those calls.
LEMMA GatewayScriptFacts ==
  ASSUME NEW p \in Proc, NEW c \in ProcConfig, NEW s, s = GatewayScript(p, c)
  PROVE  GatewayCalls(p, c, s)
<1> DEFINE r == [op |-> "clearRelationExp", p |-> p]
           e == [n \in DOMAIN c.exps |-> [op |-> "insertRelationExp", p |-> p, rel |-> c.exps[n]]]
           d == [op |-> "setDefaultGateEntry", p |-> p, to |-> c.default]
           x == [n \in DOMAIN c.next |->
                  [op |-> "modResMap", p |-> p, key |-> c.next[n].key, to |-> c.next[n].to]]
<1>1. PICK N \in Nat : N = Len(c.exps) /\ DOMAIN c.exps = 1 .. N
  BY DEF ProcConfig
<1>2. PICK M \in Nat : M = Len(c.next) /\ DOMAIN c.next = 1 .. M
  BY DEF ProcConfig
<1>3. r \in Request /\ d \in Request
  BY DEF ProcConfig, Request, GatewayRequest
<1>4. \A n \in 1 .. N : e[n] \in Request
  BY <1>1 DEF ProcConfig, Request, GatewayRequest
<1>5. \A n \in 1 .. M : x[n] \in Request
  <2>1. SUFFICES ASSUME NEW n \in 1 .. M PROVE x[n] \in Request
    OBVIOUS
  <2>2. c.next \in Seq([key : Key, to : Op])
    BY DEF ProcConfig
  <2>3. c.next[n] \in [key : Key, to : Op]
    BY <1>2, <2>2, ElementOfSeq
  <2>4. x[n] \in GatewayRequest
    BY <1>2, <2>3 DEF GatewayRequest
  <2> QED BY <2>4 DEF Request
<1>6. e \in Seq(Request) /\ Len(e) = N
  <2>1. e \in [1 .. N -> Request]
    BY <1>1, <1>4
  <2> HIDE DEF e
  <2> QED BY <2>1, FunctionIsSeq
<1>7. x \in Seq(Request) /\ Len(x) = M
  <2>1. x \in [1 .. M -> Request]
    BY <1>2, <1>5
  <2> HIDE DEF x
  <2> QED BY <2>1, FunctionIsSeq
<1>8. /\ \A n \in DOMAIN c.exps : e[n] = [op |-> "insertRelationExp", p |-> p, rel |-> c.exps[n]]
      /\ \A n \in DOMAIN c.next :
           x[n] = [op |-> "modResMap", p |-> p, key |-> c.next[n].key, to |-> c.next[n].to]
  OBVIOUS
<1>9. s = ((<<r>> \o e) \o <<d>>) \o x
  BY DEF GatewayScript
<1> HIDE DEF e, r, d, x
<1>10. <<r>> \in Seq(Request) /\ Len(<<r>>) = 1 /\ <<r>>[1] = r
  BY <1>3
<1>11. <<d>> \in Seq(Request) /\ Len(<<d>>) = 1 /\ <<d>>[1] = d
  BY <1>3
<1>12. PICK u : u = <<r>> \o e
  OBVIOUS
<1>13. u \in Seq(Request) /\ Len(u) = 1 + N /\ u[1] = r /\ \A n \in 1 .. N : u[1 + n] = e[n]
  BY <1>6, <1>10, <1>12, Adjoining DEF Adjoin
<1>14. PICK v : v = u \o <<d>>
  OBVIOUS
<1>15. /\ v \in Seq(Request) /\ Len(v) = 2 + N /\ v[2 + N] = d
       /\ \A n \in 1 .. 1 + N : v[n] = u[n]
  BY <1>11, <1>13, <1>14, Adjoining DEF Adjoin
<1>16. s = v \o x
  BY <1>9, <1>12, <1>14
<1>17. /\ s \in Seq(Request) /\ Len(s) = 2 + N + M
       /\ \A n \in 1 .. 2 + N : s[n] = v[n]
       /\ \A n \in 1 .. M : s[2 + N + n] = x[n]
  <2>1. /\ s \in Seq(Request) /\ Len(s) = Len(v) + Len(x)
        /\ \A i \in 1 .. Len(v) : s[i] = v[i]
        /\ \A i \in 1 .. Len(x) : s[Len(v) + i] = x[i]
    <3>1. v \in Seq(Request) /\ x \in Seq(Request)
      BY <1>7, <1>15
    <3> QED BY <1>16, <3>1, Adjoining DEF Adjoin
  <2>2. ASSUME NEW n \in 1 .. M PROVE s[2 + N + n] = x[n]
    <3>1. s[Len(v) + n] = x[n]
      BY <1>7, <2>1
    <3>2. Len(v) + n = 2 + N + n
      BY <1>15
    <3> QED BY <3>1, <3>2
  <2> QED BY <1>7, <1>15, <2>1, <2>2
<1>18. s[1] = r /\ s[2 + N] = d /\ \A n \in 1 .. N : s[1 + n] = e[n]
  BY <1>13, <1>15, <1>17
<1> QED
  BY <1>1, <1>2, <1>8, <1>17, <1>18 DEF r, d, GatewayCalls

\* The calls of a table.
TableCalls(p, tb, s) ==
  /\ s \in Seq(Request) /\ Len(s) = 3
  /\ s[1] = [op |-> "setMemConfig", p |-> p, t |-> tb.t, type |-> tb.type,
             depth |-> tb.depth, block |-> tb.block, miss |-> tb.miss]
  /\ s[2] = [op |-> "setActionProc", p |-> p, t |-> tb.t, map |-> tb.map]
  /\ s[3] = [op |-> "setFieldInfo", p |-> p, t |-> tb.t, keyed |-> tb.keyed]

\* extract_matcher makes those calls of one table.
LEMMA TableScriptFacts ==
  ASSUME NEW p \in Proc, NEW tb \in TableConfig, NEW s, s = TableScript(p, tb)
  PROVE  TableCalls(p, tb, s)
<1> DEFINE a == [op |-> "setMemConfig", p |-> p, t |-> tb.t, type |-> tb.type,
                 depth |-> tb.depth, block |-> tb.block, miss |-> tb.miss]
           b == [op |-> "setActionProc", p |-> p, t |-> tb.t, map |-> tb.map]
           d == [op |-> "setFieldInfo", p |-> p, t |-> tb.t, keyed |-> tb.keyed]
<1>1. a \in MatcherRequest
  BY DEF TableConfig, MatcherRequest
<1>2. b \in MatcherRequest
  BY DEF TableConfig, MatcherRequest
<1>3. d \in MatcherRequest
  BY DEF TableConfig, MatcherRequest
<1>4. s = <<a, b, d>>
  BY DEF TableScript
<1> HIDE DEF a, b, d
<1>5. a \in Request /\ b \in Request /\ d \in Request
  BY <1>1, <1>2, <1>3 DEF Request
<1> QED
  BY <1>4, <1>5 DEF a, b, d, TableCalls

\* The calls of the executor: one for every action.
ExecutorCalls(p, c, s) ==
  /\ s \in Seq(Request) /\ Len(s) = Len(c.actions)
  /\ \A n \in DOMAIN c.actions :
       s[n] = [op |-> "insertAction", p |-> p, a |-> c.actions[n].a,
               body |-> c.actions[n].body]

\* extract_executor makes those calls.
LEMMA ExecutorScriptFacts ==
  ASSUME NEW p \in Proc, NEW c \in ProcConfig, NEW s, s = ExecutorScript(p, c)
  PROVE  ExecutorCalls(p, c, s)
<1>1. PICK N \in Nat : N = Len(c.actions) /\ DOMAIN c.actions = 1 .. N
  BY DEF ProcConfig
<1>2. \A n \in 1 .. N : [op |-> "insertAction", p |-> p, a |-> c.actions[n].a,
                         body |-> c.actions[n].body] \in Request
  <2>1. SUFFICES ASSUME NEW n \in 1 .. N
                 PROVE  [op |-> "insertAction", p |-> p, a |-> c.actions[n].a,
                         body |-> c.actions[n].body] \in Request
    OBVIOUS
  <2>2. c.actions \in Seq([a : Act, body : Body])
    BY DEF ProcConfig
  <2>3. c.actions[n] \in [a : Act, body : Body]
    BY <1>1, <2>2, ElementOfSeq
  <2> QED BY <2>3 DEF Request, ExecutorRequest
<1>3. s = [n \in DOMAIN c.actions |-> [op |-> "insertAction", p |-> p, a |-> c.actions[n].a,
                                       body |-> c.actions[n].body]]
  BY DEF ExecutorScript
<1>4. s \in [1 .. N -> Request]
  BY <1>1, <1>2, <1>3
<1>5. s \in Seq(Request) /\ Len(s) = N
  BY <1>4, FunctionIsSeq
<1> QED
  BY <1>1, <1>3, <1>5 DEF ExecutorCalls

\* The calls of the tables, three of each.
MatcherCalls(p, c, s) ==
  /\ s \in Seq(Request) /\ Len(s) = 3 * Len(c.tables)
  /\ \A n \in DOMAIN c.tables : \A i \in 1 .. 3 :
       s[3 * (n - 1) + i] = TableScript(p, c.tables[n])[i]

\* extract_matcher makes those calls, table after table.
LEMMA MatcherScriptFacts ==
  ASSUME NEW p \in Proc, NEW c \in ProcConfig, NEW s, s = MatcherScript(p, c)
  PROVE  MatcherCalls(p, c, s)
<1>1. PICK N \in Nat : N = Len(c.tables) /\ DOMAIN c.tables = 1 .. N
  BY DEF ProcConfig
<1> DEFINE ss == [n \in 1 .. N |-> TableScript(p, c.tables[n])]
           M(q) == FlattenSeq([n \in 1 .. q |-> ss[n]])
           Right(q, m) == /\ m \in Seq(Request) /\ Len(m) = 3 * q
                          /\ \A n \in 1 .. q : \A i \in 1 .. 3 : m[3 * (n - 1) + i] = ss[n][i]
<1>2. ASSUME NEW n \in 1 .. N PROVE ss[n] \in Seq(Request) /\ Len(ss[n]) = 3
  <2>1. c.tables \in Seq(TableConfig)
    BY DEF ProcConfig
  <2>2. c.tables[n] \in TableConfig
    BY <1>1, <2>1, ElementOfSeq
  <2>3. ss[n] = TableScript(p, c.tables[n])
    OBVIOUS
  <2>4. TableCalls(p, c.tables[n], ss[n])
    BY <2>2, <2>3, TableScriptFacts
  <2> QED BY <2>4 DEF TableCalls
<1>3. s = M(N)
  <2>1. s = FlattenSeq(ss)
    BY <1>1 DEF MatcherScript
  <2>2. [n \in 1 .. N |-> ss[n]] = ss
    OBVIOUS
  <2> QED BY <2>1, <2>2
<1>4. \A n \in 1 .. N : ss[n] = TableScript(p, c.tables[n])
  OBVIOUS
<1> HIDE DEF ss
<1> DEFINE T == {q \in Nat : q <= N => Right(q, M(q))}
<1>5. 0 \in T
  <2>1. [n \in 1 .. 0 |-> ss[n]] = <<>>
    OBVIOUS
  <2>2. M(0) = <<>>
    BY <2>1 DEF FlattenSeq
  <2>3. Right(0, <<>>)
    OBVIOUS
  <2> HIDE DEF M, Right
  <2> QED BY <2>2, <2>3
<1>6. ASSUME NEW q \in T PROVE q + 1 \in T
  <2>1. SUFFICES ASSUME q + 1 <= N PROVE Right(q + 1, M(q + 1))
    <3> HIDE DEF M, Right
    <3> QED OBVIOUS
  <2>2. q \in Nat /\ q + 1 \in 1 .. N
    BY <2>1
  <2>3. Right(q, M(q))
    BY <2>1, <2>2
  <2>4. PICK ss1 : ss1 = [n \in 1 .. q + 1 |-> ss[n]]
    OBVIOUS
  <2>5. PICK ss0 : ss0 = [n \in 1 .. q |-> ss[n]]
    OBVIOUS
  <2>6. ss1 \in [1 .. q + 1 -> Seq(Request)] /\ ss1[q + 1] = ss[q + 1]
    BY <1>2, <2>2, <2>4
  <2>7. ss0 \in [1 .. q -> Seq(Request)] /\ \A i \in 1 .. q : ss0[i] = ss1[i]
    BY <1>2, <2>2, <2>4, <2>5
  <2>8. FlattenSeq(ss1) = FlattenSeq(ss0) \o ss1[q + 1]
    BY <2>2, <2>6, <2>7, FlattenNext
  <2>9. PICK m0 : m0 = M(q)
    OBVIOUS
  <2>10. PICK m1 : m1 = M(q + 1)
    OBVIOUS
  <2>11. m1 = m0 \o ss[q + 1]
    BY <2>4, <2>5, <2>6, <2>8, <2>9, <2>10
  <2>12. Right(q, m0)
    BY <2>3, <2>9
  <2> HIDE DEF M, T
  <2>13. ss[q + 1] \in Seq(Request) /\ Len(ss[q + 1]) = 3
    BY <1>2, <2>2
  <2>14. /\ m1 \in Seq(Request) /\ Len(m1) = Len(m0) + Len(ss[q + 1])
         /\ \A i \in 1 .. Len(m0) : m1[i] = m0[i]
         /\ \A i \in 1 .. Len(ss[q + 1]) : m1[Len(m0) + i] = ss[q + 1][i]
    <3>1. m0 \in Seq(Request)
      BY <2>12
    <3> HIDE DEF Right
    <3>2. Adjoin(m0, ss[q + 1], m1)
      BY <2>11, <2>13, <3>1, Adjoining
    <3> QED BY <3>2 DEF Adjoin
  <2>15. Len(m0) = 3 * q /\ Len(m1) = 3 * (q + 1)
    BY <2>2, <2>12, <2>13, <2>14
  <2>16. ASSUME NEW n \in 1 .. q + 1, NEW i \in 1 .. 3 PROVE m1[3 * (n - 1) + i] = ss[n][i]
    <3>1. CASE n \in 1 .. q
      <4>1. 3 * (n - 1) + i \in 1 .. Len(m0)
        BY <2>2, <2>15, <3>1
      <4> QED BY <2>12, <2>14, <3>1, <4>1
    <3>2. CASE n = q + 1
      <4>1. 3 * (n - 1) + i = Len(m0) + i /\ i \in 1 .. Len(ss[q + 1])
        BY <2>2, <2>13, <2>15, <3>2
      <4> QED BY <2>14, <3>2, <4>1
    <3> QED BY <2>2, <3>1, <3>2
  <2> QED BY <2>10, <2>14, <2>15, <2>16
<1>7. T = Nat
  <2>1. T \in SUBSET Nat
    OBVIOUS
  <2> HIDE DEF T
  <2> QED BY <1>5, <1>6, <2>1, Induction
<1>8. Right(N, M(N))
  <2>1. N \in T
    <3> HIDE DEF T
    <3> QED BY <1>7
  <2> HIDE DEF Right, M
  <2> QED BY <2>1
<1> HIDE DEF M
<1>9. /\ s \in Seq(Request) /\ Len(s) = 3 * N
      /\ \A n \in 1 .. N : \A i \in 1 .. 3 : s[3 * (n - 1) + i] = ss[n][i]
  BY <1>3, <1>8
<1> QED
  BY <1>1, <1>4, <1>9 DEF MatcherCalls

\* How many calls each part of a processor has.
ParserLen(c)   == 1 + Len(c.entries)
GatewayLen(c)  == 2 + Len(c.exps) + Len(c.next)
MatcherLen(c)  == 3 * Len(c.tables)
ExecutorLen(c) == Len(c.actions)

\* Where the calls of the parts begin.
GatewayFrom(c)  == ParserLen(c)
MatcherFrom(c)  == ParserLen(c) + GatewayLen(c)
ExecutorFrom(c) == ParserLen(c) + GatewayLen(c) + MatcherLen(c)
Whole(c)        == ParserLen(c) + GatewayLen(c) + MatcherLen(c) + ExecutorLen(c)

\* The lengths are naturals.
LEMMA LenTypes ==
  ASSUME NEW c \in ProcConfig
  PROVE  /\ Len(c.entries) \in Nat /\ Len(c.exps) \in Nat /\ Len(c.next) \in Nat
         /\ Len(c.tables) \in Nat /\ Len(c.actions) \in Nat
         /\ ParserLen(c) \in Nat /\ GatewayLen(c) \in Nat /\ MatcherLen(c) \in Nat
         /\ ExecutorLen(c) \in Nat /\ ParserLen(c) > 0
         /\ GatewayFrom(c) \in Nat /\ MatcherFrom(c) \in Nat /\ ExecutorFrom(c) \in Nat
         /\ Whole(c) \in Nat /\ Whole(c) > 0
<1>1. /\ Len(c.entries) \in Nat /\ Len(c.exps) \in Nat /\ Len(c.next) \in Nat
      /\ Len(c.tables) \in Nat /\ Len(c.actions) \in Nat
  BY DEF ProcConfig
<1>2. /\ ParserLen(c) \in Nat /\ GatewayLen(c) \in Nat /\ MatcherLen(c) \in Nat
      /\ ExecutorLen(c) \in Nat /\ ParserLen(c) > 0
  <2>1. ParserLen(c) \in Nat /\ ParserLen(c) > 0
    BY <1>1 DEF ParserLen
  <2>2. GatewayLen(c) \in Nat
    <3>1. PICK m \in Nat : m = Len(c.exps)
      BY <1>1
    <3>2. PICK n \in Nat : n = Len(c.next)
      BY <1>1
    <3>3. GatewayLen(c) = 2 + m + n
      BY <3>1, <3>2 DEF GatewayLen
    <3> QED BY <3>3
  <2>3. MatcherLen(c) \in Nat
    BY <1>1 DEF MatcherLen
  <2>4. ExecutorLen(c) \in Nat
    BY <1>1 DEF ExecutorLen
  <2> QED BY <2>1, <2>2, <2>3, <2>4
<1> QED
  BY <1>1, <1>2, SMTT(30) DEF GatewayFrom, MatcherFrom, ExecutorFrom, Whole

\* The calls of a processor, part after part.
ProcCalls(p, c, s) ==
  /\ s \in Seq(Request) /\ Len(s) = Whole(c)
  /\ \A i \in 1 .. ParserLen(c) : s[i] = ParserScript(p, c)[i]
  /\ \A i \in 1 .. GatewayLen(c) : s[GatewayFrom(c) + i] = GatewayScript(p, c)[i]
  /\ \A i \in 1 .. MatcherLen(c) : s[MatcherFrom(c) + i] = MatcherScript(p, c)[i]
  /\ \A i \in 1 .. ExecutorLen(c) : s[ExecutorFrom(c) + i] = ExecutorScript(p, c)[i]

\* The script of a processor is its four parts, one after the other.
LEMMA ProcScriptFacts ==
  ASSUME NEW p \in Proc, NEW c \in ProcConfig, c # None, NEW s, s = ProcScript(p, c)
  PROVE  ProcCalls(p, c, s)
<1>1. PICK a : a = ParserScript(p, c)
  OBVIOUS
<1>2. PICK b : b = GatewayScript(p, c)
  OBVIOUS
<1>3. PICK d : d = MatcherScript(p, c)
  OBVIOUS
<1>4. PICK e : e = ExecutorScript(p, c)
  OBVIOUS
<1>5. s = ((a \o b) \o d) \o e
  BY <1>1, <1>2, <1>3, <1>4 DEF ProcScript
<1>6. a \in Seq(Request) /\ Len(a) = ParserLen(c)
  <2>1. ParserCalls(p, c, a)
    BY <1>1, ParserScriptFacts
  <2> QED BY <2>1 DEF ParserCalls, ParserLen
<1>7. b \in Seq(Request) /\ Len(b) = GatewayLen(c)
  <2>1. GatewayCalls(p, c, b)
    BY <1>2, GatewayScriptFacts
  <2> QED BY <2>1 DEF GatewayCalls, GatewayLen
<1>8. d \in Seq(Request) /\ Len(d) = MatcherLen(c)
  <2>1. MatcherCalls(p, c, d)
    BY <1>3, MatcherScriptFacts
  <2> QED BY <2>1 DEF MatcherCalls, MatcherLen
<1>9. e \in Seq(Request) /\ Len(e) = ExecutorLen(c)
  <2>1. ExecutorCalls(p, c, e)
    BY <1>4, ExecutorScriptFacts
  <2> QED BY <2>1 DEF ExecutorCalls, ExecutorLen
<1>10. PICK ab : ab = a \o b
  OBVIOUS
<1>11. PICK abd : abd = ab \o d
  OBVIOUS
<1>12. s = abd \o e
  BY <1>5, <1>10, <1>11
<1>13. /\ ab \in Seq(Request) /\ Len(ab) = Len(a) + Len(b)
       /\ \A i \in 1 .. Len(a) : ab[i] = a[i]
       /\ \A i \in 1 .. Len(b) : ab[Len(a) + i] = b[i]
  <2>1. a \in Seq(Request) /\ b \in Seq(Request)
    BY <1>6, <1>7
  <2>2. Adjoin(a, b, ab)
    BY <1>10, <2>1, Adjoining
  <2> QED BY <2>2 DEF Adjoin
<1>14. /\ abd \in Seq(Request) /\ Len(abd) = Len(ab) + Len(d)
       /\ \A i \in 1 .. Len(ab) : abd[i] = ab[i]
       /\ \A i \in 1 .. Len(d) : abd[Len(ab) + i] = d[i]
  <2>1. ab \in Seq(Request) /\ d \in Seq(Request)
    BY <1>8, <1>13
  <2>2. Adjoin(ab, d, abd)
    BY <1>11, <2>1, Adjoining
  <2> QED BY <2>2 DEF Adjoin
<1>15. /\ s \in Seq(Request) /\ Len(s) = Len(abd) + Len(e)
       /\ \A i \in 1 .. Len(abd) : s[i] = abd[i]
       /\ \A i \in 1 .. Len(e) : s[Len(abd) + i] = e[i]
  <2>1. abd \in Seq(Request) /\ e \in Seq(Request)
    BY <1>9, <1>14
  <2>2. Adjoin(abd, e, s)
    BY <1>12, <2>1, Adjoining
  <2> QED BY <2>2 DEF Adjoin
<1>16. /\ ParserLen(c) \in Nat /\ GatewayLen(c) \in Nat /\ MatcherLen(c) \in Nat
       /\ ExecutorLen(c) \in Nat
  BY LenTypes
<1>17. /\ Len(a) = GatewayFrom(c) /\ Len(ab) = MatcherFrom(c) /\ Len(abd) = ExecutorFrom(c)
       /\ Len(s) = Whole(c)
  BY <1>6, <1>7, <1>8, <1>9, <1>13, <1>14, <1>15, <1>16
  DEF GatewayFrom, MatcherFrom, ExecutorFrom, Whole
<1>18. ASSUME NEW i \in 1 .. ParserLen(c) PROVE s[i] = a[i]
  <2>1. i \in 1 .. Len(a) /\ i \in 1 .. Len(ab) /\ i \in 1 .. Len(abd)
    BY <1>6, <1>7, <1>8, <1>13, <1>14, <1>16
  <2> QED BY <1>13, <1>14, <1>15, <2>1
<1>19. ASSUME NEW i \in 1 .. GatewayLen(c) PROVE s[GatewayFrom(c) + i] = b[i]
  <2>1. Len(a) + i \in 1 .. Len(ab) /\ Len(a) + i \in 1 .. Len(abd) /\ i \in 1 .. Len(b)
    BY <1>6, <1>7, <1>8, <1>13, <1>14, <1>16
  <2>2. s[Len(a) + i] = b[i]
    BY <1>13, <1>14, <1>15, <2>1
  <2> QED BY <1>17, <2>2
<1>20. ASSUME NEW i \in 1 .. MatcherLen(c) PROVE s[MatcherFrom(c) + i] = d[i]
  <2>1. Len(ab) + i \in 1 .. Len(abd) /\ i \in 1 .. Len(d)
    BY <1>6, <1>7, <1>8, <1>13, <1>14, <1>16
  <2>2. s[Len(ab) + i] = d[i]
    BY <1>14, <1>15, <2>1
  <2> QED BY <1>17, <2>2
<1>21. ASSUME NEW i \in 1 .. ExecutorLen(c) PROVE s[ExecutorFrom(c) + i] = e[i]
  <2>1. s[Len(abd) + i] = e[i]
    BY <1>9, <1>15
  <2> QED BY <1>17, <2>1
<1> QED
  BY <1>1, <1>2, <1>3, <1>4, <1>15, <1>17, <1>18, <1>19, <1>20, <1>21
  DEF ProcCalls

-----------------------------------------------------------------------------
(***************************************************************************)
(* The script of all processors: where the calls of each begin.            *)
(***************************************************************************)
\* The calls before those of a processor, and how many they are.
ScriptOf(cfg, p) == ProcScript(p, cfg[p])
Before(cfg, p)   == FlattenSeq([n \in 1 .. p |-> ScriptOf(cfg, n - 1)])
Offset(cfg, p)   == Len(Before(cfg, p))

\* It is a sequence of requests, empty for a processor that is not named.
LEMMA ScriptOfType ==
  ASSUME NEW cfg \in ConfigSpace, NEW p \in Proc
  PROVE  /\ ScriptOf(cfg, p) \in Seq(Request)
         /\ cfg[p] = None => Len(ScriptOf(cfg, p)) = 0
         /\ cfg[p] # None => /\ cfg[p] \in ProcConfig
                             /\ ProcCalls(p, cfg[p], ScriptOf(cfg, p))
                             /\ Len(ScriptOf(cfg, p)) = Whole(cfg[p])
<1>1. CASE cfg[p] = None
  <2>1. ScriptOf(cfg, p) = <<>>
    BY <1>1 DEF ScriptOf, ProcScript
  <2> QED BY <1>1, <2>1
<1>2. CASE cfg[p] # None
  <2>1. cfg[p] \in ProcConfig
    BY <1>2 DEF ConfigSpace
  <2>2. ProcCalls(p, cfg[p], ScriptOf(cfg, p))
    BY <1>2, <2>1, ProcScriptFacts DEF ScriptOf
  <2> QED BY <1>2, <2>1, <2>2 DEF ProcCalls
<1> QED
  BY <1>1, <1>2

\* Nothing is before the first processor.
LEMMA BeforeNone == \A cfg : Before(cfg, 0) = <<>> /\ Offset(cfg, 0) = 0
<1> SUFFICES ASSUME NEW cfg PROVE Before(cfg, 0) = <<>> /\ Offset(cfg, 0) = 0
  OBVIOUS
<1>1. [n \in 1 .. 0 |-> ScriptOf(cfg, n - 1)] = <<>>
  OBVIOUS
<1>2. Before(cfg, 0) = <<>>
  BY <1>1 DEF Before, FlattenSeq
<1> QED
  BY <1>2 DEF Offset

\* The calls of one processor more.
LEMMA BeforeNext ==
  ASSUME NEW cfg \in ConfigSpace, NEW q \in Proc
  PROVE  Before(cfg, q + 1) = Before(cfg, q) \o ScriptOf(cfg, q)
<1>1. q \in Nat
  BY SizeAssumption DEF Proc
<1>2. \A n \in 1 .. q + 1 : n - 1 \in Proc
  BY SizeAssumption DEF Proc
<1>3. PICK ss : ss = [n \in 1 .. q + 1 |-> ScriptOf(cfg, n - 1)]
  OBVIOUS
<1>4. PICK tt : tt = [n \in 1 .. q |-> ScriptOf(cfg, n - 1)]
  OBVIOUS
<1>5. ss \in [1 .. q + 1 -> Seq(Request)] /\ tt \in [1 .. q -> Seq(Request)]
  BY <1>1, <1>2, <1>3, <1>4, ScriptOfType
<1>6. (\A i \in 1 .. q : tt[i] = ss[i]) /\ ss[q + 1] = ScriptOf(cfg, (q + 1) - 1)
  BY <1>1, <1>3, <1>4
<1>7. FlattenSeq(ss) = FlattenSeq(tt) \o ss[q + 1]
  BY <1>1, <1>5, <1>6, FlattenNext
<1>8. (q + 1) - 1 = q
  BY <1>1
<1> QED
  BY <1>3, <1>4, <1>6, <1>7, <1>8 DEF Before

\* Every place before a processor's is one of an earlier processor's, and the calls
\* of the earlier processors are where their offsets say.
Laid(cfg, q) ==
  /\ Before(cfg, q) \in Seq(Request)
  /\ \A p \in Proc : p < q =>
       /\ Offset(cfg, p) + Len(ScriptOf(cfg, p)) <= Offset(cfg, q)
       /\ \A j \in 1 .. Len(ScriptOf(cfg, p)) :
            Before(cfg, q)[Offset(cfg, p) + j] = ScriptOf(cfg, p)[j]
  /\ \A m \in 1 .. Offset(cfg, q) :
       \E p \in Proc : /\ p < q
                       /\ m > Offset(cfg, p) /\ m <= Offset(cfg, p) + Len(ScriptOf(cfg, p))

\* The offset of a processor is a natural.
LEMMA OffsetNat ==
  ASSUME NEW cfg, NEW q, Laid(cfg, q)
  PROVE  Offset(cfg, q) \in Nat
  BY DEF Laid, Offset

\* So it stays with one processor more ...
LEMMA LaidNext ==
  ASSUME NEW cfg \in ConfigSpace, NEW q \in Proc, \A p \in Proc : p <= q => Laid(cfg, p)
  PROVE  Laid(cfg, q + 1)
<1>1. q \in Nat /\ q <= q /\ \A p \in Proc : p \in Nat
  BY SizeAssumption DEF Proc
<1>2. PICK b : b = Before(cfg, q)
  OBVIOUS
<1>3. PICK s : s = ScriptOf(cfg, q)
  OBVIOUS
<1>4. PICK bs : bs = Before(cfg, q + 1)
  OBVIOUS
<1>5. Laid(cfg, q)
  BY <1>1
<1>6. b \in Seq(Request) /\ s \in Seq(Request)
  BY <1>2, <1>3, <1>5, ScriptOfType DEF Laid
<1>7. bs = b \o s
  BY <1>2, <1>3, <1>4, BeforeNext
<1>8. Adjoin(b, s, bs)
  BY <1>6, <1>7, Adjoining
<1>9. Offset(cfg, q) = Len(b) /\ Offset(cfg, q + 1) = Len(bs)
  BY <1>2, <1>4 DEF Offset
<1>10. \A p \in Proc : p <= q => Offset(cfg, p) \in Nat /\ Len(ScriptOf(cfg, p)) \in Nat
  <2>1. SUFFICES ASSUME NEW p \in Proc, p <= q
                 PROVE  Offset(cfg, p) \in Nat /\ Len(ScriptOf(cfg, p)) \in Nat
    OBVIOUS
  <2>2. Laid(cfg, p)
    BY <2>1
  <2>3. ScriptOf(cfg, p) \in Seq(Request)
    BY ScriptOfType
  <2> QED BY <2>2, <2>3, OffsetNat
<1>11. ASSUME NEW p \in Proc, p < q + 1
       PROVE  /\ Offset(cfg, p) + Len(ScriptOf(cfg, p)) <= Offset(cfg, q + 1)
              /\ \A j \in 1 .. Len(ScriptOf(cfg, p)) :
                   bs[Offset(cfg, p) + j] = ScriptOf(cfg, p)[j]
  <2>1. CASE p = q
    <3>1. Offset(cfg, p) = Len(b) /\ ScriptOf(cfg, p) = s
      BY <1>3, <1>9, <2>1
    <3>2. /\ Len(b) + Len(s) <= Len(bs)
          /\ \A j \in 1 .. Len(s) : bs[Len(b) + j] = s[j]
      BY <1>8 DEF Adjoin
    <3> QED BY <1>9, <3>1, <3>2
  <2>2. CASE p # q
    <3>1. p < q /\ p <= q
      BY <1>1, <1>11, <2>2
    <3>2. /\ Offset(cfg, p) + Len(ScriptOf(cfg, p)) <= Len(b)
          /\ \A j \in 1 .. Len(ScriptOf(cfg, p)) : b[Offset(cfg, p) + j] = ScriptOf(cfg, p)[j]
      BY <1>2, <1>5, <1>9, <3>1 DEF Laid
    <3>3. PICK o \in Nat : o = Offset(cfg, p)
      BY <1>10, <3>1
    <3>4. PICK l \in Nat : l = Len(ScriptOf(cfg, p))
      BY <1>10, <3>1
    <3>5. o + l <= Len(b) /\ Len(bs) = Len(b) + Len(s) /\ Len(b) \in Nat /\ Len(s) \in Nat
      BY <1>8, <3>2, <3>3, <3>4 DEF Adjoin
    <3>6. o + l <= Len(bs)
      BY <3>5
    <3>7. ASSUME NEW j \in 1 .. l PROVE bs[o + j] = ScriptOf(cfg, p)[j]
      <4>1. o + j \in 1 .. Len(b)
        BY <3>5
      <4> QED BY <1>8, <3>2, <3>3, <3>4, <4>1 DEF Adjoin
    <3> QED BY <1>9, <3>3, <3>4, <3>6, <3>7
  <2> QED BY <2>1, <2>2
<1>12. ASSUME NEW m \in 1 .. Len(bs)
       PROVE  \E p \in Proc : /\ p < q + 1
                              /\ m > Offset(cfg, p)
                              /\ m <= Offset(cfg, p) + Len(ScriptOf(cfg, p))
  <2>1. m \in Nat /\ m > 0 /\ m <= Len(b) + Len(s) /\ Len(b) \in Nat /\ Len(s) \in Nat
    BY <1>8 DEF Adjoin
  <2>2. CASE m <= Len(b)
    <3>1. m \in 1 .. Offset(cfg, q)
      BY <1>9, <2>1, <2>2
    <3>2. PICK p \in Proc : /\ p < q
                            /\ m > Offset(cfg, p)
                            /\ m <= Offset(cfg, p) + Len(ScriptOf(cfg, p))
      BY <1>5, <3>1 DEF Laid
    <3>3. p < q + 1
      BY <1>1, <3>2
    <3> QED BY <3>2, <3>3
  <2>3. CASE m > Len(b)
    <3>1. q < q + 1
      BY <1>1
    <3>2. m > Offset(cfg, q) /\ m <= Offset(cfg, q) + Len(ScriptOf(cfg, q))
      BY <1>3, <1>9, <2>1, <2>3
    <3> QED BY <3>1, <3>2
  <2> QED BY <2>1, <2>2, <2>3
<1>13. bs \in Seq(Request)
  BY <1>8 DEF Adjoin
<1> QED
  BY <1>4, <1>9, <1>11, <1>12, <1>13 DEF Laid

\* ... and so it is before every processor.
LEMMA AllLaid ==
  ASSUME NEW cfg \in ConfigSpace
  PROVE  \A q \in 0 .. NumProcs : Laid(cfg, q)
<1> DEFINE T == {n \in Nat : \A q \in 0 .. n : q <= NumProcs => Laid(cfg, q)}
<1>1. 0 \in T
  <2>1. Laid(cfg, 0)
    <3>1. \A p \in Proc : ~ (p < 0)
      BY SizeAssumption DEF Proc
    <3>2. Before(cfg, 0) = <<>> /\ Offset(cfg, 0) = 0
      BY BeforeNone
    <3>3. \A p \in Proc : p < 0 => FALSE
      BY <3>1
    <3>4. <<>> \in Seq(Request) /\ \A m \in 1 .. 0 : FALSE
      OBVIOUS
    <3>5. Before(cfg, 0) \in Seq(Request)
      BY <3>2, <3>4
    <3>6. \A m \in 1 .. Offset(cfg, 0) : FALSE
      BY <3>2, <3>4
    <3> QED BY <3>3, <3>5, <3>6 DEF Laid
  <2>2. \A q \in 0 .. 0 : q = 0
    OBVIOUS
  <2> QED BY <2>1, <2>2
<1>2. ASSUME NEW n \in T PROVE n + 1 \in T
  <2>1. n \in Nat /\ \A q \in 0 .. n : q <= NumProcs => Laid(cfg, q)
    OBVIOUS
  <2>2. ASSUME NEW q \in 0 .. n + 1, q <= NumProcs PROVE Laid(cfg, q)
    <3>1. CASE q \in 0 .. n
      BY <2>1, <2>2, <3>1
    <3>2. CASE q = n + 1
      <4>1. n \in Proc
        BY <2>1, <2>2, <3>2, SizeAssumption DEF Proc
      <4>2. ASSUME NEW p \in Proc, p <= n PROVE Laid(cfg, p)
        <5>1. p \in 0 .. n /\ p <= NumProcs
          BY <2>1, <4>2, SizeAssumption DEF Proc
        <5> QED BY <2>1, <5>1
      <4> QED BY <3>2, <4>1, <4>2, LaidNext
    <3> QED BY <2>1, <3>1, <3>2
  <2> QED BY <2>1, <2>2
<1>3. T = Nat
  <2>1. T \in SUBSET Nat
    OBVIOUS
  <2> HIDE DEF T
  <2> QED BY <1>1, <1>2, <2>1, Induction
<1>4. NumProcs \in Nat /\ NumProcs \in T
  <2> HIDE DEF T
  <2> QED BY <1>3, SizeAssumption
<1> QED
  BY <1>4

\* The script, place by place: each belongs to one processor, and the others' calls
\* are all made before it or all after.
Places(cfg) ==
  /\ Script(cfg) \in Seq(Request)
  /\ \A p \in Proc : /\ Offset(cfg, p) \in Nat
                     /\ Len(ScriptOf(cfg, p)) \in Nat
                     /\ Offset(cfg, p) + Len(ScriptOf(cfg, p)) <= Len(Script(cfg))
  /\ \A p, q \in Proc : p < q => Offset(cfg, p) + Len(ScriptOf(cfg, p)) <= Offset(cfg, q)
  /\ \A p \in Proc : \A j \in 1 .. Len(ScriptOf(cfg, p)) :
       Script(cfg)[Offset(cfg, p) + j] = ScriptOf(cfg, p)[j]
  /\ \A m \in 1 .. Len(Script(cfg)) :
       \E p \in Proc : m > Offset(cfg, p) /\ m <= Offset(cfg, p) + Len(ScriptOf(cfg, p))

\* Every script has its places so.
LEMMA ScriptPlaces ==
  ASSUME NEW cfg \in ConfigSpace
  PROVE  Places(cfg)
<1>1. Script(cfg) = Before(cfg, NumProcs)
  BY DEF Script, Before, ScriptOf
<1>2. NumProcs \in 0 .. NumProcs /\ \A p \in Proc : p \in 0 .. NumProcs /\ p < NumProcs
  BY SizeAssumption DEF Proc
<1>3. Laid(cfg, NumProcs)
  BY <1>2, AllLaid
<1>4. Offset(cfg, NumProcs) = Len(Script(cfg))
  BY <1>1 DEF Offset
<1>5. Script(cfg) \in Seq(Request) /\ Len(Script(cfg)) \in Nat
  BY <1>1, <1>3 DEF Laid
<1>6. ASSUME NEW p \in Proc PROVE Offset(cfg, p) \in Nat /\ Len(ScriptOf(cfg, p)) \in Nat
  <2>1. Laid(cfg, p)
    BY <1>2, AllLaid
  <2>2. ScriptOf(cfg, p) \in Seq(Request)
    BY ScriptOfType
  <2> QED BY <2>1, <2>2, OffsetNat
<1>7. ASSUME NEW p \in Proc, NEW q \in Proc, p < q
      PROVE  Offset(cfg, p) + Len(ScriptOf(cfg, p)) <= Offset(cfg, q)
  <2>1. Laid(cfg, q)
    BY <1>2, AllLaid
  <2> QED BY <1>7, <2>1 DEF Laid
<1>8. \A p \in Proc :
        /\ Offset(cfg, p) + Len(ScriptOf(cfg, p)) <= Len(Script(cfg))
        /\ \A j \in 1 .. Len(ScriptOf(cfg, p)) :
             Script(cfg)[Offset(cfg, p) + j] = ScriptOf(cfg, p)[j]
  BY <1>1, <1>2, <1>3, <1>4 DEF Laid
<1>9. \A m \in 1 .. Len(Script(cfg)) :
        \E p \in Proc : m > Offset(cfg, p) /\ m <= Offset(cfg, p) + Len(ScriptOf(cfg, p))
  BY <1>3, <1>4 DEF Laid
<1> QED
  BY <1>5, <1>6, <1>7, <1>8, <1>9 DEF Places

-----------------------------------------------------------------------------
(***************************************************************************)
(* Which call has which place, and which place has which call.             *)
(***************************************************************************)
\* The calls of a processor, one name for each kind.
InitCall(p, c)    == [op |-> "initParserLevel", p |-> p, level |-> c.level]
EntryCall(p, e)   == [op |-> "modParserEntry", p |-> p, l |-> e.l, i |-> e.i,
                      covers |-> e.covers, drop |-> e.drop]
ClearCall(p)      == [op |-> "clearRelationExp", p |-> p]
ExpCall(p, x)     == [op |-> "insertRelationExp", p |-> p, rel |-> x]
DefaultCall(p, c) == [op |-> "setDefaultGateEntry", p |-> p, to |-> c.default]
NextCall(p, x)    == [op |-> "modResMap", p |-> p, key |-> x.key, to |-> x.to]
MemCall(p, tb)    == [op |-> "setMemConfig", p |-> p, t |-> tb.t, type |-> tb.type,
                      depth |-> tb.depth, block |-> tb.block, miss |-> tb.miss]
MapCall(p, tb)    == [op |-> "setActionProc", p |-> p, t |-> tb.t, map |-> tb.map]
FieldCall(p, tb)  == [op |-> "setFieldInfo", p |-> p, t |-> tb.t, keyed |-> tb.keyed]
ActionCall(p, x)  == [op |-> "insertAction", p |-> p, a |-> x.a, body |-> x.body]

\* Where each of them is, from the place before the processor's first.
EntryAt(c, n)   == 1 + n
ClearAt(c)      == GatewayFrom(c) + 1
ExpAt(c, n)     == GatewayFrom(c) + 1 + n
DefaultAt(c)    == GatewayFrom(c) + 2 + Len(c.exps)
NextAt(c, n)    == GatewayFrom(c) + 2 + Len(c.exps) + n
TableAt(c, n)   == MatcherFrom(c) + 3 * (n - 1)
ActionAt(c, n)  == ExecutorFrom(c) + n

\* The processor's calls are in the sequence, from a place on ...
Made(p, c, s, o) ==
  /\ s[o + 1] = InitCall(p, c)
  /\ \A n \in DOMAIN c.entries : s[o + EntryAt(c, n)] = EntryCall(p, c.entries[n])
  /\ s[o + ClearAt(c)] = ClearCall(p)
  /\ \A n \in DOMAIN c.exps : s[o + ExpAt(c, n)] = ExpCall(p, c.exps[n])
  /\ s[o + DefaultAt(c)] = DefaultCall(p, c)
  /\ \A n \in DOMAIN c.next : s[o + NextAt(c, n)] = NextCall(p, c.next[n])
  /\ \A n \in DOMAIN c.tables : /\ s[o + TableAt(c, n) + 1] = MemCall(p, c.tables[n])
                                /\ s[o + TableAt(c, n) + 2] = MapCall(p, c.tables[n])
                                /\ s[o + TableAt(c, n) + 3] = FieldCall(p, c.tables[n])
  /\ \A n \in DOMAIN c.actions : s[o + ActionAt(c, n)] = ActionCall(p, c.actions[n])

\* ... and each of those places is one of them.
Sorted(c, j) ==
  \/ j = 1
  \/ \E n \in DOMAIN c.entries : j = EntryAt(c, n)
  \/ j = ClearAt(c)
  \/ \E n \in DOMAIN c.exps : j = ExpAt(c, n)
  \/ j = DefaultAt(c)
  \/ \E n \in DOMAIN c.next : j = NextAt(c, n)
  \/ \E n \in DOMAIN c.tables : \/ j = TableAt(c, n) + 1
                                \/ j = TableAt(c, n) + 2
                                \/ j = TableAt(c, n) + 3
  \/ \E n \in DOMAIN c.actions : j = ActionAt(c, n)

\* Every place of a processor's calls is of one kind.
LEMMA AllSorted ==
  ASSUME NEW c \in ProcConfig
  PROVE  \A j \in 1 .. Whole(c) : Sorted(c, j)
<1>1. PICK E \in Nat : E = Len(c.entries) /\ DOMAIN c.entries = 1 .. E
  BY DEF ProcConfig
<1>2. PICK X \in Nat : X = Len(c.exps) /\ DOMAIN c.exps = 1 .. X
  BY DEF ProcConfig
<1>3. PICK N \in Nat : N = Len(c.next) /\ DOMAIN c.next = 1 .. N
  BY DEF ProcConfig
<1>4. PICK M \in Nat : M = Len(c.tables) /\ DOMAIN c.tables = 1 .. M
  BY DEF ProcConfig
<1>5. PICK A \in Nat : A = Len(c.actions) /\ DOMAIN c.actions = 1 .. A
  BY DEF ProcConfig
<1>6. /\ GatewayFrom(c) = 1 + E /\ MatcherFrom(c) = 1 + E + 2 + X + N
      /\ ExecutorFrom(c) = 1 + E + 2 + X + N + 3 * M
      /\ Whole(c) = 1 + E + 2 + X + N + 3 * M + A
  <2>1. ParserLen(c) = 1 + E
    BY <1>1 DEF ParserLen
  <2>2. GatewayLen(c) = 2 + X + N
    BY <1>2, <1>3 DEF GatewayLen
  <2>3. MatcherLen(c) = 3 * M
    BY <1>4 DEF MatcherLen
  <2>4. ExecutorLen(c) = A
    BY <1>5 DEF ExecutorLen
  <2>5. GatewayFrom(c) = 1 + E
    BY <2>1 DEF GatewayFrom
  <2>6. MatcherFrom(c) = 1 + E + 2 + X + N
    BY <2>1, <2>2 DEF MatcherFrom
  <2>7. ExecutorFrom(c) = 1 + E + 2 + X + N + 3 * M
    BY <2>1, <2>2, <2>3 DEF ExecutorFrom
  <2>8. Whole(c) = 1 + E + 2 + X + N + 3 * M + A
    BY <2>1, <2>2, <2>3, <2>4 DEF Whole
  <2> QED BY <2>5, <2>6, <2>7, <2>8
<1>7. SUFFICES ASSUME NEW j \in 1 .. 1 + E + 2 + X + N + 3 * M + A PROVE Sorted(c, j)
  BY <1>6
<1>8. CASE j <= 1 + E
  <2>1. j = 1 \/ (j - 1 \in 1 .. E /\ j = 1 + (j - 1))
    BY <1>8
  <2> QED BY <1>1, <2>1 DEF Sorted, EntryAt
<1>9. CASE j > 1 + E /\ j <= 1 + E + 2 + X
  <2>1. \/ j = 1 + E + 1
        \/ j - (2 + E) \in 1 .. X /\ j = 1 + E + 1 + (j - (2 + E))
        \/ j = 1 + E + 2 + X
    BY <1>9
  <2> QED BY <1>2, <1>6, <2>1 DEF Sorted, ClearAt, ExpAt, DefaultAt
<1>10. CASE j > 1 + E + 2 + X /\ j <= 1 + E + 2 + X + N
  <2>1. PICK n \in 1 .. N : j = 1 + E + 2 + X + n
    <3>1. /\ j - (1 + E + 2 + X) \in 1 .. N
          /\ j = 1 + E + 2 + X + (j - (1 + E + 2 + X))
      BY <1>10
    <3> QED BY <3>1
  <2>2. j = NextAt(c, n)
    BY <1>2, <1>6, <2>1 DEF NextAt
  <2> QED BY <1>3, <2>1, <2>2 DEF Sorted
<1>11. CASE j > 1 + E + 2 + X + N /\ j <= 1 + E + 2 + X + N + 3 * M
  <2>1. PICK z \in Nat : z = 1 + E + 2 + X + N
    OBVIOUS
  <2>2. PICK i \in 1 .. 3 * M : j = z + i
    <3>1. j - z \in 1 .. 3 * M /\ j = z + (j - z)
      BY <1>11, <2>1
    <3> QED BY <3>1
  <2>3. PICK n \in 1 .. M : \/ i = 3 * (n - 1) + 1
                            \/ i = 3 * (n - 1) + 2
                            \/ i = 3 * (n - 1) + 3
    <3>1. PICK k \in Int : i - 1 = 3 * k \/ i - 1 = 3 * k + 1 \/ i - 1 = 3 * k + 2
      <4>1. i - 1 \in Int
        OBVIOUS
      <4>2. /\ (i - 1) \div 3 \in Int
            /\ \/ i - 1 = 3 * ((i - 1) \div 3)
               \/ i - 1 = 3 * ((i - 1) \div 3) + 1
               \/ i - 1 = 3 * ((i - 1) \div 3) + 2
        BY <4>1
      <4> QED BY <4>2
    <3>2. k + 1 \in 1 .. M /\ (k + 1) - 1 = k
      BY <3>1
    <3>3. \/ i = 3 * ((k + 1) - 1) + 1
          \/ i = 3 * ((k + 1) - 1) + 2
          \/ i = 3 * ((k + 1) - 1) + 3
      BY <3>1, <3>2
    <3> QED BY <3>2, <3>3
  <2>4. n \in DOMAIN c.tables /\ TableAt(c, n) = z + 3 * (n - 1)
    BY <1>4, <1>6, <2>1 DEF TableAt
  <2>5. \/ j = TableAt(c, n) + 1
        \/ j = TableAt(c, n) + 2
        \/ j = TableAt(c, n) + 3
    BY <2>2, <2>3, <2>4
  <2> QED BY <2>4, <2>5 DEF Sorted
<1>12. CASE j > 1 + E + 2 + X + N + 3 * M
  <2>1. PICK z \in Nat : z = 1 + E + 2 + X + N + 3 * M
    OBVIOUS
  <2>2. j - z \in 1 .. A /\ j = z + (j - z)
    BY <1>12, <2>1
  <2>3. PICK n \in 1 .. A : j = z + n
    BY <2>2
  <2>4. j = ActionAt(c, n)
    BY <1>6, <2>1, <2>3 DEF ActionAt
  <2> QED BY <1>5, <2>3, <2>4 DEF Sorted
<1> QED
  BY <1>8, <1>9, <1>10, <1>11, <1>12

\* The sequence s holds the calls of a processor from a place on.
Copied(a, s, o) == \A j \in 1 .. Len(a) : s[o + j] = a[j]

\* Where a processor's calls are copied to, its calls are made.
LEMMA AllMade ==
  ASSUME NEW p \in Proc, NEW c \in ProcConfig, NEW a, ProcCalls(p, c, a),
         NEW s, NEW o \in Nat, Copied(a, s, o)
  PROVE  Made(p, c, s, o)
<1>1. PICK E \in Nat : E = Len(c.entries) /\ DOMAIN c.entries = 1 .. E
  BY DEF ProcConfig
<1>2. PICK X \in Nat : X = Len(c.exps) /\ DOMAIN c.exps = 1 .. X
  BY DEF ProcConfig
<1>3. PICK N \in Nat : N = Len(c.next) /\ DOMAIN c.next = 1 .. N
  BY DEF ProcConfig
<1>4. PICK M \in Nat : M = Len(c.tables) /\ DOMAIN c.tables = 1 .. M
  BY DEF ProcConfig
<1>5. PICK A \in Nat : A = Len(c.actions) /\ DOMAIN c.actions = 1 .. A
  BY DEF ProcConfig
<1>6. /\ ParserLen(c) = 1 + E /\ GatewayLen(c) = 2 + X + N /\ MatcherLen(c) = 3 * M
      /\ ExecutorLen(c) = A
  BY <1>1, <1>2, <1>3, <1>4, <1>5 DEF ParserLen, GatewayLen, MatcherLen, ExecutorLen
<1>7. /\ GatewayFrom(c) = 1 + E /\ MatcherFrom(c) = 3 + E + X + N
      /\ ExecutorFrom(c) = 3 + E + X + N + 3 * M /\ Whole(c) = 3 + E + X + N + 3 * M + A
  BY <1>6 DEF GatewayFrom, MatcherFrom, ExecutorFrom, Whole
<1>8. Len(a) = Whole(c)
  BY DEF ProcCalls
<1>9. ASSUME NEW i \in 1 .. 1 + E PROVE s[o + i] = ParserScript(p, c)[i]
  <2>1. i \in 1 .. Len(a)
    BY <1>7, <1>8
  <2>2. a[i] = ParserScript(p, c)[i]
    BY <1>6 DEF ProcCalls
  <2> QED BY <2>1, <2>2 DEF Copied
<1>10. ASSUME NEW i \in 1 .. 2 + X + N PROVE s[o + (1 + E + i)] = GatewayScript(p, c)[i]
  <2>1. 1 + E + i \in 1 .. Len(a)
    BY <1>7, <1>8
  <2>2. a[1 + E + i] = GatewayScript(p, c)[i]
    BY <1>6, <1>7 DEF ProcCalls
  <2> QED BY <2>1, <2>2 DEF Copied
<1>11. ASSUME NEW i \in 1 .. 3 * M PROVE s[o + (MatcherFrom(c) + i)] = MatcherScript(p, c)[i]
  <2>1. MatcherFrom(c) + i \in 1 .. Len(a)
    BY <1>7, <1>8
  <2>2. a[MatcherFrom(c) + i] = MatcherScript(p, c)[i]
    BY <1>6 DEF ProcCalls
  <2> QED BY <2>1, <2>2 DEF Copied
<1>12. ASSUME NEW i \in 1 .. A PROVE s[o + (ExecutorFrom(c) + i)] = ExecutorScript(p, c)[i]
  <2>1. ExecutorFrom(c) + i \in 1 .. Len(a)
    BY <1>7, <1>8
  <2>2. a[ExecutorFrom(c) + i] = ExecutorScript(p, c)[i]
    BY <1>6 DEF ProcCalls
  <2> QED BY <2>1, <2>2 DEF Copied
<1>13. /\ s[o + 1] = InitCall(p, c)
       /\ \A n \in DOMAIN c.entries : s[o + EntryAt(c, n)] = EntryCall(p, c.entries[n])
  <2>1. ParserCalls(p, c, ParserScript(p, c))
    BY ParserScriptFacts
  <2>2. ParserScript(p, c)[1] = InitCall(p, c)
    BY <2>1 DEF ParserCalls, InitCall
  <2>3. 1 \in 1 .. 1 + E /\ \A n \in 1 .. E : 1 + n \in 1 .. 1 + E
    OBVIOUS
  <2>4. \A n \in DOMAIN c.entries : ParserScript(p, c)[1 + n] = EntryCall(p, c.entries[n])
    BY <2>1 DEF ParserCalls, EntryCall
  <2> QED BY <1>1, <1>9, <2>2, <2>3, <2>4 DEF EntryAt
<1>14. /\ s[o + ClearAt(c)] = ClearCall(p)
       /\ \A n \in DOMAIN c.exps : s[o + ExpAt(c, n)] = ExpCall(p, c.exps[n])
       /\ s[o + DefaultAt(c)] = DefaultCall(p, c)
       /\ \A n \in DOMAIN c.next : s[o + NextAt(c, n)] = NextCall(p, c.next[n])
  <2>1. PICK g : g = GatewayScript(p, c)
    OBVIOUS
  <2>2. GatewayCalls(p, c, g)
    BY <2>1, GatewayScriptFacts
  <2>3. /\ g[1] = ClearCall(p) /\ g[2 + X] = DefaultCall(p, c)
        /\ \A n \in 1 .. X : g[1 + n] = ExpCall(p, c.exps[n])
        /\ \A n \in 1 .. N : g[2 + X + n] = NextCall(p, c.next[n])
    BY <1>2, <1>3, <2>2 DEF GatewayCalls, ClearCall, DefaultCall, ExpCall, NextCall
  <2>4. /\ 1 \in 1 .. 2 + X + N /\ 2 + X \in 1 .. 2 + X + N
        /\ \A n \in 1 .. X : 1 + n \in 1 .. 2 + X + N
        /\ \A n \in 1 .. N : 2 + X + n \in 1 .. 2 + X + N
    OBVIOUS
  <2>5. ClearAt(c) = 1 + E + 1 /\ DefaultAt(c) = 1 + E + (2 + X)
    <3>1. DefaultAt(c) = 1 + E + 2 + X /\ ClearAt(c) = 1 + E + 1
      BY <1>2, <1>7 DEF ClearAt, DefaultAt
    <3>2. 1 + E + 2 + X = 1 + E + (2 + X)
      OBVIOUS
    <3> QED BY <3>1, <3>2
  <2>6. \A n \in 1 .. X : ExpAt(c, n) = 1 + E + (1 + n)
    BY <1>7 DEF ExpAt
  <2>7. \A n \in 1 .. N : NextAt(c, n) = 1 + E + (2 + X + n)
    <3>1. SUFFICES ASSUME NEW n \in 1 .. N PROVE NextAt(c, n) = 1 + E + (2 + X + n)
      OBVIOUS
    <3>2. NextAt(c, n) = 1 + E + 2 + X + n
      BY <1>2, <1>7 DEF NextAt
    <3>3. 1 + E + 2 + X + n = 1 + E + (2 + X + n)
      OBVIOUS
    <3> QED BY <3>2, <3>3
  <2>8. s[o + ClearAt(c)] = ClearCall(p) /\ s[o + DefaultAt(c)] = DefaultCall(p, c)
    BY <1>10, <2>1, <2>3, <2>4, <2>5
  <2>9. \A n \in DOMAIN c.exps : s[o + ExpAt(c, n)] = ExpCall(p, c.exps[n])
    BY <1>2, <1>10, <2>1, <2>3, <2>4, <2>6
  <2>10. \A n \in DOMAIN c.next : s[o + NextAt(c, n)] = NextCall(p, c.next[n])
    BY <1>3, <1>10, <2>1, <2>3, <2>4, <2>7
  <2> QED BY <2>8, <2>9, <2>10
<1>15. ASSUME NEW n \in DOMAIN c.tables
       PROVE  /\ s[o + TableAt(c, n) + 1] = MemCall(p, c.tables[n])
              /\ s[o + TableAt(c, n) + 2] = MapCall(p, c.tables[n])
              /\ s[o + TableAt(c, n) + 3] = FieldCall(p, c.tables[n])
  <2>1. PICK g : g = MatcherScript(p, c)
    OBVIOUS
  <2>2. MatcherCalls(p, c, g)
    BY <2>1, MatcherScriptFacts
  <2>3. n \in 1 .. M /\ n \in Int
    BY <1>4
  <2>4. c.tables[n] \in TableConfig
    <3>1. c.tables \in Seq(TableConfig)
      BY DEF ProcConfig
    <3> QED BY <1>4, <2>3, <3>1, ElementOfSeq
  <2>5. TableCalls(p, c.tables[n], TableScript(p, c.tables[n]))
    BY <2>4, TableScriptFacts
  <2>6. /\ g[3 * (n - 1) + 1] = MemCall(p, c.tables[n])
        /\ g[3 * (n - 1) + 2] = MapCall(p, c.tables[n])
        /\ g[3 * (n - 1) + 3] = FieldCall(p, c.tables[n])
    <3>1. PICK u : u = TableScript(p, c.tables[n])
      OBVIOUS
    <3>2. /\ u[1] = MemCall(p, c.tables[n]) /\ u[2] = MapCall(p, c.tables[n])
          /\ u[3] = FieldCall(p, c.tables[n])
      BY <2>5, <3>1 DEF TableCalls, MemCall, MapCall, FieldCall
    <3>3. \A i \in 1 .. 3 : g[3 * (n - 1) + i] = u[i]
      BY <2>2, <3>1 DEF MatcherCalls
    <3>4. 1 \in 1 .. 3 /\ 2 \in 1 .. 3 /\ 3 \in 1 .. 3
      OBVIOUS
    <3> QED BY <3>2, <3>3, <3>4
  <2>7. ASSUME NEW i \in 1 .. 3 PROVE s[o + TableAt(c, n) + i] = g[3 * (n - 1) + i]
    <3>1. 3 * (n - 1) + i \in 1 .. 3 * M
      BY <2>3
    <3>2. o + TableAt(c, n) + i = o + (MatcherFrom(c) + (3 * (n - 1) + i))
      BY <1>7, <2>3 DEF TableAt
    <3> QED BY <1>11, <2>1, <3>1, <3>2
  <2> QED BY <2>6, <2>7
<1>16. ASSUME NEW n \in DOMAIN c.actions
       PROVE  s[o + ActionAt(c, n)] = ActionCall(p, c.actions[n])
  <2>1. ExecutorCalls(p, c, ExecutorScript(p, c))
    BY ExecutorScriptFacts
  <2>2. ExecutorScript(p, c)[n] = ActionCall(p, c.actions[n])
    BY <2>1 DEF ExecutorCalls, ActionCall
  <2> QED BY <1>5, <1>12, <2>2 DEF ActionAt
<1> QED
  BY <1>13, <1>14, <1>15, <1>16 DEF Made

\* The remote calls ctrl_init_dataplane makes.
ScriptOps == {"initParserLevel", "modParserEntry", "clearRelationExp", "insertRelationExp",
              "setDefaultGateEntry", "modResMap", "setMemConfig", "setActionProc",
              "setFieldInfo", "insertAction"}

\* Where a call of a kind can be among a processor's.
PlaceOf(c, op, j) ==
  /\ op \in ScriptOps
  /\ op = "initParserLevel" => j = 1
  /\ op = "modParserEntry" => \E n \in DOMAIN c.entries : j = EntryAt(c, n)
  /\ op = "clearRelationExp" => j = ClearAt(c)
  /\ op = "insertRelationExp" => \E n \in DOMAIN c.exps : j = ExpAt(c, n)
  /\ op = "setDefaultGateEntry" => j = DefaultAt(c)
  /\ op = "modResMap" => \E n \in DOMAIN c.next : j = NextAt(c, n)
  /\ op = "setMemConfig" => \E n \in DOMAIN c.tables : j = TableAt(c, n) + 1
  /\ op = "setActionProc" => \E n \in DOMAIN c.tables : j = TableAt(c, n) + 2
  /\ op = "setFieldInfo" => \E n \in DOMAIN c.tables : j = TableAt(c, n) + 3
  /\ op = "insertAction" => \E n \in DOMAIN c.actions : j = ActionAt(c, n)

\* The call at a place is one of the processor's, and has a place of its kind.
Found(p, c, s, o, j) == s[o + j].p = p /\ PlaceOf(c, s[o + j].op, j)

\* A call made is found where its kind can be.
LEMMA SortedCall ==
  ASSUME NEW p, NEW c \in ProcConfig, NEW s, NEW o \in Nat, NEW j, Made(p, c, s, o), Sorted(c, j)
  PROVE  Found(p, c, s, o, j)
<1> SUFFICES s[o + j].p = p /\ PlaceOf(c, s[o + j].op, j)
  BY DEF Found
<1> DEFINE x == s[o + j]
<1>1. CASE j = 1
  <2>1. x = InitCall(p, c)
    BY <1>1 DEF Made
  <2>2. x.p = p /\ x.op = "initParserLevel"
    BY <2>1 DEF InitCall
  <2> QED BY <1>1, <2>2 DEF PlaceOf, ScriptOps
<1>2. CASE \E n \in DOMAIN c.entries : j = EntryAt(c, n)
  <2>1. PICK n \in DOMAIN c.entries : j = EntryAt(c, n)
    BY <1>2
  <2>2. x = EntryCall(p, c.entries[n])
    BY <2>1 DEF Made
  <2>3. x.p = p /\ x.op = "modParserEntry"
    BY <2>2 DEF EntryCall
  <2> QED BY <1>2, <2>3 DEF PlaceOf, ScriptOps
<1>3. CASE j = ClearAt(c)
  <2>1. x = ClearCall(p)
    BY <1>3 DEF Made
  <2>2. x.p = p /\ x.op = "clearRelationExp"
    BY <2>1 DEF ClearCall
  <2> QED BY <1>3, <2>2 DEF PlaceOf, ScriptOps
<1>4. CASE \E n \in DOMAIN c.exps : j = ExpAt(c, n)
  <2>1. PICK n \in DOMAIN c.exps : j = ExpAt(c, n)
    BY <1>4
  <2>2. x = ExpCall(p, c.exps[n])
    BY <2>1 DEF Made
  <2>3. x.p = p /\ x.op = "insertRelationExp"
    BY <2>2 DEF ExpCall
  <2> QED BY <1>4, <2>3 DEF PlaceOf, ScriptOps
<1>5. CASE j = DefaultAt(c)
  <2>1. x = DefaultCall(p, c)
    BY <1>5 DEF Made
  <2>2. x.p = p /\ x.op = "setDefaultGateEntry"
    BY <2>1 DEF DefaultCall
  <2> QED BY <1>5, <2>2 DEF PlaceOf, ScriptOps
<1>6. CASE \E n \in DOMAIN c.next : j = NextAt(c, n)
  <2>1. PICK n \in DOMAIN c.next : j = NextAt(c, n)
    BY <1>6
  <2>2. x = NextCall(p, c.next[n])
    BY <2>1 DEF Made
  <2>3. x.p = p /\ x.op = "modResMap"
    BY <2>2 DEF NextCall
  <2> QED BY <1>6, <2>3 DEF PlaceOf, ScriptOps
<1>7. CASE \E n \in DOMAIN c.tables : \/ j = TableAt(c, n) + 1
                                      \/ j = TableAt(c, n) + 2
                                      \/ j = TableAt(c, n) + 3
  <2>1. PICK n \in DOMAIN c.tables : \/ j = TableAt(c, n) + 1
                                     \/ j = TableAt(c, n) + 2
                                     \/ j = TableAt(c, n) + 3
    BY <1>7
  <2>2. TableAt(c, n) \in Int
    <3>1. MatcherFrom(c) \in Nat
      BY LenTypes
    <3>2. n \in Nat
      BY DEF ProcConfig
    <3> QED BY <3>1, <3>2 DEF TableAt
  <2>3. \A i \in Nat : o + (TableAt(c, n) + i) = o + TableAt(c, n) + i
    BY <2>2
  <2>4. CASE j = TableAt(c, n) + 1
    <3>1. x = MemCall(p, c.tables[n])
      BY <2>3, <2>4 DEF Made
    <3>2. x.p = p /\ x.op = "setMemConfig"
      BY <3>1 DEF MemCall
    <3> QED BY <2>4, <3>2 DEF PlaceOf, ScriptOps
  <2>5. CASE j = TableAt(c, n) + 2
    <3>1. x = MapCall(p, c.tables[n])
      BY <2>3, <2>5 DEF Made
    <3>2. x.p = p /\ x.op = "setActionProc"
      BY <3>1 DEF MapCall
    <3> QED BY <2>5, <3>2 DEF PlaceOf, ScriptOps
  <2>6. CASE j = TableAt(c, n) + 3
    <3>1. x = FieldCall(p, c.tables[n])
      BY <2>3, <2>6 DEF Made
    <3>2. x.p = p /\ x.op = "setFieldInfo"
      BY <3>1 DEF FieldCall
    <3> QED BY <2>6, <3>2 DEF PlaceOf, ScriptOps
  <2> QED BY <2>1, <2>4, <2>5, <2>6
<1>8. CASE \E n \in DOMAIN c.actions : j = ActionAt(c, n)
  <2>1. PICK n \in DOMAIN c.actions : j = ActionAt(c, n)
    BY <1>8
  <2>2. x = ActionCall(p, c.actions[n])
    BY <2>1 DEF Made
  <2>3. x.p = p /\ x.op = "insertAction"
    BY <2>2 DEF ActionCall
  <2> QED BY <1>8, <2>3 DEF PlaceOf, ScriptOps
<1> QED
  BY <1>1, <1>2, <1>3, <1>4, <1>5, <1>6, <1>7, <1>8 DEF Sorted

\* The calls of one processor in a script, and the places they have.
Owns(p, c, s, o) ==
  /\ o \in Nat /\ c \in ProcConfig /\ s \in Seq(Request) /\ o + Whole(c) <= Len(s)
  /\ Made(p, c, s, o)
  /\ \A m \in 1 .. Len(s) :
       s[m].p = p => /\ m - o \in 1 .. Whole(c) /\ m = o + (m - o)
                     /\ PlaceOf(c, s[m].op, m - o)

\* The script of a configuration.
Scripted(cfg, s) ==
  /\ s \in Seq(Request)
  /\ \A p \in Proc : cfg[p] # None => Owns(p, cfg[p], s, Offset(cfg, p))
  /\ \A m \in 1 .. Len(s) : /\ s[m].p \in Proc /\ cfg[s[m].p] # None
                            /\ s[m].op \in ScriptOps

\* Script yields such a script.
LEMMA ScriptFacts ==
  ASSUME NEW cfg \in ConfigSpace, NEW s, s = Script(cfg)
  PROVE  Scripted(cfg, s)
<1>1. Places(cfg)
  BY ScriptPlaces
<1>2. s \in Seq(Request)
  BY <1>1 DEF Places
<1>3. ASSUME NEW p \in Proc, cfg[p] # None
      PROVE  /\ Offset(cfg, p) \in Nat /\ cfg[p] \in ProcConfig
             /\ Made(p, cfg[p], s, Offset(cfg, p))
             /\ Len(ScriptOf(cfg, p)) = Whole(cfg[p])
             /\ Offset(cfg, p) + Whole(cfg[p]) <= Len(s)
  <2>1. /\ cfg[p] \in ProcConfig /\ ProcCalls(p, cfg[p], ScriptOf(cfg, p))
        /\ Len(ScriptOf(cfg, p)) = Whole(cfg[p])
    BY <1>3, ScriptOfType
  <2>2. PICK o \in Nat : o = Offset(cfg, p)
    BY <1>1 DEF Places
  <2>3. PICK a : a = ScriptOf(cfg, p)
    OBVIOUS
  <2>4. Copied(a, s, o)
    BY <1>1, <2>2, <2>3 DEF Places, Copied
  <2>5. Made(p, cfg[p], s, o)
    BY <2>1, <2>3, <2>4, AllMade
  <2>6. Offset(cfg, p) + Len(ScriptOf(cfg, p)) <= Len(s)
    BY <1>1 DEF Places
  <2> QED BY <2>1, <2>2, <2>5, <2>6
<1>4. ASSUME NEW m \in 1 .. Len(s)
      PROVE  \E p \in Proc : /\ s[m].p = p /\ cfg[p] # None
                             /\ m - Offset(cfg, p) \in 1 .. Whole(cfg[p])
                             /\ m = Offset(cfg, p) + (m - Offset(cfg, p))
                             /\ PlaceOf(cfg[p], s[m].op, m - Offset(cfg, p))
  <2>1. PICK p \in Proc : /\ m > Offset(cfg, p)
                          /\ m <= Offset(cfg, p) + Len(ScriptOf(cfg, p))
    BY <1>1 DEF Places
  <2>2. PICK o \in Nat : o = Offset(cfg, p)
    BY <1>1 DEF Places
  <2>3. PICK l \in Nat : l = Len(ScriptOf(cfg, p))
    BY <1>1 DEF Places
  <2>4. m \in Nat
    BY <1>2
  <2>5. m - o \in 1 .. l /\ m = o + (m - o)
    <3>1. m > o /\ m <= o + l
      BY <2>1, <2>2, <2>3
    <3> QED BY <2>4, <3>1
  <2>6. cfg[p] # None
    BY <2>3, <2>5, ScriptOfType
  <2>7. l = Whole(cfg[p]) /\ cfg[p] \in ProcConfig /\ Made(p, cfg[p], s, o)
    BY <1>3, <2>2, <2>3, <2>6
  <2>8. PICK j : j = m - o
    OBVIOUS
  <2>9. Sorted(cfg[p], j)
    BY <2>5, <2>7, <2>8, AllSorted
  <2>10. s[o + j].p = p /\ PlaceOf(cfg[p], s[o + j].op, j)
    <3>1. PICK c : c = cfg[p]
      OBVIOUS
    <3>2. c \in ProcConfig /\ Made(p, c, s, o) /\ Sorted(c, j)
      BY <2>7, <2>9, <3>1
    <3>3. Found(p, c, s, o, j)
      BY <3>2, SortedCall
    <3> QED BY <3>1, <3>3 DEF Found
  <2>11. m = o + j
    BY <2>5, <2>8
  <2>12. s[m].p = p /\ PlaceOf(cfg[p], s[m].op, m - o)
    BY <2>8, <2>10, <2>11
  <2>13. /\ m - Offset(cfg, p) \in 1 .. Whole(cfg[p])
         /\ m = Offset(cfg, p) + (m - Offset(cfg, p))
    BY <2>2, <2>5, <2>7
  <2> QED BY <2>2, <2>6, <2>12, <2>13
<1>5. ASSUME NEW p \in Proc, cfg[p] # None PROVE Owns(p, cfg[p], s, Offset(cfg, p))
  BY <1>2, <1>3, <1>4, <1>5 DEF Owns
<1>6. ASSUME NEW m \in 1 .. Len(s)
      PROVE  s[m].p \in Proc /\ cfg[s[m].p] # None /\ s[m].op \in ScriptOps
  BY <1>4 DEF PlaceOf
<1> QED
  BY <1>2, <1>5, <1>6 DEF Scripted

-----------------------------------------------------------------------------
(***************************************************************************)
(* What a call leaves in the switch, and which later call undoes it.       *)
(***************************************************************************)
\* Two calls about one table.
SameTable(x, y) == x.p = y.p /\ x.t = y.t

\* A call that undoes what an earlier one did.
Overrides(x, y) ==
  \/ /\ x.op = "initParserLevel" /\ y.op = "initParserLevel" /\ x.p = y.p
  \/ /\ x.op = "modParserEntry" /\ y.op = "modParserEntry"
     /\ x.p = y.p /\ x.l = y.l /\ x.i = y.i
  \/ /\ x.op = "clearRelationExp" /\ y.op \in {"clearRelationExp", "setDefaultGateEntry"}
     /\ x.p = y.p
  \/ /\ x.op = "setDefaultGateEntry" /\ y.op = "setDefaultGateEntry" /\ x.p = y.p
  \/ /\ x.op = "setMemConfig" /\ y.op \in {"setMemConfig", "setActionProc", "setFieldInfo"}
     /\ SameTable(x, y)
  \/ /\ x.op = "setActionProc" /\ y.op = "setActionProc" /\ SameTable(x, y)
  \/ /\ x.op = "setFieldInfo" /\ y.op = "setFieldInfo" /\ SameTable(x, y)
  \/ /\ x.op = "insertAction" /\ y.op = "insertAction" /\ x.p = y.p /\ x.a = y.a

\* What the switch holds once a call has returned, and no other has undone it.
ParserHolds(r) ==
  /\ r.op = "initParserLevel" => parser[r.p].working /\ parser[r.p].level = r.level
  /\ r.op = "modParserEntry" =>
       parser[r.p].entries[r.l][r.i] = [covers |-> r.covers, drop |-> r.drop]

\* The default entry of the gateway.
GateHolds(r) == r.op = "setDefaultGateEntry" => gateway[r.p].default = r.to

\* The settings of the table, and that it is in use.
TableHolds(r) ==
  LET m == matcher[r.p][r.t]
  IN /\ r.op = "setMemConfig" => /\ ~ m.noTable /\ m.type = r.type
                                 /\ m.depth = r.depth /\ m.miss = r.miss
                                 /\ r.depth > 0 => m.block = r.block
     /\ r.op = "setActionProc" => \A a \in Choice : r.map[a] # None => m.map[a] = r.map[a]
     /\ r.op = "setFieldInfo" => m.keyed = r.keyed

\* The action in its slot.
ActionHolds(r) ==
  r.op = "insertAction" => exe[r.p][r.a] = [st |-> "live", body |-> r.body]

\* All of it: entries may come, and this stays.
Holds(r) == ParserHolds(r) /\ GateHolds(r) /\ TableHolds(r) /\ ActionHolds(r)

\* A request of a script, by its parts.
ScriptCall(r) ==
  /\ r \in Request /\ r.op \in ScriptOps /\ r.p \in Proc
  /\ r.op = "initParserLevel" => r.level \in 0 .. NumLevels
  /\ r.op = "modParserEntry" => r.l \in Level /\ r.i \in Entry
  /\ r.op = "modResMap" => r.key \in Key
  /\ r.op \in {"setMemConfig", "setActionProc", "setFieldInfo"} => r.t \in Table
  /\ r.op = "setMemConfig" => /\ r.type \in TableType /\ r.depth \in {0, 1}
                               /\ r.block \in Block /\ r.miss \in Choice
  /\ r.op = "setActionProc" => r.map \in [Choice -> Target \cup {None}]
  /\ r.op = "insertAction" => r.a \in Act

\* Every request of one of these calls has those parts.
LEMMA ScriptCallType == \A r \in Request : r.op \in ScriptOps => ScriptCall(r)
<1> SUFFICES ASSUME NEW r \in Request, r.op \in ScriptOps PROVE ScriptCall(r)
  OBVIOUS
<1>1. r \in Call
  BY DEF Call
<1> QED
  BY <1>1, ParserFields, GatewayFields, MatcherFields, ExecutorFields DEF ScriptCall, ScriptOps

\* A step of one of the parts leaves the others alone; what another call did to the
\* part is still there unless this one undoes it.
LEMMA ParserKept ==
  ASSUME ConfigOK, NEW x, NEW r, ScriptCall(x), ScriptCall(r), ~ Overrides(x, r), ParserHolds(r),
         \/ x.op = "initParserLevel" /\ InitParserLevel(x.p, x.level)
         \/ x.op = "modParserEntry"
                      /\ ModParserEntry(x.p, x.l, x.i, [covers |-> x.covers, drop |-> x.drop])
  PROVE  ParserHolds(r)'
<1>1. parser \in [Proc -> ParserState]
  BY DEF ConfigOK
<1>2. CASE x.op = "initParserLevel" /\ InitParserLevel(x.p, x.level)
  <2>1. \A q \in Proc : /\ parser'[q].entries = parser[q].entries
                        /\ q # x.p => parser'[q] = parser[q]
                        /\ q = x.p => parser'[q].working /\ parser'[q].level = x.level
    BY <1>1, <1>2 DEF InitParserLevel, ParserState
  <2> QED BY <1>2, <2>1 DEF ParserHolds, ScriptCall, Overrides
<1>3. CASE x.op = "modParserEntry"
             /\ ModParserEntry(x.p, x.l, x.i, [covers |-> x.covers, drop |-> x.drop])
  <2>1. \A q \in Proc : /\ parser'[q].working = parser[q].working
                        /\ parser'[q].level = parser[q].level
                        /\ \A l \in Level, i \in Entry :
                             q # x.p \/ l # x.l \/ i # x.i =>
                               parser'[q].entries[l][i] = parser[q].entries[l][i]
    BY <1>1, <1>3 DEF ModParserEntry, ParserState, ScriptCall
  <2> QED BY <1>3, <2>1 DEF ParserHolds, ScriptCall, Overrides
<1> QED
  BY <1>2, <1>3

\* What a call does to a parser is there.
LEMMA ParserGiven ==
  ASSUME ConfigOK, NEW x, ScriptCall(x),
         \/ x.op = "initParserLevel" /\ InitParserLevel(x.p, x.level)
         \/ x.op = "modParserEntry"
                      /\ ModParserEntry(x.p, x.l, x.i, [covers |-> x.covers, drop |-> x.drop])
  PROVE  ParserHolds(x)'
<1>1. parser \in [Proc -> ParserState]
  BY DEF ConfigOK
<1>2. CASE x.op = "initParserLevel" /\ InitParserLevel(x.p, x.level)
  BY <1>1, <1>2 DEF InitParserLevel, ParserState, ParserHolds, ScriptCall
<1>3. CASE x.op = "modParserEntry"
             /\ ModParserEntry(x.p, x.l, x.i, [covers |-> x.covers, drop |-> x.drop])
  BY <1>1, <1>3 DEF ModParserEntry, ParserState, ParserHolds, ScriptCall
<1> QED
  BY <1>2, <1>3

\* The default entry stays unless the gateway is cleared or given another.
LEMMA GateKept ==
  ASSUME ConfigOK, NEW x, NEW r, ScriptCall(x), ScriptCall(r), ~ Overrides(x, r), GateHolds(r),
         \/ x.op = "insertRelationExp" /\ InsertExp(x.p, x.rel)
         \/ x.op = "clearRelationExp" /\ ClearExp(x.p)
         \/ x.op = "modResMap" /\ ModifyResMap(x.p, x.key, x.to)
         \/ x.op = "setDefaultGateEntry" /\ SetDefaultEntry(x.p, x.to)
  PROVE  GateHolds(r)'
<1>1. gateway \in [Proc -> GatewayState]
  BY DEF ConfigOK
<1>2. CASE x.op = "insertRelationExp" /\ InsertExp(x.p, x.rel)
  BY <1>1, <1>2 DEF InsertExp, GatewayState, GateHolds, ScriptCall
<1>3. CASE x.op = "clearRelationExp" /\ ClearExp(x.p)
  BY <1>1, <1>3 DEF ClearExp, GatewayState, GateHolds, ScriptCall, Overrides
<1>4. CASE x.op = "modResMap" /\ ModifyResMap(x.p, x.key, x.to)
  BY <1>1, <1>4 DEF ModifyResMap, GatewayState, GateHolds, ScriptCall
<1>5. CASE x.op = "setDefaultGateEntry" /\ SetDefaultEntry(x.p, x.to)
  BY <1>1, <1>5 DEF SetDefaultEntry, GatewayState, GateHolds, ScriptCall, Overrides
<1> QED
  BY <1>2, <1>3, <1>4, <1>5

\* What a call does to a gateway is there.
LEMMA GateGiven ==
  ASSUME ConfigOK, NEW x, ScriptCall(x),
         x.op = "setDefaultGateEntry", SetDefaultEntry(x.p, x.to)
  PROVE  GateHolds(x)'
<1>1. gateway \in [Proc -> GatewayState]
  BY DEF ConfigOK
<1> QED
  BY <1>1 DEF SetDefaultEntry, GatewayState, GateHolds, ScriptCall

\* An action stays unless its slot is written again.
LEMMA ActionKept ==
  ASSUME ConfigOK, NEW x, NEW r, ScriptCall(x), ScriptCall(r), ~ Overrides(x, r), ActionHolds(r),
         x.op = "insertAction", InsertAction(x.p, x.a, x.body)
  PROVE  ActionHolds(r)'
<1>1. exe \in [Proc -> [Act -> Slot]]
  BY DEF ConfigOK
<1> QED
  BY <1>1 DEF InsertAction, ActionHolds, ScriptCall, Overrides

\* An action inserted is there.
LEMMA ActionGiven ==
  ASSUME ConfigOK, NEW x, ScriptCall(x), x.op = "insertAction", InsertAction(x.p, x.a, x.body)
  PROVE  ActionHolds(x)'
<1>1. exe \in [Proc -> [Act -> Slot]]
  BY DEF ConfigOK
<1> QED
  BY <1>1 DEF InsertAction, ActionHolds, ScriptCall

\* The steps a call that rewrites a table is made of.
TableStep(x) ==
  /\ x.p \in Proc /\ x.t \in Table
  /\ \/ x.op = "clearOldConfig" /\ ClearOldConfig(x.p, x.t)
     \/ x.op = "initMatchType" /\ x.type \in TableType /\ InitMatchType(x.p, x.t, x.type)
     \/ x.op = "openTable" /\ SetNoTable(x.p, x.t, FALSE)
     \/ x.op = "setGeometry" /\ x.depth \in {0, 1} /\ SetGeometry(x.p, x.t, x.depth, x.block)
     \/ x.op = "setMissActId" /\ x.miss \in Choice /\ SetMissActId(x.p, x.t, x.miss)
     \/ x.op = "setActionProc" /\ SetActionProcMap(x.p, x.t, x.map)
     \/ x.op = "setFieldInfo" /\ SetFieldInfos(x.p, x.t, x.keyed)

\* It leaves alone everything but that table.
LEMMA TablesElsewhere ==
  ASSUME ConfigOK, NEW x, TableStep(x)
  PROVE  /\ UNCHANGED <<parser, gateway, exe, alive, ranOff>>
         /\ \A p \in Proc, t \in Table : p # x.p \/ t # x.t => matcher'[p][t] = matcher[p][t]
<1>1. matcher \in [Proc -> [Table -> TableState]]
  BY DEF ConfigOK
<1> QED
  BY <1>1, SMTT(30) DEF TableStep, ClearOldConfig, InitMatchType, SetNoTable, SetGeometry, SetMissActId,
              SetActionProcMap, SetFieldInfos

\* What each does to its table.
LEMMA TableStepEffect ==
  ASSUME ConfigOK, NEW x, TableStep(x)
  PROVE  LET o == matcher[x.p][x.t]
             n == matcher'[x.p][x.t]
         IN /\ x.op = "clearOldConfig" =>
                 n.type = o.type /\ n.map = NoMap
            /\ x.op = "initMatchType" => n.type = x.type
            /\ x.op # "initMatchType" => n.type = o.type
            /\ x.op = "openTable" => ~ n.noTable
            /\ x.op \notin {"clearOldConfig", "openTable"} => n.noTable = o.noTable
            /\ x.op = "setGeometry" => n.depth = x.depth /\ (x.depth > 0 => n.block = x.block)
            /\ x.op \notin {"clearOldConfig", "setGeometry"} =>
                 n.depth = o.depth /\ n.block = o.block
            /\ x.op = "setMissActId" => n.miss = x.miss
            /\ x.op \notin {"clearOldConfig", "setMissActId"} => n.miss = o.miss
            /\ x.op = "setFieldInfo" => n.keyed = x.keyed
            /\ x.op \notin {"clearOldConfig", "setFieldInfo"} => n.keyed = o.keyed
            /\ x.op = "setActionProc" =>
                 \A a \in Choice : n.map[a] = IF x.map[a] # None THEN x.map[a] ELSE o.map[a]
            /\ x.op \notin {"clearOldConfig", "setActionProc"} => n.map = o.map
<1>1. matcher \in [Proc -> [Table -> TableState]] /\ x.p \in Proc /\ x.t \in Table
  BY DEF ConfigOK, TableStep
<1>2. matcher[x.p][x.t] \in TableState
  BY <1>1
<1>3. CASE x.op = "clearOldConfig" /\ ClearOldConfig(x.p, x.t)
  <2>1. matcher'[x.p][x.t] = Cleared(matcher[x.p][x.t])
    BY <1>1, <1>3 DEF ClearOldConfig
  <2>2. PICK o \in TableState : o = matcher[x.p][x.t]
    BY <1>2
  <2>3. /\ Cleared(o).type = o.type /\ Cleared(o).map = NoMap
    BY DEF Cleared, TableState
  <2> QED BY <1>3, <2>1, <2>2, <2>3
<1>4. CASE x.op = "initMatchType" /\ InitMatchType(x.p, x.t, x.type)
  BY <1>1, <1>2, <1>4 DEF InitMatchType, TableState
<1>5. CASE x.op = "openTable" /\ SetNoTable(x.p, x.t, FALSE)
  BY <1>1, <1>2, <1>5 DEF SetNoTable, TableState
<1>6. CASE x.op = "setGeometry" /\ SetGeometry(x.p, x.t, x.depth, x.block)
  BY <1>1, <1>2, <1>6 DEF SetGeometry, WithGeometry, TableState
<1>7. CASE x.op = "setMissActId" /\ SetMissActId(x.p, x.t, x.miss)
  BY <1>1, <1>2, <1>7 DEF SetMissActId, TableState
<1>8. CASE x.op = "setActionProc" /\ SetActionProcMap(x.p, x.t, x.map)
  BY <1>1, <1>2, <1>8 DEF SetActionProcMap, TableState
<1>9. CASE x.op = "setFieldInfo" /\ SetFieldInfos(x.p, x.t, x.keyed)
  BY <1>1, <1>2, <1>9 DEF SetFieldInfos, TableState
<1> QED
  BY <1>3, <1>4, <1>5, <1>6, <1>7, <1>8, <1>9 DEF TableStep

\* So what was done to another table is still there.
LEMMA TableKeptElsewhere ==
  ASSUME ConfigOK, NEW x, NEW r, TableStep(x), ScriptCall(r), ~ SameTable(x, r)
  PROVE  TableHolds(r) => TableHolds(r)'
<1>1. r.op \in {"setMemConfig", "setActionProc", "setFieldInfo"} =>
        matcher'[r.p][r.t] = matcher[r.p][r.t]
  BY TablesElsewhere DEF ScriptCall, SameTable
<1> QED
  BY <1>1 DEF TableHolds

\* The two calls that fill in an open table.
LEMMA TableKeptSame ==
  ASSUME ConfigOK, NEW x, NEW r, TableStep(x), ScriptCall(x), ScriptCall(r), ~ Overrides(x, r),
         x.op \in {"setActionProc", "setFieldInfo"}, SameTable(x, r)
  PROVE  TableHolds(r) => TableHolds(r)'
<1>1. PICK o : o = matcher[x.p][x.t]
  OBVIOUS
<1>2. PICK n : n = matcher'[x.p][x.t]
  OBVIOUS
<1>3. /\ n.type = o.type /\ n.noTable = o.noTable
      /\ n.depth = o.depth /\ n.block = o.block /\ n.miss = o.miss
      /\ x.op # "setFieldInfo" => n.keyed = o.keyed
      /\ x.op # "setActionProc" => n.map = o.map
  BY <1>1, <1>2, TableStepEffect
<1>4. r.p = x.p /\ r.t = x.t
  BY DEF SameTable
<1>5. /\ r.op = "setActionProc" => x.op # "setActionProc"
      /\ r.op = "setFieldInfo" => x.op # "setFieldInfo"
  BY DEF Overrides
<1>6. PICK u : u = matcher[r.p][r.t]
  OBVIOUS
<1>7. PICK v : v = matcher'[r.p][r.t]
  OBVIOUS
<1>8. u = o /\ v = n
  BY <1>1, <1>2, <1>4, <1>6, <1>7
<1> QED
  BY <1>3, <1>5, <1>6, <1>7, <1>8 DEF TableHolds

\* What those two fill in is there.
LEMMA TableGiven ==
  ASSUME ConfigOK, NEW x, TableStep(x), ScriptCall(x), x.op \in {"setActionProc", "setFieldInfo"}
  PROVE  TableHolds(x)'
<1>1. PICK n : n = matcher'[x.p][x.t]
  OBVIOUS
<1>2. /\ x.op = "setFieldInfo" => n.keyed = x.keyed
      /\ x.op = "setActionProc" => \A a \in Choice : x.map[a] # None => n.map[a] = x.map[a]
  BY <1>1, TableStepEffect
<1> QED
  BY <1>1, <1>2 DEF TableHolds

-----------------------------------------------------------------------------
\* A step that changes no more of the processors than the row count of a table and,
\* of its map, what the packet thread inserts.
Drift ==
  /\ UNCHANGED <<parser, gateway, exe>>
  /\ \A p \in Proc, t \in Table :
       LET o == matcher[p][t]
           n == matcher'[p][t]
       IN /\ n.noTable = o.noTable /\ n.type = o.type /\ n.depth = o.depth
          /\ n.block = o.block /\ n.miss = o.miss /\ n.keyed = o.keyed
          /\ \A a \in Choice : n.map[a] = o.map[a] \/ (o.map[a] = None /\ n.map[a] = 0)

\* Such a step undoes nothing.
LEMMA DriftKeeps ==
  ASSUME NEW r, ScriptCall(r), Drift
  PROVE  Holds(r) => Holds(r)'
<1>1. ParserHolds(r) => ParserHolds(r)'
  BY DEF Drift, ParserHolds
<1>2. GateHolds(r) => GateHolds(r)'
  BY DEF Drift, GateHolds
<1>3. ActionHolds(r) => ActionHolds(r)'
  BY DEF Drift, ActionHolds
<1>4. TableHolds(r) => TableHolds(r)'
  BY DEF Drift, TableHolds, ScriptCall
<1> QED
  BY <1>1, <1>2, <1>3, <1>4 DEF Holds

\* The packet thread changes no more than the maps it looks into.
LEMMA PacketDrift == ASSUME TypeInv, PacketStep PROVE Drift
<1>1. matcher \in [Proc -> [Table -> TableState]] /\ cur \in Proc
  BY DEF TypeInv, ConfigOK, PacketOK
<1>2. CASE NextHop
  <2>1. phv.op.val \in Table
    BY <1>2 DEF NextHop, At, TypeInv, AtTable
  <2>2. matcher[cur][phv.op.val] \in TableState
    BY <1>1, <2>1
  <2>3. PICK to : /\ matcher' = [matcher EXCEPT ![cur][phv.op.val].map[phv.act] = to]
                  /\ to = IF matcher[cur][phv.op.val].map[phv.act] = None THEN 0
                          ELSE matcher[cur][phv.op.val].map[phv.act]
    BY <1>2 DEF NextHop, CurTable
  <2>4. UNCHANGED <<parser, gateway, exe>>
    BY <1>2 DEF NextHop
  <2>5. PICK t : t = phv.op.val
    OBVIOUS
  <2>6. PICK o \in TableState : o = matcher[cur][t]
    BY <2>2, <2>5
  <2>7. PICK n : n = [o EXCEPT !.map = [o.map EXCEPT ![phv.act] = to]]
    OBVIOUS
  <2>8. \A q \in Proc, u \in Table : matcher'[q][u] = IF q = cur /\ u = t THEN n ELSE matcher[q][u]
    BY <1>1, <2>1, <2>3, <2>5, <2>6, <2>7
  <2>9. /\ n.noTable = o.noTable /\ n.type = o.type /\ n.depth = o.depth
        /\ n.block = o.block /\ n.miss = o.miss /\ n.keyed = o.keyed
        /\ n.map = [o.map EXCEPT ![phv.act] = to]
    BY <2>7 DEF TableState
  <2>10. \A a \in Choice : n.map[a] = o.map[a] \/ (o.map[a] = None /\ n.map[a] = 0)
    <3>1. to = IF o.map[phv.act] = None THEN 0 ELSE o.map[phv.act]
      BY <2>3, <2>5, <2>6
    <3>2. PICK k : k = phv.act
      OBVIOUS
    <3>3. PICK f : f = o.map
      OBVIOUS
    <3>4. f \in [Choice -> Target \cup {None}]
      BY <2>6, <3>3 DEF TableState
    <3>5. \A a \in Choice : [f EXCEPT ![k] = to][a] = IF a = k THEN to ELSE f[a]
      BY <3>4
    <3>6. n.map = [f EXCEPT ![k] = to]
      BY <2>9, <3>2, <3>3
    <3> QED BY <3>1, <3>2, <3>3, <3>5, <3>6
  <2>11. Drift
    <3>1. ASSUME NEW q \in Proc, NEW u \in Table, NEW y, y = matcher[q][u],
                 NEW z, z = matcher'[q][u]
          PROVE  /\ z.noTable = y.noTable /\ z.type = y.type /\ z.depth = y.depth
                 /\ z.block = y.block /\ z.miss = y.miss /\ z.keyed = y.keyed
                 /\ \A a \in Choice : z.map[a] = y.map[a] \/ (y.map[a] = None /\ z.map[a] = 0)
      <4>1. CASE q = cur /\ u = t
        <5>1. y = o /\ z = n
          BY <2>6, <2>8, <3>1, <4>1
        <5> QED BY <2>9, <2>10, <5>1
      <4>2. CASE ~ (q = cur /\ u = t)
        <5>1. z = y
          BY <2>8, <3>1, <4>2
        <5> QED BY <5>1
      <4> QED BY <4>1, <4>2
    <3> QED BY <2>4, <3>1 DEF Drift
  <2> QED BY <2>11
<1>3. CASE ~ NextHop
  <2>1. UNCHANGED <<parser, gateway, exe, matcher>>
    BY <1>3 DEF PacketStep, Enter, StartParse, ParseLevel, Gate, GateWild, SkipTable, UseTable,
                Lookup, LookupNoMemory, Execute, ExecuteWild, Transmit, Crash, config
  <2> QED BY <2>1 DEF Drift
<1> QED
  BY <1>2, <1>3

\* What a call does, of those that are one step.
LEMMA CallSteps ==
  ASSUME NEW x, ScriptCall(x), x.op # "setMemConfig", Perform(x)
  PROVE  \/ /\ \/ x.op = "initParserLevel" /\ InitParserLevel(x.p, x.level)
               \/ x.op = "modParserEntry" /\ ModParserEntry(x.p, x.l, x.i,
                                               [covers |-> x.covers, drop |-> x.drop])
            /\ UNCHANGED <<gateway, matcher, exe, alive>>
         \/ /\ \/ x.op = "insertRelationExp" /\ InsertExp(x.p, x.rel)
               \/ x.op = "clearRelationExp" /\ ClearExp(x.p)
               \/ x.op = "modResMap" /\ ModifyResMap(x.p, x.key, x.to)
               \/ x.op = "setDefaultGateEntry" /\ SetDefaultEntry(x.p, x.to)
            /\ UNCHANGED <<parser, matcher, exe, alive>>
         \/ /\ x.op \in {"setActionProc", "setFieldInfo"}
            /\ TableStep(x)
            /\ UNCHANGED <<parser, gateway, exe, alive>>
         \/ /\ x.op = "insertAction" /\ InsertAction(x.p, x.a, x.body)
            /\ UNCHANGED <<parser, gateway, matcher, alive>>
<1>1. CASE x.op = "initParserLevel"
  BY <1>1 DEF Perform, InitParserLevel
<1>2. CASE x.op = "modParserEntry"
  BY <1>2 DEF Perform, ModParserEntry
<1>3. CASE x.op = "insertRelationExp"
  BY <1>3 DEF Perform, InsertExp
<1>4. CASE x.op = "clearRelationExp"
  BY <1>4 DEF Perform, ClearExp
<1>5. CASE x.op = "modResMap"
  BY <1>5 DEF Perform, ModifyResMap
<1>6. CASE x.op = "setDefaultGateEntry"
  BY <1>6 DEF Perform, SetDefaultEntry
<1>7. CASE x.op = "setActionProc"
  BY <1>7 DEF Perform, SetActionProcMap, TableStep, ScriptCall
<1>8. CASE x.op = "setFieldInfo"
  BY <1>8 DEF Perform, SetFieldInfos, TableStep, ScriptCall
<1>9. CASE x.op = "insertAction"
  BY <1>9 DEF Perform, InsertAction
<1> QED
  BY <1>1, <1>2, <1>3, <1>4, <1>5, <1>6, <1>7, <1>8, <1>9 DEF ScriptCall, ScriptOps

\* It keeps what it does not undo ...
LEMMA CallKeeps ==
  ASSUME ConfigOK, NEW x, ScriptCall(x), x.op # "setMemConfig", Perform(x),
         NEW r, ScriptCall(r), ~ Overrides(x, r)
  PROVE  Holds(r) => Holds(r)'
<1>0. /\ UNCHANGED parser => (ParserHolds(r) => ParserHolds(r)')
      /\ UNCHANGED gateway => (GateHolds(r) => GateHolds(r)')
      /\ UNCHANGED matcher => (TableHolds(r) => TableHolds(r)')
      /\ UNCHANGED exe => (ActionHolds(r) => ActionHolds(r)')
  BY DEF ParserHolds, GateHolds, TableHolds, ActionHolds
<1>1. CASE /\ \/ x.op = "initParserLevel" /\ InitParserLevel(x.p, x.level)
              \/ x.op = "modParserEntry" /\ ModParserEntry(x.p, x.l, x.i,
                                              [covers |-> x.covers, drop |-> x.drop])
           /\ UNCHANGED <<gateway, matcher, exe, alive>>
  <2>1. ParserHolds(r) => ParserHolds(r)'
    BY <1>1, ParserKept
  <2> QED BY <1>0, <1>1, <2>1 DEF Holds
<1>2. CASE /\ \/ x.op = "insertRelationExp" /\ InsertExp(x.p, x.rel)
              \/ x.op = "clearRelationExp" /\ ClearExp(x.p)
              \/ x.op = "modResMap" /\ ModifyResMap(x.p, x.key, x.to)
              \/ x.op = "setDefaultGateEntry" /\ SetDefaultEntry(x.p, x.to)
           /\ UNCHANGED <<parser, matcher, exe, alive>>
  <2>1. GateHolds(r) => GateHolds(r)'
    BY <1>2, GateKept
  <2> QED BY <1>0, <1>2, <2>1 DEF Holds
<1>3. CASE /\ x.op \in {"setActionProc", "setFieldInfo"}
           /\ TableStep(x)
           /\ UNCHANGED <<parser, gateway, exe, alive>>
  <2>1. TableHolds(r) => TableHolds(r)'
    <3>1. CASE SameTable(x, r)
      BY <1>3, <3>1, TableKeptSame
    <3>2. CASE ~ SameTable(x, r)
      BY <1>3, <3>2, TableKeptElsewhere
    <3> QED BY <3>1, <3>2
  <2> QED BY <1>0, <1>3, <2>1 DEF Holds
<1>4. CASE /\ x.op = "insertAction" /\ InsertAction(x.p, x.a, x.body)
           /\ UNCHANGED <<parser, gateway, matcher, alive>>
  <2>1. ActionHolds(r) => ActionHolds(r)'
    BY <1>4, ActionKept
  <2> QED BY <1>0, <1>4, <2>1 DEF Holds
<1> QED
  BY <1>1, <1>2, <1>3, <1>4, CallSteps

\* ... and what it does is there.
LEMMA CallGives ==
  ASSUME ConfigOK, NEW x, ScriptCall(x), x.op # "setMemConfig", Perform(x)
  PROVE  Holds(x)'
<1>1. CASE /\ \/ x.op = "initParserLevel" /\ InitParserLevel(x.p, x.level)
              \/ x.op = "modParserEntry" /\ ModParserEntry(x.p, x.l, x.i,
                                              [covers |-> x.covers, drop |-> x.drop])
           /\ UNCHANGED <<gateway, matcher, exe, alive>>
  <2>1. ParserHolds(x)'
    BY <1>1, ParserGiven
  <2>2. x.op \in {"initParserLevel", "modParserEntry"}
    BY <1>1
  <2> QED BY <2>1, <2>2 DEF Holds, GateHolds, TableHolds, ActionHolds
<1>2. CASE /\ \/ x.op = "insertRelationExp" /\ InsertExp(x.p, x.rel)
              \/ x.op = "clearRelationExp" /\ ClearExp(x.p)
              \/ x.op = "modResMap" /\ ModifyResMap(x.p, x.key, x.to)
              \/ x.op = "setDefaultGateEntry" /\ SetDefaultEntry(x.p, x.to)
           /\ UNCHANGED <<parser, matcher, exe, alive>>
  <2>1. GateHolds(x)'
    <3>1. CASE x.op = "setDefaultGateEntry"
      <4>1. SetDefaultEntry(x.p, x.to)
        BY <1>2, <3>1
      <4> QED BY <3>1, <4>1, GateGiven
    <3>2. CASE x.op # "setDefaultGateEntry"
      BY <3>2 DEF GateHolds
    <3> QED BY <3>1, <3>2
  <2>2. x.op \in {"insertRelationExp", "clearRelationExp", "modResMap", "setDefaultGateEntry"}
    BY <1>2
  <2> QED BY <2>1, <2>2 DEF Holds, ParserHolds, TableHolds, ActionHolds
<1>3. CASE /\ x.op \in {"setActionProc", "setFieldInfo"}
           /\ TableStep(x)
           /\ UNCHANGED <<parser, gateway, exe, alive>>
  <2>1. TableHolds(x)'
    BY <1>3, TableGiven
  <2> QED BY <1>3, <2>1 DEF Holds, ParserHolds, GateHolds, ActionHolds
<1>4. CASE /\ x.op = "insertAction" /\ InsertAction(x.p, x.a, x.body)
           /\ UNCHANGED <<parser, gateway, matcher, alive>>
  <2>1. ActionHolds(x)'
    BY <1>4, ActionGiven
  <2> QED BY <1>4, <2>1 DEF Holds, ParserHolds, GateHolds, TableHolds
<1> QED
  BY <1>1, <1>2, <1>3, <1>4, CallSteps

\* The steps of setMemConfig keep what it does not undo.
LEMMA MemKeeps ==
  ASSUME ConfigOK, NEW x, TableStep(x), NEW y, y.op = "setMemConfig", SameTable(x, y),
         NEW r, ScriptCall(r), ~ Overrides(y, r)
  PROVE  Holds(r) => Holds(r)'
<1>1. UNCHANGED <<parser, gateway, exe>>
  BY TablesElsewhere
<1>2. /\ ParserHolds(r) => ParserHolds(r)'
      /\ GateHolds(r) => GateHolds(r)'
      /\ ActionHolds(r) => ActionHolds(r)'
  BY <1>1 DEF ParserHolds, GateHolds, ActionHolds
<1>3. TableHolds(r) => TableHolds(r)'
  <2>1. CASE r.op \in {"setMemConfig", "setActionProc", "setFieldInfo"}
    <3>1. ~ SameTable(x, r)
      BY <2>1 DEF Overrides, SameTable
    <3> QED BY <3>1, TableKeptElsewhere
  <2>2. CASE r.op \notin {"setMemConfig", "setActionProc", "setFieldInfo"}
    BY <2>2 DEF TableHolds
  <2> QED BY <2>1, <2>2
<1> QED
  BY <1>2, <1>3 DEF Holds

-----------------------------------------------------------------------------
(***************************************************************************)
(* What the calls made so far left, unless a later one undid it: of each call *)
(* by itself, and of those that add to what an earlier one emptied.        *)
(***************************************************************************)
\* A sequence of such requests.
AllCalls(s) == s \in Seq(Request) /\ \A m \in 1 .. Len(s) : ScriptCall(s[m])

\* No call up to the b-th undoes what the m-th did.
Stands(s, m, b) == \A k \in m + 1 .. b : ~ Overrides(s[k], s[m])

\* What the first d calls did is there, unless one up to the b-th undoes it.
Effects(s, d, b) == \A m \in 1 .. d : Stands(s, m, b) => Holds(s[m])

\* A step that keeps what the call y does not undo.
Keeping(y) == \A r : ScriptCall(r) /\ ~ Overrides(y, r) => (Holds(r) => Holds(r)')

\* A call of one step keeps what it does not undo.
LEMMA CallIsKeeping ==
  ASSUME ConfigOK, NEW x, ScriptCall(x), x.op # "setMemConfig", Perform(x)
  PROVE  Keeping(x)
  BY CallKeeps DEF Keeping

\* So do the steps of setMemConfig.
LEMMA MemIsKeeping ==
  ASSUME ConfigOK, NEW x, TableStep(x), NEW y, y.op = "setMemConfig", SameTable(x, y)
  PROVE  Keeping(y)
  BY MemKeeps DEF Keeping

\* What stands stays under a step that is not of the script, while later calls are
\* made.
LEMMA EffectsStay ==
  ASSUME NEW s, AllCalls(s), NEW d \in Nat, d <= Len(s), NEW b \in Nat, NEW e \in Nat, b <= e,
         Effects(s, d, b), Drift
  PROVE  Effects(s, d, e)'
<1>1. \A m \in 1 .. d : ScriptCall(s[m])
  BY DEF AllCalls
<1>2. \A m \in 1 .. d : Stands(s, m, e) => Stands(s, m, b)
  BY DEF Stands
<1>3. SUFFICES ASSUME NEW m \in 1 .. d, Stands(s, m, e) PROVE Holds(s[m])'
  BY DEF Effects
<1>4. Holds(s[m]) => Holds(s[m])'
  BY <1>1, DriftKeeps
<1> QED
  BY <1>2, <1>3, <1>4 DEF Effects

\* What stands stays under the next call.
LEMMA EffectsMove ==
  ASSUME NEW s, AllCalls(s), NEW b \in 1 .. Len(s), Effects(s, b - 1, b), Keeping(s[b])
  PROVE  Effects(s, b - 1, b)' /\ (Holds(s[b])' => Effects(s, b, b)')
<1>1. b \in Nat /\ b > 0 /\ \A m \in 1 .. b - 1 : b \in m + 1 .. b
  BY DEF AllCalls
<1>2. \A m \in 1 .. b - 1 : ScriptCall(s[m])
  BY <1>1 DEF AllCalls
<1>3. \A m \in 1 .. b - 1 : Stands(s, m, b) => ~ Overrides(s[b], s[m])
  BY <1>1 DEF Stands
<1>4. ASSUME NEW m \in 1 .. b - 1, Stands(s, m, b) PROVE Holds(s[m])'
  BY <1>2, <1>3, <1>4 DEF Effects, Keeping
<1>5. \A m \in 1 .. b : m \in 1 .. b - 1 \/ m = b
  BY <1>1
<1>6. Effects(s, b - 1, b)'
  BY <1>4 DEF Effects
<1>7. ASSUME Holds(s[b])' PROVE Effects(s, b, b)'
  <2>1. SUFFICES ASSUME NEW m \in 1 .. b, Stands(s, m, b) PROVE Holds(s[m])'
    BY DEF Effects
  <2>2. CASE m = b
    BY <1>7, <2>2
  <2>3. CASE m \in 1 .. b - 1
    BY <1>4, <2>1, <2>3
  <2> QED BY <1>5, <2>2, <2>3
<1> QED
  BY <1>6, <1>7

-----------------------------------------------------------------------------
\* The map of a table, once setMemConfig has emptied it: what its setActionProc put
\* there and what packets inserted.
MapDrawn(s, m, d) ==
  \A a \in Choice :
    \/ matcher[s[m].p][s[m].t].map[a] \in {None, 0}
    \/ \E n \in m + 1 .. d : /\ s[n].op = "setActionProc" /\ SameTable(s[n], s[m])
                             /\ matcher[s[m].p][s[m].t].map[a] = s[n].map[a]

\* Every map whose setMemConfig still stands is drawn so.
MapsHold(s, d, b) ==
  \A m \in 1 .. d : s[m].op = "setMemConfig" /\ Stands(s, m, b) => MapDrawn(s, m, d)

\* The operations of a gateway, once clearRelationExp has emptied it.
Selects(r, p, k) == r.op = "modResMap" /\ r.p = p /\ r.key = k

\* What the modResMaps since then put there, the last for each bitmap.
NextDrawn(s, m, d) ==
  \A k \in Key :
    \/ /\ gateway[s[m].p].next[k] = None
       /\ \A n \in m + 1 .. d : ~ Selects(s[n], s[m].p, k)
    \/ \E n \in m + 1 .. d : Selects(s[n], s[m].p, k) /\ gateway[s[m].p].next[k] = s[n].to

\* Every gateway whose clearRelationExp still stands has them.
NextsHold(s, d, b) ==
  \A m \in 1 .. d : s[m].op = "clearRelationExp" /\ Stands(s, m, b) => NextDrawn(s, m, d)

\* The relations of a gateway: those inserted right after clearRelationExp, when no
\* later call rewrites them.
Run(s, m, j)   == \A i \in 1 .. j : s[m + i].op = "insertRelationExp" /\ s[m + i].p = s[m].p

\* A call that rewrites the relations of a processor's gateway.
Rewrites(r, p) == r.op \in {"clearRelationExp", "insertRelationExp"} /\ r.p = p

\* The relations of the gateway are those of the j calls after the m-th.
Written(s, m, j) ==
  /\ Len(gateway[s[m].p].exps) = j
  /\ \A i \in 1 .. j : gateway[s[m].p].exps[i] = s[m + i].rel

\* A run of insertions no later call rewrites has left its relations.
ExpsHold(s, d) ==
  \A m \in 1 .. d, j \in Nat :
    /\ s[m].op = "clearRelationExp" /\ m + j <= d /\ Run(s, m, j)
    /\ \A k \in m + j + 1 .. d : ~ Rewrites(s[k], s[m].p)
    => Written(s, m, j)

\* All three stay under a step that is not of the script.
LEMMA DrawnStay ==
  ASSUME NEW s, AllCalls(s), NEW d \in Nat, d <= Len(s), NEW b \in Nat, NEW e \in Nat, b <= e,
         MapsHold(s, d, b), NextsHold(s, d, b), ExpsHold(s, d), Drift
  PROVE  MapsHold(s, d, e)' /\ NextsHold(s, d, e)' /\ ExpsHold(s, d)'
<1>1. \A m \in 1 .. d : ScriptCall(s[m])
  BY DEF AllCalls
<1>2. \A m \in 1 .. d : Stands(s, m, e) => Stands(s, m, b)
  BY DEF Stands
<1>3. MapsHold(s, d, e)'
  <2>1. SUFFICES ASSUME NEW m \in 1 .. d, s[m].op = "setMemConfig", Stands(s, m, e)
                 PROVE  MapDrawn(s, m, d)'
    BY DEF MapsHold
  <2>2. MapDrawn(s, m, d)
    BY <1>2, <2>1 DEF MapsHold
  <2>3. s[m].p \in Proc /\ s[m].t \in Table
    BY <1>1, <2>1 DEF ScriptCall
  <2>4. PICK o : o = matcher[s[m].p][s[m].t].map
    OBVIOUS
  <2>5. PICK n : n = matcher'[s[m].p][s[m].t].map
    OBVIOUS
  <2>6. \A a \in Choice : n[a] = o[a] \/ (o[a] = None /\ n[a] = 0)
    BY <2>3, <2>4, <2>5 DEF Drift
  <2>7. \A a \in Choice :
          \/ o[a] \in {None, 0}
          \/ \E i \in m + 1 .. d : /\ s[i].op = "setActionProc" /\ SameTable(s[i], s[m])
                                   /\ o[a] = s[i].map[a]
    BY <2>2, <2>4 DEF MapDrawn
  <2>8. \A a \in Choice :
          \/ n[a] \in {None, 0}
          \/ \E i \in m + 1 .. d : /\ s[i].op = "setActionProc" /\ SameTable(s[i], s[m])
                                   /\ n[a] = s[i].map[a]
    BY <2>6, <2>7
  <2> QED BY <2>5, <2>8 DEF MapDrawn
<1>4. gateway' = gateway
  BY DEF Drift
<1>5. NextsHold(s, d, e)'
  BY <1>2, <1>4 DEF NextsHold, NextDrawn
<1>6. ExpsHold(s, d)'
  BY <1>4 DEF ExpsHold, Written
<1> QED
  BY <1>3, <1>5, <1>6

\* The maps, after a call of one step ...
LEMMA MapsMove ==
  ASSUME ConfigOK, NEW s, AllCalls(s), NEW b \in 1 .. Len(s), MapsHold(s, b - 1, b),
         s[b].op # "setMemConfig", Perform(s[b])
  PROVE  MapsHold(s, b, b)'
<1>0. b \in Nat /\ b > 0 /\ \A m \in 1 .. b : ScriptCall(s[m]) /\ (m \in 1 .. b - 1 \/ m = b)
  BY DEF AllCalls
<1>1. SUFFICES ASSUME NEW m \in 1 .. b, s[m].op = "setMemConfig", Stands(s, m, b)
               PROVE  MapDrawn(s, m, b)'
  BY DEF MapsHold
<1>2. m \in 1 .. b - 1 /\ m \in Nat /\ b \in m + 1 .. b /\ m + 1 .. b - 1 \subseteq m + 1 .. b
  BY <1>0, <1>1
<1>3. MapDrawn(s, m, b - 1)
  BY <1>1, <1>2 DEF MapsHold
<1>4. s[m].p \in Proc /\ s[m].t \in Table /\ ScriptCall(s[b])
  BY <1>0, <1>1 DEF ScriptCall
<1>5. PICK o : o = matcher[s[m].p][s[m].t].map
  OBVIOUS
<1>6. PICK n : n = matcher'[s[m].p][s[m].t].map
  OBVIOUS
<1>7. \A a \in Choice :
        \/ n[a] = o[a]
        \/ s[b].op = "setActionProc" /\ SameTable(s[b], s[m]) /\ n[a] = s[b].map[a]
  <2>1. CASE UNCHANGED matcher
    BY <1>5, <1>6, <2>1
  <2>2. CASE s[b].op \in {"setActionProc", "setFieldInfo"} /\ TableStep(s[b])
    <3>1. CASE SameTable(s[b], s[m])
      <4>1. s[b].p = s[m].p /\ s[b].t = s[m].t
        BY <3>1 DEF SameTable
      <4>2. PICK y : y = s[b]
        OBVIOUS
      <4>3. TableStep(y)
        BY <2>2, <4>2
      <4>4. PICK ot : ot = matcher[y.p][y.t]
        OBVIOUS
      <4>5. PICK nt : nt = matcher'[y.p][y.t]
        OBVIOUS
      <4>6. /\ y.op = "setActionProc" =>
                 \A a \in Choice : nt.map[a] = IF y.map[a] # None THEN y.map[a] ELSE ot.map[a]
            /\ y.op \notin {"clearOldConfig", "setActionProc"} => nt.map = ot.map
        BY <4>3, <4>4, <4>5, TableStepEffect
      <4>7. o = ot.map /\ n = nt.map
        BY <1>5, <1>6, <4>1, <4>2, <4>4, <4>5
      <4> QED BY <2>2, <3>1, <4>2, <4>6, <4>7
    <3>2. CASE ~ SameTable(s[b], s[m])
      BY <1>4, <1>5, <1>6, <2>2, <3>2, TablesElsewhere DEF SameTable
    <3> QED BY <3>1, <3>2
  <2> QED BY <1>4, <2>1, <2>2, CallSteps
<1>8. \A a \in Choice :
        \/ o[a] \in {None, 0}
        \/ \E i \in m + 1 .. b - 1 : /\ s[i].op = "setActionProc" /\ SameTable(s[i], s[m])
                                     /\ o[a] = s[i].map[a]
  BY <1>3, <1>5 DEF MapDrawn
<1>9. \A a \in Choice :
        \/ n[a] \in {None, 0}
        \/ \E i \in m + 1 .. b : /\ s[i].op = "setActionProc" /\ SameTable(s[i], s[m])
                                 /\ n[a] = s[i].map[a]
  BY <1>2, <1>7, <1>8
<1> QED
  BY <1>6, <1>9 DEF MapDrawn

\* ... and during setMemConfig, whose own map is empty at its end.
LEMMA MapsMoveMem ==
  ASSUME ConfigOK, NEW s, AllCalls(s), NEW b \in 1 .. Len(s), MapsHold(s, b - 1, b),
         s[b].op = "setMemConfig", NEW x, TableStep(x), SameTable(x, s[b])
  PROVE  /\ MapsHold(s, b - 1, b)'
         /\ MapDrawn(s, b, b)' => MapsHold(s, b, b)'
<1>0. b \in Nat /\ b > 0 /\ \A m \in 1 .. b : ScriptCall(s[m]) /\ (m \in 1 .. b - 1 \/ m = b)
  BY DEF AllCalls
<1>1. ASSUME NEW m \in 1 .. b - 1, s[m].op = "setMemConfig", Stands(s, m, b)
      PROVE  MapDrawn(s, m, b - 1)' /\ MapDrawn(s, m, b)'
  <2>1. MapDrawn(s, m, b - 1)
    BY <1>1 DEF MapsHold
  <2>2. m \in 1 .. b /\ m \in Nat /\ b \in m + 1 .. b /\ m + 1 .. b - 1 \subseteq m + 1 .. b
    BY <1>0, <1>1
  <2>3. s[m].p \in Proc /\ s[m].t \in Table
    BY <1>0, <1>1, <2>2 DEF ScriptCall
  <2>4. ~ Overrides(s[b], s[m])
    BY <1>1, <2>2 DEF Stands
  <2>5. ~ SameTable(x, s[m])
    BY <1>1, <2>4 DEF Overrides, SameTable
  <2>6. matcher'[s[m].p][s[m].t] = matcher[s[m].p][s[m].t]
    BY <2>3, <2>5, TablesElsewhere DEF SameTable
  <2>7. MapDrawn(s, m, b - 1)'
    BY <2>1, <2>6, SMTT(30) DEF MapDrawn
  <2>8. MapDrawn(s, m, b)'
    BY <2>2, <2>7 DEF MapDrawn
  <2> QED BY <2>7, <2>8
<1>2. MapsHold(s, b - 1, b)'
  BY <1>1 DEF MapsHold
<1>3. ASSUME MapDrawn(s, b, b)' PROVE MapsHold(s, b, b)'
  <2>1. SUFFICES ASSUME NEW m \in 1 .. b, s[m].op = "setMemConfig", Stands(s, m, b)
                 PROVE  MapDrawn(s, m, b)'
    BY DEF MapsHold
  <2>2. CASE m = b
    BY <1>3, <2>2
  <2>3. CASE m \in 1 .. b - 1
    BY <1>1, <2>1, <2>3
  <2> QED BY <1>0, <2>2, <2>3
<1> QED
  BY <1>2, <1>3

\* The operations of the gateways, call by call.
LEMMA NextStep ==
  ASSUME ConfigOK, NEW x, ScriptCall(x), x.op # "setMemConfig", Perform(x)
  PROVE  \A p \in Proc, k \in Key :
           gateway'[p].next[k] = IF x.p = p /\ x.op = "clearRelationExp" THEN None
                                 ELSE IF Selects(x, p, k) THEN x.to
                                 ELSE gateway[p].next[k]
<1>1. gateway \in [Proc -> GatewayState] /\ x.p \in Proc
  BY DEF ConfigOK, ScriptCall
<1>2. CASE x.op = "insertRelationExp" /\ InsertExp(x.p, x.rel)
  BY <1>1, <1>2 DEF InsertExp, GatewayState, Selects
<1>3. CASE x.op = "clearRelationExp" /\ ClearExp(x.p)
  BY <1>1, <1>3 DEF ClearExp, GatewayState, Selects
<1>4. CASE x.op = "modResMap" /\ ModifyResMap(x.p, x.key, x.to)
  BY <1>1, <1>4 DEF ModifyResMap, GatewayState, Selects
<1>5. CASE x.op = "setDefaultGateEntry" /\ SetDefaultEntry(x.p, x.to)
  BY <1>1, <1>5 DEF SetDefaultEntry, GatewayState, Selects
<1>6. CASE UNCHANGED gateway /\ x.op \notin {"clearRelationExp", "modResMap"}
  BY <1>6 DEF Selects
<1> QED
  BY <1>2, <1>3, <1>4, <1>5, <1>6, CallSteps

\* So each gateway has the operations the calls gave it.
LEMMA NextsMove ==
  ASSUME ConfigOK, NEW s, AllCalls(s), NEW b \in 1 .. Len(s), NextsHold(s, b - 1, b),
         s[b].op # "setMemConfig", Perform(s[b])
  PROVE  NextsHold(s, b, b)'
<1>0. b \in Nat /\ b > 0 /\ \A m \in 1 .. b : ScriptCall(s[m]) /\ (m \in 1 .. b - 1 \/ m = b)
  BY DEF AllCalls
<1>1. ScriptCall(s[b])
  BY <1>0
<1>2. PICK x : x = s[b]
  OBVIOUS
<1>3. \A p \in Proc, k \in Key :
        gateway'[p].next[k] = IF x.p = p /\ x.op = "clearRelationExp" THEN None
                              ELSE IF Selects(x, p, k) THEN x.to
                              ELSE gateway[p].next[k]
  BY <1>1, <1>2, NextStep
<1>4. SUFFICES ASSUME NEW m \in 1 .. b, s[m].op = "clearRelationExp", Stands(s, m, b)
               PROVE  NextDrawn(s, m, b)'
  BY DEF NextsHold
<1>5. s[m].p \in Proc /\ m \in Nat
  BY <1>0, <1>4 DEF ScriptCall
<1>6. CASE m = b
  <2>1. \A k \in Key : gateway'[s[m].p].next[k] = None
    BY <1>2, <1>3, <1>4, <1>5, <1>6
  <2>2. m + 1 .. b = {}
    BY <1>5, <1>6
  <2> QED BY <2>1, <2>2 DEF NextDrawn
<1>7. CASE m \in 1 .. b - 1
  <2>1. NextDrawn(s, m, b - 1)
    BY <1>4, <1>7 DEF NextsHold
  <2>2. /\ b \in m + 1 .. b /\ m + 1 .. b - 1 \subseteq m + 1 .. b
        /\ \A n \in m + 1 .. b : n \in m + 1 .. b - 1 \/ n = b
    BY <1>0, <1>5, <1>7
  <2>3. ~ (x.p = s[m].p /\ x.op = "clearRelationExp")
    BY <1>2, <1>4, <2>2 DEF Stands, Overrides
  <2>4. ASSUME NEW k \in Key
        PROVE  \/ /\ gateway'[s[m].p].next[k] = None
                  /\ \A n \in m + 1 .. b : ~ Selects(s[n], s[m].p, k)
               \/ \E n \in m + 1 .. b : /\ Selects(s[n], s[m].p, k)
                                        /\ gateway'[s[m].p].next[k] = s[n].to
    <3>1. CASE Selects(x, s[m].p, k)
      BY <1>2, <1>3, <1>5, <2>2, <2>3, <3>1
    <3>2. CASE ~ Selects(x, s[m].p, k)
      <4>1. gateway'[s[m].p].next[k] = gateway[s[m].p].next[k]
        BY <1>3, <1>5, <2>3, <3>2
      <4> QED BY <1>2, <2>1, <2>2, <3>2, <4>1 DEF NextDrawn
    <3> QED BY <3>1, <3>2
  <2> QED BY <2>4 DEF NextDrawn
<1> QED
  BY <1>0, <1>6, <1>7

\* The relations of the gateways, call by call.
LEMMA ExpStep ==
  ASSUME ConfigOK, NEW x, ScriptCall(x), x.op # "setMemConfig", Perform(x)
  PROVE  \A p \in Proc :
           gateway'[p].exps = IF x.p = p /\ x.op = "clearRelationExp" THEN <<>>
                              ELSE IF x.p = p /\ x.op = "insertRelationExp"
                              THEN Append(gateway[p].exps, x.rel)
                              ELSE gateway[p].exps
<1>1. gateway \in [Proc -> GatewayState] /\ x.p \in Proc
  BY DEF ConfigOK, ScriptCall
<1>2. CASE x.op = "insertRelationExp" /\ InsertExp(x.p, x.rel)
  BY <1>1, <1>2 DEF InsertExp, GatewayState
<1>3. CASE x.op = "clearRelationExp" /\ ClearExp(x.p)
  BY <1>1, <1>3 DEF ClearExp, GatewayState
<1>4. CASE x.op = "modResMap" /\ ModifyResMap(x.p, x.key, x.to)
  BY <1>1, <1>4 DEF ModifyResMap, GatewayState
<1>5. CASE x.op = "setDefaultGateEntry" /\ SetDefaultEntry(x.p, x.to)
  BY <1>1, <1>5 DEF SetDefaultEntry, GatewayState
<1>6. CASE UNCHANGED gateway /\ x.op \notin {"clearRelationExp", "insertRelationExp"}
  BY <1>6
<1> QED
  BY <1>2, <1>3, <1>4, <1>5, <1>6, CallSteps

\* So each gateway has the relations the calls gave it.
LEMMA ExpsMove ==
  ASSUME ConfigOK, NEW s, AllCalls(s), NEW b \in 1 .. Len(s), ExpsHold(s, b - 1),
         s[b].op # "setMemConfig", Perform(s[b])
  PROVE  ExpsHold(s, b)'
<1>0. b \in Nat /\ b > 0 /\ \A m \in 1 .. b : ScriptCall(s[m]) /\ (m \in 1 .. b - 1 \/ m = b)
  BY DEF AllCalls
<1>1. ScriptCall(s[b])
  BY <1>0
<1>2. PICK x : x = s[b]
  OBVIOUS
<1>3. \A p \in Proc :
        gateway'[p].exps = IF x.p = p /\ x.op = "clearRelationExp" THEN <<>>
                           ELSE IF x.p = p /\ x.op = "insertRelationExp"
                           THEN Append(gateway[p].exps, x.rel)
                           ELSE gateway[p].exps
  BY <1>1, <1>2, ExpStep
<1>4. SUFFICES ASSUME NEW m \in 1 .. b, NEW j \in Nat,
                      s[m].op = "clearRelationExp", m + j <= b, Run(s, m, j),
                      \A k \in m + j + 1 .. b : ~ Rewrites(s[k], s[m].p)
               PROVE  Written(s, m, j)'
  BY DEF ExpsHold
<1>5. s[m].p \in Proc /\ m \in Nat
  BY <1>0, <1>4 DEF ScriptCall
<1>6. CASE m + j <= b - 1
  <2>1. m \in 1 .. b - 1 /\ b \in m + j + 1 .. b /\ m + j + 1 .. b - 1 \subseteq m + j + 1 .. b
    BY <1>0, <1>5, <1>6
  <2>2. Written(s, m, j)
    BY <1>4, <1>6, <2>1 DEF ExpsHold
  <2>3. ~ Rewrites(x, s[m].p)
    BY <1>2, <1>4, <2>1
  <2>4. gateway'[s[m].p].exps = gateway[s[m].p].exps
    BY <1>3, <1>5, <2>3 DEF Rewrites
  <2> QED BY <2>2, <2>4 DEF Written
<1>7. CASE m + j = b /\ j = 0
  <2>1. m = b
    BY <1>5, <1>7
  <2>2. gateway'[s[m].p].exps = <<>>
    BY <1>2, <1>3, <1>4, <1>5, <2>1
  <2>3. 1 .. j = {} /\ Len(<<>>) = 0
    BY <1>7
  <2> QED BY <1>7, <2>2, <2>3 DEF Written
<1>8. CASE m + j = b /\ j > 0
  <2>1. PICK i \in Nat : j = i + 1
    <3>1. j - 1 \in Nat /\ j = (j - 1) + 1
      BY <1>8
    <3> QED BY <3>1
  <2>2. m \in 1 .. b - 1 /\ m + i = b - 1 /\ m + i <= b - 1 /\ j \in 1 .. j /\ m + i + 1 .. b - 1 = {}
    BY <1>0, <1>5, <1>8, <2>1
  <2>3. Run(s, m, i)
    <3>1. 1 .. i \subseteq 1 .. j
      BY <2>1
    <3> QED BY <1>4, <3>1 DEF Run
  <2>4. Written(s, m, i)
    BY <1>4, <2>2, <2>3 DEF ExpsHold
  <2>5. x.op = "insertRelationExp" /\ x.p = s[m].p
    BY <1>2, <1>4, <1>8, <2>2 DEF Run
  <2>6. gateway'[s[m].p].exps = Append(gateway[s[m].p].exps, x.rel)
    BY <1>3, <1>5, <2>5
  <2>7. PICK R : R = SUBSET (Flows \X BOOLEAN)
    OBVIOUS
  <2>8. PICK e \in Seq(R) : e = gateway[s[m].p].exps
    BY <1>5, <2>7 DEF ConfigOK, GatewayState
  <2>9. x.rel \in R
    BY <1>1, <1>2, <2>5, <2>7, GatewayFields DEF ScriptCall, Call
  <2>10. Len(e) = i /\ \A k \in 1 .. i : e[k] = s[m + k].rel
    BY <2>4, <2>8 DEF Written
  <2>11. PICK n : n = Append(e, x.rel)
    OBVIOUS
  <2>12. Len(n) = i + 1 /\ n[i + 1] = x.rel /\ \A k \in 1 .. i : n[k] = e[k]
    BY <2>8, <2>9, <2>10, <2>11
  <2>13. \A k \in 1 .. j : k \in 1 .. i \/ k = i + 1
    BY <2>1
  <2>14. s[m + (i + 1)].rel = x.rel
    BY <1>2, <1>8, <2>1
  <2>15. \A k \in 1 .. j : n[k] = s[m + k].rel
    BY <2>10, <2>12, <2>13, <2>14
  <2> QED BY <2>1, <2>6, <2>8, <2>11, <2>12, <2>15 DEF Written
<1>9. m + j <= b - 1 \/ (m + j = b /\ j = 0) \/ (m + j = b /\ j > 0)
  BY <1>0, <1>4, <1>5
<1> QED
  BY <1>6, <1>7, <1>8, <1>9

-----------------------------------------------------------------------------
(***************************************************************************)
(* setMemConfig, between whose steps packets may pass.                     *)
(***************************************************************************)
\* The steps of setMemConfig.
ToClear(r) == [op |-> "clearOldConfig", p |-> r.p, t |-> r.t]
ToType(r)  == [op |-> "initMatchType", p |-> r.p, t |-> r.t, type |-> r.type]
ToOpen(r)  == [op |-> "openTable", p |-> r.p, t |-> r.t]
ToSize(r)  == [op |-> "setGeometry", p |-> r.p, t |-> r.t, depth |-> r.depth,
               block |-> r.block]
ToMiss(r)  == [op |-> "setMissActId", p |-> r.p, t |-> r.t, miss |-> r.miss]

\* What they have done so far.
Emptied(r) == \A a \in Choice : matcher[r.p][r.t].map[a] \in {None, 0}
Typed(r)  == Emptied(r) /\ matcher[r.p][r.t].type = r.type
Opened(r) == Typed(r) /\ ~ matcher[r.p][r.t].noTable
Sized(r)  == /\ Opened(r) /\ matcher[r.p][r.t].depth = r.depth
             /\ r.depth > 0 => matcher[r.p][r.t].block = r.block

\* The request r, of which the steps q are left.
Underway(r, q) ==
  \/ r.op # "setMemConfig" /\ q = <<r>>
  \/ /\ r.op = "setMemConfig"
     /\ \/ q = <<ToClear(r), ToType(r), ToOpen(r), ToSize(r), ToMiss(r)>>
        \/ q = <<ToType(r), ToOpen(r), ToSize(r), ToMiss(r)>> /\ Emptied(r)
        \/ q = <<ToOpen(r), ToSize(r), ToMiss(r)>> /\ Typed(r)
        \/ q = <<ToSize(r), ToMiss(r)>> /\ Opened(r)
        \/ q = <<ToMiss(r)>> /\ Sized(r)

\* What setMemConfig did so far stays under a step that is not of the script.
LEMMA EmptiedDrift ==
  ASSUME NEW r, ScriptCall(r), r.op = "setMemConfig", Drift
  PROVE  /\ Emptied(r) => Emptied(r)'
         /\ Typed(r) => Typed(r)'
         /\ Opened(r) => Opened(r)'
         /\ Sized(r) => Sized(r)'
<1>1. PICK o : o = matcher[r.p][r.t]
  OBVIOUS
<1>2. PICK n : n = matcher'[r.p][r.t]
  OBVIOUS
<1>3. r.p \in Proc /\ r.t \in Table
  BY DEF ScriptCall
<1>4. /\ n.noTable = o.noTable /\ n.type = o.type /\ n.depth = o.depth /\ n.block = o.block
      /\ \A a \in Choice : n.map[a] = o.map[a] \/ (o.map[a] = None /\ n.map[a] = 0)
  BY <1>1, <1>2, <1>3 DEF Drift
<1>5. Emptied(r) => Emptied(r)'
  BY <1>1, <1>2, <1>4 DEF Emptied
<1> QED
  BY <1>1, <1>2, <1>4, <1>5 DEF Typed, Opened, Sized

\* A request under way stays so, whatever packets do.
LEMMA UnderwayDrift ==
  ASSUME NEW r, ScriptCall(r), NEW q, Underway(r, q), Drift
  PROVE  Underway(r, q)'
<1>1. r.op = "setMemConfig" => /\ Emptied(r) => Emptied(r)'
                               /\ Typed(r) => Typed(r)'
                               /\ Opened(r) => Opened(r)'
                               /\ Sized(r) => Sized(r)'
  BY EmptiedDrift
<1> QED
  BY <1>1 DEF Underway

\* The call performed for a request, of a table's steps.
MemPart(r, x) == r.op = "setMemConfig" /\ TableStep(x) /\ SameTable(x, r)

\* The five steps are steps of the request's table.
LEMMA MemSteps ==
  ASSUME NEW r, ScriptCall(r), r.op = "setMemConfig"
  PROVE  \A x \in {ToClear(r), ToType(r), ToOpen(r), ToSize(r), ToMiss(r)} :
           Perform(x) => MemPart(r, x)
<1>1. /\ r.p \in Proc /\ r.t \in Table /\ r.type \in TableType /\ r.depth \in {0, 1}
      /\ r.miss \in Choice
  BY DEF ScriptCall
<1>2. Perform(ToClear(r)) => MemPart(r, ToClear(r))
  BY <1>1 DEF Perform, MemPart, TableStep, SameTable, ToClear
<1>3. Perform(ToType(r)) => MemPart(r, ToType(r))
  BY <1>1 DEF Perform, MemPart, TableStep, SameTable, ToType
<1>4. Perform(ToOpen(r)) => MemPart(r, ToOpen(r))
  BY <1>1 DEF Perform, MemPart, TableStep, SameTable, ToOpen
<1>5. Perform(ToSize(r)) => MemPart(r, ToSize(r))
  BY <1>1 DEF Perform, MemPart, TableStep, SameTable, ToSize
<1>6. Perform(ToMiss(r)) => MemPart(r, ToMiss(r))
  BY <1>1 DEF Perform, MemPart, TableStep, SameTable, ToMiss
<1> QED
  BY <1>2, <1>3, <1>4, <1>5, <1>6

\* What each step of setMemConfig has done, given what was done before it.
LEMMA Emptying ==
  ASSUME ConfigOK, NEW r, ScriptCall(r), r.op = "setMemConfig", NEW x, MemPart(r, x)
  PROVE  /\ x = ToClear(r) => Emptied(r)'
         /\ x = ToType(r) /\ Emptied(r) => Typed(r)'
         /\ x = ToOpen(r) /\ Typed(r) => Opened(r)'
         /\ x = ToSize(r) /\ Opened(r) => Sized(r)'
         /\ x = ToMiss(r) /\ Sized(r) => Sized(r)' /\ TableHolds(r)'
<1>1. PICK o : o = matcher[x.p][x.t]
  OBVIOUS
<1>2. PICK n : n = matcher'[x.p][x.t]
  OBVIOUS
<1>3. x.p = r.p /\ x.t = r.t /\ TableStep(x) /\ r.p \in Proc /\ r.t \in Table
  BY DEF MemPart, SameTable, ScriptCall
<1>4. /\ x.op = "clearOldConfig" => n.type = o.type /\ n.map = NoMap
      /\ x.op = "initMatchType" => n.type = x.type
      /\ x.op # "initMatchType" => n.type = o.type
      /\ x.op = "openTable" => ~ n.noTable
      /\ x.op \notin {"clearOldConfig", "openTable"} => n.noTable = o.noTable
      /\ x.op = "setGeometry" => n.depth = x.depth /\ (x.depth > 0 => n.block = x.block)
      /\ x.op \notin {"clearOldConfig", "setGeometry"} => n.depth = o.depth /\ n.block = o.block
      /\ x.op = "setMissActId" => n.miss = x.miss
      /\ x.op \notin {"clearOldConfig", "setActionProc"} => n.map = o.map
  BY <1>1, <1>2, <1>3, TableStepEffect
<1>5. o = matcher[r.p][r.t] /\ n = matcher'[r.p][r.t]
  BY <1>1, <1>2, <1>3
<1>8. ASSUME x = ToClear(r) PROVE Emptied(r)'
  <2>1. n.map = NoMap
    BY <1>4, <1>8 DEF ToClear
  <2>2. \A a \in Choice : n.map[a] \in {None, 0}
    BY <2>1 DEF NoMap
  <2> QED BY <1>5, <2>1, <2>2 DEF Emptied
<1>9. ASSUME x.op \in {"initMatchType", "openTable", "setGeometry", "setMissActId"}, Emptied(r)
      PROVE  Emptied(r)'
  <2>1. n.map = o.map
    BY <1>4, <1>9
  <2> QED BY <1>5, <1>9, <2>1 DEF Emptied
<1>10. ASSUME x = ToType(r), Emptied(r) PROVE Typed(r)'
  <2>1. x.op = "initMatchType" /\ x.type = r.type
    BY <1>10 DEF ToType
  <2> QED BY <1>4, <1>5, <1>9, <1>10, <2>1 DEF Typed
<1>11. ASSUME x = ToOpen(r), Typed(r) PROVE Opened(r)'
  <2>1. x.op = "openTable"
    BY <1>11 DEF ToOpen
  <2> QED BY <1>4, <1>5, <1>9, <1>11, <2>1 DEF Typed, Opened
<1>12. ASSUME x = ToSize(r), Opened(r) PROVE Sized(r)'
  <2>1. x.op = "setGeometry" /\ x.depth = r.depth /\ x.block = r.block
    BY <1>12 DEF ToSize
  <2> QED BY <1>4, <1>5, <1>9, <1>12, <2>1 DEF Typed, Opened, Sized
<1>13. ASSUME x = ToMiss(r), Sized(r) PROVE Sized(r)' /\ TableHolds(r)'
  <2>1. x.op = "setMissActId" /\ x.miss = r.miss
    BY <1>13 DEF ToMiss
  <2>2. Sized(r)'
    BY <1>4, <1>5, <1>9, <1>13, <2>1 DEF Typed, Opened, Sized
  <2> QED BY <1>4, <1>5, <2>1, <2>2 DEF Typed, Opened, Sized, TableHolds
<1> QED
  BY <1>8, <1>10, <1>11, <1>12, <1>13

\* The server performs the next step of a request: it was one step and is done, or
\* setMemConfig goes on or ends with the table as the request said.
LEMMA Serving ==
  ASSUME ConfigOK, NEW r, ScriptCall(r), NEW q, Underway(r, q), Perform(Head(q))
  PROVE  \/ r.op # "setMemConfig" /\ q = <<r>> /\ Tail(q) = <<>> /\ Perform(r)
         \/ /\ MemPart(r, Head(q))
            /\ \/ Tail(q) # <<>> /\ Underway(r, Tail(q))'
               \/ Tail(q) = <<>> /\ TableHolds(r)' /\ Emptied(r)'
<1>1. CASE r.op # "setMemConfig"
  <2>1. q = <<r>>
    BY <1>1 DEF Underway
  <2>2. Tail(q) = <<>> /\ Head(q) = r
    BY <2>1
  <2>3. Perform(r)
    BY <2>2
  <2> QED BY <1>1, <2>1, <2>2, <2>3
<1>2. CASE r.op = "setMemConfig"
  <2>1. Head(q) \in {ToClear(r), ToType(r), ToOpen(r), ToSize(r), ToMiss(r)}
    BY <1>2 DEF Underway
  <2>2. PICK x : x = Head(q)
    OBVIOUS
  <2>3. MemPart(r, x)
    <3>1. Perform(x)
      BY <2>2
    <3> QED BY <1>2, <2>1, <2>2, <3>1, MemSteps
  <2>4. /\ x = ToClear(r) => Emptied(r)'
        /\ x = ToType(r) /\ Emptied(r) => Typed(r)'
        /\ x = ToOpen(r) /\ Typed(r) => Opened(r)'
        /\ x = ToSize(r) /\ Opened(r) => Sized(r)'
        /\ x = ToMiss(r) /\ Sized(r) => Sized(r)' /\ TableHolds(r)'
    BY <1>2, <2>3, Emptying
  <2>5. /\ Sized(r)' => Opened(r)'
        /\ Opened(r)' => Typed(r)'
        /\ Typed(r)' => Emptied(r)'
    BY DEF Sized, Opened, Typed
  <2>6. \/ Tail(q) # <<>> /\ Underway(r, Tail(q))'
        \/ Tail(q) = <<>> /\ TableHolds(r)' /\ Emptied(r)'
    <3>1. CASE q = <<ToClear(r), ToType(r), ToOpen(r), ToSize(r), ToMiss(r)>>
      <4>1. x = ToClear(r) /\ Tail(q) = <<ToType(r), ToOpen(r), ToSize(r), ToMiss(r)>>
        BY <2>2, <3>1
      <4>2. Tail(q) # <<>>
        BY <4>1
      <4> QED BY <1>2, <2>4, <4>1, <4>2 DEF Underway
    <3>2. CASE q = <<ToType(r), ToOpen(r), ToSize(r), ToMiss(r)>> /\ Emptied(r)
      <4>1. x = ToType(r) /\ Tail(q) = <<ToOpen(r), ToSize(r), ToMiss(r)>>
        BY <2>2, <3>2
      <4>2. Tail(q) # <<>>
        BY <4>1
      <4> QED BY <1>2, <2>4, <2>5, <3>2, <4>1, <4>2 DEF Underway
    <3>3. CASE q = <<ToOpen(r), ToSize(r), ToMiss(r)>> /\ Typed(r)
      <4>1. x = ToOpen(r) /\ Tail(q) = <<ToSize(r), ToMiss(r)>>
        BY <2>2, <3>3
      <4>2. Tail(q) # <<>>
        BY <4>1
      <4> QED BY <1>2, <2>4, <2>5, <3>3, <4>1, <4>2 DEF Underway
    <3>4. CASE q = <<ToSize(r), ToMiss(r)>> /\ Opened(r)
      <4>1. x = ToSize(r) /\ Tail(q) = <<ToMiss(r)>>
        BY <2>2, <3>4
      <4>2. Tail(q) # <<>>
        BY <4>1
      <4> QED BY <1>2, <2>4, <2>5, <3>4, <4>1, <4>2 DEF Underway
    <3>5. CASE q = <<ToMiss(r)>> /\ Sized(r)
      <4>1. x = ToMiss(r) /\ Tail(q) = <<>>
        BY <2>2, <3>5
      <4> QED BY <2>4, <2>5, <3>5, <4>1
    <3> QED BY <1>2, <3>1, <3>2, <3>3, <3>4, <3>5 DEF Underway
  <2> QED BY <2>2, <2>3, <2>6
<1> QED
  BY <1>1, <1>2

-----------------------------------------------------------------------------
\* All the calls made so far have done, in the switch.
Standing(s, d, b) ==
  Effects(s, d, b) /\ MapsHold(s, d, b) /\ NextsHold(s, d, b) /\ ExpsHold(s, d)

\* Before the first call there is nothing to stand.
LEMMA StandingNone == \A s, b : Standing(s, 0, b)'
<1>1. \A m \in 1 .. 0 : FALSE
  OBVIOUS
<1> QED
  BY <1>1 DEF Standing, Effects, MapsHold, NextsHold, ExpsHold

\* What stands stays under a step that is not of the script.
LEMMA StandingStays ==
  ASSUME NEW s, AllCalls(s), NEW d \in Nat, d <= Len(s), NEW b \in Nat, NEW e \in Nat, b <= e,
         Standing(s, d, b), Drift
  PROVE  Standing(s, d, e)'
<1>1. Effects(s, d, b) /\ MapsHold(s, d, b) /\ NextsHold(s, d, b) /\ ExpsHold(s, d)
  BY DEF Standing
<1>2. Effects(s, d, e)'
  BY <1>1, EffectsStay
<1>3. MapsHold(s, d, e)' /\ NextsHold(s, d, e)' /\ ExpsHold(s, d)'
  BY <1>1, DrawnStay
<1> QED
  BY <1>2, <1>3 DEF Standing

\* A call of one step, once performed.
LEMMA StandingCall ==
  ASSUME ConfigOK, NEW s, AllCalls(s), NEW b \in 1 .. Len(s), Standing(s, b - 1, b),
         s[b].op # "setMemConfig", Perform(s[b])
  PROVE  Standing(s, b, b)'
<1>1. ScriptCall(s[b])
  BY DEF AllCalls
<1>2. Effects(s, b - 1, b) /\ MapsHold(s, b - 1, b) /\ NextsHold(s, b - 1, b) /\ ExpsHold(s, b - 1)
  BY DEF Standing
<1>3. Keeping(s[b])
  BY <1>1, CallIsKeeping
<1>4. Holds(s[b])'
  BY <1>1, CallGives
<1>5. Effects(s, b, b)'
  BY <1>2, <1>3, <1>4, EffectsMove
<1>6. MapsHold(s, b, b)'
  BY <1>2, MapsMove
<1>7. NextsHold(s, b, b)'
  BY <1>2, NextsMove
<1>8. ExpsHold(s, b)'
  BY <1>2, ExpsMove
<1> QED
  BY <1>5, <1>6, <1>7, <1>8 DEF Standing

\* A step of setMemConfig, before the last and the last.
LEMMA StandingMem ==
  ASSUME ConfigOK, NEW s, AllCalls(s), NEW b \in 1 .. Len(s), Standing(s, b - 1, b),
         NEW x, MemPart(s[b], x)
  PROVE  /\ Standing(s, b - 1, b)'
         /\ TableHolds(s[b])' /\ Emptied(s[b])' => Standing(s, b, b)'
<1>1. ScriptCall(s[b]) /\ s[b].op = "setMemConfig" /\ TableStep(x) /\ SameTable(x, s[b])
  BY DEF AllCalls, MemPart
<1>2. Effects(s, b - 1, b) /\ MapsHold(s, b - 1, b) /\ NextsHold(s, b - 1, b) /\ ExpsHold(s, b - 1)
  BY DEF Standing
<1>3. Keeping(s[b])
  BY <1>1, MemIsKeeping
<1>4. gateway' = gateway
  BY <1>1, TablesElsewhere
<1>5. Effects(s, b - 1, b)'
  BY <1>2, <1>3, EffectsMove
<1>6. MapsHold(s, b - 1, b)'
  BY <1>1, <1>2, MapsMoveMem
<1>7. NextsHold(s, b - 1, b)' /\ ExpsHold(s, b - 1)'
  BY <1>2, <1>4 DEF NextsHold, NextDrawn, ExpsHold, Written
<1>8. ASSUME TableHolds(s[b])', Emptied(s[b])'
      PROVE  Standing(s, b, b)'
  <2>1. Holds(s[b])'
    BY <1>1, <1>8 DEF Holds, ParserHolds, GateHolds, ActionHolds
  <2>2. Effects(s, b, b)'
    BY <1>2, <1>3, <2>1, EffectsMove
  <2>3. MapDrawn(s, b, b)'
    BY <1>8 DEF MapDrawn, Emptied
  <2>4. MapsHold(s, b, b)'
    BY <1>1, <1>2, <2>3, MapsMoveMem
  <2>5. b \in Nat /\ \A m \in 1 .. b : m \in 1 .. b - 1 \/ m = b
    BY DEF AllCalls
  <2>6. NextsHold(s, b, b)'
    <3>1. SUFFICES ASSUME NEW m \in 1 .. b, s[m].op = "clearRelationExp", Stands(s, m, b)
                   PROVE  NextDrawn(s, m, b)'
      BY DEF NextsHold
    <3>2. m \in 1 .. b - 1
      BY <1>1, <2>5, <3>1
    <3>3. NextDrawn(s, m, b - 1)'
      BY <1>7, <3>1, <3>2 DEF NextsHold
    <3>4. /\ m + 1 .. b - 1 \subseteq m + 1 .. b
          /\ \A n \in m + 1 .. b : n \in m + 1 .. b - 1 \/ n = b
      BY <2>5, <3>2
    <3>5. \A k \in Key : ~ Selects(s[b], s[m].p, k)
      BY <1>1 DEF Selects
    <3> QED BY <3>3, <3>4, <3>5 DEF NextDrawn
  <2>7. ExpsHold(s, b)'
    <3>1. SUFFICES ASSUME NEW m \in 1 .. b, NEW j \in Nat,
                          s[m].op = "clearRelationExp", m + j <= b, Run(s, m, j),
                          \A k \in m + j + 1 .. b : ~ Rewrites(s[k], s[m].p)
                   PROVE  Written(s, m, j)'
      BY DEF ExpsHold
    <3>2. m + j # b
      <4>1. CASE j = 0
        BY <1>1, <2>5, <3>1, <4>1
      <4>2. CASE j > 0
        <5>1. j \in 1 .. j
          BY <4>2
        <5>2. s[m + j].op = "insertRelationExp"
          BY <3>1, <5>1 DEF Run
        <5> QED BY <1>1, <5>2
      <4> QED BY <4>1, <4>2
    <3>3. m \in 1 .. b - 1 /\ m + j <= b - 1 /\ m + j + 1 .. b - 1 \subseteq m + j + 1 .. b
      BY <2>5, <3>1, <3>2
    <3> QED BY <1>7, <3>1, <3>3 DEF ExpsHold
  <2> QED BY <2>2, <2>4, <2>6, <2>7 DEF Standing
<1> QED
  BY <1>5, <1>6, <1>7, <1>8 DEF Standing

-----------------------------------------------------------------------------
(***************************************************************************)
(* The end of the script: what no call undid is what the configuration says. *)
(***************************************************************************)
\* The places of a processor's calls, in numbers.
InPlace(c) ==
  /\ Whole(c) \in Nat /\ 1 \in 1 .. Whole(c)
  /\ ClearAt(c) \in 1 .. Whole(c) /\ DefaultAt(c) \in 1 .. Whole(c)
  /\ DefaultAt(c) = ClearAt(c) + Len(c.exps) + 1 /\ Len(c.exps) \in Nat
  /\ \A n \in DOMAIN c.entries : /\ n \in Nat /\ EntryAt(c, n) = 1 + n
                                 /\ EntryAt(c, n) \in 1 .. Whole(c)
  /\ \A n \in DOMAIN c.exps : /\ n \in 1 .. Len(c.exps) /\ ExpAt(c, n) = ClearAt(c) + n
                              /\ ExpAt(c, n) \in 1 .. Whole(c)
  /\ 1 .. Len(c.exps) \subseteq DOMAIN c.exps
  /\ \A n \in DOMAIN c.next : NextAt(c, n) \in ClearAt(c) + 1 .. Whole(c)
  /\ \A n \in DOMAIN c.tables : /\ TableAt(c, n) \in Nat
                                /\ TableAt(c, n) + 3 <= Whole(c)
  /\ \A n \in DOMAIN c.actions : ActionAt(c, n) \in 1 .. Whole(c)

\* The places of the calls are so for every configuration.
LEMMA AllInPlace == ASSUME NEW c \in ProcConfig PROVE InPlace(c)
<1>1. PICK E \in Nat : E = Len(c.entries) /\ DOMAIN c.entries = 1 .. E
  BY DEF ProcConfig
<1>2. PICK X \in Nat : X = Len(c.exps) /\ DOMAIN c.exps = 1 .. X
  BY DEF ProcConfig
<1>3. PICK N \in Nat : N = Len(c.next) /\ DOMAIN c.next = 1 .. N
  BY DEF ProcConfig
<1>4. PICK M \in Nat : M = Len(c.tables) /\ DOMAIN c.tables = 1 .. M
  BY DEF ProcConfig
<1>5. PICK A \in Nat : A = Len(c.actions) /\ DOMAIN c.actions = 1 .. A
  BY DEF ProcConfig
<1>6. /\ GatewayFrom(c) = 1 + E /\ MatcherFrom(c) = 1 + E + 2 + X + N
      /\ ExecutorFrom(c) = 1 + E + 2 + X + N + 3 * M
      /\ Whole(c) = 1 + E + 2 + X + N + 3 * M + A
  <2>1. ParserLen(c) = 1 + E
    BY <1>1 DEF ParserLen
  <2>2. GatewayLen(c) = 2 + X + N
    BY <1>2, <1>3 DEF GatewayLen
  <2>3. MatcherLen(c) = 3 * M
    BY <1>4 DEF MatcherLen
  <2>4. ExecutorLen(c) = A
    BY <1>5 DEF ExecutorLen
  <2>5. GatewayFrom(c) = 1 + E
    BY <2>1 DEF GatewayFrom
  <2>6. MatcherFrom(c) = 1 + E + 2 + X + N
    BY <2>1, <2>2 DEF MatcherFrom
  <2>7. ExecutorFrom(c) = 1 + E + 2 + X + N + 3 * M
    BY <2>1, <2>2, <2>3 DEF ExecutorFrom
  <2>8. Whole(c) = 1 + E + 2 + X + N + 3 * M + A
    BY <2>1, <2>2, <2>3, <2>4 DEF Whole
  <2> QED BY <2>5, <2>6, <2>7, <2>8
<1>7. PICK T \in Nat : T = 3 * M
  OBVIOUS
<1>8. PICK W \in Nat : W = 3 + E + X + N + T + A /\ W = Whole(c)
  <2>1. 3 + E + X + N + T + A \in Nat
    OBVIOUS
  <2>2. 3 + E + X + N + T + A = 1 + E + 2 + X + N + T + A
    OBVIOUS
  <2> QED BY <1>6, <1>7, <2>1, <2>2
<1>9. ClearAt(c) = E + 2 /\ DefaultAt(c) = E + 3 + X /\ X = Len(c.exps)
  <2>1. ClearAt(c) = 1 + E + 1
    BY <1>6 DEF ClearAt
  <2>2. DefaultAt(c) = 1 + E + 2 + X
    BY <1>2, <1>6 DEF DefaultAt
  <2> QED BY <1>2, <2>1, <2>2
<1>10. \A n \in DOMAIN c.entries : /\ n \in Nat /\ EntryAt(c, n) = 1 + n
                                   /\ EntryAt(c, n) \in 1 .. Whole(c)
  <2>1. \A n \in 1 .. E : n \in Nat /\ 1 + n \in 1 .. W
    BY <1>8
  <2> QED BY <1>1, <1>8, <2>1 DEF EntryAt
<1>11. \A n \in DOMAIN c.exps : /\ n \in 1 .. X /\ ExpAt(c, n) = ClearAt(c) + n
                               /\ ExpAt(c, n) \in 1 .. Whole(c)
  <2>1. \A n \in 1 .. X : 1 + E + 1 + n \in 1 .. W /\ 1 + E + 1 + n = E + 2 + n
    BY <1>8
  <2>2. \A n : ExpAt(c, n) = 1 + E + 1 + n
    BY <1>6 DEF ExpAt
  <2> QED BY <1>2, <1>9, <1>8, <2>1, <2>2
<1>12. \A n \in DOMAIN c.next : NextAt(c, n) \in ClearAt(c) + 1 .. Whole(c)
  <2>1. \A n \in 1 .. N : 1 + E + 2 + X + n \in E + 2 + 1 .. W
    BY <1>8
  <2>2. \A n : NextAt(c, n) = 1 + E + 2 + X + n
    BY <1>2, <1>6 DEF NextAt
  <2> QED BY <1>3, <1>9, <1>8, <2>1, <2>2
<1>13. \A n \in DOMAIN c.tables : TableAt(c, n) \in Nat /\ TableAt(c, n) + 3 <= Whole(c)
  <2>1. SUFFICES ASSUME NEW n \in 1 .. M
                 PROVE  TableAt(c, n) \in Nat /\ TableAt(c, n) + 3 <= Whole(c)
    BY <1>4
  <2>2. PICK z \in Nat : z = 1 + E + 2 + X + N
    OBVIOUS
  <2>3. TableAt(c, n) = z + 3 * (n - 1)
    BY <1>6, <2>2 DEF TableAt
  <2>4. 3 * (n - 1) \in Nat /\ 3 * (n - 1) + 3 <= 3 * M
    OBVIOUS
  <2>5. Whole(c) = z + 3 * M + A
    BY <1>6, <2>2
  <2> QED BY <2>3, <2>4, <2>5
<1>14. \A n \in DOMAIN c.actions : ActionAt(c, n) \in 1 .. Whole(c)
  <2>1. \A n \in 1 .. A : 1 + E + 2 + X + N + T + n \in 1 .. W
    BY <1>8
  <2>2. \A n : ActionAt(c, n) = 1 + E + 2 + X + N + T + n
    BY <1>6, <1>7 DEF ActionAt
  <2> QED BY <1>5, <1>8, <2>1, <2>2
<1>15. /\ W \in Nat /\ 1 \in 1 .. W /\ E + 2 \in 1 .. W /\ E + 3 + X \in 1 .. W
       /\ E + 3 + X = E + 2 + X + 1
  BY <1>8
<1>16. /\ Whole(c) \in Nat /\ 1 \in 1 .. Whole(c)
       /\ ClearAt(c) \in 1 .. Whole(c) /\ DefaultAt(c) \in 1 .. Whole(c)
       /\ DefaultAt(c) = ClearAt(c) + Len(c.exps) + 1 /\ Len(c.exps) \in Nat
       /\ 1 .. Len(c.exps) \subseteq DOMAIN c.exps
  BY <1>2, <1>9, <1>15, <1>8
<1> QED
  BY <1>9, <1>10, <1>11, <1>12, <1>13, <1>14, <1>16 DEF InPlace

\* A place of the processor's calls is a place of the script.
LEMMA PlaceWithin ==
  ASSUME NEW o \in Nat, NEW W \in Nat, NEW L \in Nat, o + W <= L, NEW a \in 1 .. W
  PROVE  o + a \in 1 .. L
  OBVIOUS

-----------------------------------------------------------------------------
\* The call of a processor that is the only one of its kind is the last of it.
LEMMA FinalParser ==
  ASSUME NEW p, NEW c, NEW s, NEW o, Owns(p, c, s, o), NEW L \in Nat, L = Len(s), Effects(s, L, L)
  PROVE  ParserInstalled(p, c)
<1>1. /\ o \in Nat /\ o + Whole(c) <= L /\ Made(p, c, s, o) /\ InPlace(c)
      /\ \A m \in 1 .. L : s[m].p = p => m = o + (m - o) /\ PlaceOf(c, s[m].op, m - o)
  BY AllInPlace DEF Owns
<1>2. parser[p].working /\ parser[p].level = c.level
  <2>1. PICK m : m = o + 1
    OBVIOUS
  <2>2. m \in 1 .. L
    <3>1. o \in Nat /\ Whole(c) \in Nat /\ 1 \in 1 .. Whole(c) /\ o + Whole(c) <= L
      BY <1>1 DEF InPlace
    <3> QED BY <2>1, <3>1, PlaceWithin
  <2>3. s[m] = InitCall(p, c)
    BY <1>1, <2>1 DEF Made
  <2>4. s[m].op = "initParserLevel" /\ s[m].p = p /\ s[m].level = c.level
    BY <2>3 DEF InitCall
  <2>5. ASSUME NEW k \in m + 1 .. L, Overrides(s[k], s[m]) PROVE FALSE
    <3>1. s[k].op = "initParserLevel" /\ s[k].p = p /\ k \in 1 .. L
      BY <2>2, <2>4, <2>5 DEF Overrides
    <3>2. k - o = 1 /\ k = o + (k - o)
      BY <1>1, <3>1 DEF PlaceOf
    <3> QED BY <1>1, <2>1, <2>5, <3>2
  <2>6. Holds(s[m])
    BY <2>2, <2>5 DEF Effects, Stands
  <2> QED BY <2>4, <2>6 DEF Holds, ParserHolds
<1>3. ASSUME NEW n \in DOMAIN c.entries, LastInRow(c, n)
      PROVE  parser[p].entries[c.entries[n].l][c.entries[n].i]
               = [covers |-> c.entries[n].covers, drop |-> c.entries[n].drop]
  <2>1. PICK m : m = o + EntryAt(c, n)
    OBVIOUS
  <2>2. m \in 1 .. L
    <3>1. /\ o \in Nat /\ Whole(c) \in Nat /\ EntryAt(c, n) \in 1 .. Whole(c)
          /\ o + Whole(c) <= L
      BY <1>1 DEF InPlace
    <3> QED BY <2>1, <3>1, PlaceWithin
  <2>3. s[m] = EntryCall(p, c.entries[n])
    BY <1>1, <2>1 DEF Made
  <2>4. /\ s[m].op = "modParserEntry" /\ s[m].p = p
        /\ s[m].l = c.entries[n].l /\ s[m].i = c.entries[n].i
        /\ s[m].covers = c.entries[n].covers /\ s[m].drop = c.entries[n].drop
    BY <2>3 DEF EntryCall
  <2>5. ASSUME NEW k \in m + 1 .. L, Overrides(s[k], s[m]) PROVE FALSE
    <3>1. /\ s[k].op = "modParserEntry" /\ s[k].p = p /\ k \in 1 .. L
          /\ s[k].l = c.entries[n].l /\ s[k].i = c.entries[n].i
      BY <2>2, <2>4, <2>5 DEF Overrides
    <3>2. PICK q \in DOMAIN c.entries : k - o = EntryAt(c, q) /\ k = o + (k - o)
      BY <1>1, <3>1 DEF PlaceOf
    <3>3. s[k] = EntryCall(p, c.entries[q])
      BY <1>1, <3>2 DEF Made
    <3>4. s[k].l = c.entries[q].l /\ s[k].i = c.entries[q].i
      BY <3>3 DEF EntryCall
    <3>5. q > n
      <4>1. q \in Nat /\ n \in Nat /\ EntryAt(c, q) = 1 + q /\ EntryAt(c, n) = 1 + n
        BY <1>1 DEF InPlace
      <4>2. k = o + (1 + q) /\ m = o + (1 + n) /\ k > m
        BY <2>1, <2>2, <2>5, <3>2, <4>1
      <4> QED BY <1>1, <4>1, <4>2
    <3> QED BY <1>3, <3>1, <3>4, <3>5 DEF LastInRow
  <2>6. Holds(s[m])
    BY <2>2, <2>5 DEF Effects, Stands
  <2> QED BY <2>4, <2>6 DEF Holds, ParserHolds
<1> QED
  BY <1>2, <1>3 DEF ParserInstalled

\* Each action has a slot of its own, so all of them are installed.
LEMMA FinalActions ==
  ASSUME NEW p, NEW c, NEW s, NEW o, Owns(p, c, s, o), NEW L \in Nat, L = Len(s),
         Effects(s, L, L)
  PROVE  ExecutorInstalled(p, c)
<1>1. /\ o \in Nat /\ o + Whole(c) <= L /\ Made(p, c, s, o) /\ InPlace(c)
      /\ \A m \in 1 .. L : s[m].p = p => m = o + (m - o) /\ PlaceOf(c, s[m].op, m - o)
  BY AllInPlace DEF Owns
<1>2. SUFFICES ASSUME NEW n \in DOMAIN c.actions, LastAction(c, n)
               PROVE  exe[p][c.actions[n].a] = [st |-> "live", body |-> c.actions[n].body]
  BY DEF ExecutorInstalled, BodyOf
<1>3. PICK m : m = o + ActionAt(c, n)
  OBVIOUS
<1>4. m \in 1 .. L
  BY <1>1, <1>3 DEF InPlace
<1>5. s[m] = ActionCall(p, c.actions[n])
  BY <1>1, <1>3 DEF Made
<1>6. /\ s[m].op = "insertAction" /\ s[m].p = p
      /\ s[m].a = c.actions[n].a /\ s[m].body = c.actions[n].body
  BY <1>5 DEF ActionCall
<1>7. ASSUME NEW k \in m + 1 .. L, Overrides(s[k], s[m]) PROVE FALSE
  <2>1. /\ s[k].op = "insertAction" /\ s[k].p = p /\ k \in 1 .. L /\ s[k].a = c.actions[n].a
    BY <1>4, <1>6, <1>7 DEF Overrides
  <2>2. PICK q \in DOMAIN c.actions : k - o = ActionAt(c, q) /\ k = o + (k - o)
    BY <1>1, <2>1 DEF PlaceOf
  <2>3. s[k] = ActionCall(p, c.actions[q])
    BY <1>1, <2>2 DEF Made
  <2>4. q <= n
    <3>1. s[k].a = c.actions[q].a
      BY <2>3 DEF ActionCall
    <3> QED BY <1>2, <2>1, <2>2, <3>1 DEF LastAction
  <2>5. ExecutorFrom(c) \in Nat /\ q \in Nat /\ n \in Nat
    <3>1. c \in ProcConfig
      BY DEF Owns
    <3>2. Len(c.actions) \in Nat /\ DOMAIN c.actions = 1 .. Len(c.actions)
      BY <3>1 DEF ProcConfig
    <3> QED BY <3>1, <3>2, LenTypes
  <2>6. k <= m
    BY <1>1, <1>3, <2>2, <2>4, <2>5 DEF ActionAt
  <2> QED BY <1>4, <1>7, <2>6
<1>8. Holds(s[m])
  BY <1>4, <1>7 DEF Effects, Stands
<1> QED
  BY <1>6, <1>8 DEF Holds, ActionHolds

\* The gateway was cleared once, before its relations and its operations: it has
\* these and no others.
LEMMA FinalGateway ==
  ASSUME ConfigOK, NEW p \in Proc, NEW c, NEW s, NEW o, Owns(p, c, s, o),
         NEW L \in Nat, L = Len(s), Standing(s, L, L)
  PROVE  GatewayInstalled(p, c)
<1>1. /\ o \in Nat /\ o + Whole(c) <= L /\ Made(p, c, s, o) /\ InPlace(c) /\ c \in ProcConfig
      /\ \A m \in 1 .. L : s[m].p = p => m = o + (m - o) /\ PlaceOf(c, s[m].op, m - o)
  BY AllInPlace DEF Owns
<1>2. PICK h : h = o + ClearAt(c)
  OBVIOUS
<1>3. h \in 1 .. L
  BY <1>1, <1>2 DEF InPlace
<1>4. s[h].op = "clearRelationExp" /\ s[h].p = p
  BY <1>1, <1>2 DEF Made, ClearCall
<1>5. \A k \in 1 .. L : s[k].op = "clearRelationExp" /\ s[k].p = p => k = h
  BY <1>1, <1>2 DEF PlaceOf
<1>6. \A k \in 1 .. L : s[k].op = "modResMap" /\ s[k].p = p =>
        \E n \in DOMAIN c.next : k = o + NextAt(c, n) /\ s[k] = NextCall(p, c.next[n])
  BY <1>1 DEF PlaceOf, Made
<1>7. gateway[p].default = c.default
  <2>1. PICK m : m = o + DefaultAt(c)
    OBVIOUS
  <2>2. m \in 1 .. L /\ m > h
    <3>1. PICK w \in Nat, x \in Nat, a \in Nat :
            w = Whole(c) /\ x = Len(c.exps) /\ a = ClearAt(c) /\ a \in 1 .. w
      BY <1>1 DEF InPlace
    <3>2. DefaultAt(c) = a + x + 1 /\ DefaultAt(c) \in 1 .. w
      BY <1>1, <3>1 DEF InPlace
    <3>3. m = o + (a + x + 1) /\ h = o + a /\ a + x + 1 <= w /\ o + w <= L
      BY <1>1, <1>2, <2>1, <3>1, <3>2
    <3>4. o \in Nat
      BY <1>1
    <3>5. PICK y \in Nat : y = a + x + 1
      OBVIOUS
    <3>6. m = o + y /\ h = o + a /\ a < y /\ o + y <= L /\ 1 <= y
      BY <3>3, <3>4, <3>5
    <3> QED BY <3>4, <3>5, <3>6
  <2>3. s[m].op = "setDefaultGateEntry" /\ s[m].p = p /\ s[m].to = c.default
    BY <1>1, <2>1 DEF Made, DefaultCall
  <2>4. ASSUME NEW k \in m + 1 .. L, Overrides(s[k], s[m]) PROVE FALSE
    <3>1. s[k].op \in {"clearRelationExp", "setDefaultGateEntry"} /\ s[k].p = p /\ k \in 1 .. L
      BY <2>2, <2>3, <2>4 DEF Overrides
    <3>2. k = h \/ k = m
      BY <1>1, <1>5, <2>1, <3>1 DEF PlaceOf
    <3> QED BY <1>3, <2>2, <2>4, <3>2
  <2>5. Holds(s[m])
    BY <2>2, <2>4 DEF Standing, Effects, Stands
  <2> QED BY <2>3, <2>5 DEF Holds, GateHolds
<1>8. gateway[p].exps = c.exps
  <2>1. PICK X \in Nat : X = Len(c.exps)
    BY <1>1 DEF InPlace
  <2>2. h + X <= L
    <3>1. PICK z \in Nat : z = ClearAt(c)
      BY <1>1 DEF InPlace
    <3>2. PICK W \in Nat : W = Whole(c)
      BY <1>1 DEF InPlace
    <3>3. z + X + 1 <= W
      BY <1>1, <2>1, <3>1, <3>2 DEF InPlace
    <3>4. h = o + z /\ o + W <= L
      BY <1>1, <1>2, <3>1, <3>2
    <3>5. o \in Nat
      BY <1>1
    <3> QED BY <3>3, <3>4, <3>5
  <2>3. \A i \in 1 .. X : h + i = o + ExpAt(c, i) /\ i \in DOMAIN c.exps
    BY <1>1, <1>2, <2>1 DEF InPlace
  <2>4. \A i \in 1 .. X : /\ s[h + i].op = "insertRelationExp" /\ s[h + i].p = p
                          /\ s[h + i].rel = c.exps[i]
    <3>1. SUFFICES ASSUME NEW i \in 1 .. X
                   PROVE  /\ s[h + i].op = "insertRelationExp" /\ s[h + i].p = p
                          /\ s[h + i].rel = c.exps[i]
      OBVIOUS
    <3>2. PICK y : y = s[h + i]
      OBVIOUS
    <3>3. PICK x : x = c.exps[i]
      OBVIOUS
    <3>4. y = ExpCall(p, x)
      BY <1>1, <2>3, <3>2, <3>3 DEF Made
    <3>5. y.op = "insertRelationExp" /\ y.p = p /\ y.rel = x
      BY <3>4 DEF ExpCall
    <3> QED BY <3>2, <3>3, <3>5
  <2>5. ASSUME NEW k \in h + X + 1 .. L, Rewrites(s[k], s[h].p) PROVE FALSE
    <3>1. s[k].op \in {"clearRelationExp", "insertRelationExp"} /\ s[k].p = p /\ k \in 1 .. L
      BY <1>3, <1>4, <2>1, <2>5 DEF Rewrites
    <3>2. k = h \/ \E n \in DOMAIN c.exps : k = o + ExpAt(c, n)
      BY <1>1, <1>5, <3>1 DEF PlaceOf
    <3>3. k = h \/ \E n \in 1 .. X : k = h + n
      BY <1>1, <1>2, <2>1, <2>3, <3>2, SMTT(30) DEF InPlace
    <3> QED BY <1>3, <2>1, <2>5, <3>3
  <2>6. Run(s, h, X)
    BY <1>4, <2>4 DEF Run
  <2>7. Written(s, h, X)
    BY <1>3, <1>4, <2>1, <2>2, <2>5, <2>6 DEF Standing, ExpsHold
  <2>8. Len(gateway[p].exps) = X /\ \A i \in 1 .. X : gateway[p].exps[i] = c.exps[i]
    BY <1>4, <2>4, <2>7 DEF Written
  <2>9. PICK f : f = gateway[p].exps
    OBVIOUS
  <2>10. PICK g : g = c.exps
    OBVIOUS
  <2>11. f \in Seq(SUBSET (Flows \X BOOLEAN)) /\ g \in Seq(SUBSET (Flows \X BOOLEAN))
    BY <1>1, <2>9, <2>10 DEF ConfigOK, GatewayState, ProcConfig
  <2>12. Len(f) = Len(g) /\ \A i \in 1 .. Len(g) : f[i] = g[i]
    BY <2>1, <2>8, <2>9, <2>10
  <2> QED BY <2>9, <2>10, <2>11, <2>12
<1>9. ASSUME NEW k \in Key
      PROVE  LET named == {n \in DOMAIN c.next : c.next[n].key = k}
             IN IF named = {} THEN gateway[p].next[k] = None
                ELSE \E n \in named : gateway[p].next[k] = c.next[n].to
  <2>1. Stands(s, h, L)
    <3>1. ASSUME NEW i \in h + 1 .. L, Overrides(s[i], s[h]) PROVE FALSE
      <4>1. s[i].op = "clearRelationExp" /\ s[i].p = p /\ i \in 1 .. L
        BY <1>3, <1>4, <3>1 DEF Overrides
      <4> QED BY <1>3, <1>5, <3>1, <4>1
    <3> QED BY <3>1 DEF Stands
  <2>2. NextDrawn(s, h, L)
    BY <1>3, <1>4, <2>1 DEF Standing, NextsHold
  <2>3. \A n \in DOMAIN c.next : /\ o + NextAt(c, n) \in h + 1 .. L
                                 /\ s[o + NextAt(c, n)] = NextCall(p, c.next[n])
    <3>1. PICK z \in Nat : z = ClearAt(c)
      BY <1>1 DEF InPlace
    <3>2. PICK W \in Nat : W = Whole(c)
      BY <1>1 DEF InPlace
    <3>3. \A j \in z + 1 .. W : o + j \in h + 1 .. L
      BY <1>1, <1>2, <3>1, <3>2
    <3>4. \A n \in DOMAIN c.next : NextAt(c, n) \in z + 1 .. W
      BY <1>1, <3>1, <3>2 DEF InPlace
    <3> QED BY <1>1, <3>3, <3>4 DEF Made
  <2>4. ASSUME NEW n \in DOMAIN c.next, c.next[n].key = k
        PROVE  Selects(s[o + NextAt(c, n)], p, k)
    <3>1. PICK x : x = s[o + NextAt(c, n)]
      OBVIOUS
    <3>2. PICK y : y = c.next[n]
      OBVIOUS
    <3>3. x = NextCall(p, y)
      BY <2>3, <3>1, <3>2
    <3>4. x.op = "modResMap" /\ x.p = p /\ x.key = y.key
      BY <3>3 DEF NextCall
    <3> QED BY <2>4, <3>1, <3>2, <3>4 DEF Selects
  <2>5. ASSUME NEW i \in h + 1 .. L, Selects(s[i], p, k)
        PROVE  \E n \in DOMAIN c.next : c.next[n].key = k /\ s[i].to = c.next[n].to
    <3>1. PICK n \in DOMAIN c.next : s[i] = NextCall(p, c.next[n])
      BY <1>3, <1>6, <2>5 DEF Selects
    <3> QED BY <2>5, <3>1 DEF NextCall, Selects
  <2>6. \/ /\ gateway[p].next[k] = None
           /\ \A i \in h + 1 .. L : ~ Selects(s[i], p, k)
        \/ \E i \in h + 1 .. L : Selects(s[i], p, k) /\ gateway[p].next[k] = s[i].to
    BY <1>4, <2>2 DEF NextDrawn
  <2> QED BY <2>3, <2>4, <2>5, <2>6
<1> QED
  BY <1>7, <1>8, <1>9 DEF GatewayInstalled

-----------------------------------------------------------------------------
\* The calls of a table are the only ones that name it.
LEMMA TableCallsAt ==
  ASSUME NEW p, NEW c, NEW s, NEW o, Owns(p, c, s, o), NEW n \in DOMAIN c.tables, LastTable(c, n),
         NEW k \in 1 .. Len(s), s[k].p = p, s[k].t = c.tables[n].t
  PROVE  /\ s[k].op = "setMemConfig" => k <= o + TableAt(c, n) + 1
         /\ s[k].op = "setActionProc" => k <= o + TableAt(c, n) + 2
         /\ s[k].op = "setFieldInfo" => k <= o + TableAt(c, n) + 3
<1>1. /\ o \in Nat /\ Made(p, c, s, o) /\ InPlace(c)
      /\ k = o + (k - o) /\ PlaceOf(c, s[k].op, k - o)
  BY AllInPlace DEF Owns
<1>2. \A i \in DOMAIN c.tables : c.tables[i].t = c.tables[n].t => TableAt(c, i) <= TableAt(c, n)
  <2>1. MatcherFrom(c) \in Nat /\ \A i \in DOMAIN c.tables : i \in Nat
    <3>1. c \in ProcConfig
      BY DEF Owns
    <3>2. Len(c.tables) \in Nat /\ DOMAIN c.tables = 1 .. Len(c.tables)
      BY <3>1 DEF ProcConfig
    <3> QED BY <3>1, <3>2, LenTypes
  <2>2. \A i \in DOMAIN c.tables : c.tables[i].t = c.tables[n].t => i <= n
    BY DEF LastTable
  <2> QED BY <2>1, <2>2 DEF TableAt
<1>3. \A i \in DOMAIN c.tables : \A j \in Nat : o + (TableAt(c, i) + j) = o + TableAt(c, i) + j
  BY <1>1 DEF InPlace
<1>4. ASSUME s[k].op = "setMemConfig" PROVE k <= o + TableAt(c, n) + 1
  <2>1. PICK i \in DOMAIN c.tables : k - o = TableAt(c, i) + 1
    BY <1>1, <1>4 DEF PlaceOf
  <2>2. k = o + TableAt(c, i) + 1
    BY <1>1, <1>3, <2>1
  <2>3. s[k] = MemCall(p, c.tables[i])
    BY <1>1, <2>2 DEF Made
  <2>4. TableAt(c, i) <= TableAt(c, n) /\ TableAt(c, i) \in Nat /\ TableAt(c, n) \in Nat
    BY <1>1, <1>2, <2>3 DEF MemCall, InPlace
  <2> QED BY <1>1, <2>2, <2>4
<1>5. ASSUME s[k].op = "setActionProc" PROVE k <= o + TableAt(c, n) + 2
  <2>1. PICK i \in DOMAIN c.tables : k - o = TableAt(c, i) + 2
    BY <1>1, <1>5 DEF PlaceOf
  <2>2. k = o + TableAt(c, i) + 2
    BY <1>1, <1>3, <2>1
  <2>3. s[k] = MapCall(p, c.tables[i])
    BY <1>1, <2>2 DEF Made
  <2>4. TableAt(c, i) <= TableAt(c, n) /\ TableAt(c, i) \in Nat /\ TableAt(c, n) \in Nat
    BY <1>1, <1>2, <2>3 DEF MapCall, InPlace
  <2> QED BY <1>1, <2>2, <2>4
<1>6. ASSUME s[k].op = "setFieldInfo" PROVE k <= o + TableAt(c, n) + 3
  <2>1. PICK i \in DOMAIN c.tables : k - o = TableAt(c, i) + 3
    BY <1>1, <1>6 DEF PlaceOf
  <2>2. k = o + TableAt(c, i) + 3
    BY <1>1, <1>3, <2>1
  <2>3. s[k] = FieldCall(p, c.tables[i])
    BY <1>1, <2>2 DEF Made
  <2>4. TableAt(c, i) <= TableAt(c, n) /\ TableAt(c, i) \in Nat /\ TableAt(c, n) \in Nat
    BY <1>1, <1>2, <2>3 DEF FieldCall, InPlace
  <2> QED BY <1>1, <2>2, <2>4
<1> QED
  BY <1>4, <1>5, <1>6

\* A table of the configuration, which is in use.
TableSet(p, tb) ==
  LET m == matcher[p][tb.t]
  IN /\ m.type = tb.type /\ m.depth = tb.depth /\ m.miss = tb.miss /\ m.keyed = tb.keyed
     /\ ~ m.noTable /\ (tb.depth > 0 => m.block = tb.block)
     /\ \A a \in Choice : IF tb.map[a] # None THEN m.map[a] = tb.map[a]
                          ELSE m.map[a] \in {None, 0}

\* A table is set as its last entry in the configuration says.
LEMMA FinalTable ==
  ASSUME NEW p, NEW c, NEW s, NEW o, Owns(p, c, s, o), NEW L \in Nat, L = Len(s),
         Standing(s, L, L), NEW n \in DOMAIN c.tables, LastTable(c, n)
  PROVE  TableSet(p, c.tables[n])
<1>1. PICK tb : tb = c.tables[n]
  OBVIOUS
<1>2. PICK e : e = o + TableAt(c, n)
  OBVIOUS
<1>3. /\ e \in Nat /\ e + 1 \in 1 .. L /\ e + 2 \in 1 .. L /\ e + 3 \in 1 .. L
  <2>1. o \in Nat /\ o + Whole(c) <= L /\ InPlace(c)
    BY AllInPlace DEF Owns
  <2>2. TableAt(c, n) \in Nat /\ TableAt(c, n) + 3 <= Whole(c) /\ Whole(c) \in Nat
    BY <2>1 DEF InPlace
  <2> QED BY <1>2, <2>1, <2>2, SMTT(30)
<1>4. /\ s[e + 1] = MemCall(p, tb) /\ s[e + 2] = MapCall(p, tb) /\ s[e + 3] = FieldCall(p, tb)
  BY <1>1, <1>2 DEF Owns, Made
<1>5. /\ s[e + 1].op = "setMemConfig" /\ s[e + 1].p = p /\ s[e + 1].t = tb.t
      /\ s[e + 1].type = tb.type /\ s[e + 1].depth = tb.depth /\ s[e + 1].miss = tb.miss
      /\ s[e + 1].block = tb.block
      /\ s[e + 2].op = "setActionProc" /\ s[e + 2].p = p /\ s[e + 2].t = tb.t
      /\ s[e + 2].map = tb.map
      /\ s[e + 3].op = "setFieldInfo" /\ s[e + 3].p = p /\ s[e + 3].t = tb.t
      /\ s[e + 3].keyed = tb.keyed
  BY <1>4 DEF MemCall, MapCall, FieldCall
<1>6. \A k \in 1 .. L : s[k].p = p /\ s[k].t = tb.t =>
        /\ s[k].op = "setMemConfig" => k <= e + 1
        /\ s[k].op = "setActionProc" => k <= e + 2
        /\ s[k].op = "setFieldInfo" => k <= e + 3
  BY <1>1, <1>2, TableCallsAt
<1>7. Stands(s, e + 1, L)
  <2>1. ASSUME NEW k \in (e + 1) + 1 .. L, Overrides(s[k], s[e + 1]) PROVE FALSE
    <3>1. s[k].op = "setMemConfig" /\ s[k].p = p /\ s[k].t = tb.t /\ k \in 1 .. L
      BY <1>3, <1>5, <2>1 DEF Overrides, SameTable
    <3> QED BY <1>3, <1>6, <2>1, <3>1
  <2> QED BY <2>1 DEF Stands
<1>8. Stands(s, e + 2, L)
  <2>1. ASSUME NEW k \in (e + 2) + 1 .. L, Overrides(s[k], s[e + 2]) PROVE FALSE
    <3>1. /\ s[k].op \in {"setMemConfig", "setActionProc"} /\ s[k].p = p /\ s[k].t = tb.t
          /\ k \in 1 .. L
      BY <1>3, <1>5, <2>1 DEF Overrides, SameTable
    <3> QED BY <1>3, <1>6, <2>1, <3>1
  <2> QED BY <2>1 DEF Stands
<1>9. Stands(s, e + 3, L)
  <2>1. ASSUME NEW k \in (e + 3) + 1 .. L, Overrides(s[k], s[e + 3]) PROVE FALSE
    <3>1. /\ s[k].op \in {"setMemConfig", "setFieldInfo"} /\ s[k].p = p /\ s[k].t = tb.t
          /\ k \in 1 .. L
      BY <1>3, <1>5, <2>1 DEF Overrides, SameTable
    <3> QED BY <1>3, <1>6, <2>1, <3>1
  <2> QED BY <2>1 DEF Stands
<1>10. Holds(s[e + 1]) /\ Holds(s[e + 2]) /\ Holds(s[e + 3])
  BY <1>3, <1>7, <1>8, <1>9 DEF Standing, Effects
<1>11. MapDrawn(s, e + 1, L)
  BY <1>3, <1>5, <1>7 DEF Standing, MapsHold
<1>12. PICK m : m = matcher[p][tb.t]
  OBVIOUS
<1>13. /\ ~ m.noTable /\ m.type = tb.type /\ m.depth = tb.depth /\ m.miss = tb.miss
       /\ m.keyed = tb.keyed /\ (tb.depth > 0 => m.block = tb.block)
       /\ \A a \in Choice : tb.map[a] # None => m.map[a] = tb.map[a]
  BY <1>5, <1>10, <1>12 DEF Holds, TableHolds
<1>14. \A a \in Choice : m.map[a] \in {None, 0} \/ m.map[a] = tb.map[a]
  <2>1. SUFFICES ASSUME NEW a \in Choice, m.map[a] \notin {None, 0} PROVE m.map[a] = tb.map[a]
    OBVIOUS
  <2>2. PICK k \in (e + 1) + 1 .. L :
          s[k].op = "setActionProc" /\ SameTable(s[k], s[e + 1]) /\ m.map[a] = s[k].map[a]
    BY <1>5, <1>11, <1>12, <2>1 DEF MapDrawn
  <2>3. k \in 1 .. L /\ s[k].p = p /\ s[k].t = tb.t
    BY <1>3, <1>5, <2>2 DEF SameTable
  <2>4. k = e + 2
    BY <1>3, <1>6, <2>2, <2>3
  <2> QED BY <1>5, <2>2, <2>4
<1>15. TableSet(p, tb)
  BY <1>12, <1>13, <1>14 DEF TableSet
<1> QED
  BY <1>1, <1>15

\* A configuration all of whose calls are done, and none undone.
LEMMA FinalConfig ==
  ASSUME ConfigOK, NEW cfg, NEW s, Scripted(cfg, s),
         Standing(s, Len(s), Len(s))
  PROVE  Installed(cfg)
<1>1. SUFFICES ASSUME NEW p \in Proc, cfg[p] # None
               PROVE  /\ ParserInstalled(p, cfg[p])
                      /\ GatewayInstalled(p, cfg[p])
                      /\ \A t \in Table : \A tb \in TableOf(cfg[p], t) : TableInstalled(p, tb)
                      /\ ExecutorInstalled(p, cfg[p])
  BY DEF Installed
<1>2. PICK L \in Nat : L = Len(s)
  BY DEF Scripted
<1>3. PICK c : c = cfg[p]
  OBVIOUS
<1>4. PICK o : o = Offset(cfg, p)
  OBVIOUS
<1>5. Owns(p, c, s, o)
  BY <1>1, <1>3, <1>4 DEF Scripted
<1>6. Standing(s, L, L) /\ Effects(s, L, L)
  BY <1>2 DEF Standing
<1>7. ParserInstalled(p, c)
  BY <1>2, <1>5, <1>6, FinalParser
<1>8. ExecutorInstalled(p, c)
  BY <1>2, <1>5, <1>6, FinalActions
<1>9. GatewayInstalled(p, c)
  BY <1>1, <1>2, <1>5, <1>6, FinalGateway
<1>10. \A n \in DOMAIN c.tables : LastTable(c, n) => TableSet(p, c.tables[n])
  BY <1>2, <1>5, <1>6, FinalTable
<1>11. ASSUME NEW t \in Table, NEW tb \in TableOf(c, t) PROVE TableInstalled(p, tb)
  <2>1. TableSet(p, tb)
    BY <1>10 DEF TableOf
  <2> QED BY <2>1 DEF TableSet, TableInstalled
<1> QED
  BY <1>3, <1>7, <1>8, <1>9, <1>11

-----------------------------------------------------------------------------
(***************************************************************************)
(* The invariant of a deployment: how far the script is, and that what was *)
(* done stands.                                                            *)
(***************************************************************************)
\* ctrl_init_dataplane is running.
Busy == script # <<>> \/ todo[Controller] # <<>>

\* The types of the controller's variables, which are all the proof needs of them.
DTypes ==
  /\ TypeInv
  /\ active \in ConfigSpace
  /\ script \in Seq(Request) /\ rounds \in Nat
  /\ clean \in BOOLEAN /\ cold \in BOOLEAN

\* The first b calls of the script s have been made, the first d have returned.
Linked(s, b, d) ==
  /\ Scripted(active, s) /\ AllCalls(s)
  /\ b \in Nat /\ b <= Len(s) /\ Len(script) = Len(s) - b
  /\ \A i \in 1 .. Len(script) : script[i] = s[b + i]
  /\ \/ todo[Controller] = <<>> /\ d = b
     \/ /\ todo[Controller] # <<>> /\ b >= 1 /\ d = b - 1
        /\ Underway(s[b], todo[Controller])

\* Unless one was lost, what they did stands.
Going(s, b, d) == Linked(s, b, d) /\ (clean => Standing(s, d, b))

\* ctrl_mod_table makes its calls when no deployment is under way.
Alone ==
  /\ rounds = 0 => ~ Busy
  /\ \A c \in Clients \ {Controller} : todo[c] # <<>> =>
       /\ ~ Busy /\ rounds > 0 /\ clean
       /\ \E r \in Requests : todo[c] = <<r>> /\ Fits(r)

\* The inductive invariant: some script of the active configuration is that far.
DInv == DTypes /\ Alone /\ \E s, b, d : Going(s, b, d)

-----------------------------------------------------------------------------

\* A step that leaves the configuration alone.
LEMMA Undisturbed == UNCHANGED config => Drift
  BY DEF config, Drift

\* The script of a configuration, as the invariant wants it.
LEMMA ScriptIsCalls ==
  ASSUME NEW cfg \in ConfigSpace
  PROVE  Scripted(cfg, Script(cfg)) /\ AllCalls(Script(cfg))
<1>1. PICK s : s = Script(cfg)
  OBVIOUS
<1>2. Scripted(cfg, s)
  BY <1>1, ScriptFacts
<1>3. AllCalls(s)
  <2>1. s \in Seq(Request) /\ \A m \in 1 .. Len(s) : s[m].op \in ScriptOps
    BY <1>2 DEF Scripted
  <2>2. \A m \in 1 .. Len(s) : s[m] \in Request
    BY <2>1, ElementOfSeq
  <2> QED BY <2>1, <2>2, ScriptCallType DEF AllCalls
<1> QED
  BY <1>1, <1>2, <1>3

\* Nothing the controller sees moves, and what it did stands.
LEMMA GoingStays ==
  ASSUME NEW s, NEW b, NEW d, Going(s, b, d), Drift,
         UNCHANGED <<script, active, clean>>, todo'[Controller] = todo[Controller]
  PROVE  Going(s, b, d)' /\ Busy' = Busy
<1>1. Linked(s, b, d) /\ AllCalls(s) /\ b \in Nat /\ b <= Len(s)
  BY DEF Going, Linked
<1>2. d \in Nat /\ d <= Len(s)
  <2>1. Len(s) \in Nat
    BY <1>1 DEF AllCalls
  <2> QED BY <1>1, <2>1 DEF Linked
<1>3. Busy' = Busy
  BY DEF Busy
<1>4. Linked(s, b, d)'
  <2>1. Underway(s[b], todo[Controller])' \/ todo[Controller] = <<>>
    <3>1. SUFFICES ASSUME todo[Controller] # <<>> PROVE Underway(s[b], todo[Controller])'
      OBVIOUS
    <3>2. PICK q : q = todo[Controller]
      OBVIOUS
    <3>3. Underway(s[b], q) /\ b \in 1 .. Len(s)
      BY <1>1, <3>1, <3>2 DEF Linked, AllCalls
    <3>4. ScriptCall(s[b])
      BY <1>1, <3>3 DEF AllCalls
    <3>5. Underway(s[b], q)'
      BY <3>3, <3>4, UnderwayDrift
    <3> QED BY <3>2, <3>5 DEF Underway, Emptied, Typed, Opened, Sized
  <2> QED BY <1>1, <2>1 DEF Linked
<1>5. clean => Standing(s, d, b)'
  BY <1>1, <1>2, StandingStays DEF Going
<1> QED
  BY <1>3, <1>4, <1>5 DEF Going

\* A deployment begins with nothing made.
LEMMA DeployGoes ==
  ASSUME DInv, NEW cfg \in Configs, Deploy(cfg)
  PROVE  \E s, b, d : Going(s, b, d)'
<1>1. PICK s : s = Script(cfg)
  OBVIOUS
<1>2. cfg \in ConfigSpace
  BY ConfigAssumption DEF ConfigSpace
<1>3. Scripted(cfg, s) /\ AllCalls(s)
  BY <1>1, <1>2, ScriptIsCalls
<1>4. todo[Controller] = <<>>
  BY ControllerAssumption DEF Deploy
<1>5. Linked(s, 0, 0)'
  <2>1. script' = s /\ active' = cfg /\ todo' = todo
    BY <1>1 DEF Deploy, vars
  <2>2. Len(s) \in Nat /\ Len(s) = Len(s) - 0 /\ \A i \in 1 .. Len(s) : s[i] = s[0 + i]
    BY <1>3 DEF AllCalls
  <2> QED BY <1>3, <1>4, <2>1, <2>2 DEF Linked
<1>6. Standing(s, 0, 0)'
  BY StandingNone
<1> QED
  BY <1>5, <1>6 DEF Going

\* The next call is made.
LEMMA CallGoes ==
  ASSUME DInv, NEW s, NEW b, NEW d, Going(s, b, d), Call1
  PROVE  \E e : Going(s, b + 1, e)'
<1>1. /\ Linked(s, b, d) /\ script # <<>> /\ script \in Seq(Request)
      /\ todo[Controller] = <<>> /\ todo'[Controller] = Calls(Head(script))
      /\ UNCHANGED config /\ script' = Tail(script) /\ UNCHANGED <<active, clean>>
  BY ControllerAssumption DEF Going, Call1, Submit, DInv, DTypes, TypeInv
<1>2. /\ AllCalls(s) /\ b \in Nat /\ Len(s) \in Nat /\ b <= Len(s) /\ d = b
      /\ Len(script) = Len(s) - b
      /\ Scripted(active, s) /\ \A i \in 1 .. Len(script) : script[i] = s[b + i]
  BY <1>1 DEF Linked, AllCalls
<1>3. Len(script) \in Nat /\ Len(script) > 0 /\ Len(Tail(script)) = Len(script) - 1
      /\ \A i \in 1 .. Len(Tail(script)) : Tail(script)[i] = script[i + 1]
      /\ Head(script) = script[1]
  BY <1>1
<1>4. PICK l \in Nat : l = Len(script)
  BY <1>3
<1>5. b + 1 \in 1 .. Len(s) /\ Head(script) = s[b + 1]
  BY <1>2, <1>3
<1>6. /\ Len(script') = Len(s) - (b + 1)
      /\ \A i \in 1 .. Len(script') : script'[i] = s[(b + 1) + i]
  <2>1. PICK x : x = Tail(script)
    OBVIOUS
  <2>2. Len(x) = l - 1 /\ \A i \in 1 .. l - 1 : x[i] = script[i + 1]
    BY <1>3, <1>4, <2>1
  <2>3. \A i \in 1 .. l - 1 : i + 1 \in 1 .. l /\ b + (i + 1) = (b + 1) + i
    BY <1>2
  <2>4. \A i \in 1 .. l - 1 : x[i] = s[(b + 1) + i]
    BY <1>2, <1>4, <2>2, <2>3
  <2> QED BY <1>1, <1>2, <1>4, <2>1, <2>2, <2>4
<1>7. Drift
  BY <1>1, Undisturbed
<1>8. Linked(s, b + 1, b)'
  <2>1. PICK q : q = Calls(s[b + 1])
    OBVIOUS
  <2>2. Underway(s[b + 1], q)' /\ q # <<>>
    BY <2>1 DEF Underway, Calls, ToClear, ToType, ToOpen, ToSize, ToMiss
  <2>3. todo'[Controller] = q
    BY <1>1, <1>5, <2>1
  <2>4. Underway(s[b + 1], todo[Controller])'
    BY <2>2, <2>3 DEF Underway, Emptied, Typed, Opened, Sized
  <2>5. b + 1 \in Nat /\ b + 1 <= Len(s) /\ b + 1 >= 1 /\ b = (b + 1) - 1
    BY <1>2, <1>5
  <2> QED BY <1>1, <1>2, <1>6, <2>2, <2>3, <2>4, <2>5 DEF Linked
<1>9. clean => Standing(s, b, b + 1)'
  <2>1. b + 1 \in Nat /\ b <= b + 1
    BY <1>2
  <2> QED BY <1>1, <1>2, <1>7, <2>1, StandingStays DEF Going
<1> QED
  BY <1>1, <1>8, <1>9 DEF Going

\* A call that is lost counts as made; nothing is claimed from then on.
LEMMA CallFailsGoes ==
  ASSUME DInv, NEW s, NEW b, NEW d, Going(s, b, d), CallFails
  PROVE  Going(s, b + 1, b + 1)'
<1>1. /\ Linked(s, b, d) /\ script # <<>> /\ script \in Seq(Request)
      /\ todo[Controller] = <<>> /\ todo' = todo
      /\ script' = Tail(script) /\ active' = active /\ clean' = FALSE
  BY DEF Going, CallFails, vars, DInv, DTypes
<1>2. /\ AllCalls(s) /\ b \in Nat /\ Len(s) \in Nat /\ b <= Len(s)
      /\ Len(script) = Len(s) - b
      /\ Scripted(active, s) /\ \A i \in 1 .. Len(script) : script[i] = s[b + i]
  BY <1>1 DEF Linked, AllCalls
<1>3. Len(script) \in Nat /\ Len(script) > 0 /\ Len(Tail(script)) = Len(script) - 1
      /\ \A i \in 1 .. Len(Tail(script)) : Tail(script)[i] = script[i + 1]
  BY <1>1
<1>4. PICK l \in Nat : l = Len(script)
  BY <1>3
<1>5. b + 1 \in Nat /\ b + 1 <= Len(s)
  BY <1>2, <1>3
<1>6. /\ Len(script') = Len(s) - (b + 1)
      /\ \A i \in 1 .. Len(script') : script'[i] = s[(b + 1) + i]
  <2>1. PICK x : x = Tail(script)
    OBVIOUS
  <2>2. Len(x) = l - 1 /\ \A i \in 1 .. l - 1 : x[i] = script[i + 1]
    BY <1>3, <1>4, <2>1
  <2>3. \A i \in 1 .. l - 1 : i + 1 \in 1 .. l /\ b + (i + 1) = (b + 1) + i
    BY <1>2
  <2>4. \A i \in 1 .. l - 1 : x[i] = s[(b + 1) + i]
    BY <1>2, <1>4, <2>2, <2>3
  <2> QED BY <1>1, <1>2, <1>4, <2>1, <2>2, <2>4
<1>7. Linked(s, b + 1, b + 1)'
  BY <1>1, <1>2, <1>5, <1>6 DEF Linked
<1> QED
  BY <1>1, <1>7 DEF Going

\* The server performs a step of the call that was made.
LEMMA ServeGoes ==
  ASSUME DInv, NEW s, NEW b, NEW d, Going(s, b, d), Serve(Controller), UNCHANGED ctl
  PROVE  \E e : Going(s, b, e)'
<1>1. PICK q : q = todo[Controller]
  OBVIOUS
<1>2. PICK r : r = s[b]
  OBVIOUS
<1>3. /\ Linked(s, b, d) /\ q # <<>> /\ Perform(Head(q)) /\ todo'[Controller] = Tail(q)
      /\ UNCHANGED <<script, active, clean>> /\ ConfigOK
  BY <1>1, ControllerAssumption DEF Going, Serve, ctl, DInv, DTypes, TypeInv
<1>4. /\ AllCalls(s) /\ b \in Nat /\ Len(s) \in Nat /\ b <= Len(s) /\ b >= 1 /\ d = b - 1
      /\ Underway(r, q)
      /\ Len(script) = Len(s) - b
      /\ Scripted(active, s) /\ \A i \in 1 .. Len(script) : script[i] = s[b + i]
  BY <1>1, <1>2, <1>3 DEF Linked, AllCalls
<1>5. b \in 1 .. Len(s) /\ ScriptCall(r)
  BY <1>2, <1>4 DEF AllCalls
<1>6. \/ r.op # "setMemConfig" /\ q = <<r>> /\ Tail(q) = <<>> /\ Perform(r)
      \/ /\ MemPart(r, Head(q))
         /\ \/ Tail(q) # <<>> /\ Underway(r, Tail(q))'
            \/ Tail(q) = <<>> /\ TableHolds(r)' /\ Emptied(r)'
  BY <1>3, <1>4, <1>5, Serving
<1>7. clean => Standing(s, b - 1, b)
  BY <1>4 DEF Going
<1>8. ASSUME Tail(q) = <<>> PROVE Linked(s, b, b)'
  BY <1>3, <1>4, <1>8 DEF Linked
<1>9. CASE r.op # "setMemConfig" /\ Tail(q) = <<>> /\ Perform(r)
  <2>1. clean => Standing(s, b, b)'
    BY <1>2, <1>3, <1>4, <1>5, <1>7, <1>9, StandingCall
  <2> QED BY <1>3, <1>6, <1>8, <1>9, <2>1 DEF Going
<1>10. ASSUME MemPart(r, Head(q))
       PROVE  /\ clean => Standing(s, b - 1, b)'
              /\ TableHolds(r)' /\ Emptied(r)' => (clean => Standing(s, b, b)')
  <2>1. PICK x : x = Head(q)
    OBVIOUS
  <2>2. MemPart(s[b], x)
    BY <1>2, <1>10, <2>1
  <2>3. CASE clean
    <3>1. /\ Standing(s, b - 1, b)'
          /\ TableHolds(s[b])' /\ Emptied(s[b])' => Standing(s, b, b)'
      BY <1>3, <1>4, <1>5, <1>7, <2>2, <2>3, StandingMem
    <3>2. TableHolds(r)' /\ Emptied(r)' => TableHolds(s[b])' /\ Emptied(s[b])'
      BY <1>2
    <3> QED BY <1>7, <2>3, <3>1, <3>2
  <2> QED BY <2>3
<1>11. CASE MemPart(r, Head(q)) /\ Tail(q) # <<>> /\ Underway(r, Tail(q))'
  <2>1. Underway(s[b], todo[Controller])'
    <3>1. PICK z : z = Tail(q)
      OBVIOUS
    <3>2. Underway(s[b], z)'
      BY <1>2, <1>11, <3>1
    <3> QED BY <1>3, <3>1, <3>2 DEF Underway, Emptied, Typed, Opened, Sized
  <2>2. Linked(s, b, b - 1)'
    BY <1>3, <1>4, <1>11, <2>1 DEF Linked
  <2>3. Going(s, b, b - 1)'
    BY <1>3, <1>10, <1>11, <2>2 DEF Going
  <2> QED BY <1>6, <2>3
<1>12. CASE MemPart(r, Head(q)) /\ Tail(q) = <<>> /\ TableHolds(r)' /\ Emptied(r)'
  <2>1. Going(s, b, b)'
    BY <1>3, <1>8, <1>10, <1>12 DEF Going
  <2> QED BY <1>6, <2>1
<1> QED
  BY <1>6, <1>9, <1>11, <1>12

\* A step that is not one of ctrl_init_dataplane's, nor the server's for it.
OtherStep ==
  \/ UNCHANGED allVars
  \/ \E c \in Clients, r \in Requests : ModTable(c, r)
  \/ Traffic
  \/ PacketStep /\ UNCHANGED ctl
  \/ \E c \in Clients \ {Controller} : Serve(c) /\ UNCHANGED ctl

\* A step of ctrl_init_dataplane, or of the server for it.
ControlStep ==
  \/ \E cfg \in Configs : Deploy(cfg)
  \/ Call1 \/ CallFails
  \/ Serve(Controller) /\ UNCHANGED ctl

\* Every step is one or the other.
LEMMA StepIsOne == [DeployNext]_allVars => ControlStep \/ OtherStep
  BY ControllerAssumption DEF DeployNext, Switch, ControlStep, OtherStep

\* One table is replaced by another with the same settings.
Replaced(o, n) ==
  /\ UNCHANGED <<parser, gateway, exe>>
  /\ n.noTable = o.noTable /\ n.type = o.type /\ n.depth = o.depth /\ n.miss = o.miss
  /\ n.block = o.block /\ n.keyed = o.keyed /\ n.map = o.map

\* Such a replacement is of no concern to the controller.
LEMMA ReplacedDrift ==
  ASSUME NEW p, NEW t, NEW o, o = matcher[p][t], NEW n, Replaced(o, n),
         \A q \in Proc, u \in Table : matcher'[q][u] = IF q = p /\ u = t THEN n ELSE matcher[q][u]
  PROVE  Drift
<1>1. ASSUME NEW q \in Proc, NEW u \in Table, NEW y, y = matcher[q][u],
                 NEW z, z = matcher'[q][u]
      PROVE  /\ z.noTable = y.noTable /\ z.type = y.type /\ z.depth = y.depth
             /\ z.block = y.block /\ z.miss = y.miss /\ z.keyed = y.keyed
             /\ \A a \in Choice : z.map[a] = y.map[a] \/ (y.map[a] = None /\ z.map[a] = 0)
  <2>1. CASE q = p /\ u = t
    <3>1. y = o /\ z = n
      BY <1>1, <2>1
    <3> QED BY <3>1 DEF Replaced
  <2>2. CASE ~ (q = p /\ u = t)
    <3>1. z = y
      BY <1>1, <2>2
    <3> QED BY <3>1
  <2> QED BY <2>1, <2>2
<1> QED
  BY <1>1 DEF Drift, Replaced

\* An entry goes into a block of memory, and of its table only the row count moves.
LEMMA EntryServed ==
  ASSUME DInv, NEW c \in Clients \ {Controller}, Serve(c), UNCHANGED ctl
  PROVE  Drift /\ ~ Busy /\ todo' = [todo EXCEPT ![c] = <<>>]
<1>1. todo[c] # <<>> /\ todo' = [todo EXCEPT ![c] = Tail(@)] /\ Perform(Head(todo[c]))
  BY DEF Serve
<1>2. ~ Busy
  BY <1>1 DEF DInv, Alone
<1>3. PICK r \in Requests : todo[c] = <<r>>
  BY <1>1 DEF DInv, Alone
<1>4. Perform(r) /\ Tail(todo[c]) = <<>>
  BY <1>1, <1>3
<1>5. /\ r \in Call /\ r.op \in {"insertSramEntry", "insertTcamEntry"}
      /\ r.p \in Proc /\ r.t \in Table
  BY RequestAssumption, EntryAssumption, MatcherFields DEF Call
<1>6. matcher \in [Proc -> [Table -> TableState]]
  BY DEF DInv, DTypes, TypeInv, ConfigOK
<1>7. PICK o \in TableState : o = matcher[r.p][r.t]
  BY <1>5, <1>6
<1>8. CASE UNCHANGED <<parser, gateway, matcher, exe>>
  BY <1>1, <1>2, <1>4, <1>8 DEF Drift
<1>9. CASE /\ matcher' = [matcher EXCEPT ![r.p][r.t].idx = @ + 1]
           /\ UNCHANGED <<parser, gateway, exe>>
  <2>1. PICK n : n = [o EXCEPT !.idx = o.idx + 1]
    OBVIOUS
  <2>2. \A p \in Proc, t \in Table : matcher'[p][t] = IF p = r.p /\ t = r.t THEN n ELSE matcher[p][t]
    BY <1>5, <1>6, <1>7, <1>9, <2>1
  <2>3. Replaced(o, n)
    BY <1>9, <2>1 DEF Replaced, TableState
  <2>4. Drift
    BY <1>7, <2>2, <2>3, ReplacedDrift
  <2> QED BY <1>1, <1>2, <1>4, <2>4
<1>10. \/ InsertSramEntry(r.p, r.t, r.key, r.act)
       \/ InsertTcamEntry(r.p, r.t, r.covers, r.act)
  BY <1>4, <1>5 DEF Perform
<1> QED
  BY <1>8, <1>9, <1>10 DEF InsertSramEntry, InsertTcamEntry, Crash, config

\* A step of the others leaves the deployment where it is.
LEMMA OtherGoes ==
  ASSUME DInv, OtherStep, NEW s, NEW b, NEW d, Going(s, b, d)
  PROVE  /\ Going(s, b, d)' /\ Alone' /\ Busy' = Busy
         /\ UNCHANGED <<script, active, clean, rounds>>
<1>1. UNCHANGED <<script, active, clean, rounds>>
  BY DEF OtherStep, allVars, ctl, ModTable, Traffic
<1>2. /\ Drift
      /\ todo'[Controller] = todo[Controller]
      /\ \A c \in Clients \ {Controller} : todo'[c] # <<>> =>
           \/ todo'[c] = todo[c]
           \/ Deployed /\ clean /\ \E r \in Requests : todo'[c] = <<r>> /\ Fits(r)
  <2>0. TypeInv /\ todo \in [Clients -> Seq(Call)]
    BY DEF DInv, DTypes, TypeInv
  <2>1. CASE UNCHANGED config
    <3>1. Drift
      BY <2>1, Undisturbed
    <3>2. CASE UNCHANGED todo
      BY <3>1, <3>2
    <3>3. CASE \E c \in Clients, r \in Requests : ModTable(c, r)
      <4>1. PICK c \in Clients, r \in Requests : ModTable(c, r)
        BY <3>3
      <4>2. c # Controller /\ Deployed /\ clean /\ Fits(r) /\ todo' = [todo EXCEPT ![c] = Calls(r)]
        BY <4>1 DEF ModTable, Submit
      <4>3. Calls(r) = <<r>>
        BY EntryAssumption DEF Calls
      <4> QED BY <2>0, <3>1, <4>2, <4>3
    <3>4. CASE \E c \in Clients \ {Controller} : Serve(c) /\ UNCHANGED ctl
      <4>1. PICK c \in Clients \ {Controller} : Serve(c) /\ UNCHANGED ctl
        BY <3>4
      <4>2. todo' = [todo EXCEPT ![c] = <<>>]
        BY <4>1, EntryServed
      <4> QED BY <2>0, <3>1, <4>2
    <3>5. CASE Traffic
      BY <3>2, <3>5 DEF Traffic, Receive
    <3>6. CASE PacketStep /\ UNCHANGED ctl
      <4>1. UNCHANGED todo
        BY <3>6 DEF PacketStep, Enter, StartParse, ParseLevel, Gate, GateWild, SkipTable, UseTable,
                    Lookup, LookupNoMemory, NextHop, Execute, ExecuteWild, Transmit
      <4> QED BY <3>2, <4>1
    <3>7. CASE UNCHANGED allVars
      BY <3>2, <3>7 DEF allVars, vars
    <3> QED BY <3>3, <3>4, <3>5, <3>6, <3>7 DEF OtherStep
  <2>2. CASE PacketStep /\ UNCHANGED ctl
    <3>1. Drift
      BY <2>0, <2>2, PacketDrift
    <3>2. UNCHANGED todo
      BY <2>2 DEF PacketStep, Enter, StartParse, ParseLevel, Gate, GateWild, SkipTable, UseTable,
                  Lookup, LookupNoMemory, NextHop, Execute, ExecuteWild, Transmit
    <3> QED BY <3>1, <3>2
  <2>3. CASE \E c \in Clients \ {Controller} : Serve(c) /\ UNCHANGED ctl
    <3>1. PICK c \in Clients \ {Controller} : Serve(c) /\ UNCHANGED ctl
      BY <2>3
    <3>2. Drift /\ ~ Busy /\ todo' = [todo EXCEPT ![c] = <<>>]
      BY <3>1, EntryServed
    <3> QED BY <2>0, <3>2
  <2>4. CASE (\E c \in Clients, r \in Requests : ModTable(c, r)) \/ Traffic \/ UNCHANGED allVars
    <3>1. UNCHANGED config
      BY <2>4 DEF ModTable, Submit, Traffic, Receive, allVars, vars, config
    <3> QED BY <2>1, <3>1
  <2> QED BY <2>2, <2>3, <2>4 DEF OtherStep
<1>3. Going(s, b, d)' /\ Busy' = Busy
  BY <1>1, <1>2, GoingStays
<1>4. Alone'
  <2>1. rounds' = 0 => ~ Busy'
    BY <1>1, <1>3 DEF DInv, Alone
  <2>2. ASSUME NEW c \in Clients \ {Controller}, todo'[c] # <<>>
        PROVE  /\ ~ Busy' /\ rounds' > 0 /\ clean'
               /\ \E r \in Requests : todo'[c] = <<r>> /\ Fits(r)'
    <3>1. \A r : Fits(r)' = Fits(r)
      BY <1>1 DEF Fits
    <3>2. CASE todo'[c] = todo[c]
      BY <1>1, <1>3, <2>2, <3>1, <3>2 DEF DInv, Alone
    <3>3. CASE Deployed /\ clean /\ \E r \in Requests : todo'[c] = <<r>> /\ Fits(r)
      BY <1>1, <1>3, <3>1, <3>3 DEF Deployed, Busy
    <3> QED BY <1>2, <2>2, <3>2, <3>3
  <2> QED BY <2>1, <2>2 DEF Alone
<1> QED
  BY <1>1, <1>2, <1>3, <1>4

\* A request queued keeps the types of the switch.
LEMMA SubmitKeepsTypes ==
  ASSUME TypeInv, NEW c \in Clients, NEW r \in Request, Submit(c, r)
  PROVE  TypeInv'
<1>1. Calls(r) \in Seq(Call)
  BY CallsType
<1> QED
  BY <1>1 DEF Submit, TypeInv, config, packet, ConfigOK, PacketOK, FewExps, AtTable

\* The types stay, whatever the step.
LEMMA DeployTypes == ASSUME DTypes, [DeployNext]_allVars PROVE DTypes'
<1> USE DEF DTypes
<1>1. CASE UNCHANGED vars /\ UNCHANGED <<script, active, rounds, clean, cold>>
  BY <1>1 DEF vars, TypeInv, ConfigOK, PacketOK, FewExps, AtTable
<1>2. ASSUME UNCHANGED vars PROVE TypeInv'
  BY <1>2 DEF vars, TypeInv, ConfigOK, PacketOK, FewExps, AtTable
<1>3. ASSUME NEW cfg \in Configs, Deploy(cfg) PROVE DTypes'
  <2>1. TypeInv'
    BY <1>2, <1>3 DEF Deploy
  <2>2. cfg \in ConfigSpace
    BY ConfigAssumption DEF ConfigSpace
  <2>3. script' \in Seq(Request)
    BY <1>3, <2>2, ScriptIsCalls DEF Deploy, Scripted
  <2> QED BY <1>3, <2>1, <2>2, <2>3 DEF Deploy
<1>4. CASE Call1
  <2>1. Head(script) \in Request /\ Tail(script) \in Seq(Request)
    BY <1>4 DEF Call1
  <2>2. TypeInv'
    BY <1>4, <2>1, ControllerAssumption, SubmitKeepsTypes DEF Call1
  <2> QED BY <1>4, <2>1, <2>2 DEF Call1
<1>5. CASE CallFails
  <2>1. Tail(script) \in Seq(Request)
    BY <1>5 DEF CallFails
  <2> QED BY <1>2, <1>5, <2>1 DEF CallFails
<1>6. ASSUME NEW c \in Clients, NEW r \in Requests, ModTable(c, r) PROVE DTypes'
  <2>1. TypeInv'
    BY <1>6, RequestAssumption, SubmitKeepsTypes DEF ModTable
  <2> QED BY <1>6, <2>1 DEF ModTable, ctl
<1>7. CASE Traffic
  <2>1. TypeInv'
    BY <1>7, ReceiveKeepsTypes DEF Traffic
  <2> QED BY <1>7, <2>1 DEF Traffic
<1>8. CASE Switch
  <2>1. TypeInv'
    BY <1>8, PacketKeepsTypes, ServerKeepsTypes DEF Switch
  <2> QED BY <1>8, <2>1 DEF Switch, ctl
<1>9. CASE UNCHANGED allVars
  BY <1>1, <1>9 DEF allVars, ctl
<1> QED
  BY <1>3, <1>4, <1>5, <1>6, <1>7, <1>8, <1>9 DEF DeployNext

\* Initially nothing is deployed: the script of no processor, all of it made.
LEMMA DeployInitially == DeployInit => DInv
<1> SUFFICES ASSUME DeployInit PROVE DInv
  OBVIOUS
<1>1. TypeInv
  BY TypeInit DEF DeployInit
<1>2. active \in ConfigSpace /\ \A p \in Proc : active[p] = None
  BY DEF DeployInit, ConfigSpace
<1>3. DTypes
  BY <1>1, <1>2 DEF DTypes, DeployInit
<1>5. Alone
  BY ControllerAssumption DEF Alone, Busy, DeployInit, Init
<1>6. PICK s : s = Script(active)
  OBVIOUS
<1>7. Scripted(active, s) /\ AllCalls(s)
  BY <1>2, <1>6, ScriptIsCalls
<1>8. Len(s) \in Nat /\ Len(s) = 0
  <2>1. Len(s) \in Nat
    BY <1>7 DEF AllCalls
  <2>2. \A m \in 1 .. Len(s) : FALSE
    BY <1>2, <1>7 DEF Scripted
  <2>3. Len(s) \notin 1 .. Len(s)
    BY <2>2
  <2> QED BY <2>1, <2>3
<1>9. Linked(s, 0, 0)
  <2>1. script = <<>> /\ todo[Controller] = <<>>
    BY ControllerAssumption DEF DeployInit, Init
  <2>2. Len(script) = 0 /\ \A i \in 1 .. 0 : FALSE
    BY <2>1
  <2> QED BY <1>7, <1>8, <2>1, <2>2 DEF Linked
<1>10. Standing(s, 0, 0)
  <2>1. \A m \in 1 .. 0 : FALSE
    OBVIOUS
  <2> QED BY <2>1 DEF Standing, Effects, MapsHold, NextsHold, ExpsHold
<1>11. Going(s, 0, 0)
  BY <1>9, <1>10 DEF Going
<1> QED
  BY <1>3, <1>5, <1>11 DEF DInv

\* A step of the controller.
LEMMA ControlGoes ==
  ASSUME DInv, ControlStep
  PROVE  Alone' /\ \E s, b, d : Going(s, b, d)'
<1>1. PICK s, b, d : Going(s, b, d)
  BY DEF DInv
<1>2. \E x, y, z : Going(x, y, z)'
  BY <1>1, DeployGoes, CallGoes, CallFailsGoes, ServeGoes DEF ControlStep
<1>3. \A c \in Clients \ {Controller} : todo[c] = <<>> /\ todo'[c] = <<>>
  <2>1. TypeInv /\ todo \in [Clients -> Seq(Call)]
    BY DEF DInv, DTypes, TypeInv
  <2>2. CASE \E cfg \in Configs : Deploy(cfg)
    BY <2>2 DEF Deploy, vars
  <2>3. CASE Busy
    <3>1. \A c \in Clients \ {Controller} : todo[c] = <<>>
      BY <2>3 DEF DInv, Alone
    <3>2. \A c \in Clients \ {Controller} : todo'[c] = todo[c]
      BY <2>1 DEF ControlStep, Deploy, Call1, Submit, CallFails, Serve, vars
    <3> QED BY <3>1, <3>2
  <2>4. Call1 \/ CallFails \/ Serve(Controller) => Busy
    BY DEF Call1, CallFails, Serve, Busy
  <2> QED BY <2>2, <2>3, <2>4 DEF ControlStep
<1>4. rounds' # 0
  <2>1. CASE \E cfg \in Configs : Deploy(cfg)
    BY <2>1 DEF Deploy, DInv, DTypes
  <2>2. CASE Call1 \/ CallFails \/ (Serve(Controller) /\ UNCHANGED ctl)
    BY <2>2 DEF Call1, CallFails, Serve, ctl, DInv, Alone, Busy
  <2> QED BY <2>1, <2>2 DEF ControlStep
<1>5. Alone'
  BY <1>3, <1>4 DEF Alone
<1> QED
  BY <1>2, <1>5

\* The invariant is inductive.
LEMMA DeployStep == DInv /\ [DeployNext]_allVars => DInv'
<1> SUFFICES ASSUME DInv, [DeployNext]_allVars PROVE DInv'
  OBVIOUS
<1>1. DTypes'
  BY DeployTypes DEF DInv
<1>2. CASE ControlStep
  BY <1>1, <1>2, ControlGoes DEF DInv
<1>3. CASE OtherStep
  <2>1. PICK s, b, d : Going(s, b, d)
    BY DEF DInv
  <2>2. Going(s, b, d)' /\ Alone'
    BY <1>3, <2>1, OtherGoes
  <2> QED BY <1>1, <2>2 DEF DInv
<1> QED
  BY <1>2, <1>3, StepIsOne

\* The invariant holds of every state of every run of the controller programs beside
\* the switch: no order of calls, entries, packets and lost calls breaks it.
THEOREM DeployInvariant == DeploySpec => []DInv
  BY DeployInitially, DeployStep, PTL DEF DeploySpec

\* When the controller has ended and lost no call, all of the script stands.
LEMMA EndedStands ==
  ASSUME DInv, Deployed, clean
  PROVE  \E s : Scripted(active, s) /\ Standing(s, Len(s), Len(s)) /\ Len(s) \in Nat
<1>1. PICK s, b, d : Going(s, b, d)
  BY DEF DInv
<1>2. script = <<>> /\ todo[Controller] = <<>>
  BY DEF Deployed
<1>3. /\ Scripted(active, s) /\ Standing(s, d, b) /\ Len(s) \in Nat
      /\ b \in Nat /\ Len(script) = Len(s) - b /\ d = b
  BY <1>1, <1>2 DEF Going, Linked, AllCalls
<1>4. b = Len(s) /\ d = Len(s)
  <2>1. Len(script) = 0
    BY <1>2
  <2> QED BY <1>3, <2>1
<1> QED
  BY <1>3, <1>4

\* What the configuration deployed last lists is in the switch, from the end of an
\* unfailed deployment to the next: InstalledWhenDone, for all configurations, any
\* number of processors, clients, deployments and lost calls.
THEOREM Installs == DeploySpec => []InstalledWhenDone
<1>1. DInv => InstalledWhenDone
  <2>1. SUFFICES ASSUME DInv, Deployed, clean PROVE Installed(active)
    BY DEF InstalledWhenDone
  <2>2. PICK s : Scripted(active, s) /\ Standing(s, Len(s), Len(s))
    BY <2>1, EndedStands
  <2>3. ConfigOK
    BY <2>1 DEF DInv, DTypes, TypeInv
  <2> QED BY <2>2, <2>3, FinalConfig
<1> QED
  BY <1>1, DeployInvariant, PTL

-----------------------------------------------------------------------------
(***************************************************************************)
(* A cold start: what a packet and a table entry find once a deployment is *)
(* done.                                                                   *)
(***************************************************************************)
\* The configuration of a processor lists a table.
Listed(c, t) == \E n \in DOMAIN c.tables : c.tables[n].t = t

\* One of the table's entries is the last.
LEMMA ListedHasLast ==
  ASSUME NEW c \in ProcConfig, NEW t, Listed(c, t)
  PROVE  TableOf(c, t) # {}
<1>1. PICK N \in Nat : DOMAIN c.tables = 1 .. N
  BY DEF ProcConfig
<1> DEFINE I == {n \in 1 .. N : c.tables[n].t = t}
           D == {d \in Nat : \E n \in I : d = N - n}
<1>2. I # {}
  BY <1>1 DEF Listed
<1>3. D # {} /\ D \subseteq Nat
  <2>1. PICK n \in I : TRUE
    BY <1>2
  <2>2. N - n \in D
    BY <2>1
  <2> QED BY <2>2
<1>4. PICK d \in D : \A e \in D : d <= e
  <2> HIDE DEF D
  <2> QED BY <1>3, LeastElement
<1>5. PICK n \in I : d = N - n
  BY <1>4
<1>6. \A m \in I : m <= n
  <2>1. SUFFICES ASSUME NEW m \in I PROVE m <= n
    OBVIOUS
  <2>2. N - m \in D /\ m \in Nat /\ n \in Nat
    BY <2>1, <1>5
  <2>3. d <= N - m
    <3> HIDE DEF D
    <3> QED BY <1>4, <2>2
  <2> QED BY <1>5, <2>2, <2>3
<1>7. n \in DOMAIN c.tables /\ c.tables[n].t = t /\ LastTable(c, n)
  BY <1>1, <1>5, <1>6 DEF LastTable
<1> QED
  BY <1>7 DEF TableOf

\* The calls of a script that set a table name tables the configuration lists.
LEMMA TableCallListed ==
  ASSUME NEW p, NEW c, NEW s, NEW o, Owns(p, c, s, o), NEW k \in 1 .. Len(s), s[k].p = p,
         s[k].op \in {"setMemConfig", "setActionProc", "setFieldInfo"}
  PROVE  Listed(c, s[k].t)
<1>1. /\ o \in Nat /\ Made(p, c, s, o) /\ InPlace(c)
      /\ k = o + (k - o) /\ PlaceOf(c, s[k].op, k - o)
  BY AllInPlace DEF Owns
<1>2. \A i \in DOMAIN c.tables : \A j \in Nat : o + (TableAt(c, i) + j) = o + TableAt(c, i) + j
  BY <1>1 DEF InPlace
<1>3. CASE s[k].op = "setMemConfig"
  <2>1. PICK i \in DOMAIN c.tables : k - o = TableAt(c, i) + 1
    BY <1>1, <1>3 DEF PlaceOf
  <2>2. k = o + TableAt(c, i) + 1
    BY <1>1, <1>2, <2>1
  <2>3. s[k] = MemCall(p, c.tables[i])
    BY <1>1, <2>2 DEF Made
  <2> QED BY <2>3 DEF MemCall, Listed
<1>4. CASE s[k].op = "setActionProc"
  <2>1. PICK i \in DOMAIN c.tables : k - o = TableAt(c, i) + 2
    BY <1>1, <1>4 DEF PlaceOf
  <2>2. k = o + TableAt(c, i) + 2
    BY <1>1, <1>2, <2>1
  <2>3. s[k] = MapCall(p, c.tables[i])
    BY <1>1, <2>2 DEF Made
  <2> QED BY <2>3 DEF MapCall, Listed
<1>5. CASE s[k].op = "setFieldInfo"
  <2>1. PICK i \in DOMAIN c.tables : k - o = TableAt(c, i) + 3
    BY <1>1, <1>5 DEF PlaceOf
  <2>2. k = o + TableAt(c, i) + 3
    BY <1>1, <1>2, <2>1
  <2>3. s[k] = FieldCall(p, c.tables[i])
    BY <1>1, <2>2 DEF Made
  <2> QED BY <2>3 DEF FieldCall, Listed
<1> QED
  BY <1>3, <1>4, <1>5

\* A processor as its configuration left it, whatever entries and packets came since.
Settled(p, c) ==
  /\ c \in ProcConfig
  /\ GatewayInstalled(p, c) /\ ExecutorInstalled(p, c)
  /\ \A t \in Table : \A tb \in TableOf(c, t) : TableSet(p, tb)

\* So they are once the controller has ended.
LEMMA EndedSettled ==
  ASSUME DInv, Deployed, clean, NEW p \in Proc, active[p] # None
  PROVE  Settled(p, active[p])
<1>1. PICK s : Scripted(active, s) /\ Standing(s, Len(s), Len(s)) /\ Len(s) \in Nat
  BY EndedStands
<1>2. PICK L \in Nat : L = Len(s)
  BY <1>1
<1>3. PICK c : c = active[p]
  OBVIOUS
<1>4. PICK o : o = Offset(active, p)
  OBVIOUS
<1>5. Owns(p, c, s, o) /\ Standing(s, L, L) /\ Effects(s, L, L) /\ ConfigOK
  BY <1>1, <1>2, <1>3, <1>4 DEF DInv, DTypes, TypeInv, Scripted, Standing
<1>6. GatewayInstalled(p, c)
  BY <1>2, <1>5, FinalGateway
<1>7. ExecutorInstalled(p, c)
  BY <1>2, <1>5, FinalActions
<1>8. \A n \in DOMAIN c.tables : LastTable(c, n) => TableSet(p, c.tables[n])
  BY <1>2, <1>5, FinalTable
<1>9. \A t \in Table : \A tb \in TableOf(c, t) : TableSet(p, tb)
  BY <1>8 DEF TableOf
<1>10. c \in ProcConfig
  BY <1>5 DEF Owns
<1> QED
  BY <1>3, <1>6, <1>7, <1>9, <1>10 DEF Settled

\* Its gateway has a default entry.
LEMMA SettledGate ==
  ASSUME NEW p, NEW c, Settled(p, c)
  PROVE  gateway[p].default # None
<1>1. gateway[p].default = c.default /\ c.default \in Op
  BY DEF Settled, GatewayInstalled, ProcConfig
<1> QED
  BY <1>1, NoneAssumption

\* An action of the configuration is in its slot.
LEMMA SettledAction ==
  ASSUME NEW p, NEW c, Settled(p, c), NEW a, NEW b \in BodyOf(c, a)
  PROVE  /\ a \in Act
         /\ exe[p][a] = [st |-> "live", body |-> b]
<1>1. PICK m \in DOMAIN c.actions : a = c.actions[m].a
  BY DEF BodyOf
<1>2. c.actions[m] \in [a : Act, body : Body]
  <2> DEFINE R == [a : Act, body : Body]
  <2>1. c.actions \in Seq(R)
    BY DEF Settled, ProcConfig
  <2>2. c.actions[m] \in R
    <3> HIDE DEF R
    <3> QED BY <2>1
  <2> QED BY <2>2
<1>3. a \in Act
  BY <1>1, <1>2
<1> QED
  BY <1>3 DEF Settled, ExecutorInstalled

\* A table of the configuration is in use, as deep as it says and with its miss action.
LEMMA SettledTable ==
  ASSUME NEW p, NEW c, Settled(p, c), NEW t \in Table, NEW tb \in TableOf(c, t)
  PROVE  /\ ~ matcher[p][t].noTable
         /\ matcher[p][t].depth = tb.depth /\ matcher[p][t].miss = tb.miss
<1>1. TableSet(p, tb) /\ tb.t = t
  BY DEF Settled, TableOf
<1> QED
  BY <1>1 DEF TableSet

\* Before the first deployment nothing is active.
NothingYet == rounds = 0 => \A p \in Proc : active[p] = None

\* A processor no configuration named has no working parser, so no packet stops
\* there.
ParsersOff == \A p \in Proc : active[p] = None => ~ parser[p].working

\* A table no configuration listed is as its constructor left it.
Untouched(p, t) == matcher[p][t].noTable /\ matcher[p][t].miss = -1
UnlistedFresh ==
  \A p \in Proc, t \in Table : active[p] = None \/ ~ Listed(active[p], t) => Untouched(p, t)

\* Where the action of the packet is from: a row of a table, the constructor of one
\* not listed, or the miss action of one that is.
Chosen ==
  \/ phv.value # None \/ phv.act = -1
  \/ \E tb \in TableOf(active[cur], phv.op.val) : tb.miss = phv.act

\* The packet is in a processor of the configuration, in one of its tables.
PacketPlaced ==
  /\ pc \in Inside => active[cur] # None
  /\ pc = "lookup" => Listed(active[cur], phv.op.val)
  /\ pc \in {"next", "exec"} => Chosen

\* A cold start so far: nobody is in the pipeline before the deployment is done.
Cold == /\ clean /\ NothingYet /\ ParsersOff /\ UnlistedFresh /\ PacketPlaced
        /\ pc # "recv" => Deployed

\* The inductive invariant of a cold start.
ColdInv == cold /\ alive => Cold

\* The table of a packet inside is listed, or as its constructor left it.
LEMMA CurTableOf ==
  ASSUME DInv, Cold, pc \in {"match", "lookup", "next", "exec"}
  PROVE  /\ Deployed /\ active[cur] # None /\ cur \in Proc /\ phv.op.val \in Table
         /\ Settled(cur, active[cur])
         /\ ~ Listed(active[cur], phv.op.val) => CurTable.noTable /\ CurTable.miss = -1
         /\ Listed(active[cur], phv.op.val) =>
              \E tb \in TableOf(active[cur], phv.op.val) :
                ~ CurTable.noTable /\ CurTable.depth = tb.depth /\ CurTable.miss = tb.miss
<1>1. Deployed /\ active[cur] # None /\ cur \in Proc /\ phv.op.val \in Table /\ clean
  BY DEF Cold, PacketPlaced, Inside, DInv, DTypes, TypeInv, PacketOK, AtTable
<1>2. Settled(cur, active[cur])
  BY <1>1, EndedSettled
<1>3. ASSUME ~ Listed(active[cur], phv.op.val) PROVE CurTable.noTable /\ CurTable.miss = -1
  BY <1>1, <1>3 DEF Cold, UnlistedFresh, Untouched, CurTable
<1>4. ASSUME Listed(active[cur], phv.op.val)
      PROVE  \E tb \in TableOf(active[cur], phv.op.val) :
               ~ CurTable.noTable /\ CurTable.depth = tb.depth /\ CurTable.miss = tb.miss
  <2>1. active[cur] \in ProcConfig
    BY <1>2 DEF Settled
  <2>2. PICK tb : tb \in TableOf(active[cur], phv.op.val)
    BY <1>4, <2>1, ListedHasLast
  <2>3. ~ CurTable.noTable /\ CurTable.depth = tb.depth /\ CurTable.miss = tb.miss
    BY <1>1, <1>2, <2>2, SettledTable DEF CurTable
  <2> QED BY <2>2, <2>3
<1> QED
  BY <1>1, <1>2, <1>3, <1>4

\* The packet thread dies of a table of depth 0, of an action that is not there, or
\* of a miss action with parameters.
LEMMA PacketDeath ==
  ASSUME DInv, Cold, PacketStep, UNCHANGED ctl, alive, ~ alive'
  PROVE  PacketBlame
<1>1. GateWild \/ LookupNoMemory \/ ExecuteWild
  BY DEF PacketStep, Enter, StartParse, ParseLevel, Gate, SkipTable, UseTable, Lookup, NextHop,
         Execute, Transmit
<1>2. CASE GateWild
  <2>1. Deployed /\ active[cur] # None /\ cur \in Proc /\ clean
    BY <1>2 DEF GateWild, Cold, PacketPlaced, Inside, DInv, DTypes, TypeInv, PacketOK
  <2>2. Settled(cur, active[cur])
    BY <2>1, EndedSettled
  <2> QED BY <1>2, <2>2, SettledGate DEF GateWild
<1>3. CASE LookupNoMemory
  <2>1. pc = "lookup" /\ CurTable.depth = 0
    BY <1>3 DEF LookupNoMemory
  <2>2. Listed(active[cur], phv.op.val)
    BY <2>1 DEF Cold, PacketPlaced
  <2>3. /\ active[cur] # None
        /\ \E tb \in TableOf(active[cur], phv.op.val) : CurTable.depth = tb.depth
    BY <2>1, <2>2, CurTableOf
  <2> QED BY <2>1, <2>3 DEF PacketBlame
<1>4. CASE ExecuteWild
  <2>1. pc = "exec" /\ (Runnable => exe[cur][phv.act].st = "freed")
    BY <1>4 DEF ExecuteWild
  <2>2. active[cur] # None /\ Settled(cur, active[cur])
    BY <2>1, CurTableOf
  <2>3. SUFFICES ASSUME NEW b \in BodyOf(active[cur], phv.act) PROVE PacketBlame
    BY <2>1, <2>2 DEF PacketBlame
  <2>4. phv.act \in Act /\ exe[cur][phv.act] = [st |-> "live", body |-> b]
    BY <2>2, <2>3, SettledAction
  <2>5. exe[cur][phv.act].st = "live" /\ exe[cur][phv.act].body = b
    BY <2>4
  <2>6. b.args /\ phv.value = None
    BY <2>1, <2>4, <2>5 DEF Runnable
  <2>7. phv.act # -1
    BY <2>4, SizeAssumption DEF Act
  <2>8. PICK tb \in TableOf(active[cur], phv.op.val) : tb.miss = phv.act
    BY <2>1, <2>6, <2>7 DEF Cold, PacketPlaced, Chosen
  <2> QED BY <2>1, <2>2, <2>3, <2>6, <2>8 DEF PacketBlame
<1> QED
  BY <1>1, <1>2, <1>3, <1>4

\* While it lives it keeps to the tables of the configuration.
LEMMA PacketKeepsPlace ==
  ASSUME DInv, Cold, PacketStep, UNCHANGED ctl, alive'
  PROVE  PacketPlaced'
<1>1. TypeInv /\ cur \in Proc /\ ParsersOff /\ PacketPlaced
  BY DEF DInv, DTypes, Cold, TypeInv, PacketOK
<1>2. UNCHANGED active
  BY DEF ctl
<1>3. PICK v \in Packet : v = phv
  BY <1>1 DEF TypeInv, PacketOK
<1>4. CASE Enter
  BY <1>2, <1>4 DEF Enter, At, PacketPlaced, Inside
<1>5. CASE StartParse
  BY <1>1, <1>2, <1>5 DEF StartParse, At, PacketPlaced, Inside, ParsersOff
<1>6. CASE ParseLevel
  BY <1>1, <1>2, <1>6 DEF ParseLevel, At, PacketPlaced, Inside
<1>7. CASE Gate
  BY <1>1, <1>2, <1>7 DEF Gate, At, PacketPlaced, Inside
<1>8. CASE SkipTable
  <2>1. /\ pc = "match" /\ pc' = "next" /\ cur' = cur /\ CurTable.noTable
        /\ phv' = [v EXCEPT !.hit = FALSE, !.act = CurTable.miss]
    BY <1>3, <1>8 DEF SkipTable, At
  <2>2. CurTable.miss = -1 /\ active[cur] # None
    BY <2>1, CurTableOf
  <2>3. phv'.act = -1
    BY <1>3, <2>1, <2>2 DEF Packet
  <2> QED BY <1>2, <2>1, <2>2, <2>3 DEF PacketPlaced, Chosen
<1>9. CASE UseTable
  <2>1. pc = "match" /\ pc' = "lookup" /\ cur' = cur /\ phv' = phv /\ ~ CurTable.noTable
    BY <1>9 DEF UseTable, At
  <2>2. active[cur] # None /\ Listed(active[cur], phv.op.val)
    BY <2>1, CurTableOf
  <2> QED BY <1>2, <2>1, <2>2 DEF PacketPlaced
<1>10. CASE Lookup
  <2>1. pc = "lookup" /\ pc' = "next" /\ cur' = cur
    BY <1>10 DEF Lookup, At
  <2>2. Listed(active[cur], phv.op.val)
    BY <1>1, <2>1 DEF PacketPlaced
  <2>3. PICK tb \in TableOf(active[cur], phv.op.val) : CurTable.miss = tb.miss
    BY <2>1, <2>2, CurTableOf
  <2>4. active[cur] # None /\ <<cur, phv.op.val>> # None
    BY <2>1, CurTableOf, NoneAssumption
  <2>5. phv'.value # None \/ (phv'.act = tb.miss /\ phv'.op.val = phv.op.val)
    <3>1. PICK w : w = <<cur, phv.op.val>>
      OBVIOUS
    <3>2. \/ \E a : phv' = [v EXCEPT !.hit = TRUE, !.act = a, !.value = w]
          \/ phv' = [v EXCEPT !.hit = FALSE, !.act = CurTable.miss]
      BY <1>3, <1>10, <3>1 DEF Lookup
    <3>3. ASSUME NEW a, phv' = [v EXCEPT !.hit = TRUE, !.act = a, !.value = w]
          PROVE  phv'.value # None
      BY <2>4, <3>1, <3>3 DEF Packet
    <3>4. ASSUME phv' = [v EXCEPT !.hit = FALSE, !.act = CurTable.miss]
          PROVE  phv'.act = tb.miss /\ phv'.op.val = phv.op.val
      BY <1>3, <2>3, <3>4 DEF Packet
    <3> QED BY <3>2, <3>3, <3>4
  <2> QED BY <1>2, <2>1, <2>3, <2>4, <2>5 DEF PacketPlaced, Chosen
<1>11. CASE NextHop
  <2>1. pc = "next" /\ pc' = "exec" /\ cur' = cur
    BY <1>11 DEF NextHop, At
  <2>2. phv'.act = phv.act /\ phv'.value = phv.value /\ phv'.op = phv.op
    <3>1. PICK to : phv' = [v EXCEPT !.at = to]
      BY <1>3, <1>11 DEF NextHop
    <3> QED BY <1>3, <3>1 DEF Packet
  <2> QED BY <1>1, <1>2, <2>1, <2>2 DEF PacketPlaced, Inside, Chosen
<1>12. CASE Execute
  BY <1>2, <1>12 DEF Execute, At, PacketPlaced, Inside
<1>13. CASE Transmit
  BY <1>2, <1>13 DEF Transmit, At, PacketPlaced, Inside
<1>14. ~ (GateWild \/ LookupNoMemory \/ ExecuteWild)
  BY DEF GateWild, LookupNoMemory, ExecuteWild, Crash
<1> QED
  BY <1>4, <1>5, <1>6, <1>7, <1>8, <1>9, <1>10, <1>11, <1>12, <1>13, <1>14 DEF PacketStep

\* What packets and entries change is none of a cold start's business.
LEMMA DriftKeepsCold ==
  ASSUME DInv, Drift, UNCHANGED <<active, rounds, clean>>, Cold
  PROVE  clean' /\ NothingYet' /\ ParsersOff' /\ UnlistedFresh'
<1>1. clean' /\ NothingYet' /\ ParsersOff'
  BY DEF Cold, NothingYet, ParsersOff, Drift
<1>2. ASSUME NEW p \in Proc, NEW t \in Table, active[p] = None \/ ~ Listed(active[p], t)
      PROVE  Untouched(p, t)'
  BY <1>2 DEF Drift, Cold, UnlistedFresh, Untouched
<1>3. UnlistedFresh'
  BY <1>2 DEF UnlistedFresh
<1> QED
  BY <1>1, <1>3

\* The entry that takes the process down is one for a table of depth 0.
LEMMA EntryDeath ==
  ASSUME DInv, Cold, NEW c \in Clients \ {Controller}, Serve(c), UNCHANGED ctl, alive, ~ alive'
  PROVE  EntryBlame
<1>1. /\ todo[c] # <<>> /\ Perform(Head(todo[c]))
      /\ todo' = [todo EXCEPT ![c] = Tail(@)] /\ todo \in [Clients -> Seq(Call)]
  BY DEF Serve, DInv, DTypes, TypeInv
<1>2. PICK r \in Requests : todo[c] = <<r>> /\ Fits(r)
  BY <1>1 DEF DInv, Alone
<1>3. Head(todo[c]) = r /\ Perform(r) /\ Tail(todo[c]) = <<>>
  BY <1>1, <1>2
<1>4. todo'[c] # todo[c]
  BY <1>1, <1>3
<1>5. /\ r \in Call /\ r.op \in {"insertSramEntry", "insertTcamEntry"}
      /\ r.p \in Proc /\ r.t \in Table
  BY RequestAssumption, EntryAssumption, MatcherFields DEF Call
<1>6. \/ InsertSramEntry(r.p, r.t, r.key, r.act)
      \/ InsertTcamEntry(r.p, r.t, r.covers, r.act)
  BY <1>3, <1>5 DEF Perform
<1>7. matcher[r.p][r.t].depth = 0
  BY <1>6 DEF InsertSramEntry, InsertTcamEntry
<1>8. PICK tb \in TableOf(active[r.p], r.t) : active[r.p] # None
  BY <1>2 DEF Fits, FitsIn
<1>9. Deployed /\ clean
  BY <1>1 DEF DInv, Alone, DTypes, Deployed, Busy
<1>10. tb.depth = 0
  <2>1. PICK p : p = r.p
    OBVIOUS
  <2>2. PICK t : t = r.t
    OBVIOUS
  <2>3. PICK g : g = active[r.p]
    OBVIOUS
  <2>4. Settled(p, g)
    BY <1>5, <1>8, <1>9, <2>1, <2>3, EndedSettled
  <2>5. matcher[p][t].depth = tb.depth
    BY <1>5, <1>8, <2>1, <2>2, <2>3, <2>4, SettledTable
  <2> QED BY <1>7, <2>1, <2>2, <2>5
<1> QED
  BY <1>3, <1>4, <1>8, <1>10 DEF EntryBlame

\* The controller's own calls take nothing down ...
LEMMA ScriptServed ==
  ASSUME DInv, Serve(Controller), UNCHANGED ctl
  PROVE  /\ UNCHANGED alive
         /\ \A p \in Proc : active[p] = None => parser'[p] = parser[p]
         /\ \A p \in Proc, t \in Table :
              active[p] = None \/ ~ Listed(active[p], t) => matcher'[p][t] = matcher[p][t]
<1>1. PICK q : q = todo[Controller]
  OBVIOUS
<1>2. q # <<>> /\ Perform(Head(q)) /\ ConfigOK
  BY <1>1 DEF Serve, DInv, DTypes, TypeInv
<1>3. PICK s, b, d : Going(s, b, d)
  BY DEF DInv
<1>4. PICK r : r = s[b]
  OBVIOUS
<1>5. /\ Underway(r, q) /\ ScriptCall(r) /\ active[r.p] # None /\ r.p \in Proc
      /\ b \in 1 .. Len(s) /\ Owns(r.p, active[r.p], s, Offset(active, r.p))
  <2>1. Linked(s, b, d)
    BY <1>3 DEF Going
  <2>2. Underway(r, q) /\ b \in 1 .. Len(s) /\ AllCalls(s) /\ Scripted(active, s)
    BY <1>1, <1>2, <1>4, <2>1 DEF Linked, AllCalls
  <2> QED BY <1>4, <2>2 DEF AllCalls, Scripted
<1>6. r.op \in {"setMemConfig", "setActionProc", "setFieldInfo"} => Listed(active[r.p], r.t)
  <2>1. SUFFICES ASSUME r.op \in {"setMemConfig", "setActionProc", "setFieldInfo"}
                 PROVE  Listed(active[r.p], r.t)
    OBVIOUS
  <2>2. PICK p : p = r.p
    OBVIOUS
  <2>3. PICK c : c = active[r.p]
    OBVIOUS
  <2>4. PICK o : o = Offset(active, r.p)
    OBVIOUS
  <2>5. Owns(p, c, s, o) /\ s[b].p = p
    BY <1>4, <1>5, <2>2, <2>3, <2>4
  <2>6. Listed(c, s[b].t)
    BY <1>4, <1>5, <2>1, <2>5, TableCallListed
  <2> QED BY <1>4, <2>3, <2>6
<1>7. \/ r.op # "setMemConfig" /\ Perform(r)
      \/ MemPart(r, Head(q))
  BY <1>2, <1>5, Serving
<1>8. ASSUME NEW x, TableStep(x), x.p = r.p, x.t = r.t, Listed(active[r.p], r.t)
      PROVE  /\ UNCHANGED <<parser, alive>>
             /\ \A p \in Proc, t \in Table :
                  active[p] = None \/ ~ Listed(active[p], t) => matcher'[p][t] = matcher[p][t]
  BY <1>2, <1>5, <1>8, TablesElsewhere
<1>9. CASE MemPart(r, Head(q))
  <2>1. PICK x : x = Head(q)
    OBVIOUS
  <2>2. TableStep(x) /\ x.p = r.p /\ x.t = r.t /\ r.op = "setMemConfig"
    BY <1>9, <2>1 DEF MemPart, SameTable
  <2> QED BY <1>6, <1>8, <2>2
<1>10. CASE r.op # "setMemConfig" /\ Perform(r)
  <2>1. CASE r.op \in {"setActionProc", "setFieldInfo"}
    <3>1. TableStep(r)
      BY <1>5, <1>10, <2>1, CallSteps
    <3> QED BY <1>6, <1>8, <2>1, <3>1
  <2>2. CASE r.op \notin {"setActionProc", "setFieldInfo"}
    <3>1. UNCHANGED <<matcher, alive>>
      BY <1>5, <1>10, <2>2, CallSteps
    <3>2. \/ UNCHANGED parser
          \/ InitParserLevel(r.p, r.level)
          \/ ModParserEntry(r.p, r.l, r.i, [covers |-> r.covers, drop |-> r.drop])
      BY <1>5, <1>10, CallSteps
    <3>3. parser \in [Proc -> ParserState]
      BY <1>2 DEF ConfigOK
    <3>4. \A p \in Proc : p # r.p => parser'[p] = parser[p]
      <4>1. CASE UNCHANGED parser
        BY <4>1
      <4>2. CASE InitParserLevel(r.p, r.level)
        BY <3>3, <4>2 DEF InitParserLevel
      <4>3. CASE ModParserEntry(r.p, r.l, r.i, [covers |-> r.covers, drop |-> r.drop])
        BY <3>3, <4>3 DEF ModParserEntry
      <4> QED BY <3>2, <4>1, <4>2, <4>3
    <3> QED BY <1>5, <3>1, <3>4
  <2> QED BY <2>1, <2>2
<1> QED
  BY <1>7, <1>9, <1>10

\* ... and touch only what the configuration lists, of which no packet is aware.
LEMMA ColdControl ==
  ASSUME DInv, cold, Cold, ControlStep, cold'
  PROVE  Cold'
<1>1. ~ Deployed /\ UNCHANGED pc /\ ~ CallFails
  <2>1. ~ CallFails
    BY DEF CallFails
  <2>2. CASE \E cfg \in Configs : Deploy(cfg)
    <3>1. rounds = 0 /\ UNCHANGED pc
      BY <2>2 DEF Deploy, vars, DInv, DTypes
    <3> QED BY <2>1, <3>1 DEF Deployed
  <2>3. CASE Call1
    BY <2>1, <2>3 DEF Call1, Submit, packet, Deployed
  <2>4. CASE Serve(Controller) /\ UNCHANGED ctl
    <3>1. UNCHANGED pc /\ todo[Controller] # <<>>
      BY <2>4 DEF Serve, packet
    <3> QED BY <2>1, <3>1 DEF Deployed
  <2> QED BY <2>1, <2>2, <2>3, <2>4 DEF ControlStep
<1>2. pc' = "recv" /\ PacketPlaced'
  BY <1>1 DEF Cold, PacketPlaced, Inside
<1>3. CASE \E cfg \in Configs : Deploy(cfg)
  <2>1. rounds = 0 /\ rounds' = 1 /\ clean' /\ UNCHANGED <<parser, matcher>>
    <3>1. PICK cfg \in Configs : Deploy(cfg)
      BY <1>3
    <3>2. rounds = 0
      BY <3>1 DEF Deploy
    <3> QED BY <3>1, <3>2 DEF Deploy, vars
  <2>2. \A p \in Proc : active[p] = None
    BY <2>1 DEF Cold, NothingYet
  <2>3. \A p \in Proc, t \in Table : Untouched(p, t)
    BY <2>2 DEF Cold, UnlistedFresh
  <2>4. UnlistedFresh'
    BY <2>1, <2>3 DEF UnlistedFresh, Untouched
  <2>5. ParsersOff' /\ NothingYet'
    BY <2>1, <2>2 DEF Cold, ParsersOff, NothingYet
  <2> QED BY <1>2, <2>1, <2>4, <2>5 DEF Cold
<1>4. CASE Call1
  <2>1. UNCHANGED config /\ UNCHANGED <<active, rounds, clean>>
    BY <1>4 DEF Call1, Submit
  <2>2. clean' /\ NothingYet' /\ ParsersOff' /\ UnlistedFresh'
    BY <2>1, Undisturbed, DriftKeepsCold
  <2> QED BY <1>2, <2>2 DEF Cold
<1>5. CASE Serve(Controller) /\ UNCHANGED ctl
  <2>1. UNCHANGED <<active, rounds, clean>>
    BY <1>5 DEF ctl
  <2>2. clean' /\ NothingYet'
    BY <2>1 DEF Cold, NothingYet
  <2>3. ParsersOff'
    BY <1>5, <2>1, ScriptServed DEF Cold, ParsersOff
  <2>4. ASSUME NEW p \in Proc, NEW t \in Table, active[p] = None \/ ~ Listed(active[p], t)
        PROVE  Untouched(p, t)'
    <3>1. matcher'[p][t] = matcher[p][t]
      BY <1>5, <2>4, ScriptServed
    <3>2. Untouched(p, t)
      BY <2>4 DEF Cold, UnlistedFresh
    <3> QED BY <3>1, <3>2 DEF Untouched
  <2>5. UnlistedFresh'
    BY <2>1, <2>4 DEF UnlistedFresh
  <2> QED BY <1>2, <2>2, <2>3, <2>5 DEF Cold
<1> QED
  BY <1>1, <1>3, <1>4, <1>5 DEF ControlStep

\* The steps of the others.
LEMMA ColdOther ==
  ASSUME DInv, cold, alive, Cold, OtherStep, cold', alive'
  PROVE  Cold'
<1>1. CASE PacketStep /\ UNCHANGED ctl
  <2>1. pc # "recv" /\ UNCHANGED todo
    BY <1>1 DEF PacketStep, At, Enter, StartParse, ParseLevel, Gate, GateWild, SkipTable,
                UseTable, Lookup, LookupNoMemory, NextHop, Execute, ExecuteWild, Transmit
  <2>2. UNCHANGED <<script, active, rounds, clean>>
    BY <1>1 DEF ctl
  <2>3. Deployed'
    BY <2>1, <2>2 DEF Cold, Deployed
  <2>4. Drift
    BY <1>1, PacketDrift DEF DInv, DTypes
  <2>5. clean' /\ NothingYet' /\ ParsersOff' /\ UnlistedFresh'
    BY <2>2, <2>4, DriftKeepsCold
  <2>6. PacketPlaced'
    BY <1>1, PacketKeepsPlace
  <2> QED BY <2>3, <2>5, <2>6 DEF Cold
<1>2. CASE \E c \in Clients \ {Controller} : Serve(c) /\ UNCHANGED ctl
  <2>1. PICK c \in Clients \ {Controller} : Serve(c) /\ UNCHANGED ctl
    BY <1>2
  <2>2. Drift /\ todo' = [todo EXCEPT ![c] = <<>>]
    BY <2>1, EntryServed
  <2>3. UNCHANGED <<script, active, rounds, clean>> /\ UNCHANGED packet
    BY <2>1 DEF ctl, Serve
  <2>4. clean' /\ NothingYet' /\ ParsersOff' /\ UnlistedFresh'
    BY <2>2, <2>3, DriftKeepsCold
  <2>5. PacketPlaced'
    BY <2>3 DEF Cold, PacketPlaced, Chosen, packet
  <2>6. todo'[Controller] = todo[Controller]
    BY <2>2, ControllerAssumption DEF DInv, DTypes, TypeInv
  <2>7. (pc # "recv" => Deployed)'
    BY <2>3, <2>6 DEF Cold, Deployed, packet
  <2> QED BY <2>4, <2>5, <2>7 DEF Cold
<1>3. CASE Traffic
  <2>1. /\ Deployed /\ UNCHANGED config /\ pc' = "enter"
        /\ UNCHANGED <<script, active, rounds, clean, todo>>
    BY <1>3 DEF Traffic, Receive, At
  <2>2. clean' /\ NothingYet' /\ ParsersOff' /\ UnlistedFresh'
    BY <2>1, Undisturbed, DriftKeepsCold
  <2> QED BY <2>1, <2>2 DEF Cold, Deployed, PacketPlaced, Inside
<1>4. CASE \E c \in Clients, r \in Requests : ModTable(c, r)
  <2>1. /\ UNCHANGED config /\ UNCHANGED packet
        /\ UNCHANGED <<script, active, rounds, clean>>
        /\ todo'[Controller] = todo[Controller]
    BY <1>4, ControllerAssumption DEF ModTable, Submit, ctl, DInv, DTypes, TypeInv
  <2>2. clean' /\ NothingYet' /\ ParsersOff' /\ UnlistedFresh'
    BY <2>1, Undisturbed, DriftKeepsCold
  <2> QED BY <2>1, <2>2 DEF Cold, Deployed, PacketPlaced, Chosen, packet
<1>5. CASE UNCHANGED allVars
  <2>1. UNCHANGED config /\ UNCHANGED packet /\ UNCHANGED <<script, active, rounds, clean, todo>>
    BY <1>5 DEF allVars, vars, ctl, config, packet
  <2>2. clean' /\ NothingYet' /\ ParsersOff' /\ UnlistedFresh'
    BY <2>1, Undisturbed, DriftKeepsCold
  <2> QED BY <2>1, <2>2 DEF Cold, Deployed, PacketPlaced, Chosen, packet
<1> QED
  BY <1>1, <1>2, <1>3, <1>4, <1>5 DEF OtherStep

\* Nothing happens in a process that has died, and a cold start is one from its start.
LEMMA StillCold ==
  ASSUME [DeployNext]_allVars
  PROVE  (cold' => cold) /\ (alive' => alive)
<1>1. CASE UNCHANGED allVars
  BY <1>1 DEF allVars, vars, ctl
<1>2. CASE \E cfg \in Configs : Deploy(cfg)
  BY <1>2 DEF Deploy
<1>3. CASE Call1 \/ CallFails
  BY <1>3 DEF Call1, CallFails, Submit
<1>4. CASE \E c \in Clients, r \in Requests : ModTable(c, r)
  BY <1>4 DEF ModTable, Submit, ctl
<1>5. CASE Traffic
  BY <1>5 DEF Traffic, Receive, At
<1>6. CASE Switch
  <2>1. PacketStep => alive
    BY DEF PacketStep, At, Enter, StartParse, ParseLevel, Gate, GateWild, SkipTable, UseTable,
           Lookup, LookupNoMemory, NextHop, Execute, ExecuteWild, Transmit
  <2>2. (\E c \in Clients : Serve(c)) => alive
    BY DEF Serve
  <2> QED BY <1>6, <2>1, <2>2 DEF Switch, ctl
<1> QED
  BY <1>1, <1>2, <1>3, <1>4, <1>5, <1>6 DEF DeployNext

\* The invariant is inductive.
LEMMA ColdStep == DInv /\ ColdInv /\ [DeployNext]_allVars => ColdInv'
<1> SUFFICES ASSUME DInv, ColdInv, [DeployNext]_allVars, cold', alive' PROVE Cold'
  BY DEF ColdInv
<1>1. cold /\ alive /\ Cold
  BY StillCold DEF ColdInv
<1> QED
  BY <1>1, StepIsOne, ColdControl, ColdOther

\* It holds of the new switch.
LEMMA ColdInitially == DeployInit => ColdInv
<1> SUFFICES ASSUME DeployInit PROVE Cold
  BY DEF ColdInv
<1>1. clean /\ NothingYet /\ ParsersOff /\ pc = "recv"
  BY DEF DeployInit, Init, ParsersOff, NothingYet
<1>2. \A p \in Proc, t \in Table : matcher[p][t] = FreshTable
  BY DEF DeployInit, Init
<1>3. UnlistedFresh
  BY <1>2 DEF UnlistedFresh, Untouched, FreshTable
<1>4. PacketPlaced
  BY <1>1 DEF PacketPlaced, Inside
<1> QED
  BY <1>1, <1>3, <1>4 DEF Cold

\* What the process dies of.
LEMMA ColdDeath ==
  DInv /\ ColdInv /\ [DeployNext]_allVars
    => [cold /\ alive /\ ~ alive' => PacketBlame \/ EntryBlame]_allVars
<1> SUFFICES ASSUME DInv, ColdInv, [DeployNext]_allVars, cold, alive, ~ alive'
             PROVE  PacketBlame \/ EntryBlame
  OBVIOUS
<1>1. Cold
  BY DEF ColdInv
<1>2. CASE ControlStep
  <2>1. CASE \E cfg \in Configs : Deploy(cfg)
    BY <2>1 DEF Deploy, vars
  <2>2. CASE Call1 \/ CallFails
    BY <2>2 DEF Call1, CallFails, Submit, vars
  <2>3. CASE Serve(Controller) /\ UNCHANGED ctl
    BY <2>3, ScriptServed
  <2> QED BY <1>2, <2>1, <2>2, <2>3 DEF ControlStep
<1>3. CASE OtherStep
  <2>1. CASE UNCHANGED allVars
    BY <2>1 DEF allVars, vars
  <2>2. CASE Traffic \/ \E c \in Clients, r \in Requests : ModTable(c, r)
    BY <2>2 DEF Traffic, Receive, ModTable, Submit
  <2>3. CASE PacketStep /\ UNCHANGED ctl
    BY <1>1, <2>3, PacketDeath
  <2>4. CASE \E c \in Clients \ {Controller} : Serve(c) /\ UNCHANGED ctl
    BY <1>1, <2>4, EntryDeath
  <2> QED BY <1>3, <2>1, <2>2, <2>3, <2>4 DEF OtherStep
<1> QED
  BY <1>2, <1>3, StepIsOne

\* After a first deployment, with no lost call and no packet before its end, the
\* switch dies only of what the configuration asks for and it cannot do, whatever
\* entries and packets follow: ColdStartSafe.
THEOREM ColdStart == DeploySpec => ColdStartSafe
  BY ColdInitially, ColdStep, ColdDeath, DeployInvariant, PTL DEF DeploySpec, ColdStartSafe
=============================================================================
