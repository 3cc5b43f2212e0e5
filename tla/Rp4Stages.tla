----------------------------- MODULE Rp4Stages ------------------------------
(***************************************************************************)
(* The front half of the rP4 back end: what IpsaProcessorManager and       *)
(* IpsaGatewayManager make of a parsed program.  Stages that do nothing    *)
(* but one action are merged into the stages before them, the others are   *)
(* numbered anew, and actions, tables and gateways are bound to numbers.   *)
(*                                                                         *)
(* A program is a record                                                   *)
(*   stages : [0 .. n-1 -> [exec, switch, headers]], in source order; exec *)
(*            is a sequence of [act, next], switch one of [default, type,  *)
(*            to], to a table or a stage; next and to are -1 for "none"    *)
(*   prims  : [0 .. m-1 -> sequence of [lv, rv]], the actions' assignments *)
(*   params : [0 .. m-1 -> number of parameters]                           *)
(*   mem    : [tables -> [keyed, type, key, value]], blocks of memory      *)
(*   levels : [0 .. l-1 -> set of <<header, next level>>], the parser      *)
(***************************************************************************)
EXTENDS Integers, Sequences, FiniteSets, SequencesExt

StageIds(prog) == DOMAIN prog.stages
Assignments(prog) == UNION {ToSet(prog.prims[a]) : a \in DOMAIN prog.prims}

\* What a source file that names only stages, tables and actions it defines is read as.
IsNumbered(S)  == IsFiniteSet(S) /\ S = 0 .. Cardinality(S) - 1
IsProgram(prog) ==
  /\ IsNumbered(StageIds(prog)) /\ IsNumbered(DOMAIN prog.levels)
  /\ DOMAIN prog.mem \subseteq Nat /\ IsFiniteSet(DOMAIN prog.mem)
  /\ \A t \in DOMAIN prog.mem :
       prog.mem[t] \in [keyed : BOOLEAN, type : {"SRAM", "TCAM"}, key : Nat, value : Nat]
  /\ prog.prims \in [DOMAIN prog.prims -> Seq(Assignments(prog))]
  /\ \A k \in StageIds(prog) :
       /\ prog.stages[k].switch \in
            Seq([default : BOOLEAN, type : {"TABLE"}, to : DOMAIN prog.mem]
                  \cup [default : BOOLEAN, type : {"STAGE"}, to : StageIds(prog) \cup {-1}])
       /\ prog.stages[k].exec \in
            Seq([act : DOMAIN prog.prims, next : StageIds(prog) \cup {-1}])

\* No table is named by two entries of the program's switches.
NamedOnce(prog) ==
  \A k, l \in StageIds(prog) :
    \A i \in DOMAIN prog.stages[k].switch, j \in DOMAIN prog.stages[l].switch :
      LET e == prog.stages[k].switch[i]
          f == prog.stages[l].switch[j]
      IN e.type = "TABLE" /\ f.type = "TABLE" /\ e.to = f.to => k = l /\ i = j

\* The numbers of a set in ascending order, and the entries of a sequence at the
\* places of a set.  SetToSortSeq and SelectSeq say the same, but no prover can
\* expand them.
Nth(S, n)      == CHOOSE k \in S : Cardinality({j \in S : j < k}) = n
InOrder(S)     == [n \in 1 .. Cardinality(S) |-> Nth(S, n - 1)]
Select(seq, S) == [n \in DOMAIN InOrder(S) |-> seq[InOrder(S)[n]]]

-----------------------------------------------------------------------------
(***************************************************************************)
(* Merging (IpsaProcessorManager::initializeStages).                       *)
(***************************************************************************)
\* get_virtual_action: a stage whose switch only names tables and whose executor
\* has one entry can be merged, whatever its tables may answer.
IsVirtual(stage) ==
  /\ \A i \in DOMAIN stage.switch : stage.switch[i].type = "TABLE"
  /\ Len(stage.exec) = 1

\* action_proc of every stage, before anything is merged.
Bound(prog) ==
  [ap      |-> [k \in StageIds(prog) |-> prog.stages[k].exec],
   prims   |-> prog.prims,
   removed |-> {},
   goto    |-> [k \in {} |-> -1],
   clash   |-> FALSE]

CanConcat(one, two) == \A i \in DOMAIN one, j \in DOMAIN two : one[i].lv # two[j].lv

\* concatAction, on the entry e = <<stage, index>>: the assignments of action v are
\* appended to the entry's action, which every other user of that action shares.
Redirect(st, e, k, v, next) ==
  LET entry == st.ap[e[1]][e[2]]
  IN IF e[1] \in st.removed \/ entry.next # k THEN st
     ELSE IF ~ CanConcat(st.prims[entry.act], st.prims[v]) THEN [st EXCEPT !.clash = TRUE]
     ELSE [st EXCEPT !.prims[entry.act] = @ \o st.prims[v],
                     !.ap[e[1]][e[2]].next = next]

\* The entries of all stages, in the order the two inner loops visit them.
EntriesInOrder(prog) ==
  FlattenSeq([j \in 1 .. Cardinality(StageIds(prog)) |->
                [i \in 1 .. Len(prog.stages[j - 1].exec) |-> <<j - 1, i>>]])

\* The entries that lead to stage k take over its action and lead on, as far as no
\* assignment clashes.
Absorbed(prog, st, k) ==
  LET entries == EntriesInOrder(prog)
      virtual == prog.stages[k].exec[1]
      into[n \in 0 .. Len(entries)] ==
        IF n = 0 THEN [st EXCEPT !.clash = FALSE]
        ELSE Redirect(into[n - 1], entries[n], k, virtual.act, virtual.next)
  IN into[Len(entries)]

\* A stage is merged when it is virtual and its action takes no parameters.
CanMerge(prog, k) ==
  IsVirtual(prog.stages[k]) /\ ~ (prog.params[prog.stages[k].exec[1].act] > 0)

\* A fault: the stage is removed although an assignment clashed.
MergeStageAnyway(prog, st, k) ==
  LET next == prog.stages[k].exec[1].next
  IN IF ~ CanMerge(prog, k) THEN st
     ELSE [Absorbed(prog, st, k) EXCEPT
             !.removed = @ \cup {k},
             !.goto = [x \in DOMAIN @ \cup {k} |-> IF x = k THEN next ELSE @[x]]]

\* A merged stage is removed, unless one of the entries clashed.
MergeStage(prog, st, k) ==
  LET next   == prog.stages[k].exec[1].next
      merged == Absorbed(prog, st, k)
  IN IF ~ CanMerge(prog, k) THEN st
     ELSE [ap      |-> merged.ap,
           prims   |-> merged.prims,
           clash   |-> merged.clash,
           removed |-> st.removed \cup (IF merged.clash THEN {} ELSE {k}),
           goto    |-> IF merged.clash THEN st.goto
                       ELSE [x \in DOMAIN st.goto \cup {k} |-> IF x = k THEN next ELSE st.goto[x]]]

Merged(prog) ==
  LET merged[d \in 0 .. Cardinality(StageIds(prog))] ==
        IF d = 0 THEN Bound(prog) ELSE MergeStage(prog, merged[d - 1], d - 1)
  IN merged[Cardinality(StageIds(prog))]

-----------------------------------------------------------------------------
(***************************************************************************)
(* Renumbering.  A removed stage takes the contents of the last removed    *)
(* stage of its chain, and the number of the stage after it.  After the    *)
(* last stage there is none: logical_stages[-1] is read, and "wild" is     *)
(* what reorder_map then answers.                                          *)
(***************************************************************************)
Rank(st, k) == Cardinality((0 .. k - 1) \ st.removed)

ChainEnd(st, k) ==
  LET follow[d \in 0 .. Cardinality(st.removed)] ==
        IF d = 0 THEN k
        ELSE IF st.goto[follow[d - 1]] \in st.removed THEN st.goto[follow[d - 1]]
        ELSE follow[d - 1]
  IN IF k \in st.removed THEN follow[Cardinality(st.removed)] ELSE k

\* reorder_map, with 0 for a number it does not hold: the removed stages that are
\* not the end of a chain.
Reordered(st, wild, k) ==
  IF k = -1 THEN -1
  ELSE IF k \notin st.removed THEN Rank(st, k)
  ELSE IF ChainEnd(st, k) # k THEN 0
  ELSE IF st.goto[k] = -1 THEN wild ELSE Rank(st, st.goto[k])

\* A name in a gateway finds the stage's place in the list, and so its contents.
NumberOf(st, wild, k) == Reordered(st, wild, ChainEnd(st, k))

\* A chain that ends after the last stage reads in front of the vector.
ReadsWild(st) == \E k \in st.removed : st.goto[ChainEnd(st, k)] = -1

-----------------------------------------------------------------------------
(***************************************************************************)
(* What IpsaGatewayManager::load and setupStages leave of the program.     *)
(***************************************************************************)
\* The tables a switch names, in order; the place in it is the matcher id.
TablesOf(stage) ==
  LET named == Select(stage.switch, {i \in DOMAIN stage.switch : stage.switch[i].type = "TABLE"})
  IN [i \in DOMAIN named |-> named[i].to]

Jump(st, wild, e) ==
  [type |-> e.type,
   to   |-> IF e.type = "STAGE" /\ e.to # -1 THEN NumberOf(st, wild, e.to) ELSE e.to]

\* Without a default the first entry is shared as the default.
GatewayOf(st, wild, stage) ==
  LET places   == {i \in DOMAIN stage.switch : stage.switch[i].default}
      defaults == Select(stage.switch, places)
      keyed    == Select(stage.switch, DOMAIN stage.switch \ places)
      entries  == [i \in DOMAIN keyed |-> Jump(st, wild, keyed[i])]
  IN [entries |-> entries,
      shared  |-> defaults = <<>>,
      default |-> IF defaults = <<>> THEN entries[1] ELSE Jump(st, wild, Last(defaults))]

LogicalStage(prog, st, wild, k) ==
  [def     |-> k,
   ap      |-> [i \in DOMAIN st.ap[k] |->
                  [act |-> st.ap[k][i].act, next |-> Reordered(st, wild, st.ap[k][i].next)]],
   gateway |-> GatewayOf(st, wild, prog.stages[k]),
   tables  |-> TablesOf(prog.stages[k]),
   headers |-> prog.stages[k].headers]

\* The last stage of the list that holds a table, its own or one that took its
\* contents; setupStages leaves proc_id and id as that stage sets them, else 0.
Holder(prog, st, t) ==
  LET holders == {k \in StageIds(prog) : t \in ToSet(TablesOf(prog.stages[ChainEnd(st, k)]))}
  IN IF holders = {} THEN {} ELSE {CHOOSE k \in holders : \A j \in holders : j <= k}

TableStage(prog, st, wild, t) ==
  IF Holder(prog, st, t) = {} THEN 0
  ELSE NumberOf(st, wild, CHOOSE k \in Holder(prog, st, t) : TRUE)

MatcherId(prog, st, t) ==
  LET places == UNION {{i - 1 : i \in {i \in DOMAIN TablesOf(prog.stages[ChainEnd(st, k)]) :
                                         TablesOf(prog.stages[ChainEnd(st, k)])[i] = t}} :
                         k \in Holder(prog, st, t)}
  IN IF places = {} THEN 0 ELSE CHOOSE i \in places : \A j \in places : j <= i

\* The program as the rest of the back end sees it: the stages that are kept, by
\* their new numbers, the actions with what was appended to them, and the tables.
Logical(prog, st, wild) ==
  LET kept == {k \in StageIds(prog) : k \notin st.removed}
  IN [stages |-> [s \in 0 .. Cardinality(kept) - 1 |->
                    LogicalStage(prog, st, wild, Nth(kept, s))],
      prims  |-> st.prims,
      levels |-> prog.levels,
      proc   |-> [t \in DOMAIN prog.mem |-> TableStage(prog, st, wild, t)],
      id     |-> [t \in DOMAIN prog.mem |-> MatcherId(prog, st, t)]]

-----------------------------------------------------------------------------
(***************************************************************************)
(* What the merging has to preserve.                                       *)
(***************************************************************************)
\* The sequences of assignments a packet may cause, by the program.
SourceTraces(prog) ==
  LET walk[d \in 0 .. Cardinality(StageIds(prog)) + 1] ==
        [k \in StageIds(prog) \cup {-1} |->
           IF d = 0 \/ k = -1 THEN {<<>>}
           ELSE UNION {IF e.type = "STAGE" THEN walk[d - 1][e.to]
                       ELSE UNION {{prog.prims[x.act] \o w : w \in walk[d - 1][x.next]} :
                                     x \in ToSet(prog.stages[k].exec)} :
                         e \in ToSet(prog.stages[k].switch)}]
  IN walk[Cardinality(StageIds(prog)) + 1][IF StageIds(prog) = {} THEN -1 ELSE 0]

\* Every action in one executor entry, stages listed before the ones they lead to, and
\* switches with an entry and at most one default (load keeps the last), which leave
\* the table, if at all, by the default.
Tidy(prog) ==
  /\ \A k, l \in StageIds(prog) :
       \A i \in DOMAIN prog.stages[k].exec, j \in DOMAIN prog.stages[l].exec :
         prog.stages[k].exec[i].act = prog.stages[l].exec[j].act => k = l /\ i = j
  /\ \A k \in StageIds(prog) : \A x \in ToSet(prog.stages[k].exec) : x.next = -1 \/ x.next > k
  /\ \A k \in StageIds(prog) :
       LET switch == prog.stages[k].switch
       IN /\ switch # <<>>
          /\ \A i, j \in DOMAIN switch : switch[i].default /\ switch[j].default => i = j
          /\ \A x \in ToSet(switch) :
               x.type = "STAGE" => x.to = -1 \/ (x.default /\ x.to > k)

\* The merging looks for the entries that lead to a stage in the executors.  A stage
\* that a packet enters without one, by a gateway or as the first, has to be kept.
EnteredByActions(prog) ==
  \A m \in Merged(prog).removed :
    /\ m # 0
    /\ \A k \in StageIds(prog) : \A x \in ToSet(prog.stages[k].switch) : x.type = "STAGE" => x.to # m

\* The programs whose assignments are kept.
Plain(prog) == Tidy(prog) /\ EnteredByActions(prog)

-----------------------------------------------------------------------------
(***************************************************************************)
(* IpsaDistribution::topologicalSort, on a graph given as the successors   *)
(* of every node: the smallest node of no remaining predecessor first.     *)
(* Where none is left, -1 is looked up and the program ends.               *)
(***************************************************************************)
Ready(next, done) ==
  {n \in DOMAIN next \ done : \A m \in DOMAIN next \ done : n \notin next[m]}

WithNext(next, done) ==
  LET ready == Ready(next, ToSet(done))
  IN IF ready = {} THEN done ELSE Append(done, CHOOSE n \in ready : \A m \in ready : n <= m)

TopoOrder(next) ==
  LET sort[d \in 0 .. Cardinality(DOMAIN next)] ==
        IF d = 0 THEN <<>> ELSE WithNext(next, sort[d - 1])
  IN sort[Cardinality(DOMAIN next)]

IsAcyclic(next) == Len(TopoOrder(next)) = Cardinality(DOMAIN next)

StageNext(lg) == [s \in DOMAIN lg.stages |->
                    {lg.stages[s].ap[i].next : i \in DOMAIN lg.stages[s].ap} \ {-1}]
LevelNext(lg) == [l \in DOMAIN lg.levels |-> {x[2] : x \in lg.levels[l]}]

\* The levels a stage's headers are extracted in, with all that lead to them.
LevelsUpTo(lg, l) ==
  LET next == LevelNext(lg)
      up[d \in 0 .. Cardinality(DOMAIN next)] ==
        IF d = 0 THEN {l}
        ELSE up[d - 1] \cup {m \in DOMAIN next : next[m] \cap up[d - 1] # {}}
  IN up[Cardinality(DOMAIN next)]

Needed(lg, s) ==
  UNION {LevelsUpTo(lg, l) :
           l \in {m \in DOMAIN lg.levels : \E x \in lg.levels[m] : x[1] \in lg.stages[s].headers}}

\* A set of levels in the order of the parse graph.
InParseOrder(lg, levels) ==
  LET order == TopoOrder(LevelNext(lg))
  IN Select(order, {i \in DOMAIN order : order[i] \in levels})
=============================================================================
