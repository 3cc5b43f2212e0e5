------------------------- MODULE IpsaSwitch_proofs -------------------------
(***************************************************************************)
(* Theorems about IpsaSwitch, for every number of processors, tables,      *)
(* actions, levels, entries and rows, every set of flows and clients and   *)
(* every set of requests.                                                  *)
(***************************************************************************)
EXTENDS IpsaSwitch, TLAPS

(***************************************************************************)
(* The types of the configuration, apart from those of the packet.         *)
(***************************************************************************)
ConfigOK ==
  /\ parser \in [Proc -> ParserState]
  /\ gateway \in [Proc -> GatewayState]
  /\ matcher \in [Proc -> [Table -> TableState]]
  /\ memory \in [Clusters -> Memory]
  /\ exe \in [Proc -> [Act -> Slot]]
  /\ alive \in BOOLEAN
  /\ ranOff \in [Proc -> Nat]

PacketOK == phv \in Packet /\ pc \in PcValues /\ cur \in Proc /\ lvl \in Nat

\* A gateway never has more relations than its bitmap has bits in this model.
FewExps == \A p \in Proc : Len(gateway[p].exps) <= MaxExps

\* Between the gateway and the executor the packet's operation names a table.
AtTable == pc \in {"match", "lookup", "next", "exec"} =>
             phv.op \in [type : {"TABLE"}, val : Table]

TypeInv == ConfigOK /\ PacketOK /\ todo \in [Clients -> Seq(Call)] /\ FewExps /\ AtTable

LEMMA TypeInvTypeOK == TypeInv => TypeOK
  BY DEF TypeInv, ConfigOK, PacketOK, TypeOK

-----------------------------------------------------------------------------
(***************************************************************************)
(* The methods the server calls keep the configuration's types.            *)
(***************************************************************************)
LEMMA ParserMethods ==
  ASSUME ConfigOK, NEW p \in Proc
  PROVE  /\ \A level \in 0 .. NumLevels : InitParserLevel(p, level) => ConfigOK'
         /\ \A l \in Level, i \in Entry, e \in [covers : SUBSET Flows, drop : BOOLEAN] :
              ModParserEntry(p, l, i, e) => ConfigOK'
         /\ ClearParser(p) => ConfigOK'
<1>1. ASSUME NEW level \in 0 .. NumLevels, InitParserLevel(p, level) PROVE ConfigOK'
  BY <1>1 DEF InitParserLevel, ConfigOK, ParserState
<1>2. ASSUME NEW l \in Level, NEW i \in Entry,
             NEW e \in [covers : SUBSET Flows, drop : BOOLEAN], ModParserEntry(p, l, i, e)
      PROVE  ConfigOK'
  BY <1>2 DEF ModParserEntry, ConfigOK, ParserState
<1>3. ASSUME ClearParser(p) PROVE ConfigOK'
  BY <1>3, SizeAssumption DEF ClearParser, ConfigOK, ParserState, NoEntry
<1> QED
  BY <1>1, <1>2, <1>3

LEMMA GatewayMethods ==
  ASSUME ConfigOK, NEW p \in Proc
  PROVE  /\ \A rel \in SUBSET (Flows \X BOOLEAN) : InsertExp(p, rel) => ConfigOK'
         /\ ClearExp(p) => ConfigOK'
         /\ ClearResMap(p) => ConfigOK'
         /\ \A k \in Key, to \in Op : ModifyResMap(p, k, to) => ConfigOK'
         /\ \A to \in Op : SetDefaultEntry(p, to) => ConfigOK'
<1>1. ASSUME NEW rel \in SUBSET (Flows \X BOOLEAN), InsertExp(p, rel) PROVE ConfigOK'
  <2>1. gateway[p] \in GatewayState
    BY DEF ConfigOK
  <2> DEFINE R == SUBSET (Flows \X BOOLEAN)
  <2>2. gateway[p].exps \in Seq(R) /\ rel \in R
    BY <2>1 DEF GatewayState
  <2>3. Append(gateway[p].exps, rel) \in Seq(R)
    <3> HIDE DEF R
    <3> QED BY <2>2
  <2>4. [gateway[p] EXCEPT !.exps = Append(gateway[p].exps, rel)] \in GatewayState
    BY <2>1, <2>3 DEF GatewayState
  <2> QED
    BY <1>1, <2>4 DEF InsertExp, ConfigOK
<1>2. ASSUME ClearExp(p) PROVE ConfigOK'
  <2>1. [type |-> "TABLE", val |-> 0] \in Op
    BY SizeAssumption DEF Op, Table
  <2>2. [default |-> [type |-> "TABLE", val |-> 0], exps |-> <<>>, next |-> [k \in Key |-> None]]
          \in GatewayState
    BY <2>1 DEF GatewayState
  <2> QED
    BY <1>2, <2>2 DEF ClearExp, ConfigOK
<1>3. ASSUME ClearResMap(p) PROVE ConfigOK'
  BY <1>3 DEF ClearResMap, ConfigOK, GatewayState
<1>4. ASSUME NEW k \in Key, NEW to \in Op, ModifyResMap(p, k, to) PROVE ConfigOK'
  BY <1>4 DEF ModifyResMap, ConfigOK, GatewayState
<1>5. ASSUME NEW to \in Op, SetDefaultEntry(p, to) PROVE ConfigOK'
  BY <1>5 DEF SetDefaultEntry, ConfigOK, GatewayState
<1> QED
  BY <1>1, <1>2, <1>3, <1>4, <1>5

\* What clear_old_config leaves is a table, in a memory of rows.
LEMMA EmptyTypes ==
  /\ EmptySram \in [Row -> [key : Flows \cup {ZeroKey}, act : Act]]
  /\ EmptyTcam \in [Row -> [covers : SUBSET Flows, act : Act]]
  /\ NoMemory \in Memory
<1>1. 0 \in Act
  BY SizeAssumption DEF Act
<1> QED
  BY <1>1 DEF EmptySram, EmptyTcam, NoMemory, Memory

LEMMA ClearedType == \A tb \in TableState : Cleared(tb) \in TableState
<1> SUFFICES ASSUME NEW tb \in TableState PROVE Cleared(tb) \in TableState
  OBVIOUS
<1> DEFINE idx == IF tb.type = "EXACT" THEN tb.idx ELSE 0
<1>1. idx \in 0 .. NumRows /\ 0 \in Block
  BY SizeAssumption DEF Block, TableState
<1>2. NoMap \in [Choice -> Target \cup {None}] /\ -1 \in Choice
  BY DEF NoMap, Choice
<1>3. [tb EXCEPT !.noTable = TRUE, !.keyed = FALSE, !.map = NoMap, !.miss = -1, !.depth = 0,
                 !.block = 0, !.idx = idx] \in TableState
  <2> HIDE DEF idx
  <2> QED BY <1>1, <1>2 DEF TableState
<1> QED
  BY <1>3 DEF Cleared

\* A row written or a block wiped leaves a memory.
LEMMA MemoryType ==
  ASSUME NEW mem \in Memory
  PROVE  /\ \A tb \in TableState : Wiped(mem, tb) \in Memory
         /\ \A b \in Block, r \in Row, k \in Flows, a \in Act :
              [mem EXCEPT !.sram = [mem.sram EXCEPT ![b] =
                 [mem.sram[b] EXCEPT ![r] = [key |-> k, act |-> a]]]] \in Memory
         /\ \A b \in Block, r \in Row, cs \in SUBSET Flows, a \in Act :
              [mem EXCEPT !.tcam = [mem.tcam EXCEPT ![b] =
                 [mem.tcam[b] EXCEPT ![r] = [covers |-> cs, act |-> a]]]] \in Memory
<1>1. ASSUME NEW tb \in TableState PROVE Wiped(mem, tb) \in Memory
  <2>1. tb.block \in Block
    BY DEF TableState
  <2>2. [mem EXCEPT !.sram[tb.block] = EmptySram] \in Memory
    BY <2>1, EmptyTypes DEF Memory
  <2>3. [mem EXCEPT !.tcam[tb.block] = EmptyTcam] \in Memory
    BY <2>1, EmptyTypes DEF Memory
  <2> QED
    BY <2>2, <2>3 DEF Wiped
<1>2. ASSUME NEW b \in Block, NEW r \in Row, NEW k \in Flows, NEW a \in Act
      PROVE  [mem EXCEPT !.sram = [mem.sram EXCEPT ![b] =
                [mem.sram[b] EXCEPT ![r] = [key |-> k, act |-> a]]]] \in Memory
  BY DEF Memory
<1>3. ASSUME NEW b \in Block, NEW r \in Row, NEW cs \in SUBSET Flows, NEW a \in Act
      PROVE  [mem EXCEPT !.tcam = [mem.tcam EXCEPT ![b] =
                [mem.tcam[b] EXCEPT ![r] = [covers |-> cs, act |-> a]]]] \in Memory
  BY DEF Memory
<1> QED
  BY <1>1, <1>2, <1>3

LEMMA ClusterType == \A p \in Proc : ClusterOf(p) \in Clusters
  BY DEF Clusters

\* A table replaced by another of its type.
LEMMA ReplaceTable ==
  ASSUME ConfigOK, NEW p \in Proc, NEW t \in Table, NEW tb \in TableState,
         matcher' = [matcher EXCEPT ![p][t] = tb],
         UNCHANGED <<parser, gateway, memory, exe, alive, ranOff>>
  PROVE  ConfigOK'
  BY DEF ConfigOK

\* ... and the memory of its cluster by another.
LEMMA ReplaceBoth ==
  ASSUME ConfigOK, NEW p \in Proc, NEW t \in Table, NEW tb \in TableState,
         NEW c, NEW mem \in Memory,
         matcher' = [matcher EXCEPT ![p][t] = tb], memory' = [memory EXCEPT ![c] = mem],
         UNCHANGED <<parser, gateway, exe, alive, ranOff>>
  PROVE  ConfigOK'
<1>1. matcher' \in [Proc -> [Table -> TableState]]
  BY DEF ConfigOK
<1>2. memory' \in [Clusters -> Memory]
  BY DEF ConfigOK
<1> QED
  BY <1>1, <1>2 DEF ConfigOK

LEMMA MatcherMethods ==
  ASSUME ConfigOK, NEW p \in Proc, NEW t \in Table
  PROVE  /\ \A map \in [Choice -> Target \cup {None}] : SetActionProcMap(p, t, map) => ConfigOK'
         /\ ClearOldConfig(p, t) => ConfigOK'
         /\ \A ty \in TableType : InitMatchType(p, t, ty) => ConfigOK'
         /\ \A flag \in BOOLEAN : SetNoTable(p, t, flag) => ConfigOK'
         /\ \A depth \in {0, 1}, b \in Block : SetGeometry(p, t, depth, b) => ConfigOK'
         /\ \A miss \in Choice : SetMissActId(p, t, miss) => ConfigOK'
         /\ \A keyed \in BOOLEAN : SetFieldInfos(p, t, keyed) => ConfigOK'
<1> DEFINE old == matcher[p][t]
<1>0. old \in TableState
  BY DEF ConfigOK
<1>1. ASSUME NEW map \in [Choice -> Target \cup {None}], SetActionProcMap(p, t, map)
      PROVE  ConfigOK'
  <2> DEFINE new == [old EXCEPT !.map = [a \in Choice |-> IF map[a] # None THEN map[a]
                                                         ELSE old.map[a]]]
  <2>1. new \in TableState
    BY <1>0 DEF TableState
  <2>2. matcher' = [matcher EXCEPT ![p][t] = new]
    BY <1>1 DEF SetActionProcMap, ConfigOK
  <2> QED
    BY <1>1, <2>1, <2>2, ReplaceTable DEF SetActionProcMap
<1>2. ASSUME ClearOldConfig(p, t) PROVE ConfigOK'
  <2>1. Cleared(old) \in TableState
    BY <1>0, ClearedType
  <2>2. memory[ClusterOf(p)] \in Memory /\ ClusterOf(p) \in Clusters
    BY ClusterType DEF ConfigOK
  <2>3. Wiped(memory[ClusterOf(p)], old) \in Memory
    BY <1>0, <2>2, MemoryType
  <2>4. memory' = [memory EXCEPT ![ClusterOf(p)] = Wiped(memory[ClusterOf(p)], old)]
        /\ matcher' = [matcher EXCEPT ![p][t] = Cleared(old)]
    BY <1>2 DEF ClearOldConfig, ConfigOK
  <2> QED
    <3>1. UNCHANGED <<parser, gateway, exe, alive, ranOff>>
      BY <1>2 DEF ClearOldConfig
    <3> HIDE DEF old
    <3> QED BY <2>1, <2>3, <2>4, <3>1, ReplaceBoth
<1>3. ASSUME NEW ty \in TableType, InitMatchType(p, t, ty) PROVE ConfigOK'
  <2>1. [old EXCEPT !.type = ty] \in TableState
    BY <1>0 DEF TableState
  <2> QED
    BY <1>3, <2>1, ReplaceTable DEF InitMatchType
<1>4. ASSUME NEW flag \in BOOLEAN, SetNoTable(p, t, flag) PROVE ConfigOK'
  <2>1. [old EXCEPT !.noTable = flag] \in TableState
    BY <1>0 DEF TableState
  <2> QED
    BY <1>4, <2>1, ReplaceTable DEF SetNoTable
<1>5. ASSUME NEW depth \in {0, 1}, NEW b \in Block, SetGeometry(p, t, depth, b) PROVE ConfigOK'
  <2> DEFINE new == WithGeometry(old, depth, b)
  <2>1. new \in TableState
    BY <1>0 DEF WithGeometry, TableState
  <2>2. matcher' = [matcher EXCEPT ![p][t] = new]
    BY <1>5 DEF SetGeometry
  <2>3. UNCHANGED <<parser, gateway, memory, exe, alive, ranOff>>
    BY <1>5 DEF SetGeometry
  <2> QED
    <3> HIDE DEF new, old
    <3> QED BY <2>1, <2>2, <2>3, ReplaceTable
<1>6. ASSUME NEW miss \in Choice, SetMissActId(p, t, miss) PROVE ConfigOK'
  <2>1. [old EXCEPT !.miss = miss] \in TableState
    BY <1>0 DEF TableState
  <2> QED
    BY <1>6, <2>1, ReplaceTable DEF SetMissActId
<1>7. ASSUME NEW keyed \in BOOLEAN, SetFieldInfos(p, t, keyed) PROVE ConfigOK'
  <2>1. [old EXCEPT !.keyed = keyed] \in TableState
    BY <1>0 DEF TableState
  <2> QED
    BY <1>7, <2>1, ReplaceTable DEF SetFieldInfos
<1> QED
  BY <1>1, <1>2, <1>3, <1>4, <1>5, <1>6, <1>7

\* An entry replaces the row its key hashes to, or takes the next free row; on a
\* table without memory the process dies.
LEMMA EntryMethods ==
  ASSUME ConfigOK, NEW p \in Proc, NEW t \in Table, NEW a \in Act
  PROVE  /\ \A k \in Flows : InsertSramEntry(p, t, k, a) => ConfigOK'
         /\ \A cs \in SUBSET Flows : InsertTcamEntry(p, t, cs, a) => ConfigOK'
<1> DEFINE old == matcher[p][t]
           cl  == ClusterOf(p)
           mem == memory[cl]
<1>0. old \in TableState /\ cl \in Clusters /\ mem \in Memory
  BY ClusterType DEF ConfigOK
<1>1. ASSUME NEW k \in Flows, InsertSramEntry(p, t, k, a) PROVE ConfigOK'
  <2> DEFINE new == [mem EXCEPT !.sram = [mem.sram EXCEPT ![old.block] =
                       [mem.sram[old.block] EXCEPT ![RowOf[k]] = [key |-> k, act |-> a]]]]
  <2>1. RowOf[k] \in Row /\ old.block \in Block
    BY <1>0, KeyAssumption DEF TableState
  <2>2. new \in Memory
    BY <1>0, <2>1, MemoryType
  <2>3. CASE /\ memory' = [memory EXCEPT ![cl].sram[old.block][RowOf[k]] = [key |-> k, act |-> a]]
             /\ UNCHANGED <<parser, gateway, matcher, exe, alive, ranOff>>
    <3>1. memory' = [memory EXCEPT ![cl] = new]
      BY <2>3
    <3> HIDE DEF new
    <3> QED BY <1>0, <2>2, <2>3, <3>1 DEF ConfigOK
  <2>4. CASE Crash
    BY <2>4 DEF Crash, config, ConfigOK
  <2> QED
    BY <1>1, <2>3, <2>4 DEF InsertSramEntry
<1>2. ASSUME NEW cs \in SUBSET Flows, InsertTcamEntry(p, t, cs, a) PROVE ConfigOK'
  <2> DEFINE new == [mem EXCEPT !.tcam = [mem.tcam EXCEPT ![old.block] =
                       [mem.tcam[old.block] EXCEPT ![old.idx] = [covers |-> cs, act |-> a]]]]
             tb  == [old EXCEPT !.idx = old.idx + 1]
  <2>1. old.idx \in 0 .. NumRows /\ old.block \in Block
    BY <1>0 DEF TableState
  <2>2. CASE /\ old.idx < NumRows
             /\ memory' = [memory EXCEPT ![cl].tcam[old.block][old.idx]
                                          = [covers |-> cs, act |-> a]]
             /\ matcher' = [matcher EXCEPT ![p][t].idx = @ + 1]
             /\ UNCHANGED <<parser, gateway, exe, alive, ranOff>>
    <3>1. old.idx \in Row /\ old.idx + 1 \in 0 .. NumRows
      BY <2>1, <2>2, SizeAssumption DEF Row
    <3>2. new \in Memory
      BY <1>0, <2>1, <3>1, MemoryType
    <3>3. tb \in TableState
      BY <1>0, <3>1 DEF TableState
    <3>4. memory' = [memory EXCEPT ![cl] = new] /\ matcher' = [matcher EXCEPT ![p][t] = tb]
      BY <2>2 DEF ConfigOK
    <3>5. UNCHANGED <<parser, gateway, exe, alive, ranOff>>
      BY <2>2
    <3> HIDE DEF new, tb, cl
    <3> QED BY <3>2, <3>3, <3>4, <3>5, ReplaceBoth
  <2>3. CASE Crash
    BY <2>3 DEF Crash, config, ConfigOK
  <2> QED
    BY <1>2, <2>2, <2>3 DEF InsertTcamEntry
<1> QED
  BY <1>1, <1>2

LEMMA ExecutorMethods ==
  ASSUME ConfigOK, NEW p \in Proc
  PROVE  /\ \A a \in Act, b \in Body : InsertAction(p, a, b) => ConfigOK'
         /\ \A a \in Act : DelAction(p, a) => ConfigOK'
         /\ ClearAction(p) => ConfigOK'
<1>0. ASSUME NEW a \in Act
      PROVE  exe[p][a] \in Slot /\ [exe[p][a] EXCEPT !.st = "freed"] \in Slot
  <2>1. exe[p][a] \in Slot
    BY DEF ConfigOK
  <2> QED
    BY <2>1 DEF Slot
<1>1. ASSUME NEW a \in Act, NEW b \in Body, InsertAction(p, a, b) PROVE ConfigOK'
  BY <1>1 DEF InsertAction, ConfigOK, Slot
<1>2. ASSUME NEW a \in Act, DelAction(p, a) PROVE ConfigOK'
  <2>1. CASE Crash
    BY <2>1 DEF Crash, config, ConfigOK
  <2>2. CASE exe' = [exe EXCEPT ![p][a].st = "freed"]
             /\ UNCHANGED <<parser, gateway, matcher, memory, alive, ranOff>>
    BY <1>0, <2>2 DEF ConfigOK
  <2> QED
    BY <1>2, <2>1, <2>2 DEF DelAction
<1>3. ASSUME ClearAction(p) PROVE ConfigOK'
  <2>1. CASE Crash
    BY <2>1 DEF Crash, config, ConfigOK
  <2>2. CASE ~ Crash
    <3> DEFINE new == [a \in Act |-> IF exe[p][a].st = "wild" THEN exe[p][a]
                                     ELSE [exe[p][a] EXCEPT !.st = "freed"]]
    <3>1. new \in [Act -> Slot]
      BY <1>0
    <3>2. exe' = [exe EXCEPT ![p] = new] /\ UNCHANGED <<parser, gateway, matcher, memory, alive, ranOff>>
      BY <1>3, <2>2 DEF ClearAction
    <3> QED
      BY <3>1, <3>2 DEF ConfigOK
  <2> QED
    BY <2>1, <2>2
<1> QED
  BY <1>1, <1>2, <1>3

-----------------------------------------------------------------------------
(***************************************************************************)
(* A request has the fields its operation says.                            *)
(***************************************************************************)
LEMMA ParserFields ==
  ASSUME NEW r \in Call
  PROVE  /\ r.op \in {"initParserLevel", "modParserEntry", "clearParser"} => r.p \in Proc
         /\ r.op = "initParserLevel" => r.level \in 0 .. NumLevels
         /\ r.op = "modParserEntry" => /\ r.l \in Level /\ r.i \in Entry
                                       /\ r.covers \in SUBSET Flows /\ r.drop \in BOOLEAN
  BY DEF Call, Request, MemStep, ParserRequest, GatewayRequest, MatcherRequest, ExecutorRequest

LEMMA GatewayFields ==
  ASSUME NEW r \in Call
  PROVE  /\ r.op \in {"insertRelationExp", "clearRelationExp", "clearResMap", "modResMap",
                       "setDefaultGateEntry"} => r.p \in Proc
         /\ r.op = "insertRelationExp" => r.rel \in SUBSET (Flows \X BOOLEAN)
         /\ r.op = "modResMap" => r.key \in Key /\ r.to \in Op
         /\ r.op = "setDefaultGateEntry" => r.to \in Op
  BY DEF Call, Request, MemStep, ParserRequest, GatewayRequest, MatcherRequest, ExecutorRequest

LEMMA MatcherFields ==
  ASSUME NEW r \in Call
  PROVE  /\ r.op \in {"setActionProc", "setMemConfig", "clearOldConfig", "initMatchType",
                       "openTable", "setGeometry", "setMissActId", "setFieldInfo", "setNoTable",
                       "insertSramEntry", "insertTcamEntry"} => r.p \in Proc /\ r.t \in Table
         /\ r.op = "setActionProc" => r.map \in [Choice -> Target \cup {None}]
         /\ r.op = "setMemConfig" => r.type \in TableType /\ r.depth \in {0, 1}
                                      /\ r.block \in Block /\ r.miss \in Choice
         /\ r.op = "initMatchType" => r.type \in TableType
         /\ r.op = "setGeometry" => r.depth \in {0, 1} /\ r.block \in Block
         /\ r.op = "setMissActId" => r.miss \in Choice
         /\ r.op = "setFieldInfo" => r.keyed \in BOOLEAN
         /\ r.op = "setNoTable" => r.flag \in BOOLEAN
         /\ r.op = "insertSramEntry" => r.key \in Flows /\ r.act \in Act
         /\ r.op = "insertTcamEntry" => r.covers \in SUBSET Flows /\ r.act \in Act
  BY DEF Call, Request, MemStep, ParserRequest, GatewayRequest, MatcherRequest, ExecutorRequest

LEMMA ExecutorFields ==
  ASSUME NEW r \in Call
  PROVE  /\ r.op \in {"insertAction", "delAction", "clearAction"} => r.p \in Proc
         /\ r.op \in {"insertAction", "delAction"} => r.a \in Act
         /\ r.op = "insertAction" => r.body \in Body
  BY DEF Call, Request, MemStep, ParserRequest, GatewayRequest, MatcherRequest, ExecutorRequest

\* Whatever method a handler calls, the configuration keeps its types ...
LEMMA PerformKeepsTypes ==
  ASSUME ConfigOK, NEW r \in Call, Perform(r)
  PROVE  ConfigOK'
<1>1. CASE r.op = "initParserLevel" /\ InitParserLevel(r.p, r.level)
  BY <1>1, ParserMethods, ParserFields
<1>2. CASE r.op = "modParserEntry" /\ ModParserEntry(r.p, r.l, r.i, [covers |-> r.covers, drop |-> r.drop])
  BY <1>2, ParserMethods, ParserFields
<1>3. CASE r.op = "clearParser" /\ ClearParser(r.p)
  BY <1>3, ParserMethods, ParserFields
<1>4. CASE r.op = "insertRelationExp" /\ InsertExp(r.p, r.rel)
  BY <1>4, GatewayMethods, GatewayFields
<1>5. CASE r.op = "clearRelationExp" /\ ClearExp(r.p)
  BY <1>5, GatewayMethods, GatewayFields
<1>6. CASE r.op = "clearResMap" /\ ClearResMap(r.p)
  BY <1>6, GatewayMethods, GatewayFields
<1>7. CASE r.op = "modResMap" /\ ModifyResMap(r.p, r.key, r.to)
  BY <1>7, GatewayMethods, GatewayFields
<1>8. CASE r.op = "setDefaultGateEntry" /\ SetDefaultEntry(r.p, r.to)
  BY <1>8, GatewayMethods, GatewayFields
<1>9. CASE r.op = "setActionProc" /\ SetActionProcMap(r.p, r.t, r.map)
  BY <1>9, MatcherMethods, MatcherFields
<1>10. CASE r.op = "clearOldConfig" /\ ClearOldConfig(r.p, r.t)
  BY <1>10, MatcherMethods, MatcherFields
<1>11. CASE r.op = "initMatchType" /\ InitMatchType(r.p, r.t, r.type)
  BY <1>11, MatcherMethods, MatcherFields
<1>12. CASE r.op = "openTable" /\ SetNoTable(r.p, r.t, FALSE)
  BY <1>12, MatcherMethods, MatcherFields
<1>13. CASE r.op = "setGeometry" /\ SetGeometry(r.p, r.t, r.depth, r.block)
  BY <1>13, MatcherMethods, MatcherFields
<1>14. CASE r.op = "setMissActId" /\ SetMissActId(r.p, r.t, r.miss)
  BY <1>14, MatcherMethods, MatcherFields
<1>15. CASE r.op = "setFieldInfo" /\ SetFieldInfos(r.p, r.t, r.keyed)
  BY <1>15, MatcherMethods, MatcherFields
<1>16. CASE r.op = "setNoTable" /\ SetNoTable(r.p, r.t, r.flag)
  BY <1>16, MatcherMethods, MatcherFields
<1>17. CASE r.op = "insertSramEntry" /\ InsertSramEntry(r.p, r.t, r.key, r.act)
  BY <1>17, EntryMethods, MatcherFields
<1>18. CASE r.op = "insertTcamEntry" /\ InsertTcamEntry(r.p, r.t, r.covers, r.act)
  BY <1>18, EntryMethods, MatcherFields
<1>19. CASE r.op = "insertAction" /\ InsertAction(r.p, r.a, r.body)
  BY <1>19, ExecutorMethods, ExecutorFields
<1>20. CASE r.op = "delAction" /\ DelAction(r.p, r.a)
  BY <1>20, ExecutorMethods, ExecutorFields
<1>21. CASE r.op = "clearAction" /\ ClearAction(r.p)
  BY <1>21, ExecutorMethods, ExecutorFields
<1> QED
  BY <1>1, <1>2, <1>3, <1>4, <1>5, <1>6, <1>7, <1>8, <1>9, <1>10, <1>11, <1>12,
     <1>13, <1>14, <1>15, <1>16, <1>17, <1>18, <1>19, <1>20, <1>21 DEF Perform

\* ... and only insert_exp adds a relation, with a bound.
LEMMA PerformKeepsFewExps ==
  ASSUME ConfigOK, FewExps, NEW r \in Call, Perform(r)
  PROVE  FewExps'
<1> DEFINE R == SUBSET (Flows \X BOOLEAN)
<1>0. \A p \in Proc : gateway[p] \in GatewayState /\ gateway[p].exps \in Seq(R)
  BY DEF ConfigOK, GatewayState
<1>1. CASE r.op = "insertRelationExp" /\ InsertExp(r.p, r.rel)
  <2>1. r.p \in Proc /\ r.rel \in R
    BY <1>1, GatewayFields
  <2>2. Len(gateway[r.p].exps) < MaxExps /\ Len(gateway[r.p].exps) \in Nat
    BY <1>0, <1>1, <2>1 DEF InsertExp
  <2>3. Len(Append(gateway[r.p].exps, r.rel)) = Len(gateway[r.p].exps) + 1
    <3> HIDE DEF R
    <3> QED BY <1>0, <2>1
  <2>4. gateway' = [gateway EXCEPT ![r.p] = [gateway[r.p] EXCEPT
                                               !.exps = Append(gateway[r.p].exps, r.rel)]]
    BY <1>1 DEF InsertExp
  <2>5. \A p \in Proc : gateway'[p].exps = IF p = r.p THEN Append(gateway[r.p].exps, r.rel)
                                           ELSE gateway[p].exps
    BY <1>0, <2>1, <2>4 DEF ConfigOK, GatewayState
  <2>6. Len(Append(gateway[r.p].exps, r.rel)) <= MaxExps
    BY <2>2, <2>3, SizeAssumption
  <2>7. ASSUME NEW p \in Proc PROVE Len(gateway'[p].exps) <= MaxExps
    <3>1. CASE p = r.p
      BY <2>5, <2>6, <3>1
    <3>2. CASE p # r.p
      BY <2>5, <3>2 DEF FewExps
    <3> QED
      BY <3>1, <3>2
  <2> QED
    BY <2>7 DEF FewExps
<1>2. CASE r.op = "clearRelationExp" /\ ClearExp(r.p)
  <2>1. \A p \in Proc : gateway'[p].exps = IF p = r.p THEN <<>> ELSE gateway[p].exps
    BY <1>2, <1>0, GatewayFields DEF ClearExp, ConfigOK
  <2> QED
    BY <2>1, SizeAssumption DEF FewExps
<1>3. ASSUME \A p \in Proc : gateway'[p].exps = gateway[p].exps PROVE FewExps'
  BY <1>3 DEF FewExps
<1>4. CASE r.op = "clearResMap" /\ ClearResMap(r.p)
  BY <1>0, <1>3, <1>4, GatewayFields DEF ClearResMap, ConfigOK, GatewayState
<1>5. CASE r.op = "modResMap" /\ ModifyResMap(r.p, r.key, r.to)
  BY <1>0, <1>3, <1>5, GatewayFields DEF ModifyResMap, ConfigOK, GatewayState
<1>6. CASE r.op = "setDefaultGateEntry" /\ SetDefaultEntry(r.p, r.to)
  BY <1>0, <1>3, <1>6, GatewayFields DEF SetDefaultEntry, ConfigOK, GatewayState
<1>7. CASE UNCHANGED gateway
  BY <1>7 DEF FewExps
<1> QED
  BY <1>1, <1>2, <1>4, <1>5, <1>6, <1>7
  DEF Perform, InitParserLevel, ModParserEntry, ClearParser, SetActionProcMap, ClearOldConfig,
      InitMatchType, SetNoTable, SetGeometry, SetMissActId, SetFieldInfos, InsertSramEntry,
      InsertTcamEntry, InsertAction, DelAction, ClearAction, Crash, config

\* The calls of a request are calls.
LEMMA CallsType == \A r \in Request : Calls(r) \in Seq(Call)
<1> SUFFICES ASSUME NEW r \in Request PROVE Calls(r) \in Seq(Call)
  OBVIOUS
<1>1. r \in Call
  BY DEF Call
<1>2. CASE r.op = "setMemConfig"
  <2>1. /\ r.p \in Proc /\ r.t \in Table /\ r.type \in TableType
        /\ r.depth \in {0, 1} /\ r.block \in Block /\ r.miss \in Choice
    BY <1>1, <1>2, MatcherFields
  <2>2. [op |-> "clearOldConfig", p |-> r.p, t |-> r.t] \in Call
    BY <2>1 DEF Call, Request, MatcherRequest
  <2>3. [op |-> "initMatchType", p |-> r.p, t |-> r.t, type |-> r.type] \in Call
    BY <2>1 DEF Call, MemStep
  <2>4. [op |-> "openTable", p |-> r.p, t |-> r.t] \in Call
    BY <2>1 DEF Call, MemStep
  <2>5. [op |-> "setGeometry", p |-> r.p, t |-> r.t, depth |-> r.depth, block |-> r.block] \in Call
    BY <2>1 DEF Call, MemStep
  <2>6. [op |-> "setMissActId", p |-> r.p, t |-> r.t, miss |-> r.miss] \in Call
    BY <2>1 DEF Call, Request, MatcherRequest
  <2> QED
    BY <1>2, <2>2, <2>3, <2>4, <2>5, <2>6 DEF Calls
<1>3. CASE r.op # "setMemConfig"
  BY <1>1, <1>3 DEF Calls
<1> QED
  BY <1>2, <1>3

-----------------------------------------------------------------------------
(***************************************************************************)
(* The steps of the packet thread keep TypeInv.                            *)
(***************************************************************************)
\* The relations that hold are a key of the result map.
LEMMA BitmapType == TypeInv => Bitmap \in Key
<1> SUFFICES ASSUME TypeInv PROVE Bitmap \in Key
  OBVIOUS
<1>1. gateway[cur].exps \in Seq(SUBSET (Flows \X BOOLEAN)) /\ cur \in Proc
  BY DEF TypeInv, ConfigOK, PacketOK, GatewayState
<1>2. Len(gateway[cur].exps) \in Nat /\ Len(gateway[cur].exps) <= MaxExps
  BY <1>1 DEF TypeInv, FewExps
<1>3. 1 .. Len(gateway[cur].exps) \subseteq 1 .. MaxExps
  BY <1>2, SizeAssumption
<1> QED
  BY <1>3 DEF Bitmap, Key

\* The gateway selects an operation.
LEMMA SelectedType == TypeInv => Selected \subseteq Op
  BY BitmapType DEF TypeInv, ConfigOK, PacketOK, GatewayState, Selected

\* A table gives an action of the executor.
LEMMA LookupType ==
  ASSUME ConfigOK, NEW p \in Proc, NEW tb \in TableState
  PROVE  /\ tb.miss \in Choice
         /\ \A r \in Hits(p, tb) : ActAt(p, tb, r) \in Act
<1>1. memory[ClusterOf(p)] \in Memory
  BY ClusterType DEF ConfigOK
<1>2. tb.miss \in Choice /\ tb.block \in Block
  BY DEF TableState
<1>3. Hits(p, tb) \subseteq Row
  BY SizeAssumption DEF Hits, First, Row
<1>4. \A r \in Row : Sram(p, tb)[r].act \in Act /\ Tcam(p, tb)[r].act \in Act
  BY <1>1, <1>2 DEF Memory, Sram, Tcam
<1> QED
  BY <1>2, <1>3, <1>4 DEF ActAt

LEMMA PacketKeepsTypes == ASSUME TypeInv, PacketStep PROVE TypeInv'
<1> USE DEF TypeInv, At
<1>0. phv \in Packet /\ cur \in Proc /\ lvl \in Nat
  BY DEF PacketOK
<1>1. CASE Enter
  BY <1>1 DEF Enter, config, ConfigOK, PacketOK, FewExps, AtTable, PcValues
<1>2. CASE StartParse
  <2>0. -1 \in Target
    BY SizeAssumption DEF Target
  <2>1. [phv EXCEPT !.at = -1] \in Packet
    <3> HIDE DEF TypeInv, At
    <3> QED
      BY <1>0, <2>0 DEF Packet
  <2>2. phv' \in Packet /\ lvl' \in Nat
    BY <1>0, <1>2, <2>1 DEF StartParse
  <2> QED
    BY <1>2, <2>2 DEF StartParse, config, ConfigOK, PacketOK, FewExps, AtTable, PcValues
<1>3. CASE ParseLevel
  <2>0. -1 \in Target /\ {} \in SUBSET Ports
    BY SizeAssumption DEF Target
  <2>1. [phv EXCEPT !.at = -1, !.out = {}, !.dropped = TRUE] \in Packet
    BY <1>0, <2>0 DEF Packet
  <2> QED
    BY <1>3, <2>1 DEF ParseLevel, config, ConfigOK, PacketOK, FewExps, AtTable, PcValues
<1>4. CASE Gate
  <2>1. PICK o \in Selected :
          \/ o.type = "TABLE" /\ At("gateway", "match") /\ phv' = [phv EXCEPT !.op = o]
          \/ o.type = "STAGE" /\ At("gateway", "enter") /\ phv' = [phv EXCEPT !.op = o, !.at = o.val]
    BY <1>4 DEF Gate
  <2>2. o \in Op
    BY SelectedType
  <2>3. [phv EXCEPT !.op = o] \in Packet
    BY <1>0, <2>2 DEF Packet
  <2>4. CASE o.type = "TABLE"
    <3>1. o \in [type : {"TABLE"}, val : Table]
      BY <2>2, <2>4 DEF Op
    <3> QED
      BY <1>0, <1>4, <2>1, <2>3, <2>4, <3>1
      DEF Gate, config, ConfigOK, PacketOK, FewExps, AtTable, PcValues, Packet
  <2>5. CASE o.type = "STAGE"
    <3>1. o.val \in Target
      BY <2>2, <2>5 DEF Op
    <3>2. [phv EXCEPT !.op = o, !.at = o.val] \in Packet
      BY <1>0, <2>2, <3>1 DEF Packet
    <3> QED
      BY <1>4, <2>1, <2>5, <3>2 DEF Gate, config, ConfigOK, PacketOK, FewExps, AtTable, PcValues
  <2> QED
    BY <2>1, <2>4, <2>5
<1>5. CASE GateWild \/ LookupNoMemory \/ ExecuteWild
  BY <1>5 DEF GateWild, LookupNoMemory, ExecuteWild, Crash, config, packet, ConfigOK, PacketOK,
              FewExps, AtTable
<1>6. CASE SkipTable \/ UseTable \/ Lookup
  <2>1. pc \in {"match", "lookup"} /\ phv.op \in [type : {"TABLE"}, val : Table]
    BY <1>6 DEF SkipTable, UseTable, Lookup, AtTable
  <2>2. CurTable \in TableState
    BY <1>0, <2>1 DEF CurTable, ConfigOK
  <2>3. <<cur, phv.op.val>> \in Proc \X Table
    BY <1>0, <2>1
  <2>4. phv.flow \in Flows
    BY <1>0 DEF Packet
  <2>5. \A a \in Choice, h \in BOOLEAN :
          /\ [phv EXCEPT !.hit = h, !.act = a] \in Packet
          /\ [phv EXCEPT !.hit = h, !.act = a, !.value = <<cur, phv.op.val>>] \in Packet
          /\ [phv EXCEPT !.hit = h, !.act = a].op = phv.op
          /\ [phv EXCEPT !.hit = h, !.act = a, !.value = <<cur, phv.op.val>>].op = phv.op
    BY <1>0, <2>3 DEF Packet
  <2>6. Act \subseteq Choice
    BY DEF Choice
  <2>7. phv' \in Packet /\ phv'.op = phv.op
    <3>1. CASE SkipTable
      BY <1>0, <2>2, <2>5, <3>1, LookupType DEF SkipTable
    <3>2. CASE UseTable
      BY <1>0, <3>2 DEF UseTable
    <3>3. CASE Lookup
      <4>1. ASSUME NEW r \in Hits(cur, CurTable),
                   phv' = [phv EXCEPT !.hit = TRUE, !.act = ActAt(cur, CurTable, r),
                                      !.value = <<cur, phv.op.val>>]
            PROVE  phv' \in Packet /\ phv'.op = phv.op
        BY <1>0, <2>2, <2>5, <2>6, <4>1, LookupType
      <4>2. CASE phv' = [phv EXCEPT !.hit = FALSE, !.act = CurTable.miss]
        BY <1>0, <2>2, <2>5, <4>2, LookupType
      <4> QED
        BY <3>3, <4>1, <4>2 DEF Lookup
    <3> QED
      BY <1>6, <3>1, <3>2, <3>3
  <2>8. UNCHANGED <<config, cur, lvl, todo, alive, ranOff>> /\ pc' \in {"next", "lookup"}
    BY <1>6 DEF SkipTable, UseTable, Lookup
  <2> QED
    BY <2>1, <2>7, <2>8 DEF config, ConfigOK, PacketOK, FewExps, AtTable, PcValues
<1>7. CASE NextHop
  <2> DEFINE known == CurTable.map[phv.act]
             to    == IF known = None THEN 0 ELSE known
             tb    == [CurTable EXCEPT !.map = [CurTable.map EXCEPT ![phv.act] = to]]
  <2>1. phv.op \in [type : {"TABLE"}, val : Table] /\ phv.act \in Choice /\ phv.op.val \in Table
    BY <1>0, <1>7 DEF NextHop, AtTable, Packet
  <2>2. CurTable \in TableState
    BY <1>0, <2>1 DEF CurTable, ConfigOK
  <2>3. to \in Target
    BY <2>1, <2>2, SizeAssumption DEF TableState, Target
  <2>4. [phv EXCEPT !.at = to] \in Packet /\ [phv EXCEPT !.at = to].op = phv.op
    BY <1>0, <2>3 DEF Packet
  <2>5. tb \in TableState
    <3> HIDE DEF to
    <3> QED BY <2>1, <2>2, <2>3 DEF TableState
  <2>6. matcher' = [matcher EXCEPT ![cur][phv.op.val] = tb] /\ phv' = [phv EXCEPT !.at = to]
        /\ UNCHANGED <<parser, gateway, memory, exe, alive, ranOff>>
    BY <1>7 DEF NextHop, CurTable
  <2>7. ConfigOK'
    <3> HIDE DEF tb
    <3> QED BY <1>0, <2>1, <2>5, <2>6, ReplaceTable
  <2>8. UNCHANGED <<cur, lvl, todo, gateway>> /\ pc = "next" /\ pc' = "exec"
    BY <1>7 DEF NextHop
  <2>9. PacketOK' /\ AtTable'
    <3> HIDE DEF to
    <3> QED BY <2>1, <2>4, <2>6, <2>8 DEF PacketOK, AtTable, PcValues
  <2> QED
    BY <2>7, <2>8, <2>9 DEF FewExps
<1>8. CASE Execute
  <2>1. phv.act \in Act /\ exe[cur][phv.act] \in Slot
    BY <1>0, <1>8 DEF Execute, Runnable, ConfigOK
  <2>2. exe[cur][phv.act].body.out \in SUBSET Ports
    BY <2>1 DEF Slot, Body
  <2>3. [phv EXCEPT !.out = exe[cur][phv.act].body.out] \in Packet
    BY <1>0, <2>2 DEF Packet
  <2>4. phv' \in Packet
    BY <1>0, <1>8, <2>3 DEF Execute
  <2>5. ranOff' \in [Proc -> Nat]
    BY <1>0, <1>8 DEF Execute, ConfigOK
  <2> QED
    BY <1>8, <2>4, <2>5 DEF Execute, config, ConfigOK, PacketOK, FewExps, AtTable, PcValues
<1>9. CASE Transmit
  BY <1>9 DEF Transmit, config, ConfigOK, PacketOK, FewExps, AtTable, PcValues
<1> QED
  BY <1>1, <1>2, <1>3, <1>4, <1>5, <1>6, <1>7, <1>8, <1>9 DEF PacketStep

-----------------------------------------------------------------------------
(***************************************************************************)
(* TypeInv is an invariant, of the switch from power-on and of one in      *)
(* service.                                                                *)
(***************************************************************************)
LEMMA FreshPacketType == \A f \in Flows : FreshPacket(f) \in Packet
  BY SizeAssumption DEF FreshPacket, Packet, Target, Choice, Act

\* Before the first call every table is as its constructor left it ...
LEMMA FreshTableType == FreshTable \in TableState
<1>1. 0 \in Block /\ 0 \in 0 .. NumRows
  BY SizeAssumption DEF Block
<1>2. NoMap \in [Choice -> Target \cup {None}] /\ -1 \in Choice
  BY DEF NoMap, Choice
<1> QED
  BY <1>1, <1>2 DEF FreshTable, TableState, TableType

\* ... and a switch in service has tables with memory.
LEMMA ServiceTableType ==
  ASSUME NEW p \in Proc, NEW ty \in TableType, NEW m \in MissActs, NEW b \in Block
  PROVE  ServiceTable(p, ty, m, b) \in TableState
<1>1. m \in Choice
  BY MissAssumption DEF Choice
<1>2. [a \in Choice |-> p + 1] \in [Choice -> Target \cup {None}]
  BY SizeAssumption DEF Proc, Target
<1> QED
  BY <1>1, <1>2, FreshTableType DEF TableState, ServiceTable

LEMMA TypeInit == Init => TypeInv
<1> SUFFICES ASSUME Init PROVE TypeInv
  OBVIOUS
<1> USE DEF Init
<1>1. parser \in [Proc -> ParserState]
  BY SizeAssumption DEF ParserState, NoEntry
<1>2. gateway \in [Proc -> GatewayState] /\ \A p \in Proc : gateway[p].exps = <<>>
  BY DEF GatewayState
<1>3. matcher \in [Proc -> [Table -> TableState]] /\ memory \in [Clusters -> Memory]
  BY FreshTableType, EmptyTypes
<1>4. exe \in [Proc -> [Act -> Slot]]
  BY DEF Slot, Body, NoBody
<1>5. PacketOK
  BY FreshPacketType, SizeAssumption DEF PacketOK, PcValues, Proc
<1>6. FewExps
  BY <1>2, SizeAssumption DEF FewExps
<1>7. ranOff \in [Proc -> Nat] /\ alive \in BOOLEAN /\ todo \in [Clients -> Seq(Call)]
  OBVIOUS
<1> QED
  BY <1>1, <1>2, <1>3, <1>4, <1>5, <1>6, <1>7 DEF TypeInv, ConfigOK, AtTable

LEMMA TypeInService == InService => TypeInv
<1> SUFFICES ASSUME InService PROVE TypeInv
  OBVIOUS
<1> USE DEF InService
<1>1. parser \in [Proc -> ParserState]
  BY SizeAssumption DEF ParserState, NoEntry
<1>2. gateway \in [Proc -> GatewayState] /\ \A p \in Proc : gateway[p].exps = <<>>
  BY SizeAssumption DEF GatewayState, Op, Table
<1>3. matcher \in [Proc -> [Table -> TableState]]
  <2>1. PICK ty \in TableType, m \in MissActs, blk \in [Proc -> [Table -> Block]] :
          matcher = [p \in Proc |-> [t \in Table |-> ServiceTable(p, ty, m, blk[p][t])]]
    OBVIOUS
  <2>2. \A p \in Proc, t \in Table : ServiceTable(p, ty, m, blk[p][t]) \in TableState
    BY ServiceTableType
  <2> QED
    BY <2>1, <2>2
<1>8. memory \in [Clusters -> Memory]
  BY EmptyTypes
<1>4. exe \in [Proc -> [Act -> Slot]]
  BY DEF Slot, Body
<1>5. PacketOK
  BY FreshPacketType, SizeAssumption DEF PacketOK, PcValues, Proc
<1>6. FewExps
  BY <1>2, SizeAssumption DEF FewExps
<1>7. ranOff \in [Proc -> Nat] /\ alive \in BOOLEAN /\ todo \in [Clients -> Seq(Call)]
  OBVIOUS
<1> QED
  BY <1>1, <1>2, <1>3, <1>4, <1>5, <1>6, <1>7, <1>8 DEF TypeInv, ConfigOK, AtTable

\* Submit and Serve leave the packet alone and keep the rest.
LEMMA ServerKeepsTypes ==
  ASSUME TypeInv, NEW c \in Clients, Serve(c) \/ \E r \in Requests : Submit(c, r)
  PROVE  TypeInv'
<1>1. CASE Serve(c)
  <2>1. todo[c] \in Seq(Call) /\ todo[c] # <<>>
    BY <1>1 DEF Serve, TypeInv
  <2>2. Head(todo[c]) \in Call /\ Tail(todo[c]) \in Seq(Call)
    BY <2>1
  <2>3. ConfigOK' /\ FewExps'
    BY <1>1, <2>2, PerformKeepsTypes, PerformKeepsFewExps DEF Serve, TypeInv
  <2>4. todo' \in [Clients -> Seq(Call)]
    BY <1>1, <2>2 DEF Serve, TypeInv
  <2> QED
    BY <1>1, <2>3, <2>4 DEF Serve, TypeInv, packet, PacketOK, AtTable
<1>2. ASSUME NEW r \in Requests, Submit(c, r) PROVE TypeInv'
  <2>1. Calls(r) \in Seq(Call)
    BY CallsType, RequestAssumption
  <2> QED
    BY <1>2, <2>1 DEF Submit, TypeInv, config, packet, ConfigOK, PacketOK, FewExps, AtTable
<1> QED
  BY <1>1, <1>2

LEMMA ReceiveKeepsTypes == ASSUME TypeInv, NEW f \in Flows, Receive(f) PROVE TypeInv'
  BY FreshPacketType
  DEF Receive, At, TypeInv, config, ConfigOK, PacketOK, FewExps, AtTable, PcValues

LEMMA TypeStep == TypeInv /\ [Next]_vars => TypeInv'
<1>1. ASSUME TypeInv, UNCHANGED vars PROVE TypeInv'
  BY <1>1 DEF vars, TypeInv, ConfigOK, PacketOK, FewExps, AtTable
<1> QED
  BY <1>1, PacketKeepsTypes, ServerKeepsTypes, ReceiveKeepsTypes DEF Next

\* The types hold with what they rest on: few relations in a gateway, and a table of the
\* processor in hand wherever the lookup reads one.
THEOREM TypeInvariant == Spec => []TypeInv
  BY TypeInit, TypeStep, PTL DEF Spec

\* Every state of the switch has its type: whatever calls are made, in whatever
\* order, and wherever the packet thread is when they are, crashes included.
THEOREM TypeCorrect == Spec => []TypeOK
  BY TypeInvariant, TypeInvTypeOK, PTL

\* HitlessNext is a part of Next.
LEMMA HitlessIsNext == [HitlessNext]_vars => [Next]_vars
  BY DEF HitlessNext, Next

\* The same of a switch in service, which only makes fewer calls.
THEOREM HitlessTypeInvariant == HitlessSpec => []TypeInv
  BY TypeInService, TypeStep, HitlessIsNext, PTL DEF HitlessSpec

-----------------------------------------------------------------------------
(***************************************************************************)
(* A packet that was dropped.  DropIsFinal is inductive once the packet    *)
(* has its type: only Receive leaves the places a dropped packet can be in.*)
(***************************************************************************)
LEMMA DropStep == TypeInv /\ DropIsFinal /\ [Next]_vars => DropIsFinal'
<1> SUFFICES ASSUME TypeInv, DropIsFinal, [Next]_vars
             PROVE  DropIsFinal'
  OBVIOUS
<1>0. phv \in Packet
  BY DEF TypeInv, PacketOK
<1>1. ASSUME NEW f \in Flows, Receive(f) PROVE DropIsFinal'
  BY <1>1 DEF Receive, At, FreshPacket, DropIsFinal
<1>2. CASE Enter
  BY <1>2 DEF Enter, At, DropIsFinal, Proc
<1>3. CASE StartParse
  BY <1>0, <1>3 DEF StartParse, At, DropIsFinal, Packet
<1>4. CASE ParseLevel
  BY <1>0, <1>4 DEF ParseLevel, At, DropIsFinal, Packet
<1>5. CASE Gate
  BY <1>0, <1>5 DEF Gate, At, DropIsFinal, Packet
<1>6. CASE GateWild \/ LookupNoMemory \/ ExecuteWild
  BY <1>6 DEF GateWild, LookupNoMemory, ExecuteWild, Crash, packet, DropIsFinal
<1>7. CASE SkipTable \/ UseTable \/ Lookup
  BY <1>0, <1>7 DEF SkipTable, UseTable, Lookup, At, DropIsFinal, Packet
<1>8. CASE NextHop
  BY <1>0, <1>8 DEF NextHop, At, DropIsFinal, Packet
<1>9. CASE Execute
  BY <1>0, <1>9 DEF Execute, At, DropIsFinal, Packet
<1>10. CASE Transmit
  BY <1>10 DEF Transmit, At, DropIsFinal
<1>11. ASSUME NEW c \in Clients, Serve(c) \/ \E r \in Requests : Submit(c, r)
       PROVE  DropIsFinal'
  BY <1>11 DEF Serve, Submit, packet, DropIsFinal
<1>12. CASE UNCHANGED vars
  BY <1>12 DEF vars, DropIsFinal
<1> QED
  BY <1>1, <1>2, <1>3, <1>4, <1>5, <1>6, <1>7, <1>8, <1>9, <1>10, <1>11, <1>12
  DEF Next, PacketStep

\* A packet a parser drops runs no action afterwards and is sent nowhere, however
\* the processors are rewritten while it leaves (ParserStage::parse, drop_packet).
THEOREM DropSafe == Spec => []DropIsFinal
<1>1. Init => DropIsFinal
  BY DEF Init, FreshPacket, DropIsFinal
<1> QED
  BY <1>1, DropStep, TypeInvariant, PTL DEF Spec

-----------------------------------------------------------------------------
(***************************************************************************)
(* A processor switched off.  DrainsWithinOneAction is not inductive: that *)
(* the packet inside a processor is the only one that may still run an     *)
(* action there needs the two conjuncts about where ranOff is still 0.     *)
(***************************************************************************)
Inside == {"level", "gateway", "match", "lookup", "next", "exec"}

DrainInv ==
  /\ DrainsWithinOneAction
  /\ \A p \in Proc : parser[p].working => ranOff[p] = 0
  /\ pc \in Inside => ranOff[cur] = 0

LEMMA DrainStep == TypeInv /\ DrainInv /\ [Next]_vars => DrainInv'
<1> SUFFICES ASSUME TypeInv, DrainInv, [Next]_vars
             PROVE  DrainInv'
  OBVIOUS
<1>0. /\ cur \in Proc /\ ranOff \in [Proc -> Nat]
      /\ parser \in [Proc -> ParserState]
  BY DEF TypeInv, ConfigOK, PacketOK
<1> USE DEF DrainInv, DrainsWithinOneAction, Inside
<1>1. ASSUME NEW f \in Flows, Receive(f) PROVE DrainInv'
  BY <1>1 DEF Receive, At, config
<1>2. CASE Enter
  BY <1>2 DEF Enter, At, config
<1>3. CASE StartParse
  BY <1>0, <1>3 DEF StartParse, At, config
<1>4. CASE ParseLevel
  BY <1>4 DEF ParseLevel, At, config
<1>5. CASE Gate
  BY <1>5 DEF Gate, At, config
<1>6. CASE GateWild \/ LookupNoMemory \/ ExecuteWild
  BY <1>6 DEF GateWild, LookupNoMemory, ExecuteWild, Crash, packet, config
<1>7. CASE SkipTable \/ UseTable \/ Lookup
  BY <1>7 DEF SkipTable, UseTable, Lookup, At, config
<1>8. CASE NextHop
  BY <1>8 DEF NextHop, At
<1>9. CASE Execute
  <2>1. pc = "exec" /\ pc' = "enter" /\ ranOff[cur] = 0
        /\ UNCHANGED <<config, cur>>
    BY <1>9 DEF Execute, At
  <2>2. CASE parser[cur].working
    BY <1>9, <2>1, <2>2 DEF Execute, config
  <2>3. CASE ~ parser[cur].working
    <3>1. ranOff' = [ranOff EXCEPT ![cur] = 1]
      BY <1>0, <1>9, <2>1, <2>3 DEF Execute
    <3> QED
      BY <1>0, <2>1, <2>3, <3>1 DEF config
  <2> QED
    BY <2>2, <2>3
<1>10. CASE Transmit
  BY <1>10 DEF Transmit, At, config
<1>11. ASSUME NEW c \in Clients, Serve(c) PROVE DrainInv'
  <2> DEFINE r == Head(todo[c])
  <2>1. r \in Call /\ Perform(r) /\ UNCHANGED <<pc, cur>>
    BY <1>11 DEF Serve, TypeInv, packet
  <2> HIDE DEF r
  <2>2. CASE UNCHANGED <<parser, ranOff>>
    BY <2>1, <2>2
  <2>3. CASE r.op = "initParserLevel" /\ InitParserLevel(r.p, r.level)
    <3>1. r.p \in Proc
      BY <2>1, <2>3, ParserFields
    <3>2. ranOff' = [ranOff EXCEPT ![r.p] = 0]
      BY <2>3 DEF InitParserLevel
    <3>3. \A p \in Proc : p # r.p => parser'[p] = parser[p]
      BY <1>0, <2>3 DEF InitParserLevel
    <3> QED
      BY <1>0, <2>1, <3>1, <3>2, <3>3
  <2>4. CASE r.op = "modParserEntry" /\ ModParserEntry(r.p, r.l, r.i, [covers |-> r.covers, drop |-> r.drop])
    <3>1. \A p \in Proc : parser'[p].working = parser[p].working
      BY <1>0, <2>4 DEF ModParserEntry, ParserState
    <3> QED
      BY <2>1, <2>4, <3>1 DEF ModParserEntry
  <2>5. CASE r.op = "clearParser" /\ ClearParser(r.p)
    <3>1. \A p \in Proc : parser'[p].working => parser[p].working
      BY <1>0, <2>5 DEF ClearParser
    <3> QED
      BY <2>1, <2>5, <3>1 DEF ClearParser
  <2> QED
    BY <2>1, <2>2, <2>3, <2>4, <2>5
    DEF Perform, InsertExp, ClearExp, ClearResMap, ModifyResMap, SetDefaultEntry,
        SetActionProcMap, ClearOldConfig, InitMatchType, SetNoTable, SetGeometry, SetMissActId,
        SetFieldInfos, InsertSramEntry, InsertTcamEntry, InsertAction, DelAction, ClearAction,
        Crash, config
<1>12. ASSUME NEW c \in Clients, NEW r \in Requests, Submit(c, r) PROVE DrainInv'
  BY <1>12 DEF Submit, packet, config
<1>13. CASE UNCHANGED vars
  BY <1>13 DEF vars
<1> QED
  BY <1>1, <1>2, <1>3, <1>4, <1>5, <1>6, <1>7, <1>8, <1>9, <1>10, <1>11, <1>12, <1>13
  DEF Next, PacketStep

\* A processor whose parser clear_parser switched off runs at most one more action
\* until init_parser_level: that of the packet already past its parser.
THEOREM DrainSafe == Spec => []DrainsWithinOneAction
<1>1. Init => DrainInv
  BY DEF Init, DrainInv, DrainsWithinOneAction, Inside
<1>2. DrainInv => DrainsWithinOneAction
  BY DEF DrainInv
<1> QED
  BY <1>1, <1>2, DrainStep, TypeInvariant, PTL DEF Spec

-----------------------------------------------------------------------------
(***************************************************************************)
(* A switch in service.  What keeps it alive, conjunct by conjunct: the    *)
(* gateways have a default, the tables memory and a miss action, the       *)
(* executors live actions in every slot, the action chosen for the packet  *)
(* exists and has its parameters, and no pending call undoes any of this.  *)
(***************************************************************************)
GatesSet    == \A p \in Proc : gateway[p].default # None
TablesUsable == \A p \in Proc, t \in Table :
                  matcher[p][t].depth = 1 /\ matcher[p][t].miss \in MissActs
ActionsLive == \A p \in Proc, a \in Act :
                 exe[p][a].st = "live" /\ (a \in MissActs => ~ exe[p][a].body.args)
ChosenRuns  == pc \in {"next", "exec"} =>
                 /\ phv.act \in Act
                 /\ phv.act \notin MissActs => phv.value = <<cur, phv.op.val>>
CallsHitless == \A c \in Clients : todo[c] \in Seq({q \in Requests : Hitless(q)})

ServiceInv == alive /\ GatesSet /\ TablesUsable /\ ActionsLive /\ ChosenRuns /\ CallsHitless

LEMMA ServiceInit == InService => ServiceInv
<1> SUFFICES ASSUME InService PROVE ServiceInv
  OBVIOUS
<1>1. alive /\ GatesSet
  BY NoneAssumption, SizeAssumption DEF InService, GatesSet, Op, Table
<1>2. TablesUsable
  <2>1. PICK ty \in TableType, m \in MissActs, blk \in [Proc -> [Table -> Block]] :
          matcher = [p \in Proc |-> [t \in Table |-> ServiceTable(p, ty, m, blk[p][t])]]
    BY DEF InService
  <2>2. ASSUME NEW p \in Proc, NEW t \in Table
        PROVE  matcher[p][t].depth = 1 /\ matcher[p][t].miss = m
    BY <2>1 DEF FreshTable, ServiceTable
  <2> QED
    BY <2>2 DEF TablesUsable
<1>3. ActionsLive
  BY DEF InService, ActionsLive
<1>4. ChosenRuns /\ CallsHitless
  BY DEF InService, ChosenRuns, CallsHitless
<1> QED
  BY <1>1, <1>2, <1>3, <1>4 DEF ServiceInv

\* The packet thread meets nothing it could crash on.
LEMMA ServicePacket == ASSUME TypeInv, ServiceInv, PacketStep PROVE ServiceInv'
<1>0. phv \in Packet /\ cur \in Proc
  BY DEF TypeInv, PacketOK
<1> USE DEF ServiceInv, At
<1>1. ASSUME UNCHANGED <<config, todo, alive>>, pc' \notin {"next", "exec"} PROVE ServiceInv'
  BY <1>1 DEF config, GatesSet, TablesUsable, ActionsLive, ChosenRuns, CallsHitless
<1>2. CASE Enter
  BY <1>1, <1>2 DEF Enter
<1>3. CASE StartParse
  BY <1>1, <1>3 DEF StartParse
<1>4. CASE ParseLevel
  BY <1>1, <1>4 DEF ParseLevel
<1>5. CASE Gate
  BY <1>1, <1>5 DEF Gate
<1>6. CASE UseTable
  BY <1>1, <1>6 DEF UseTable
<1>7. CASE Transmit
  BY <1>1, <1>7 DEF Transmit
<1>8. CASE Execute
  BY <1>1, <1>8 DEF Execute
<1>9. ~ GateWild
  BY <1>0 DEF GateWild, GatesSet
<1>10. pc \in {"match", "lookup", "next", "exec"} =>
         /\ phv.op.val \in Table
         /\ CurTable \in TableState /\ CurTable.depth = 1 /\ CurTable.miss \in MissActs
  BY <1>0 DEF TypeInv, AtTable, ConfigOK, CurTable, TablesUsable
<1>11. ~ LookupNoMemory
  BY <1>10 DEF LookupNoMemory
<1>12. ~ ExecuteWild
  <2> SUFFICES ASSUME pc = "exec" PROVE Runnable /\ exe[cur][phv.act].st # "freed"
    BY DEF ExecuteWild
  <2>1. phv.act \in Act /\ exe[cur][phv.act].st = "live"
    BY <1>0 DEF ChosenRuns, ActionsLive
  <2>2. ASSUME exe[cur][phv.act].body.args PROVE phv.value # None
    <3>1. phv.value = <<cur, phv.op.val>>
      BY <1>0, <2>1, <2>2 DEF ChosenRuns, ActionsLive
    <3> QED
      BY <1>0, <1>10, <3>1, NoneAssumption
  <2> QED
    BY <2>1, <2>2 DEF Runnable
<1>13. CASE SkipTable
  <2>1. pc = "match" /\ phv' = [phv EXCEPT !.hit = FALSE, !.act = CurTable.miss]
    BY <1>13 DEF SkipTable
  <2>2. phv'.act = CurTable.miss
    BY <1>0, <2>1 DEF Packet
  <2>3. ChosenRuns'
    BY <1>10, <2>1, <2>2, MissAssumption DEF ChosenRuns
  <2> QED
    BY <1>13, <2>3 DEF SkipTable, config, GatesSet, TablesUsable, ActionsLive, CallsHitless
<1>14. CASE Lookup
  <2>1. pc = "lookup" /\ UNCHANGED <<config, cur, todo, alive>>
    BY <1>14 DEF Lookup
  <2>2. phv.flow \in Flows
    BY <1>0 DEF Packet
  <2>3. CASE phv' = [phv EXCEPT !.hit = FALSE, !.act = CurTable.miss]
    <3>1. phv'.act = CurTable.miss
      BY <1>0, <2>3 DEF Packet
    <3> QED
      BY <1>10, <2>1, <3>1, MissAssumption
      DEF ChosenRuns, config, GatesSet, TablesUsable, ActionsLive, CallsHitless
  <2>4. ASSUME NEW a \in Act,
               phv' = [phv EXCEPT !.hit = TRUE, !.act = a, !.value = <<cur, phv.op.val>>]
        PROVE  ServiceInv'
    <3>1. phv'.act = a /\ phv'.value = <<cur, phv.op.val>> /\ phv'.op = phv.op
      BY <1>0, <2>4 DEF Packet
    <3> QED
      BY <2>1, <3>1 DEF ChosenRuns, config, GatesSet, TablesUsable, ActionsLive, CallsHitless
  <2>5. \A r \in Hits(cur, CurTable) : ActAt(cur, CurTable, r) \in Act
    BY <1>0, <1>10, <2>1, LookupType DEF TypeInv
  <2> QED
    BY <1>14, <2>3, <2>4, <2>5 DEF Lookup
<1>15. CASE NextHop
  <2>1. pc = "next" /\ phv.act \in Choice /\ UNCHANGED <<parser, gateway, memory, exe, cur, todo, alive>>
    BY <1>0, <1>15 DEF NextHop, Packet
  <2>2. PICK to :
          /\ phv' = [phv EXCEPT !.at = to]
          /\ matcher' = [matcher EXCEPT ![cur][phv.op.val].map[phv.act] = to]
    BY <1>15 DEF NextHop
  <2>3. phv'.act = phv.act /\ phv'.value = phv.value /\ phv'.op = phv.op
    BY <1>0, <2>2 DEF Packet
  <2>4. ASSUME NEW p \in Proc, NEW t \in Table
        PROVE  matcher'[p][t].depth = matcher[p][t].depth /\ matcher'[p][t].miss = matcher[p][t].miss
    BY <2>2 DEF TypeInv, ConfigOK, TableState
  <2> QED
    BY <2>1, <2>3, <2>4 DEF ChosenRuns, GatesSet, TablesUsable, ActionsLive, CallsHitless
<1> QED
  BY <1>2, <1>3, <1>4, <1>5, <1>6, <1>7, <1>8, <1>9, <1>11, <1>12, <1>13, <1>14, <1>15
  DEF PacketStep

\* A hitless call, whichever it is, undoes nothing the packet relies on.
LEMMA ServicePerform ==
  ASSUME TypeInv, ServiceInv, NEW r \in Request, Hitless(r), Perform(r)
  PROVE  alive' /\ GatesSet' /\ TablesUsable' /\ ActionsLive'
<1> USE DEF ServiceInv
<1>0. r \in Call /\ r.op \notin {"initMatchType", "openTable", "setGeometry"}
  BY DEF Call, Request, ParserRequest, GatewayRequest, MatcherRequest, ExecutorRequest
<1>1. ASSUME UNCHANGED <<gateway, matcher, exe, alive>>
      PROVE  alive' /\ GatesSet' /\ TablesUsable' /\ ActionsLive'
  BY <1>1 DEF GatesSet, TablesUsable, ActionsLive
<1>2. ASSUME \A p \in Proc : gateway'[p].default # None, UNCHANGED <<matcher, exe, alive>>
      PROVE  alive' /\ GatesSet' /\ TablesUsable' /\ ActionsLive'
  BY <1>2 DEF GatesSet, TablesUsable, ActionsLive
<1>3. ASSUME \A p \in Proc, t \in Table : matcher'[p][t].depth = 1 /\ matcher'[p][t].miss \in MissActs,
             UNCHANGED <<gateway, exe, alive>>
      PROVE  alive' /\ GatesSet' /\ TablesUsable' /\ ActionsLive'
  BY <1>3 DEF GatesSet, TablesUsable, ActionsLive
<1>4. /\ gateway \in [Proc -> GatewayState]
      /\ matcher \in [Proc -> [Table -> TableState]]
      /\ exe \in [Proc -> [Act -> Slot]]
  BY DEF TypeInv, ConfigOK
<1>5. CASE r.op = "insertRelationExp" /\ InsertExp(r.p, r.rel)
  BY <1>2, <1>4, <1>5 DEF InsertExp, GatewayState, GatesSet
<1>6. CASE r.op = "clearRelationExp" /\ ClearExp(r.p)
  <2>1. [type |-> "TABLE", val |-> 0] # None
    BY NoneAssumption, SizeAssumption DEF Op, Table
  <2> QED
    BY <1>2, <1>4, <1>6, <2>1 DEF ClearExp, GatesSet
<1>7. CASE r.op = "clearResMap" /\ ClearResMap(r.p)
  BY <1>2, <1>4, <1>7 DEF ClearResMap, GatewayState, GatesSet
<1>8. CASE r.op = "modResMap" /\ ModifyResMap(r.p, r.key, r.to)
  BY <1>2, <1>4, <1>8 DEF ModifyResMap, GatewayState, GatesSet
<1>9. CASE r.op = "setDefaultGateEntry" /\ SetDefaultEntry(r.p, r.to)
  <2>1. r.to # None
    BY <1>9, <1>0, GatewayFields, NoneAssumption
  <2> QED
    BY <1>2, <1>4, <1>9, <2>1 DEF SetDefaultEntry, GatewayState, GatesSet
<1>10. CASE r.op = "setActionProc" /\ SetActionProcMap(r.p, r.t, r.map)
  BY <1>3, <1>4, <1>10, <1>0, MatcherFields, SMTT(30) DEF SetActionProcMap, TableState, TablesUsable
<1>11. CASE r.op = "setMissActId" /\ SetMissActId(r.p, r.t, r.miss)
  BY <1>3, <1>4, <1>11, <1>0, MatcherFields DEF SetMissActId, TableState, TablesUsable, Hitless
<1>12. CASE r.op = "setFieldInfo" /\ SetFieldInfos(r.p, r.t, r.keyed)
  BY <1>3, <1>4, <1>12, <1>0, MatcherFields, SMTT(30) DEF SetFieldInfos, TableState, TablesUsable
<1>13. CASE r.op = "setNoTable" /\ SetNoTable(r.p, r.t, r.flag)
  BY <1>3, <1>4, <1>13, <1>0, MatcherFields, SMTT(30) DEF SetNoTable, TableState, TablesUsable
<1>14. CASE r.op = "insertSramEntry" /\ InsertSramEntry(r.p, r.t, r.key, r.act)
  <2>1. matcher[r.p][r.t].depth = 1
    BY <1>14, <1>0, MatcherFields DEF TablesUsable
  <2>2. matcher[r.p][r.t].depth # 0
    BY <2>1
  <2>3. UNCHANGED <<gateway, matcher, exe, alive>>
    BY <1>14, <2>2, Zenon DEF InsertSramEntry
  <2> QED
    BY <1>1, <2>3
<1>15. CASE r.op = "insertTcamEntry" /\ InsertTcamEntry(r.p, r.t, r.covers, r.act)
  <2>1. matcher[r.p][r.t].depth = 1
    BY <1>15, <1>0, MatcherFields DEF TablesUsable
  <2>2. ASSUME matcher' = [matcher EXCEPT ![r.p][r.t].idx = @ + 1]
        PROVE  \A p \in Proc, t \in Table :
                 matcher'[p][t].depth = 1 /\ matcher'[p][t].miss \in MissActs
    BY <1>4, <2>2 DEF TableState, TablesUsable
  <2>4. matcher[r.p][r.t].depth # 0
    BY <2>1
  <2>3. UNCHANGED <<gateway, exe, alive>> /\ matcher' = [matcher EXCEPT ![r.p][r.t].idx = @ + 1]
    BY <1>15, <2>4, Zenon DEF InsertTcamEntry
  <2> QED
    BY <1>3, <2>2, <2>3
<1>16. CASE r.op = "insertAction" /\ InsertAction(r.p, r.a, r.body)
  <2>1. r.p \in Proc /\ r.a \in Act /\ (r.body.args => r.a \notin MissActs)
    BY <1>16, <1>0, ExecutorFields DEF Hitless
  <2>2. exe' = [exe EXCEPT ![r.p][r.a] = [st |-> "live", body |-> r.body]]
        /\ UNCHANGED <<gateway, matcher, alive>>
    BY <1>16 DEF InsertAction
  <2>3. ActionsLive'
    BY <1>4, <2>1, <2>2 DEF ActionsLive
  <2> QED
    BY <2>2, <2>3 DEF GatesSet, TablesUsable
<1> QED
  BY <1>0, <1>1, <1>5, <1>6, <1>7, <1>8, <1>9, <1>10, <1>11, <1>12, <1>13, <1>14, <1>15, <1>16
  DEF Perform, Hitless, InitParserLevel, ModParserEntry, ClearParser

\* A hitless request is one call, and the calls a handler has left are hitless.
LEMMA ServiceServer ==
  ASSUME TypeInv, ServiceInv, NEW c \in Clients,
         Serve(c) \/ \E r \in {q \in Requests : Hitless(q)} : Submit(c, r)
  PROVE  ServiceInv'
<1> DEFINE H == {q \in Requests : Hitless(q)}
<1>0. todo[c] \in Seq(H) /\ todo \in [Clients -> Seq(Call)] /\ \A d \in Clients : todo[d] \in Seq(H)
  BY DEF ServiceInv, CallsHitless, TypeInv
<1>1. CASE Serve(c)
  <2>1. Head(todo[c]) \in H /\ Tail(todo[c]) \in Seq(H)
    <3> HIDE DEF H
    <3>1. todo[c] # <<>>
      BY <1>1 DEF Serve
    <3> QED
      BY <1>0, <3>1
  <2>2. Head(todo[c]) \in Request /\ Hitless(Head(todo[c])) /\ Perform(Head(todo[c]))
    BY <1>1, <2>1, RequestAssumption DEF Serve
  <2>3. alive' /\ GatesSet' /\ TablesUsable' /\ ActionsLive'
    BY <2>2, ServicePerform
  <2>4. CallsHitless'
    <3>1. todo' = [todo EXCEPT ![c] = Tail(todo[c])]
      BY <1>1 DEF Serve
    <3> QED
      BY <1>0, <2>1, <3>1 DEF CallsHitless
  <2>5. ChosenRuns'
    BY <1>1 DEF Serve, packet, ServiceInv, ChosenRuns
  <2> QED
    BY <2>3, <2>4, <2>5 DEF ServiceInv
<1>2. ASSUME NEW r \in H, Submit(c, r) PROVE ServiceInv'
  <2>1. Calls(r) = <<r>>
    BY DEF Calls, Hitless
  <2>2. todo' = [todo EXCEPT ![c] = <<r>>]
    BY <1>2, <2>1 DEF Submit
  <2>3. <<r>> \in Seq(H)
    <3> HIDE DEF H
    <3> QED OBVIOUS
  <2>4. CallsHitless'
    BY <1>0, <2>2, <2>3 DEF CallsHitless
  <2> QED
    BY <1>2, <2>4
    DEF Submit, config, packet, ServiceInv, GatesSet, TablesUsable, ActionsLive, ChosenRuns
<1> QED
  BY <1>1, <1>2

LEMMA ServiceStep == TypeInv /\ ServiceInv /\ [HitlessNext]_vars => ServiceInv'
<1> SUFFICES ASSUME TypeInv, ServiceInv, [HitlessNext]_vars PROVE ServiceInv'
  OBVIOUS
<1>1. ASSUME NEW f \in Flows, Receive(f) PROVE ServiceInv'
  BY <1>1 DEF Receive, At, config, ServiceInv, GatesSet, TablesUsable, ActionsLive, ChosenRuns,
              CallsHitless
<1>2. CASE UNCHANGED vars
  BY <1>2 DEF vars, ServiceInv, GatesSet, TablesUsable, ActionsLive, ChosenRuns, CallsHitless
<1> QED
  BY <1>1, <1>2, ServicePacket, ServiceServer DEF HitlessNext

\* A switch in service keeps every table usable, every slot live and every miss action
\* free of parameters, and what a lookup chose is what is executed.
THEOREM ServiceInvariant == HitlessSpec => []ServiceInv
  BY ServiceInit, ServiceStep, HitlessTypeInvariant, PTL DEF HitlessSpec

\* However many clients reconfigure a switch in service, with whatever calls that
\* unmake no table and free no action, and however these interleave with the
\* packet, the process never dies.
THEOREM ServiceStaysAlive == HitlessSpec => []StaysAlive
<1>1. ServiceInv => StaysAlive
  BY DEF ServiceInv, StaysAlive
<1> QED
  BY <1>1, ServiceInvariant, PTL

\* Nor does an action ever read the parameters of another processor's table.
THEOREM ServiceOwnParameters == HitlessSpec => []OwnParameters
<1>1. TypeInv /\ ServiceInv => OwnParameters
  BY DEF TypeInv, PacketOK, ServiceInv, ChosenRuns, ActionsLive, OwnParameters
<1> QED
  BY <1>1, ServiceInvariant, HitlessTypeInvariant, PTL

-----------------------------------------------------------------------------
(***************************************************************************)
(* IpsaSwitch implements Forwarder.  Each step of the packet thread is one *)
(* of Forwarder's or changes nothing Forwarder sees; that the walk of a    *)
(* dropped packet is such a stutter is what DropIsFinal is needed for.     *)
(***************************************************************************)
LEMMA ForwardInit == Init => Fwd!Init
  BY DEF Init, FreshPacket, Where, Fwd!Init

LEMMA ForwardPacket ==
  ASSUME TypeInv, TypeInv', DropIsFinal, PacketStep
  PROVE  [Fwd!Next]_(Fwd!vars)
<1>0. /\ phv \in Packet /\ phv' \in Packet /\ alive \in BOOLEAN
      /\ phv.out \in SUBSET Ports /\ phv'.out \in SUBSET Ports
      /\ phv.dropped \in BOOLEAN
  BY DEF TypeInv, ConfigOK, PacketOK, Packet
<1>1. CASE Enter
  <2>1. CASE phv.at \in Proc
    <3>1. ~ phv.dropped
      BY <2>1 DEF DropIsFinal, Proc
    <3> QED
      BY <1>1, <2>1, <3>1 DEF Enter, At, Where, Fwd!vars
  <2>2. CASE phv.at \notin Proc
    BY <1>0, <1>1, <2>2
    DEF Enter, At, Where, Fwd!vars, Fwd!Next, Fwd!Finish
  <2> QED
    BY <2>1, <2>2
<1>2. CASE StartParse
  BY <1>0, <1>2 DEF StartParse, At, Where, DropIsFinal, Packet, Fwd!vars
<1>3. CASE ParseLevel
  <2>0. pc = "level" /\ ~ phv.dropped /\ alive
    BY <1>3 DEF ParseLevel, At, DropIsFinal
  <2>1. CASE lvl < parser[cur].level /\ Drops(lvl) /\ pc' = "enter"
    BY <1>0, <1>3, <2>0, <2>1
    DEF ParseLevel, At, Where, Packet, Fwd!Next, Fwd!Drop
  <2>2. CASE pc' \in {"level", "gateway"} /\ UNCHANGED phv
    BY <1>3, <2>0, <2>2 DEF ParseLevel, At, Where, Fwd!vars
  <2> QED
    BY <1>3, <2>1, <2>2 DEF ParseLevel, At
<1>4. CASE Gate
  BY <1>0, <1>4 DEF Gate, At, Where, DropIsFinal, Packet, Fwd!vars
<1>5. CASE GateWild \/ LookupNoMemory \/ ExecuteWild
  BY <1>0, <1>5
  DEF GateWild, LookupNoMemory, ExecuteWild, Crash, packet, Where, Fwd!Next, Fwd!Die, Fwd!packet
<1>6. CASE SkipTable
  BY <1>0, <1>6 DEF SkipTable, At, Where, DropIsFinal, Packet, Fwd!vars
<1>7. CASE UseTable
  BY <1>7 DEF UseTable, At, Where, Fwd!vars
<1>8. CASE Lookup
  <2>1. pc = "lookup" /\ pc' = "next" /\ ~ phv.dropped /\ UNCHANGED alive
    <3>1. At("lookup", "next") /\ UNCHANGED alive
      BY <1>8, Zenon DEF Lookup
    <3> QED
      BY <3>1 DEF At, DropIsFinal
  <2> DEFINE Same == phv'.flow = phv.flow /\ phv'.dropped = phv.dropped /\ phv'.out = phv.out
  <2>2. ASSUME NEW a, NEW v, phv' = [phv EXCEPT !.hit = TRUE, !.act = a, !.value = v]
        PROVE  Same
    BY <1>0, <2>2 DEF Packet
  <2>3. ASSUME NEW a, phv' = [phv EXCEPT !.hit = FALSE, !.act = a]
        PROVE  Same
    BY <1>0, <2>3 DEF Packet
  <2>4. Same
    BY <1>8, <2>2, <2>3, Zenon DEF Lookup
  <2> QED
    BY <2>1, <2>4 DEF Where, Fwd!vars
<1>9. CASE NextHop
  BY <1>0, <1>9 DEF NextHop, At, Where, DropIsFinal, Packet, Fwd!vars
<1>10. CASE Execute
  <2>1. pc = "exec" /\ pc' = "enter" /\ ~ phv.dropped /\ alive /\ alive' = alive
    BY <1>10 DEF Execute, At, DropIsFinal
  <2>2. \/ phv' = phv
        \/ phv' = [phv EXCEPT !.out = exe[cur][phv.act].body.out]
    BY <1>10 DEF Execute
  <2>3. phv'.flow = phv.flow /\ phv'.dropped = phv.dropped
    BY <1>0, <2>2 DEF Packet
  <2> QED
    BY <1>0, <2>1, <2>3 DEF Where, Fwd!Next, Fwd!Act
<1>11. CASE Transmit
  BY <1>11 DEF Transmit, At, Where, Fwd!Next, Fwd!Send
<1> QED
  BY <1>1, <1>2, <1>3, <1>4, <1>5, <1>6, <1>7, <1>8, <1>9, <1>10, <1>11
  DEF PacketStep

LEMMA ForwardStep ==
  TypeInv /\ TypeInv' /\ DropIsFinal /\ [Next]_vars => [Fwd!Next]_(Fwd!vars)
<1> SUFFICES ASSUME TypeInv, TypeInv', DropIsFinal, [Next]_vars
             PROVE  [Fwd!Next]_(Fwd!vars)
  OBVIOUS
<1>1. ASSUME NEW f \in Flows, Receive(f) PROVE [Fwd!Next]_(Fwd!vars)
  BY <1>1 DEF Receive, At, FreshPacket, Where, Fwd!Next, Fwd!Take
<1>2. CASE PacketStep
  BY <1>2, ForwardPacket
<1>3. ASSUME NEW c \in Clients, Serve(c) PROVE [Fwd!Next]_(Fwd!vars)
  <2>1. alive /\ alive' \in BOOLEAN /\ UNCHANGED packet
    BY <1>3 DEF Serve, TypeInv, ConfigOK
  <2> QED
    BY <2>1 DEF packet, Where, Fwd!vars, Fwd!packet, Fwd!Next, Fwd!Die
<1>4. ASSUME NEW c \in Clients, NEW r \in Requests, Submit(c, r) PROVE [Fwd!Next]_(Fwd!vars)
  BY <1>4 DEF Submit, packet, Where, Fwd!vars
<1>5. CASE UNCHANGED vars
  BY <1>5 DEF vars, Where, Fwd!vars
<1> QED
  BY <1>1, <1>2, <1>3, <1>4, <1>5 DEF Next

\* The switch, with its processors, tables and remote calls, implements Forwarder: a
\* packet is sent once, to the ports its last action chose, and to none if a parser
\* (ParserStage::parse, drop_packet) dropped it.
THEOREM Refinement == Spec => Forwards
  BY ForwardInit, ForwardStep, TypeInvariant, DropSafe, PTL DEF Spec, Forwards, Fwd!Spec
=============================================================================
