----------------------------- MODULE IpsaSwitch -----------------------------
(***************************************************************************)
(* The running software switch: the packet thread of main.cpp, which walks *)
(* one packet at a time through the processors of the Pipeline, and the    *)
(* gRPC threads of dataplane_server.h, which rewrite the same processors   *)
(* while packets are inside them.  The code takes no lock anywhere between *)
(* the two; one step of this module is one method call on the Pipeline     *)
(* (server side) or one read of shared configuration (packet side).        *)
(*                                                                         *)
(* Packet contents are reduced to a flow: the class of packets that every  *)
(* parser entry, gateway relation and table key treats alike.              *)
(***************************************************************************)
EXTENDS Integers, Sequences, FiniteSets

CONSTANTS
  NumProcs,    \* processors of the pipeline (PROC_NUM)
  NumTables,   \* matcher threads of a processor (MATCHER_THREAD_NUM)
  NumActions,  \* action slots of an executor (EXECUTOR_ACTION_NUM)
  NumLevels,   \* parser levels of a processor
  NumEntries,  \* entries of one parser level
  NumRows,     \* rows of a memory block (1 << SRAM_DEPTH)
  ProcsPerCluster,  \* processors that share one memory (PROC_NUM_PER_CLUSTER)
  NumBlocks,   \* memory blocks of a cluster, of either kind
  MaxExps,     \* bound on the relations of one gateway
  Flows,       \* classes of packets
  RowOf,       \* the row a flow's key hashes to (key_sum % 1024)
  ZeroKey,     \* the key of all zero bytes, which an empty row holds
  Ports,       \* egress interfaces
  None,        \* an absent map entry, or memory never written
  Clients,     \* gRPC clients, one call in flight each
  Requests,    \* the calls the clients make
  MissActs     \* the action ids used as miss actions, which take no parameters

Proc   == 0 .. NumProcs - 1
Table  == 0 .. NumTables - 1
Act    == 0 .. NumActions - 1
Level  == 0 .. NumLevels - 1
Entry  == 0 .. NumEntries - 1
Row    == 0 .. NumRows - 1
Block  == 0 .. NumBlocks - 1
Choice == Act \cup {-1}           \* next_action_id: -1 is "no miss action set"
Target == -1 .. NumProcs          \* next_proc_id: NumProcs stands for any id out of range
Key    == SUBSET (1 .. MaxExps)   \* a gateway bitmap, as the set of its one bits

Op     == [type : {"TABLE"}, val : Table] \cup [type : {"STAGE"}, val : Target]
Body   == [sets : BOOLEAN, out : SUBSET Ports, args : BOOLEAN]
Slot   == [st : {"wild", "live", "freed"}, body : Body]

NoBody  == [sets |-> FALSE, out |-> {}, args |-> FALSE]
NoEntry == [covers |-> {}, drop |-> FALSE]

ASSUME SizeAssumption ==
  /\ NumProcs \in Nat \ {0} /\ NumTables \in Nat \ {0} /\ NumActions \in Nat \ {0}
  /\ NumLevels \in Nat /\ NumEntries \in Nat \ {0}
  /\ NumRows \in Nat \ {0} /\ NumBlocks \in Nat \ {0} /\ MaxExps \in Nat
  /\ ProcsPerCluster \in Nat \ {0}

\* The processors of a cluster point to the same blocks of its memory.
ClusterOf(p) == p \div ProcsPerCluster
Clusters     == {ClusterOf(p) : p \in Proc}

ASSUME KeyAssumption ==
  /\ RowOf \in [Flows -> Row]
  /\ ZeroKey \in Flows => RowOf[ZeroKey] = 0

ASSUME NoneAssumption == None \notin Int /\ None \notin Op /\ None \notin Proc \X Table

(***************************************************************************)
(* The remote calls, with the bounds their arguments keep in the           *)
(* configurations the compiler emits.  A parser entry names the row that   *)
(* modify_trans_entry hashes it to.                                        *)
(***************************************************************************)
ParserRequest ==
  [op : {"initParserLevel"}, p : Proc, level : 0 .. NumLevels]
    \cup [op : {"modParserEntry"}, p : Proc, l : Level, i : Entry,
          covers : SUBSET Flows, drop : BOOLEAN]
    \cup [op : {"clearParser"}, p : Proc]

GatewayRequest ==
  [op : {"insertRelationExp"}, p : Proc, rel : SUBSET (Flows \X BOOLEAN)]
    \cup [op : {"clearRelationExp", "clearResMap"}, p : Proc]
    \cup [op : {"modResMap"}, p : Proc, key : Key, to : Op]
    \cup [op : {"setDefaultGateEntry"}, p : Proc, to : Op]

TableType == {"EXACT", "TERNARY"}

MatcherRequest ==
  [op : {"setActionProc"}, p : Proc, t : Table, map : [Choice -> Target \cup {None}]]
    \cup [op : {"setMemConfig"}, p : Proc, t : Table, type : TableType,
          depth : {0, 1}, block : Block, miss : Choice]
    \cup [op : {"clearOldConfig"}, p : Proc, t : Table]
    \cup [op : {"setFieldInfo"}, p : Proc, t : Table, keyed : BOOLEAN]
    \cup [op : {"setNoTable"}, p : Proc, t : Table, flag : BOOLEAN]
    \cup [op : {"setMissActId"}, p : Proc, t : Table, miss : Choice]
    \cup [op : {"insertSramEntry"}, p : Proc, t : Table, key : Flows, act : Act]
    \cup [op : {"insertTcamEntry"}, p : Proc, t : Table, covers : SUBSET Flows, act : Act]

ExecutorRequest ==
  [op : {"insertAction"}, p : Proc, a : Act, body : Body]
    \cup [op : {"delAction"}, p : Proc, a : Act]
    \cup [op : {"clearAction"}, p : Proc]

Request == ParserRequest \cup GatewayRequest \cup MatcherRequest \cup ExecutorRequest

ASSUME RequestAssumption == Requests \subseteq Request

ASSUME MissAssumption == MissActs \subseteq Act

\* The Pipeline methods setMemConfig is made of, the last part of
\* MatcherThread::set_mem_config apart from its first assignment.
MemStep ==
  [op : {"initMatchType"}, p : Proc, t : Table, type : TableType]
    \cup [op : {"openTable"}, p : Proc, t : Table]
    \cup [op : {"setGeometry"}, p : Proc, t : Table, depth : {0, 1}, block : Block]

Call == Request \cup MemStep

-----------------------------------------------------------------------------
VARIABLES
  parser,   \* per processor: if_work, needed_parser_level and the entries
  gateway,  \* per processor: default_entry, exps and res_next
  matcher,  \* per processor and table: the MatcherThread
  memory,   \* per cluster: the SRAM and TCAM blocks
  exe,      \* per processor: the action slots
  phv,      \* the packet being walked
  pc,       \* where the packet thread is
  cur,      \* the processor whose process_packet is running
  lvl,      \* the parser level the packet has reached
  todo,     \* per client: the Pipeline calls its handler still has to make
  alive,    \* FALSE once the process has died of undefined behaviour
  ranOff    \* history: actions a processor ran since its parser was switched off

config == <<parser, gateway, matcher, memory, exe>>
packet == <<phv, pc, cur, lvl>>
vars   == <<parser, gateway, matcher, memory, exe, phv, pc, cur, lvl, todo, alive, ranOff>>

ParserState  == [working : BOOLEAN, level : 0 .. NumLevels,
                 entries : [Level -> [Entry -> [covers : SUBSET Flows, drop : BOOLEAN]]]]
GatewayState == [default : Op \cup {None}, exps : Seq(SUBSET (Flows \X BOOLEAN)),
                 next : [Key -> Op \cup {None}]]
TableState   == [noTable : BOOLEAN, type : TableType, miss : Choice, depth : {0, 1},
                 keyed : BOOLEAN, map : [Choice -> Target \cup {None}],
                 block : Block, idx : 0 .. NumRows]
Memory       == [sram : [Block -> [Row -> [key : Flows \cup {ZeroKey}, act : Act]]],
                 tcam : [Block -> [Row -> [covers : SUBSET Flows, act : Act]]]]
Packet       == [flow : Flows, at : Target, op : Op \cup {None}, act : Choice,
                 hit : BOOLEAN, value : (Proc \X Table) \cup {None},
                 out : SUBSET Ports, dropped : BOOLEAN]

\* Memory of zero bytes: in a TCAM a zero mask covers every packet.
EmptySram == [r \in Row |-> [key |-> ZeroKey, act |-> 0]]
EmptyTcam == [r \in Row |-> [covers |-> Flows, act |-> 0]]
NoMemory  == [sram |-> [b \in Block |-> EmptySram], tcam |-> [b \in Block |-> EmptyTcam]]
NoMap     == [a \in Choice |-> None]

\* A matcher thread as its constructor leaves it.
FreshTable ==
  [noTable |-> TRUE, type |-> "EXACT", miss |-> -1, depth |-> 0, keyed |-> FALSE,
   map |-> NoMap, block |-> 0, idx |-> 0]

\* The PHV init_phv builds: all metadata zero, so no egress port.
FreshPacket(f) ==
  [flow |-> f, at |-> 0, op |-> None, act |-> 0, hit |-> FALSE, value |-> None,
   out |-> {}, dropped |-> FALSE]

Init ==
  /\ parser  = [p \in Proc |-> [working |-> FALSE, level |-> 0,
                                entries |-> [l \in Level |-> [i \in Entry |-> NoEntry]]]]
  /\ gateway = [p \in Proc |-> [default |-> None, exps |-> <<>>, next |-> [k \in Key |-> None]]]
  /\ matcher = [p \in Proc |-> [t \in Table |-> FreshTable]]
  /\ memory  = [c \in Clusters |-> NoMemory]
  /\ exe     = [p \in Proc |-> [a \in Act |-> [st |-> "wild", body |-> NoBody]]]
  /\ \E f \in Flows : phv = FreshPacket(f)
  /\ pc = "recv" /\ cur = 0 /\ lvl = 0
  /\ todo = [c \in Clients |-> <<>>]
  /\ alive = TRUE
  /\ ranOff = [p \in Proc |-> 0]

\* The process dies: a wild pointer followed, a division by zero, a double free.
Crash == /\ alive' = FALSE
         /\ UNCHANGED <<config, packet, ranOff>>

-----------------------------------------------------------------------------
(***************************************************************************)
(* The packet thread.                                                      *)
(***************************************************************************)
At(from, to) == alive /\ pc = from /\ pc' = to

\* main: recv_packet and init_phv.
Receive(f) ==
  /\ At("recv", "enter")
  /\ phv' = FreshPacket(f)
  /\ UNCHANGED <<config, cur, lvl, todo, alive, ranOff>>

\* Pipeline::execute: enter the next processor, or leave the loop.
Enter ==
  /\ \/ /\ phv.at \in Proc
        /\ At("enter", "parse")
        /\ cur' = phv.at
     \/ /\ phv.at \notin Proc
        /\ At("enter", "send")
        /\ UNCHANGED cur
  /\ UNCHANGED <<config, phv, lvl, todo, alive, ranOff>>

\* A fault: Parser::parse forgets to look at if_work.
StartParseAlways ==
  /\ At("parse", "level")
  /\ lvl' = 0
  /\ UNCHANGED <<config, phv, cur, todo, alive, ranOff>>

\* Parser::parse, its entry: a processor whose parser is off ends the walk.
StartParse ==
  /\ \/ /\ ~ parser[cur].working
        /\ At("parse", "enter")
        /\ phv' = [phv EXCEPT !.at = -1]
        /\ UNCHANGED lvl
     \/ /\ parser[cur].working
        /\ At("parse", "level")
        /\ lvl' = 0
        /\ UNCHANGED phv
  /\ UNCHANGED <<config, cur, todo, alive, ranOff>>

\* The least number of a set, as a set.
First(s) == {i \in s : \A j \in s : i <= j}

\* The first entry of a level that covers the packet decides.
Covering(l) == {i \in Entry : phv.flow \in parser[cur].entries[l][i].covers}
Drops(l)    == \E i \in First(Covering(l)) : parser[cur].entries[l][i].drop

\* A fault: the walk goes on after a drop.
ParseLevelPastDrop ==
  /\ \/ /\ lvl < parser[cur].level
        /\ At("level", "level")
        /\ lvl' = lvl + 1
        /\ phv' = IF Drops(lvl) THEN [phv EXCEPT !.out = {}, !.dropped = TRUE] ELSE phv
     \/ /\ lvl >= parser[cur].level
        /\ At("level", "gateway")
        /\ UNCHANGED <<phv, lvl>>
  /\ UNCHANGED <<config, cur, todo, alive, ranOff>>

\* ParserStage::parse, one level, and the loop around it, which re-reads
\* needed_parser_level every time round.
ParseLevel ==
  /\ \/ /\ lvl < parser[cur].level
        /\ Drops(lvl)
        /\ At("level", "enter")
        /\ phv' = [phv EXCEPT !.at = -1, !.out = {}, !.dropped = TRUE]
        /\ UNCHANGED lvl
     \/ /\ lvl < parser[cur].level
        /\ ~ Drops(lvl)
        /\ At("level", "level")
        /\ lvl' = lvl + 1
        /\ UNCHANGED phv
     \/ /\ lvl >= parser[cur].level
        /\ At("level", "gateway")
        /\ UNCHANGED <<phv, lvl>>
  /\ UNCHANGED <<config, cur, todo, alive, ranOff>>

\* Gateway::execute: the operation the relations that hold select.  A default
\* entry never written is read as whatever the memory held.
Bitmap == {i \in 1 .. Len(gateway[cur].exps) : <<phv.flow, phv.hit>> \in gateway[cur].exps[i]}
Selected ==
  IF gateway[cur].next[Bitmap] # None THEN {gateway[cur].next[Bitmap]}
  ELSE IF gateway[cur].default # None THEN {gateway[cur].default}
  ELSE Op

Gate ==
  /\ \E o \in Selected :
       \/ /\ o.type = "TABLE"
          /\ At("gateway", "match")
          /\ phv' = [phv EXCEPT !.op = o]
       \/ /\ o.type = "STAGE"
          /\ At("gateway", "enter")
          /\ phv' = [phv EXCEPT !.op = o, !.at = o.val]
  /\ UNCHANGED <<config, cur, lvl, todo, alive, ranOff>>

\* ... or a type and value that name no table at all.
GateWild ==
  /\ alive /\ pc = "gateway"
  /\ gateway[cur].next[Bitmap] = None /\ gateway[cur].default = None
  /\ Crash
  /\ UNCHANGED todo

CurTable == matcher[cur][phv.op.val]

\* Matcher::execute: a matcher without a table chooses its miss action ...
SkipTable ==
  /\ At("match", "next")
  /\ CurTable.noTable
  /\ phv' = [phv EXCEPT !.hit = FALSE, !.act = CurTable.miss]
  /\ UNCHANGED <<config, cur, lvl, todo, alive, ranOff>>

\* ... and one with a table goes on to look the packet up.
UseTable ==
  /\ At("match", "lookup")
  /\ ~ CurTable.noTable
  /\ UNCHANGED <<config, phv, cur, lvl, todo, alive, ranOff>>

\* The row of the table's block a packet's key answers to.  A key of no fields sums
\* to 0 and compares equal to row 0 whatever it holds; in a TCAM the first row that
\* covers the packet answers.
Sram(p, tb) == memory[ClusterOf(p)].sram[tb.block]
Tcam(p, tb) == memory[ClusterOf(p)].tcam[tb.block]
Hits(p, tb) ==
  IF ~ tb.keyed THEN {0}
  ELSE IF tb.type = "EXACT"
  THEN {r \in Row : r = RowOf[phv.flow] /\ Sram(p, tb)[r].key = phv.flow}
  ELSE First({r \in Row : phv.flow \in Tcam(p, tb)[r].covers})
ActAt(p, tb, r) == IF tb.type = "EXACT" THEN Sram(p, tb)[r].act ELSE Tcam(p, tb)[r].act

\* A fault: a hit that finds match_value set by an earlier processor keeps it.
LookupKeepingValue ==
  /\ At("lookup", "next")
  /\ CurTable.depth > 0
  /\ \/ \E r \in Hits(cur, CurTable) :
          phv' = [phv EXCEPT !.hit = TRUE, !.act = ActAt(cur, CurTable, r),
                             !.value = IF @ = None THEN <<cur, phv.op.val>> ELSE @]
     \/ /\ Hits(cur, CurTable) = {}
        /\ phv' = [phv EXCEPT !.hit = FALSE, !.act = CurTable.miss]
  /\ UNCHANGED <<config, cur, lvl, todo, alive, ranOff>>

\* MatcherThread::generate_match_key_and_match.
Lookup ==
  /\ At("lookup", "next")
  /\ CurTable.depth > 0
  /\ \/ \E r \in Hits(cur, CurTable) :
          phv' = [phv EXCEPT !.hit = TRUE, !.act = ActAt(cur, CurTable, r),
                             !.value = <<cur, phv.op.val>>]
     \/ /\ Hits(cur, CurTable) = {}
        /\ phv' = [phv EXCEPT !.hit = FALSE, !.act = CurTable.miss]
  /\ UNCHANGED <<config, cur, lvl, todo, alive, ranOff>>

\* get_match_res on a table with no memory: key_sum % 0.
LookupNoMemory ==
  /\ alive /\ pc = "lookup"
  /\ CurTable.depth = 0
  /\ Crash
  /\ UNCHANGED todo

\* Two faults: the map is read with find() and the missing end not tested; the
\* next processor is not assigned.
NextHopUnchecked ==
  /\ At("next", "exec")
  /\ phv' = [phv EXCEPT !.at = CurTable.map[phv.act]]
  /\ UNCHANGED <<config, cur, lvl, todo, alive, ranOff>>

NextHopLost ==
  /\ At("next", "exec")
  /\ UNCHANGED <<config, phv, cur, lvl, todo, alive, ranOff>>

\* process_packet: the processor after the chosen action.  The map is indexed
\* with operator[], which inserts processor 0 for an action it does not hold.
NextHop ==
  LET known == CurTable.map[phv.act]
      to    == IF known = None THEN 0 ELSE known
  IN /\ At("next", "exec")
     /\ phv' = [phv EXCEPT !.at = to]
     /\ matcher' = [matcher EXCEPT ![cur][phv.op.val].map[phv.act] = to]
     /\ UNCHANGED <<parser, gateway, memory, exe, cur, lvl, todo, alive, ranOff>>

\* The slot the executor reads holds an action whose parameters, if it takes
\* any, can be read.
Runnable == /\ phv.act \in Act
            /\ exe[cur][phv.act].st \in {"live", "freed"}
            /\ exe[cur][phv.act].body.args => phv.value # None

\* Executor::execute; a freed action may still be intact.
Execute ==
  /\ At("exec", "enter")
  /\ Runnable
  /\ phv' = IF exe[cur][phv.act].body.sets
            THEN [phv EXCEPT !.out = exe[cur][phv.act].body.out] ELSE phv
  /\ ranOff' = IF parser[cur].working THEN ranOff ELSE [ranOff EXCEPT ![cur] = @ + 1]
  /\ UNCHANGED <<config, cur, lvl, todo, alive>>

\* Executor::execute through a slot that is out of range, never written or freed,
\* or with parameters read through a match_value never set.
ExecuteWild ==
  /\ alive /\ pc = "exec"
  /\ Runnable => exe[cur][phv.act].st = "freed"
  /\ Crash
  /\ UNCHANGED todo

\* main: the packet goes out on every port of phv.out, or is dropped.
Transmit ==
  /\ At("send", "recv")
  /\ UNCHANGED <<config, phv, cur, lvl, todo, alive, ranOff>>

PacketStep ==
  \/ Enter \/ StartParse \/ ParseLevel
  \/ Gate \/ GateWild
  \/ SkipTable \/ UseTable \/ Lookup \/ LookupNoMemory
  \/ NextHop
  \/ Execute \/ ExecuteWild
  \/ Transmit

-----------------------------------------------------------------------------
(***************************************************************************)
(* The Pipeline methods the server calls.                                  *)
(***************************************************************************)
InitParserLevel(p, level) ==
  /\ parser' = [parser EXCEPT ![p].level = level, ![p].working = TRUE]
  /\ ranOff' = [ranOff EXCEPT ![p] = 0]
  /\ UNCHANGED <<gateway, matcher, memory, exe, alive>>

ModParserEntry(p, l, i, entry) ==
  /\ parser' = [parser EXCEPT ![p].entries[l][i] = entry]
  /\ UNCHANGED <<gateway, matcher, memory, exe, alive, ranOff>>

\* Only the levels in use are emptied.
ClearParser(p) ==
  /\ parser' = [parser EXCEPT
       ![p] = [working |-> FALSE, level |-> 0,
               entries |-> [l \in Level |-> IF l < parser[p].level
                                            THEN [i \in Entry |-> NoEntry]
                                            ELSE parser[p].entries[l]]]]
  /\ UNCHANGED <<gateway, matcher, memory, exe, alive, ranOff>>

InsertExp(p, rel) ==
  /\ Len(gateway[p].exps) < MaxExps
  /\ gateway' = [gateway EXCEPT ![p].exps = Append(@, rel)]
  /\ UNCHANGED <<parser, matcher, memory, exe, alive, ranOff>>

\* A fault: clear wipes the default entry and does not set it again.
ClearExpWithoutDefault(p) ==
  /\ gateway' = [gateway EXCEPT ![p] = [default |-> None, exps |-> <<>>,
                                        next |-> [k \in Key |-> None]]]
  /\ UNCHANGED <<parser, matcher, memory, exe, alive, ranOff>>

\* Gateway::clear: the default entry becomes {TABLE, 0}.
ClearExp(p) ==
  /\ gateway' = [gateway EXCEPT ![p] = [default |-> [type |-> "TABLE", val |-> 0],
                                        exps |-> <<>>, next |-> [k \in Key |-> None]]]
  /\ UNCHANGED <<parser, matcher, memory, exe, alive, ranOff>>

ClearResMap(p) ==
  /\ gateway' = [gateway EXCEPT ![p].next = [k \in Key |-> None]]
  /\ UNCHANGED <<parser, matcher, memory, exe, alive, ranOff>>

ModifyResMap(p, key, to) ==
  /\ gateway' = [gateway EXCEPT ![p].next[key] = to]
  /\ UNCHANGED <<parser, matcher, memory, exe, alive, ranOff>>

SetDefaultEntry(p, to) ==
  /\ gateway' = [gateway EXCEPT ![p].default = to]
  /\ UNCHANGED <<parser, matcher, memory, exe, alive, ranOff>>

\* The new pairs are merged into the map.
SetActionProcMap(p, t, map) ==
  /\ matcher' = [matcher EXCEPT ![p][t].map =
       [a \in Choice |-> IF map[a] # None THEN map[a] ELSE @[a]]]
  /\ UNCHANGED <<parser, gateway, memory, exe, alive, ranOff>>

\* A table without its geometry, map and fields; only a ternary table's row count
\* starts again.
Cleared(tb) ==
  [tb EXCEPT !.noTable = TRUE, !.keyed = FALSE, !.map = NoMap, !.miss = -1, !.depth = 0,
             !.block = 0, !.idx = IF tb.type = "EXACT" THEN tb.idx ELSE 0]

\* The memory of a cluster without what is in a table's own block.
Wiped(mem, tb) ==
  IF tb.depth = 0 THEN mem
  ELSE IF tb.type = "EXACT" THEN [mem EXCEPT !.sram[tb.block] = EmptySram]
  ELSE [mem EXCEPT !.tcam[tb.block] = EmptyTcam]


ClearOldConfig(p, t) ==
  /\ matcher' = [matcher EXCEPT ![p][t] = Cleared(@)]
  /\ memory' = [memory EXCEPT ![ClusterOf(p)] = Wiped(@, matcher[p][t])]
  /\ UNCHANGED <<parser, gateway, exe, alive, ranOff>>

InitMatchType(p, t, type) ==
  /\ matcher' = [matcher EXCEPT ![p][t].type = type]
  /\ UNCHANGED <<parser, gateway, memory, exe, alive, ranOff>>

SetNoTable(p, t, flag) ==
  /\ matcher' = [matcher EXCEPT ![p][t].noTable = flag]
  /\ UNCHANGED <<parser, gateway, memory, exe, alive, ranOff>>

\* Widths, depth and the lists of blocks; of depth 0 there is nothing to list.
WithGeometry(tb, depth, block) ==
  [tb EXCEPT !.depth = depth, !.block = IF depth = 0 THEN tb.block ELSE block]

SetGeometry(p, t, depth, block) ==
  /\ matcher' = [matcher EXCEPT ![p][t] = WithGeometry(@, depth, block)]
  /\ UNCHANGED <<parser, gateway, memory, exe, alive, ranOff>>

SetMissActId(p, t, miss) ==
  /\ matcher' = [matcher EXCEPT ![p][t].miss = miss]
  /\ UNCHANGED <<parser, gateway, memory, exe, alive, ranOff>>

SetFieldInfos(p, t, keyed) ==
  /\ matcher' = [matcher EXCEPT ![p][t].keyed = keyed]
  /\ UNCHANGED <<parser, gateway, memory, exe, alive, ranOff>>

\* The row the key hashes to is overwritten, whatever key it held and whichever
\* table wrote it.  A table with no memory divides by zero and takes the process down.
InsertSramEntry(p, t, key, act) ==
  \/ /\ matcher[p][t].depth > 0
     /\ memory' = [memory EXCEPT ![ClusterOf(p)].sram[matcher[p][t].block][RowOf[key]]
                                   = [key |-> key, act |-> act]]
     /\ UNCHANGED <<parser, gateway, matcher, exe, alive, ranOff>>
  \/ /\ matcher[p][t].depth = 0
     /\ Crash

\* The rows of a ternary table are filled in order.
InsertTcamEntry(p, t, covers, act) ==
  \/ /\ matcher[p][t].depth > 0
     /\ matcher[p][t].idx < NumRows
     /\ memory' = [memory EXCEPT ![ClusterOf(p)].tcam[matcher[p][t].block][matcher[p][t].idx]
                                   = [covers |-> covers, act |-> act]]
     /\ matcher' = [matcher EXCEPT ![p][t].idx = @ + 1]
     /\ UNCHANGED <<parser, gateway, exe, alive, ranOff>>
  \/ /\ matcher[p][t].depth = 0
     /\ Crash

\* The action that was in the slot leaks.
InsertAction(p, a, body) ==
  /\ exe' = [exe EXCEPT ![p][a] = [st |-> "live", body |-> body]]
  /\ UNCHANGED <<parser, gateway, matcher, memory, alive, ranOff>>

\* delete leaves the pointer in the slot; deleting a slot never written or
\* already freed is undefined.
DelAction(p, a) ==
  \/ /\ exe[p][a].st \in {"live", "freed"}
     /\ exe' = [exe EXCEPT ![p][a].st = "freed"]
     /\ UNCHANGED <<parser, gateway, matcher, memory, alive, ranOff>>
  \/ /\ exe[p][a].st \in {"wild", "freed"}
     /\ Crash

\* A slot never written survives only where its memory happened to be zero.
ClearAction(p) ==
  \/ /\ exe' = [exe EXCEPT ![p] = [a \in Act |-> IF @[a].st = "wild" THEN @[a]
                                                 ELSE [@[a] EXCEPT !.st = "freed"]]]
     /\ UNCHANGED <<parser, gateway, matcher, memory, alive, ranOff>>
  \/ /\ \E a \in Act : exe[p][a].st \in {"wild", "freed"}
     /\ Crash

(***************************************************************************)
(* A handler makes the calls of its request one after the other.           *)
(***************************************************************************)
Calls(r) ==
  IF r.op = "setMemConfig"
  THEN << [op |-> "clearOldConfig", p |-> r.p, t |-> r.t],
          [op |-> "initMatchType", p |-> r.p, t |-> r.t, type |-> r.type],
          [op |-> "openTable", p |-> r.p, t |-> r.t],
          [op |-> "setGeometry", p |-> r.p, t |-> r.t, depth |-> r.depth,
           block |-> r.block],
          [op |-> "setMissActId", p |-> r.p, t |-> r.t, miss |-> r.miss] >>
  ELSE << r >>

Perform(r) ==
  \/ r.op = "initParserLevel"     /\ InitParserLevel(r.p, r.level)
  \/ r.op = "modParserEntry"      /\ ModParserEntry(r.p, r.l, r.i,
                                                    [covers |-> r.covers, drop |-> r.drop])
  \/ r.op = "clearParser"         /\ ClearParser(r.p)
  \/ r.op = "insertRelationExp"   /\ InsertExp(r.p, r.rel)
  \/ r.op = "clearRelationExp"    /\ ClearExp(r.p)
  \/ r.op = "clearResMap"         /\ ClearResMap(r.p)
  \/ r.op = "modResMap"           /\ ModifyResMap(r.p, r.key, r.to)
  \/ r.op = "setDefaultGateEntry" /\ SetDefaultEntry(r.p, r.to)
  \/ r.op = "setActionProc"       /\ SetActionProcMap(r.p, r.t, r.map)
  \/ r.op = "clearOldConfig"      /\ ClearOldConfig(r.p, r.t)
  \/ r.op = "initMatchType"       /\ InitMatchType(r.p, r.t, r.type)
  \/ r.op = "openTable"           /\ SetNoTable(r.p, r.t, FALSE)
  \/ r.op = "setGeometry"         /\ SetGeometry(r.p, r.t, r.depth, r.block)
  \/ r.op = "setMissActId"        /\ SetMissActId(r.p, r.t, r.miss)
  \/ r.op = "setFieldInfo"        /\ SetFieldInfos(r.p, r.t, r.keyed)
  \/ r.op = "setNoTable"          /\ SetNoTable(r.p, r.t, r.flag)
  \/ r.op = "insertSramEntry"     /\ InsertSramEntry(r.p, r.t, r.key, r.act)
  \/ r.op = "insertTcamEntry"     /\ InsertTcamEntry(r.p, r.t, r.covers, r.act)
  \/ r.op = "insertAction"        /\ InsertAction(r.p, r.a, r.body)
  \/ r.op = "delAction"           /\ DelAction(r.p, r.a)
  \/ r.op = "clearAction"         /\ ClearAction(r.p)

\* A client issues a call when its previous one has returned.
Submit(c, r) ==
  /\ alive
  /\ todo[c] = <<>>
  /\ todo' = [todo EXCEPT ![c] = Calls(r)]
  /\ UNCHANGED <<config, packet, alive, ranOff>>

Serve(c) ==
  /\ alive
  /\ todo[c] # <<>>
  /\ Perform(Head(todo[c]))
  /\ todo' = [todo EXCEPT ![c] = Tail(@)]
  /\ UNCHANGED packet

Next ==
  \/ \E f \in Flows : Receive(f)
  \/ PacketStep
  \/ \E c \in Clients : Serve(c) \/ \E r \in Requests : Submit(c, r)

Spec == Init /\ [][Next]_vars

(***************************************************************************)
(* A switch in service: every processor fully configured, no call pending. *)
(***************************************************************************)
ServiceTable(p, ty, m, b) ==
  [FreshTable EXCEPT !.noTable = FALSE, !.type = ty, !.miss = m, !.depth = 1, !.keyed = TRUE,
                     !.map = [a \in Choice |-> p + 1], !.block = b]

InService ==
  /\ parser = [p \in Proc |-> [working |-> TRUE, level |-> NumLevels,
                               entries |-> [l \in Level |-> [i \in Entry |-> NoEntry]]]]
  /\ gateway = [p \in Proc |-> [default |-> [type |-> "TABLE", val |-> 0], exps |-> <<>>,
                                next |-> [k \in Key |-> None]]]
  /\ \E ty \in TableType, m \in MissActs, blk \in [Proc -> [Table -> Block]] :
       matcher = [p \in Proc |-> [t \in Table |-> ServiceTable(p, ty, m, blk[p][t])]]
  /\ memory = [c \in Clusters |-> NoMemory]
  /\ exe = [p \in Proc |-> [a \in Act |->
       [st |-> "live", body |-> [sets |-> TRUE, out |-> Ports, args |-> a \notin MissActs]]]]
  /\ \E f \in Flows : phv = FreshPacket(f)
  /\ pc = "recv" /\ cur = 0 /\ lvl = 0
  /\ todo = [c \in Clients |-> <<>>]
  /\ alive = TRUE
  /\ ranOff = [p \in Proc |-> 0]

\* The calls that neither unmake a table nor free an action, and that keep
\* parameters out of miss actions.
Hitless(r) ==
  /\ r.op \notin {"setMemConfig", "clearOldConfig", "delAction", "clearAction"}
  /\ r.op = "setMissActId" => r.miss \in MissActs
  /\ r.op = "insertAction" /\ r.body.args => r.a \notin MissActs

HitlessNext ==
  \/ \E f \in Flows : Receive(f)
  \/ PacketStep
  \/ \E c \in Clients : Serve(c) \/ \E r \in {q \in Requests : Hitless(q)} : Submit(c, r)

HitlessSpec == InService /\ [][HitlessNext]_vars

\* main's loop never blocks while a packet is in the pipeline.
FairHitlessSpec == HitlessSpec /\ WF_vars(PacketStep)

-----------------------------------------------------------------------------
(***************************************************************************)
(* Properties.                                                             *)
(***************************************************************************)
PcValues == {"recv", "enter", "parse", "level", "gateway", "match", "lookup", "next",
             "exec", "send"}

\* The type invariant: the shapes Parser, Gateway, MatcherThread, Executor and
\* PHV give the shared state, whatever calls are made and however they interleave.
TypeOK ==
  /\ parser \in [Proc -> ParserState]
  /\ gateway \in [Proc -> GatewayState]
  /\ matcher \in [Proc -> [Table -> TableState]]
  /\ memory \in [Clusters -> Memory]
  /\ exe \in [Proc -> [Act -> Slot]]
  /\ phv \in Packet /\ pc \in PcValues /\ cur \in Proc /\ lvl \in Nat
  /\ todo \in [Clients -> Seq(Call)]
  /\ alive \in BOOLEAN
  /\ ranOff \in [Proc -> Nat]

\* A packet a parser entry drops (ParserStage::parse, drop_packet) runs no action
\* of any processor afterwards and is sent nowhere, although drop_packet only
\* clears the egress field that every later action is free to set again.
DropIsFinal ==
  phv.dropped => phv.out = {} /\ phv.at = -1 /\ pc \in {"enter", "send", "recv"}

\* Once clear_parser has switched a processor's parser off (Parser::clear), the
\* processor runs at most one more action until init_parser_level switches it on
\* again: the one of the packet that was already past its parser.
DrainsWithinOneAction == \A p \in Proc : ranOff[p] <= 1

\* From a switch in service, the calls that do not unmake tables or free actions
\* never make the packet thread or a handler follow a wild pointer, divide by
\* zero or free twice, however they interleave with the packet and each other.
StaysAlive == alive

\* Under the same calls, an action that takes parameters reads those of the table
\* that chose it: match_value is never the one an earlier processor left in the
\* PHV, although nothing resets it from one processor to the next.
OwnParameters ==
  pc = "exec" /\ exe[cur][phv.act].body.args => phv.value = <<cur, phv.op.val>>

\* Under the same calls, and while gateways and action maps only lead to later
\* processors, every packet leaves the pipeline: Pipeline::execute has no bound
\* on the processors it visits, and a map rewritten under the packet, or the
\* processor 0 that operator[] inserts, could send it round for ever.
PacketLeaves == (pc # "recv") ~> (pc = "recv")

\* The packet as Forwarder sees it: in the pipeline until it is dropped or
\* Pipeline::execute has come to the end of its loop.
Where == IF pc = "recv" THEN "idle"
         ELSE IF pc = "send" \/ phv.dropped THEN "done"
         ELSE "in"

Fwd == INSTANCE Forwarder WITH
         where <- Where, flow <- phv.flow, out <- phv.out, dropped <- phv.dropped, up <- alive

\* The switch implements Forwarder, whatever is done to its processors meanwhile:
\* each packet taken in is sent once before the next, keeps its flow, goes to the
\* ports the last action chose for it, and to none once a parser has dropped it.
Forwards == Fwd!Spec
=============================================================================
