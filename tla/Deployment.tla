----------------------------- MODULE Deployment -----------------------------
(***************************************************************************)
(* The controller programs beside the running switch of IpsaSwitch:        *)
(* ctrl_init_dataplane turns the JSON configuration of the compiler into a *)
(* list of remote calls and makes them one at a time, printing and         *)
(* otherwise ignoring what each returns; ctrl_mod_table inserts table      *)
(* entries.  An operator runs one of them after the other, on a switch     *)
(* that may be carrying traffic.                                           *)
(***************************************************************************)
EXTENDS IpsaSwitch, SequencesExt

CONSTANTS
  Controller,      \* the client ctrl_init_dataplane is; the others run ctrl_mod_table
  Configs,         \* the configurations the operator deploys
  MaxDeployments,  \* bound on the runs of ctrl_init_dataplane
  MaxFailures,     \* bound on the remote calls that fail
  EarlyTraffic     \* whether packets arrive before the first deployment is done

ASSUME ControllerAssumption ==
  /\ Controller \in Clients
  /\ MaxDeployments \in Nat /\ MaxFailures \in Nat /\ EarlyTraffic \in BOOLEAN

(***************************************************************************)
(* What the JSON says of one processor: parser, gateway, matcher, executor.*)
(* A parser entry is placed in the row it hashes to; of two in one row the *)
(* later stays.                                                            *)
(***************************************************************************)
TableConfig == [t : Table, noTable : BOOLEAN, type : TableType, depth : {0, 1}, block : Block,
                miss : Choice, map : [Choice -> Target \cup {None}], keyed : BOOLEAN]
ProcConfig  == [level : 0 .. NumLevels,
                entries : Seq([l : Level, i : Entry, covers : SUBSET Flows, drop : BOOLEAN]),
                exps : Seq(SUBSET (Flows \X BOOLEAN)),
                default : Op,
                next : Seq([key : Key, to : Op]),
                tables : Seq(TableConfig),
                actions : Seq([a : Act, body : Body])]

ASSUME ConfigAssumption == Configs \subseteq [Proc -> ProcConfig \cup {None}]

\* Of a table or an action slot the JSON lists twice, what the last entry says.
LastTable(c, n)  == \A m \in DOMAIN c.tables : c.tables[m].t = c.tables[n].t => m <= n
LastAction(c, n) == \A m \in DOMAIN c.actions : c.actions[m].a = c.actions[n].a => m <= n
TableOf(c, t) ==
  {c.tables[n] : n \in {m \in DOMAIN c.tables : c.tables[m].t = t /\ LastTable(c, m)}}
BodyOf(c, a) ==
  {c.actions[n].body : n \in {m \in DOMAIN c.actions : c.actions[m].a = a /\ LastAction(c, m)}}

\* ctrl_mod_table makes no other calls.
ASSUME EntryAssumption ==
  \A r \in Requests : r.op \in {"insertSramEntry", "insertTcamEntry"}

\* extract_parser: nothing is cleared before the entries are written.
ParserScript(p, c) ==
  << [op |-> "initParserLevel", p |-> p, level |-> c.level] >>
    \o [n \in DOMAIN c.entries |->
          [op |-> "modParserEntry", p |-> p, l |-> c.entries[n].l, i |-> c.entries[n].i,
           covers |-> c.entries[n].covers, drop |-> c.entries[n].drop]]

\* A fault: the relations of the last configuration are left in place.
GatewayScriptUncleared(p, c) ==
  [n \in DOMAIN c.exps |-> [op |-> "insertRelationExp", p |-> p, rel |-> c.exps[n]]]
    \o << [op |-> "setDefaultGateEntry", p |-> p, to |-> c.default] >>
    \o [n \in DOMAIN c.next |->
          [op |-> "modResMap", p |-> p, key |-> c.next[n].key, to |-> c.next[n].to]]

\* extract_gateway
GatewayScript(p, c) ==
  << [op |-> "clearRelationExp", p |-> p] >>
    \o [n \in DOMAIN c.exps |-> [op |-> "insertRelationExp", p |-> p, rel |-> c.exps[n]]]
    \o << [op |-> "setDefaultGateEntry", p |-> p, to |-> c.default] >>
    \o [n \in DOMAIN c.next |->
          [op |-> "modResMap", p |-> p, key |-> c.next[n].key, to |-> c.next[n].to]]

\* extract_matcher: no_table is read from the JSON and no call carries it.
TableScript(p, tb) ==
  << [op |-> "setMemConfig", p |-> p, t |-> tb.t, type |-> tb.type, depth |-> tb.depth,
      block |-> tb.block, miss |-> tb.miss],
     [op |-> "setActionProc", p |-> p, t |-> tb.t, map |-> tb.map],
     [op |-> "setFieldInfo", p |-> p, t |-> tb.t, keyed |-> tb.keyed] >>

MatcherScript(p, c) == FlattenSeq([n \in DOMAIN c.tables |-> TableScript(p, c.tables[n])])

\* A fault: the last action of the list is not sent.
ExecutorScriptShort(p, c) ==
  [n \in 1 .. Len(c.actions) - 1 |->
     [op |-> "insertAction", p |-> p, a |-> c.actions[n].a, body |-> c.actions[n].body]]

\* extract_executor
ExecutorScript(p, c) ==
  [n \in DOMAIN c.actions |->
     [op |-> "insertAction", p |-> p, a |-> c.actions[n].a, body |-> c.actions[n].body]]

ProcScript(p, c) ==
  IF c = None THEN <<>>
  ELSE ParserScript(p, c) \o GatewayScript(p, c) \o MatcherScript(p, c) \o ExecutorScript(p, c)

\* extract: the processors in order of their number.
Script(cfg) == FlattenSeq([n \in 1 .. NumProcs |-> ProcScript(n - 1, cfg[n - 1])])

-----------------------------------------------------------------------------
VARIABLES
  script,    \* the calls ctrl_init_dataplane still has to make
  active,    \* the configuration last deployed, or being deployed
  rounds,    \* deployments begun
  failures,  \* remote calls that failed
  clean,     \* no call of the current deployment failed
  cold       \* a cold start: one deployment at most, no call lost, no packet before its end

ctl     == <<script, active, rounds, failures, clean, cold>>
allVars == <<vars, ctl>>

Deployed == rounds > 0 /\ script = <<>> /\ todo[Controller] = <<>>

DeployInit ==
  /\ Init
  /\ script = <<>> /\ active = [p \in Proc |-> None]
  /\ rounds = 0 /\ failures = 0 /\ clean = TRUE /\ cold = TRUE

\* The operator starts ctrl_init_dataplane when no other command is running.
Deploy(cfg) ==
  /\ alive
  /\ rounds < MaxDeployments
  /\ script = <<>> /\ todo = [c \in Clients |-> <<>>]
  /\ script' = Script(cfg) /\ active' = cfg
  /\ rounds' = rounds + 1 /\ clean' = TRUE /\ cold' = (cold /\ rounds = 0)
  /\ UNCHANGED <<vars, failures>>

\* The next call of the script; each returns before the one after it is made.
Call1 ==
  /\ script # <<>>
  /\ Submit(Controller, Head(script))
  /\ script' = Tail(script)
  /\ UNCHANGED <<active, rounds, failures, clean, cold>>

\* A call that does not reach the switch: its status is printed, and the next follows.
CallFails ==
  /\ alive
  /\ script # <<>> /\ todo[Controller] = <<>>
  /\ failures < MaxFailures
  /\ script' = Tail(script) /\ failures' = failures + 1 /\ clean' = FALSE /\ cold' = FALSE
  /\ UNCHANGED <<vars, active, rounds>>

\* The table entry is one for a table of the configuration, exact or not as that
\* table is there.
FitsIn(cfg, r) ==
  /\ cfg[r.p] # None
  /\ \E tb \in TableOf(cfg[r.p], r.t) : tb.type = "EXACT" <=> r.op = "insertSramEntry"

Fits(r) == FitsIn(active, r)

\* ctrl_mod_table: every entry of its JSON is inserted.  The operator runs it after
\* a deployment that printed no failure.
ModTable(c, r) ==
  /\ c # Controller
  /\ Deployed /\ clean
  /\ Fits(r)
  /\ Submit(c, r)
  /\ UNCHANGED ctl

Traffic ==
  /\ EarlyTraffic \/ Deployed \/ rounds > 1
  /\ \E f \in Flows : Receive(f)
  /\ cold' = (cold /\ Deployed)
  /\ UNCHANGED <<script, active, rounds, failures, clean>>

Switch ==
  /\ PacketStep \/ \E c \in Clients : Serve(c)
  /\ UNCHANGED ctl

DeployNext ==
  \/ \E cfg \in Configs : Deploy(cfg)
  \/ Call1 \/ CallFails
  \/ \E c \in Clients, r \in Requests : ModTable(c, r)
  \/ Traffic \/ Switch

DeploySpec == DeployInit /\ [][DeployNext]_allVars

-----------------------------------------------------------------------------
\* No later entry of the parser has the row of the n-th.
LastInRow(c, n) ==
  \A m \in DOMAIN c.entries :
    m > n => c.entries[m].l # c.entries[n].l \/ c.entries[m].i # c.entries[n].i

ParserInstalled(p, c) ==
  /\ parser[p].working /\ parser[p].level = c.level
  /\ \A n \in DOMAIN c.entries : LastInRow(c, n) =>
       parser[p].entries[c.entries[n].l][c.entries[n].i]
         = [covers |-> c.entries[n].covers, drop |-> c.entries[n].drop]

GatewayInstalled(p, c) ==
  /\ gateway[p].default = c.default
  /\ gateway[p].exps = c.exps
  /\ \A k \in Key :
       LET named == {n \in DOMAIN c.next : c.next[n].key = k}
       IN IF named = {} THEN gateway[p].next[k] = None
          ELSE \E n \in named : gateway[p].next[k] = c.next[n].to

\* An action the configuration does not name may have got processor 0 from a
\* packet, never a processor of an older configuration.
TableInstalled(p, tb) ==
  LET m == matcher[p][tb.t]
  IN /\ m.type = tb.type /\ m.depth = tb.depth /\ m.miss = tb.miss /\ m.keyed = tb.keyed
     /\ tb.depth > 0 => m.block = tb.block
     /\ \A a \in Choice : IF tb.map[a] # None THEN m.map[a] = tb.map[a]
                          ELSE m.map[a] \in {None, 0}

ExecutorInstalled(p, c) ==
  \A a \in Act : \A b \in BodyOf(c, a) : exe[p][a] = [st |-> "live", body |-> b]

Installed(cfg) ==
  \A p \in Proc : cfg[p] # None =>
    /\ ParserInstalled(p, cfg[p])
    /\ GatewayInstalled(p, cfg[p])
    /\ \A t \in Table : \A tb \in TableOf(cfg[p], t) : TableInstalled(p, tb)
    /\ ExecutorInstalled(p, cfg[p])

\* From the end of a ctrl_init_dataplane none of whose own calls failed until the
\* next one is started, each processor it named has what the JSON says, the last
\* entry of whatever is listed twice: its parser level and rows, its gateway and no
\* relation or jump of an older one, its tables' geometry, miss action and map with
\* no jump of an older one, its actions.  So it is whatever was deployed before,
\* whichever calls of an earlier deployment were lost, whatever entries are inserted
\* and whatever packets pass through (which insert into the action maps themselves).
\* Parser rows, tables and action slots that the JSON does not list stay as they
\* were, and the property says nothing of them.
InstalledWhenDone == Deployed /\ clean => Installed(active)

\* When ctrl_init_dataplane ends so, the memory of a cluster holds rows only in
\* blocks of tables the configuration does not list, although tables of all the
\* processors of a cluster may share a block, a table moves from one block to
\* another, and clear_old_config wipes nothing but the block the table had: a table
\* of the configuration starts empty unless its new block is still the block of a
\* table left in place.
InBlock(p, t, type, b) ==
  matcher[p][t].type = type /\ matcher[p][t].depth > 0 /\ matcher[p][t].block = b
HeldByUnlisted(cfg, k, type, b) ==
  \E p \in Proc, t \in Table :
    /\ ClusterOf(p) = k /\ InBlock(p, t, type, b)
    /\ cfg[p] # None => TableOf(cfg[p], t) = {}
RowsOfUnlisted(cfg) ==
  \A k \in Clusters, b \in Block :
    /\ memory[k].sram[b] # EmptySram => HeldByUnlisted(cfg, k, "EXACT", b)
    /\ memory[k].tcam[b] # EmptyTcam => HeldByUnlisted(cfg, k, "TERNARY", b)

\* What a configuration can ask for and the switch cannot do: look a packet up in a
\* table of depth 0, run an action the executor has none for, or give parameters to
\* a miss action when no table has matched the packet ...
PacketBlame ==
  /\ active[cur] # None
  /\ \/ pc = "lookup" /\ \E tb \in TableOf(active[cur], phv.op.val) : tb.depth = 0
     \/ pc = "exec" /\ BodyOf(active[cur], phv.act) = {}
     \/ /\ pc = "exec" /\ phv.value = None
        /\ \E tb \in TableOf(active[cur], phv.op.val), b \in BodyOf(active[cur], phv.act) :
             tb.miss = phv.act /\ b.args

\* ... or insert an entry into a table of depth 0.
EntryBlame ==
  \E c \in Clients \ {Controller} :
    /\ todo'[c] # todo[c]
    /\ active[Head(todo[c]).p] # None
    /\ \E tb \in TableOf(active[Head(todo[c]).p], Head(todo[c]).t) : tb.depth = 0

\* On a switch that gets no packet before its first deployment is done, and none of
\* whose calls is lost, the process dies of nothing else: each other pointer, table,
\* default entry and parameter is in place when a packet or an entry comes to use it.
\* The compiler's own configurations hold such tables and actions (a default matcher
\* of depth 0, miss actions without a body), so this is what a cold start promises.
ColdStartSafe == [][cold /\ alive /\ ~ alive' => PacketBlame \/ EntryBlame]_allVars

\* README.md of HwFramework-IPSA, of a deployment on a running switch: "The gRPC
\* controller updates metadata, sigmoid tables, and processor definitions without
\* restarting `main`": a deployment never brings the process down.
UpdateWithoutRestart == alive
=============================================================================
