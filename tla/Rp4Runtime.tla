----------------------------- MODULE Rp4Runtime -----------------------------
(***************************************************************************)
(* The runtime compiler rp4c: each "compile" command builds a task from a  *)
(* program (Rp4Runtime::emitTask), placing its stages in the processors    *)
(* and its tables in the memory blocks of the processors' clusters, and    *)
(* each "table_add" command reads the task compiled last (emitUpdate).     *)
(* The second and later tasks first try to keep every table of the task    *)
(* before where it is, and start over when that does not succeed.          *)
(*                                                                         *)
(* The compiler is one thread.  One step is one round of a loop, or one    *)
(* method where its order does not matter.                                 *)
(***************************************************************************)
EXTENDS Rp4Stages

CONSTANTS
  ClusterCount,      \* clusters (CLUSTER_COUNT)
  ClusterProcCount,  \* processors of a cluster (CLUSTER_PROC_COUNT)
  SramCount,         \* SRAM blocks of a cluster (CLUSTER_SRAM_COUNT)
  TcamCount,         \* TCAM blocks of a cluster (CLUSTER_TCAM_COUNT)
  MaxLevel,          \* parser levels of a processor (MAX_LEVEL)
  Programs,          \* the programs compiled; one without stages did not parse
  WildIds,           \* what reading in front of logical_stages may yield
  WildBlocks,        \* memory sizes a table without keys may appear to have
  UpdateActs         \* the actions updates name, known or not

ASSUME ClusterAssumption ==
  /\ ClusterCount \in Nat \ {0} /\ ClusterProcCount \in Nat \ {0}
  /\ SramCount \in Nat /\ TcamCount \in Nat /\ MaxLevel \in Nat \ {0}

ASSUME ProgramAssumption == WildBlocks \subseteq Nat /\ \A p \in Programs : IsProgram(p)

Slot      == 0 .. ClusterCount * ClusterProcCount - 1
Cluster   == 0 .. ClusterCount - 1
ClusterOf(slot) == IF slot < 0 THEN 0 ELSE slot \div ClusterProcCount
NoStage   == -1     \* physical_proc_id: no stage here
Unset     == -2     \* physical_proc_id: no entry, read as 0 by operator[]

VARIABLES
  pc,        \* the method emitTask is in
  prog,      \* the program being compiled, or compiled last
  lg,        \* what initializeStages made of it
  mem,       \* the tables' memory: [type, key, value] in blocks
  now,       \* now_task, its tables: {[proc, id, mem, blocks]}; {} before the first
  out,       \* the json emitted last, its processors: {[procs, short, logic]}
  incr,      \* is_incremental
  rest,      \* what the running loop has still to visit; of the numbering, the
             \* stage and the place of the table that come next
  dist,      \* distributed_levels, of the stages visited
  total,     \* total_levels, of the stages visited
  home,      \* proc_cluster: the cluster a stage is tied to, or -1
  space,     \* cluster_space: [sram, tcam] left
  members,   \* cluster_proc: how many stages a cluster has
  phys,      \* physical_proc_id
  unplaced,  \* history: the stages "error cannot allocate memory" was printed for
  number,    \* cluster_number: [sram, tcam] given
  bitmap,    \* cluster_bitmap: [sram, tcam] marked
  blocks,    \* the tables' key and value memory.config
  sent       \* the update emitted last: {[proc, id, act]}

allocation == <<home, space, members, phys, unplaced, number, bitmap, blocks>>
levels     == <<dist, total>>
vars       == <<pc, prog, lg, mem, now, out, incr, rest, dist, total, home, space, members,
                phys, unplaced, number, bitmap, blocks, sent>>

\* A map that holds nothing.
Nothing == [x \in {} |-> 0]
NoProgram == [stages |-> Nothing, prims |-> Nothing, params |-> Nothing,
              mem |-> Nothing, levels |-> Nothing]

Stages    == DOMAIN lg.stages
Tables    == DOMAIN mem
Order     == TopoOrder(StageNext(lg))

\* Memory no table has been given yet.
Untouched ==
  /\ home'     = Nothing
  /\ space'    = [c \in Cluster |-> [sram |-> SramCount, tcam |-> TcamCount]]
  /\ members'  = [c \in Cluster |-> 0]
  /\ phys'     = [i \in Slot |-> Unset]
  /\ unplaced' = {}
  /\ number'   = [c \in Cluster |-> [sram |-> 0, tcam |-> 0]]
  /\ bitmap'   = [c \in Cluster |-> [sram |-> {}, tcam |-> {}]]
  /\ blocks'   = [t \in DOMAIN mem' |-> [key |-> <<>>, value |-> <<>>]]

Init ==
  /\ pc = "idle" /\ prog = NoProgram /\ mem = Nothing /\ now = {} /\ out = {} /\ incr = FALSE
  /\ lg = Logical(NoProgram, Merged(NoProgram), 0)
  /\ rest = <<>> /\ dist = Nothing /\ total = Nothing
  /\ home = Nothing
  /\ space = [c \in Cluster |-> [sram |-> SramCount, tcam |-> TcamCount]]
  /\ members = [c \in Cluster |-> 0]
  /\ phys = [i \in Slot |-> Unset]
  /\ unplaced = {}
  /\ number = [c \in Cluster |-> [sram |-> 0, tcam |-> 0]]
  /\ bitmap = [c \in Cluster |-> [sram |-> {}, tcam |-> {}]]
  /\ blocks = Nothing /\ sent = {}

-----------------------------------------------------------------------------
(***************************************************************************)
(* Loading and the distribution of parser levels.                          *)
(***************************************************************************)
\* The compiler dies: an exception nobody catches, a null or a wild pointer.
Dies == /\ pc' = "dead"
        /\ UNCHANGED <<prog, lg, mem, now, out, incr, rest, levels, allocation, sent>>

\* IpsaTableManager::load gives a table without keys no width and no depth.
Geometry(p, key, value) ==
  [t \in DOMAIN p.mem |->
     IF p.mem[t].keyed THEN [type |-> p.mem[t].type, key |-> p.mem[t].key, value |-> p.mem[t].value]
     ELSE [type |-> "SRAM", key |-> key, value |-> value]]

\* initializeStages, for every program.
MergedOf == [p \in Programs |-> Merged(p)]

HasKeyless(p) == \E t \in DOMAIN p.mem : ~ p.mem[t].keyed

\* emitTask, its load; nobody looks at its result, and a program that did not parse
\* is compiled as one of no stages.
Load(p) ==
  /\ pc = "idle" /\ pc' = "parsers"
  /\ \E wild \in (IF ReadsWild(MergedOf[p]) THEN WildIds ELSE {0}),
        key \in (IF HasKeyless(p) THEN WildBlocks ELSE {0}),
        value \in (IF HasKeyless(p) THEN WildBlocks ELSE {0}) :
       /\ lg'  = Logical(p, MergedOf[p], wild)
       /\ mem' = Geometry(p, key, value)
  /\ prog' = p /\ incr' = FALSE /\ sent' = {} /\ out' = {}
  /\ rest' = <<>> /\ dist' = Nothing /\ total' = Nothing
  /\ Untouched
  /\ UNCHANGED now

LoadWild(p) ==
  /\ pc = "idle" /\ ReadsWild(MergedOf[p])
  /\ Dies

\* distributeParsers, its two sorts; on a cycle next_table.at(-1) throws.
SortStages ==
  /\ pc = "parsers"
  /\ \/ /\ IsAcyclic(StageNext(lg)) /\ IsAcyclic(LevelNext(lg))
        /\ pc' = "levels" /\ rest' = Order
        /\ UNCHANGED <<prog, lg, mem, now, out, incr, levels, allocation, sent>>
     \/ /\ ~ (IsAcyclic(StageNext(lg)) /\ IsAcyclic(LevelNext(lg)))
        /\ Dies

Before(s) == {q \in Stages : s \in StageNext(lg)[q]}

\* The levels every way to a stage has parsed, by the tables so far.
Inherited(s) ==
  {l \in DOMAIN lg.levels : Before(s) # {} /\ \A q \in Before(s) : l \in total[q]}

\* A fault: a level counts as parsed when some way to the stage has parsed it.
DistributeFromAny ==
  /\ pc = "levels" /\ rest # <<>>
  /\ LET s   == Head(rest)
         had == {l \in DOMAIN lg.levels : \E q \in Before(s) : l \in total[q]}
     IN /\ dist'  = [q \in DOMAIN dist \cup {s} |->
                       IF q = s THEN InParseOrder(lg, Needed(lg, s) \ had) ELSE dist[q]]
        /\ total' = [q \in DOMAIN total \cup {s} |->
                       IF q = s THEN had \cup Needed(lg, s) ELSE total[q]]
  /\ rest' = Tail(rest)
  /\ UNCHANGED <<pc, prog, lg, mem, now, out, incr, allocation, sent>>

\* distributeParsers, one stage of its last loop.
Distribute ==
  /\ pc = "levels" /\ rest # <<>>
  /\ LET s == Head(rest)
     IN /\ dist'  = [q \in DOMAIN dist \cup {s} |->
                       IF q = s THEN InParseOrder(lg, Needed(lg, s) \ Inherited(s)) ELSE dist[q]]
        /\ total' = [q \in DOMAIN total \cup {s} |->
                       IF q = s THEN Inherited(s) \cup Needed(lg, s) ELSE total[q]]
  /\ rest' = Tail(rest)
  /\ UNCHANGED <<pc, prog, lg, mem, now, out, incr, allocation, sent>>

-----------------------------------------------------------------------------
(***************************************************************************)
(* IpsaMemory::allocateMemory: first fit, in topological order.            *)
(***************************************************************************)
Sram(t) == mem[t].value + IF mem[t].type = "SRAM" THEN mem[t].key ELSE 0
Tcam(t) == IF mem[t].type = "TCAM" THEN mem[t].key ELSE 0

\* proc_space: the sums over a stage's tables.
TablesAt(s)  == lg.stages[s].tables
StageSram(s) == SumFunction([i \in DOMAIN TablesAt(s) |-> Sram(TablesAt(s)[i])])
StageTcam(s) == SumFunction([i \in DOMAIN TablesAt(s) |-> Tcam(TablesAt(s)[i])])

\* A fault: a cluster takes as many stages as have room in its memory.
FitsMemory(s, c) == space[c].sram >= StageSram(s) /\ space[c].tcam >= StageTcam(s)

Fits(s, c) == /\ members[c] < ClusterProcCount
              /\ space[c].sram >= StageSram(s) /\ space[c].tcam >= StageTcam(s)

NextSlot(c) == c * ClusterProcCount + members[c]

\* A fault: two stages of a cluster are given one slot.
SettleInPlace(s, c) ==
  /\ phys'    = [phys EXCEPT ![c * ClusterProcCount] = s]
  /\ members' = [members EXCEPT ![c] = @ + 1]
  /\ space'   = [space EXCEPT ![c].sram = @ - StageSram(s), ![c].tcam = @ - StageTcam(s)]

Settle(s, c) ==
  /\ phys'    = [phys EXCEPT ![NextSlot(c)] = s]
  /\ members' = [members EXCEPT ![c] = @ + 1]
  /\ space'   = [space EXCEPT ![c].sram = @ - StageSram(s), ![c].tcam = @ - StageTcam(s)]

Empty == [i \in Slot |-> NoStage]

AllocateMemory ==
  /\ pc = "levels" /\ rest = <<>> /\ now = {}
  /\ pc' = "place" /\ rest' = Order /\ phys' = Empty
  /\ UNCHANGED <<prog, lg, mem, now, out, incr, levels, home, space, members, unplaced,
                 number, bitmap, blocks, sent>>

Place ==
  /\ pc = "place" /\ rest # <<>>
  /\ \E c \in Cluster : /\ Fits(Head(rest), c)
                        /\ \A d \in Cluster : d < c => ~ Fits(Head(rest), d)
                        /\ Settle(Head(rest), c)
  /\ rest' = Tail(rest)
  /\ UNCHANGED <<pc, prog, lg, mem, now, out, incr, levels, home, unplaced, number, bitmap,
                 blocks, sent>>

\* "error cannot allocate memory for stage": the stage is left out.
PlaceNowhere ==
  /\ pc = "place" /\ rest # <<>>
  /\ \A c \in Cluster : ~ Fits(Head(rest), c)
  /\ unplaced' = unplaced \cup {Head(rest)}
  /\ rest' = Tail(rest)
  /\ UNCHANGED <<pc, prog, lg, mem, now, out, incr, levels, home, space, members, phys,
                 number, bitmap, blocks, sent>>

SlotsOf(s) == {i \in Slot : phys[i] = s}

\* The cluster whose blocks a stage's tables are numbered in; cluster 0 when the
\* stage has no place.
NumberedIn(s) ==
  IF SlotsOf(s) = {} THEN 0 ELSE ClusterOf(CHOOSE i \in SlotsOf(s) : TRUE)

StartNumbering ==
  /\ pc = "place" /\ rest = <<>>
  /\ pc' = "number" /\ rest' = <<0, 1>>
  /\ UNCHANGED <<prog, lg, mem, now, out, incr, levels, allocation, sent>>

AtTable == rest[1] \in Stages /\ rest[2] \in DOMAIN TablesAt(rest[1])

From(first, n) == [i \in 1 .. n |-> first + i - 1]

\* Two faults: each stage numbers its tables from the start; the value blocks are
\* numbered without counting the key blocks before them.
NumberFromZero ==
  /\ pc = "number" /\ AtTable
  /\ LET t == TablesAt(rest[1])[rest[2]]
         k == mem[t].key
     IN blocks' = [blocks EXCEPT
          ![t].key   = @ \o From(0, k),
          ![t].value = @ \o From(IF mem[t].type = "SRAM" THEN k ELSE 0, mem[t].value)]
  /\ rest' = <<rest[1], rest[2] + 1>>
  /\ UNCHANGED <<pc, prog, lg, mem, now, out, incr, levels, home, space, members, phys,
                 unplaced, number, bitmap, sent>>

NumberTable ==
  /\ pc = "number" /\ AtTable
  /\ LET t == TablesAt(rest[1])[rest[2]]
         c == NumberedIn(rest[1])
         k == mem[t].key
         y == number[c].sram + IF mem[t].type = "SRAM" THEN k ELSE 0
     IN /\ blocks' = [blocks EXCEPT
             ![t].key   = @ \o From(IF mem[t].type = "SRAM" THEN number[c].sram
                                    ELSE number[c].tcam, k),
             ![t].value = @ \o From(y, mem[t].value)]
        /\ number' = [number EXCEPT ![c].sram = @ + Sram(t), ![c].tcam = @ + Tcam(t)]
  /\ rest' = <<rest[1], rest[2] + 1>>
  /\ UNCHANGED <<pc, prog, lg, mem, now, out, incr, levels, home, space, members, phys,
                 unplaced, bitmap, sent>>

NumberNextStage ==
  /\ pc = "number" /\ rest[1] \in Stages /\ ~ AtTable
  /\ rest' = <<rest[1] + 1, 1>>
  /\ UNCHANGED <<pc, prog, lg, mem, now, out, incr, levels, allocation, sent>>

Numbered ==
  /\ pc = "number" /\ rest[1] \notin Stages
  /\ pc' = "procs" /\ rest' = <<>>
  /\ UNCHANGED <<prog, lg, mem, now, out, incr, levels, allocation, sent>>

-----------------------------------------------------------------------------
(***************************************************************************)
(* IpsaBuilder::allocateMemory(prev): keep the tables of the last task.    *)
(***************************************************************************)
Prev     == CHOOSE task \in now : TRUE
Existing == Tables \cap (IF now = {} THEN {} ELSE DOMAIN Prev.proc)

\* The clusters the existing tables tie a stage to.
Ties(s) == {ClusterOf(Prev.proc[t]) : t \in {t \in Existing : lg.proc[t] = s}}

\* Two tables of a stage in different clusters; a stage that is not there has 0.
Torn == \/ \E s \in Stages : Cardinality(Ties(s)) > 1
        \/ \E t \in Existing : lg.proc[t] \notin Stages /\ ClusterOf(Prev.proc[t]) # 0

\* A fault: a stage whose tables lie in two clusters is tied to one of them.
TieAnyway ==
  /\ pc = "levels" /\ rest = <<>> /\ now # {}
  /\ home' = [s \in Stages |-> IF Ties(s) = {} THEN -1 ELSE CHOOSE c \in Ties(s) : TRUE]
  /\ pc' = "fixed" /\ rest' = Order
  /\ UNCHANGED <<prog, lg, mem, now, out, incr, levels, space, members, phys, unplaced,
                 number, bitmap, blocks, sent>>

\* "existed table make the processors in clusters".
Tie ==
  /\ pc = "levels" /\ rest = <<>> /\ now # {}
  /\ ~ Torn
  /\ home' = [s \in Stages |-> IF Ties(s) = {} THEN -1 ELSE CHOOSE c \in Ties(s) : TRUE]
  /\ pc' = "fixed" /\ rest' = Order
  /\ UNCHANGED <<prog, lg, mem, now, out, incr, levels, space, members, phys, unplaced,
                 number, bitmap, blocks, sent>>

\* "locate fixed processors".
PlaceFixed ==
  /\ pc = "fixed" /\ rest # <<>>
  /\ \/ /\ home[Head(rest)] < 0
        /\ UNCHANGED <<space, members, phys>>
     \/ /\ home[Head(rest)] >= 0 /\ Fits(Head(rest), home[Head(rest)])
        /\ Settle(Head(rest), home[Head(rest)])
  /\ rest' = Tail(rest)
  /\ UNCHANGED <<pc, prog, lg, mem, now, out, incr, levels, home, unplaced, number, bitmap,
                 blocks, sent>>

\* "locate dynamic processors" never succeeds: the slot found is assigned to a
\* variable that shadows the one tested afterwards.
HasDynamic == \E s \in Stages : home[s] < 0

\* emitTask, when allocateMemory(prev) returns false: removeAllEntries, and a full
\* allocation.
StartOver ==
  /\ \/ pc = "levels" /\ rest = <<>> /\ now # {} /\ Torn
     \/ /\ pc = "fixed" /\ rest # <<>>
        /\ home[Head(rest)] >= 0 /\ ~ Fits(Head(rest), home[Head(rest)])
     \/ pc = "fixed" /\ rest = <<>> /\ HasDynamic
  /\ pc' = "place" /\ rest' = Order
  /\ home' = Nothing
  /\ space' = [c \in Cluster |-> [sram |-> SramCount, tcam |-> TcamCount]]
  /\ members' = [c \in Cluster |-> 0]
  /\ phys' = Empty
  /\ UNCHANGED <<prog, lg, mem, now, out, incr, levels, unplaced, number, bitmap, blocks, sent>>

\* The cluster an incremental task gives a table's blocks in.
BookedIn(t) == IF lg.proc[t] \in Stages THEN home[lg.proc[t]] ELSE 0

\* "existing tables": their blocks are copied and marked.
CopyTables ==
  /\ pc = "fixed" /\ rest = <<>> /\ ~ HasDynamic
  /\ blocks' = [t \in Tables |-> IF t \in Existing THEN Prev.blocks[t] ELSE blocks[t]]
  /\ bitmap' = [c \in Cluster |->
       LET here == {t \in Existing : BookedIn(t) = c}
           Keys(type) == UNION {ToSet(Prev.blocks[t].key) : t \in {t \in here : Prev.mem[t].type = type}}
       IN [tcam |-> Keys("TCAM"),
           sram |-> Keys("SRAM") \cup UNION {ToSet(Prev.blocks[t].value) : t \in here}]]
  /\ pc' = "book" /\ rest' = InOrder(Tables \ Existing)
  /\ incr' = TRUE
  /\ UNCHANGED <<prog, lg, mem, now, out, levels, home, space, members, phys, unplaced,
                 number, sent>>

\* The first n free numbers below a limit.
FirstFree(used, limit, n) ==
  LET free == InOrder((0 .. limit - 1) \ used)
  IN SubSeq(free, 1, IF n < Len(free) THEN n ELSE Len(free))

\* Looking for a free SRAM block n times marks the TCAM block of that number, and
\* so finds one block every time.
FreeSram(used, n) ==
  LET free == (0 .. SramCount - 1) \ used
  IN IF free = {} THEN <<>> ELSE [i \in 1 .. n |-> CHOOSE b \in free : \A d \in free : b <= d]

\* "other tables".
BookTable ==
  /\ pc = "book" /\ rest # <<>>
  /\ LET t     == Head(rest)
         c     == BookedIn(t)
         key   == IF mem[t].type = "TCAM" THEN FirstFree(bitmap[c].tcam, TcamCount, mem[t].key)
                  ELSE FreeSram(bitmap[c].sram, mem[t].key)
         value == FreeSram(bitmap[c].sram, mem[t].value)
     IN /\ blocks' = [blocks EXCEPT ![t] = [key |-> @.key \o key, value |-> @.value \o value]]
        /\ bitmap' = [bitmap EXCEPT ![c].tcam = @ \cup ToSet(key) \cup ToSet(value)]
  /\ rest' = Tail(rest)
  /\ UNCHANGED <<pc, prog, lg, mem, now, out, incr, levels, home, space, members, phys,
                 unplaced, number, sent>>

Booked ==
  /\ pc = "book" /\ rest = <<>>
  /\ pc' = "procs"
  /\ UNCHANGED <<prog, lg, mem, now, out, incr, rest, levels, allocation, sent>>

\* A bit past the end of a bitmap is written: a block the last task numbered beyond
\* the cluster, or an SRAM block with no TCAM block of that number.
Overrun ==
  /\ \/ /\ pc = "fixed" /\ rest = <<>> /\ ~ HasDynamic
        /\ \E t \in Existing :
             \/ \E b \in ToSet(Prev.blocks[t].key) :
                  b >= IF Prev.mem[t].type = "TCAM" THEN TcamCount ELSE SramCount
             \/ \E b \in ToSet(Prev.blocks[t].value) : b >= SramCount
     \/ /\ pc = "book" /\ rest # <<>> /\ Sram(Head(rest)) > 0
        /\ \E b \in ToSet(FreeSram(bitmap[BookedIn(Head(rest))].sram, 1)) : b >= TcamCount
  /\ Dies

-----------------------------------------------------------------------------
(***************************************************************************)
(* IpsaBuilder::allocateProcessors.                                        *)
(***************************************************************************)
\* physical_proc_id[i], read with operator[].
At(i) == IF phys[i] = Unset THEN 0 ELSE phys[i]

\* A processor of the output: the stage it holds (-1: only parser levels), its id,
\* the levels it parses.
EmptyProc == [stage |-> -1, id |-> -1, levels |-> <<>>]

Groups(seq) ==
  [g \in 1 .. (Len(seq) + MaxLevel - 1) \div MaxLevel |->
     SubSeq(seq, (g - 1) * MaxLevel + 1, IF g * MaxLevel < Len(seq) THEN g * MaxLevel ELSE Len(seq))]

\* The slots an extra processor may take: not used yet, and no stage there.  Reading
\* physical_proc_id of a slot it does not hold enters stage 0.
FreeSlots(acc) == {k \in Slot : acc.procs[k] = EmptyProc /\ At(k) = NoStage}
LeastSlot(S)   == CHOOSE k \in S : \A j \in S : k <= j

\* One group of parser levels of the stage in slot i: the last stays with the stage,
\* the others go to processors of their own, if there are any.
PutLevels(acc, i, group, last) ==
  IF last \/ FreeSlots(acc) = {}
  THEN [acc EXCEPT !.procs[i].levels = @ \o group, !.short = @ \/ ~ last]
  ELSE [acc EXCEPT !.procs[LeastSlot(FreeSlots(acc))] =
                       [stage |-> -1, id |-> acc.extra, levels |-> group],
                   !.extra = @ + 1]

PutStage(acc, i) ==
  LET s == At(i)
      groups == Groups(dist[s])
      put[g \in 0 .. Len(groups)] ==
        IF g = 0 THEN [acc EXCEPT !.procs[i] = [stage |-> s, id |-> s, levels |-> <<>>]]
        ELSE PutLevels(put[g - 1], i, groups[g], g = Len(groups))
  IN IF s < 0 THEN acc ELSE put[Len(groups)]

\* The processors, the next id for an extra one, and whether one was missing.
Built ==
  LET built[i \in 0 .. Cardinality(Slot)] ==
        IF i = 0 THEN [procs |-> [k \in Slot |-> EmptyProc], extra |-> Cardinality(Stages),
                       short |-> FALSE]
        ELSE PutStage(built[i - 1], i - 1)
  IN built[Cardinality(Slot)]

\* proc_proc: the first slot of a stage.
Slots(procs, n)  == {i \in Slot : procs[i].id = n /\ n >= 0}
ToSlot(procs, n) ==
  IF n = -1 THEN -1 ELSE IF Slots(procs, n) = {} THEN 0 ELSE LeastSlot(Slots(procs, n))

\* setNextId, which leaves alone what proc_proc does not hold; a stage in several
\* slots has one gateway, remapped once for each.
Remapped(procs, e, times) ==
  LET map[d \in 0 .. times] ==
        IF d = 0 THEN e.to
        ELSE IF Slots(procs, map[d - 1]) = {} THEN map[d - 1] ELSE LeastSlot(Slots(procs, map[d - 1]))
  IN IF e.type = "STAGE" THEN [e EXCEPT !.to = map[times]] ELSE e

\* The stage of a processor as the output has it.  The entries of the gateway but
\* the default keep the logical numbers.
Emitted(procs, s) ==
  LET stage == lg.stages[s]
      gw    == stage.gateway
      default == Remapped(procs, gw.default, Cardinality(Slots(procs, s)))
  IN [ap      |-> [i \in DOMAIN stage.ap |->
                     [act |-> stage.ap[i].act, next |-> ToSlot(procs, stage.ap[i].next)]],
      default |-> default,
      entries |-> [i \in DOMAIN gw.entries |->
                     IF gw.shared /\ i = 1 THEN default ELSE gw.entries[i]]]

\* A fault: the tables keep the numbers of their logical stages.
BuildProcessorsLogical ==
  /\ pc = "procs" /\ pc' = "idle"
  /\ Stages # {}
  /\ now' = {[proc |-> lg.proc, id |-> lg.id, mem |-> mem, blocks |-> blocks]}
  /\ out' = {[procs |-> Built.procs, short |-> Built.short,
              logic |-> [s \in Stages |-> Emitted(Built.procs, s)]]}
  /\ UNCHANGED <<prog, lg, mem, incr, rest, levels, allocation, sent>>

BuildProcessors ==
  /\ pc = "procs" /\ pc' = "idle"
  /\ incr => Stages # {}
  /\ LET built == Built
     IN /\ now' = {[proc |-> [t \in Tables |-> ToSlot(built.procs, lg.proc[t])],
                    id |-> lg.id, mem |-> mem, blocks |-> blocks]}
        /\ out' = {[procs |-> built.procs, short |-> built.short,
                    logic |-> [s \in Stages |-> Emitted(built.procs, s)]]}
  /\ UNCHANGED <<prog, lg, mem, incr, rest, levels, allocation, sent>>

\* After an incremental allocation every slot without a stage is read as stage 0;
\* a program without stages has none, and lookup answers a null pointer.
BuildNothing ==
  /\ pc = "procs" /\ incr /\ Stages = {}
  /\ Dies

\* emitUpdate: where the entry of table t goes, by the task compiled last.  One update
\* after a compile is enough: no later one reads it.
EmitUpdate(t, a) ==
  /\ pc = "idle" /\ now # {} /\ sent = {}
  /\ \/ /\ t \in DOMAIN Prev.proc /\ a \in DOMAIN prog.prims
        /\ sent' = {[table |-> t, proc |-> Prev.proc[t], id |-> Prev.id[t], act |-> a]}
        /\ UNCHANGED <<pc, prog, lg, mem, now, out, incr, rest, levels, allocation>>
     \/ /\ t \notin DOMAIN Prev.proc \/ a \notin DOMAIN prog.prims
        /\ Dies

Compile == \E p \in Programs : Load(p) \/ LoadWild(p)

Update ==
  \E t \in UNION {DOMAIN p.mem : p \in Programs}, a \in UpdateActs : EmitUpdate(t, a)

Emit ==
  \/ SortStages \/ Distribute
  \/ AllocateMemory \/ Place \/ PlaceNowhere \/ StartNumbering \/ NumberTable \/ NumberNextStage
  \/ Numbered
  \/ Tie \/ PlaceFixed \/ StartOver \/ CopyTables \/ BookTable \/ Booked \/ Overrun
  \/ BuildProcessors \/ BuildNothing

Next == Compile \/ Update \/ Emit

Spec == Init /\ [][Next]_vars

-----------------------------------------------------------------------------
(***************************************************************************)
(* What a compile has to preserve.                                         *)
(***************************************************************************)
\* The sequences of assignments a packet may cause by the output, from processor 0 on.
EmittedTraces(json) ==
  LET depth == Cardinality(Slot) + 1
      walk[d \in 0 .. depth] ==
        [i \in Slot \cup {-1} |->
           IF d = 0 \/ i = -1 THEN {<<>>}
           ELSE IF json.procs[i].stage < 0 THEN {<<>>}
           ELSE LET logic == json.logic[json.procs[i].stage]
                IN UNION {IF e.type = "STAGE" THEN walk[d - 1][e.to]
                          ELSE UNION {{lg.prims[x.act] \o w : w \in walk[d - 1][x.next]} :
                                        x \in ToSet(logic.ap)} :
                            e \in ToSet(logic.entries) \cup {logic.default}}]
  IN walk[depth][0]

Finished == pc = "idle" /\ now # {}

\* A full compile of such a program, all of whose stages found a place, gives a
\* pipeline that can cause exactly the assignments the program can, in their order:
\* initializeStages, reorderStages and allocateProcessors together.
WalkPreserved ==
  Finished /\ ~ incr /\ unplaced = {} /\ Plain(prog) => \A json \in out : EmittedTraces(json) = SourceTraces(prog)

\* The stages a gateway jumps to instead of matching.
GatewayNext(s) ==
  {e.to : e \in {e \in ToSet(lg.stages[s].gateway.entries) \cup {lg.stages[s].gateway.default} :
                  e.type = "STAGE"}}

\* The ways a packet may take, by actions and by gateways, from a stage no action leads
\* to.  A stage parses its levels before its gateway decides.
Ways ==
  LET ways[d \in 0 .. Cardinality(Stages)] ==
        IF d = 0 THEN {<<s>> : s \in {s \in Stages : Before(s) = {}}}
        ELSE ways[d - 1] \cup
               UNION {{Append(w, s) : s \in (StageNext(lg)[Last(w)] \cup GatewayNext(Last(w))) \cap Stages} :
                        w \in ways[d - 1]}
  IN ways[Cardinality(Stages)]

\* The levels parsed on a way, in the order they are parsed.
ParsedOn(w) == FlattenSeq([i \in DOMAIN w |-> dist[w[i]]])

\* distributeParsers counts the actions that lead to a stage and no gateway.  A jump of
\* a gateway to a stage that actions of other stages lead to is overlooked.
Overlooked(q, s) == Before(s) # {} /\ q \notin Before(s)
Foreseen(w) == \A i \in 1 .. Len(w) - 1 : ~ Overlooked(w[i], w[i + 1])

\* On every way a packet comes to a stage without an overlooked jump, the levels the
\* stage's headers need have been parsed, each after the levels that lead to it
\* (distributeParsers).  It does not hold without the condition: the stage a gateway
\* skips may be the one that was to parse a header.
LevelsInTime ==
  pc = "procs" =>
    \A w \in {w \in Ways : Foreseen(w)} :
      LET parsed == ParsedOn(w)
      IN /\ Needed(lg, Last(w)) \subseteq ToSet(parsed)
         /\ \A i \in DOMAIN parsed : \A l \in LevelsUpTo(lg, parsed[i]) \ {parsed[i]} :
              \E j \in 1 .. i - 1 : parsed[j] = l

\* The blocks of a table, by the kind of memory.
SramOf(t) == ToSet(blocks[t].value) \cup IF mem[t].type = "SRAM" THEN ToSet(blocks[t].key) ELSE {}
TcamOf(t) == IF mem[t].type = "TCAM" THEN ToSet(blocks[t].key) ELSE {}
Overlap(t, u) == SramOf(t) \cap SramOf(u) # {} \/ TcamOf(t) \cap TcamOf(u) # {}

\* A full allocation gives every table of a kept stage the blocks it asks for, no
\* block to two tables of a cluster, and none beyond the cluster when every stage
\* found a place, also after an incremental attempt was given up half way.
MemorySound ==
  pc = "procs" /\ ~ incr =>
    \A s \in Stages : \A t \in ToSet(lg.stages[s].tables) :
      /\ Cardinality(SramOf(t)) = Sram(t) /\ Cardinality(TcamOf(t)) = Tcam(t)
      /\ unplaced = {} => SramOf(t) \subseteq 0 .. SramCount - 1 /\ TcamOf(t) \subseteq 0 .. TcamCount - 1
      /\ \A r \in Stages : \A u \in ToSet(lg.stages[r].tables) :
           t # u /\ NumberedIn(r) = NumberedIn(s) => ~ Overlap(t, u)

\* A full allocation leaves every stage in one processor, or reports it.
PlacedOrReported ==
  pc = "number" => \A s \in Stages : Cardinality(SlotsOf(s)) = IF s \in unplaced THEN 0 ELSE 1

\* An entry emitted for a table of a stage that has a place goes to the processor of
\* that stage and to the table's own matcher there (emitUpdate, setupStages and the
\* two reorderStages).
UpdateReachesTable ==
  \A u \in sent : \A s \in Stages :
    (u.table \in ToSet(lg.stages[s].tables) /\ s \notin unplaced) =>
      \A json \in out : json.procs[u.proc].stage = s /\ lg.stages[s].tables[u.id + 1] = u.table

\* An update that succeeds leaves every table both tasks have in the blocks and in
\* the cluster it was in; not so the tables of stage 0, of which allocateProcessors
\* puts a copy in every slot that was not allocated.
ExistingStay ==
  [][pc = "procs" /\ incr /\ pc' = "idle" =>
       \A now2 \in now' : \A t \in Existing :
         /\ now2.blocks[t] = Prev.blocks[t]
         /\ lg.proc[t] \in Stages \ {0} => ClusterOf(now2.proc[t]) = ClusterOf(Prev.proc[t])]_vars

\* What the comment of allocateMemory(prev) says of an incremental update that gets
\* past its tests, that it is possible: no two tables of a cluster share a block.
UpdateSharesNoBlock ==
  pc = "procs" /\ incr =>
    \A t, u \in Tables : t # u /\ BookedIn(t) = BookedIn(u) => ~ Overlap(t, u)

\* Types; the functions' domains are the stages and tables of the program at hand.
TypeOK ==
  /\ pc \in {"idle", "parsers", "levels", "place", "number", "fixed", "book", "procs", "dead"}
  /\ phys \in [Slot -> Stages \cup {NoStage, Unset}]
  /\ members \in [Cluster -> 0 .. ClusterProcCount]
  /\ space \in [Cluster -> [sram : 0 .. SramCount, tcam : 0 .. TcamCount]]
  /\ number \in [Cluster -> [sram : Nat, tcam : Nat]]
  /\ DOMAIN home \subseteq Stages /\ \A s \in DOMAIN home : home[s] \in Cluster \cup {-1}
  /\ unplaced \subseteq Stages /\ DOMAIN blocks = Tables
  /\ Cardinality(now) <= 1 /\ Cardinality(out) <= 1 /\ Cardinality(sent) <= 1 /\ incr \in BOOLEAN
=============================================================================
