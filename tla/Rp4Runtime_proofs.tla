------------------------- MODULE Rp4Runtime_proofs --------------------------
(***************************************************************************)
(* Proofs about Rp4Runtime, for all programs and all sizes of the          *)
(* switch: the types of its state, the placement of the stages, the parser *)
(* levels they are given, the memory of a full allocation, the processors  *)
(* of the output, what an update keeps, and where the entries of a table   *)
(* go.                                                                     *)
(***************************************************************************)
EXTENDS Rp4Runtime, Rp4Stages_proofs

-----------------------------------------------------------------------------
(***************************************************************************)
(* The slots of the clusters.                                              *)
(***************************************************************************)
\* The first positive multiples: what the arithmetic below needs.
LEMMA SlotBound ==
  ASSUME NEW c \in Nat, NEW C \in Nat, c < C, NEW n \in Nat, NEW P \in Nat, n < P
  PROVE  /\ c * P + n \in Nat /\ c * P + n < C * P
<1>1. c + 1 <= C
  OBVIOUS
<1>2. (c + 1) * P <= C * P
  <2>1. PICK d \in Nat : C = c + 1 + d
    <3>1. C - (c + 1) \in Nat /\ C = c + 1 + (C - (c + 1))
      BY <1>1
    <3> QED BY <3>1
  <2>2. C * P = (c + 1) * P + d * P
    BY <2>1
  <2>3. d * P \in Nat /\ (c + 1) * P \in Nat
    OBVIOUS
  <2> QED BY <2>2, <2>3
<1>3. (c + 1) * P = c * P + P
  OBVIOUS
<1>4. c * P \in Nat /\ C * P \in Nat
  OBVIOUS
<1> QED
  BY <1>2, <1>3, <1>4

\* The places of a cluster are slots, its own.
LEMMA SlotOf ==
  ASSUME NEW c \in Cluster, NEW n \in Nat, n < ClusterProcCount
  PROVE  c * ClusterProcCount + n \in Slot /\ ClusterOf(c * ClusterProcCount + n) = c
<1>1. c \in Nat /\ c < ClusterCount /\ ClusterCount \in Nat /\ ClusterProcCount \in Nat \ {0}
  BY ClusterAssumption DEF Cluster
<1>2. PICK x : x = c * ClusterProcCount + n
  OBVIOUS
<1>3. x \in Nat /\ x < ClusterCount * ClusterProcCount
  BY <1>1, <1>2, SlotBound
<1>4. ClusterCount * ClusterProcCount \in Nat
  BY <1>1
<1>5. x = (ClusterProcCount * c) + n
  BY <1>1, <1>2
<1>6. x \div ClusterProcCount = c
  BY <1>1, <1>3, <1>5, Quotient
<1> QED
  BY <1>2, <1>3, <1>4, <1>6 DEF Slot, ClusterOf

\* Every slot is in a cluster; slot 0 exists.
LEMMA ClusterType ==
  /\ \A i \in Slot : i \in Nat /\ ClusterOf(i) \in Cluster
  /\ ClusterOf(-1) \in Cluster /\ 0 \in Cluster /\ 0 \in Slot
<1>1. ClusterCount \in Nat \ {0} /\ ClusterProcCount \in Nat \ {0}
  BY ClusterAssumption
<1>2. ClusterCount * ClusterProcCount \in Nat \ {0}
  BY <1>1
<1>3. ASSUME NEW i \in Slot PROVE i \in Nat /\ ClusterOf(i) \in Cluster
  <2>1. i \in Nat /\ i < ClusterCount * ClusterProcCount
    BY <1>2 DEF Slot
  <2>2. PICK q : q = i \div ClusterProcCount
    OBVIOUS
  <2>3. PICK r : r = i % ClusterProcCount
    OBVIOUS
  <2>4. q \in Nat /\ r \in 0 .. ClusterProcCount - 1 /\ i = (ClusterProcCount * q) + r
    BY <1>1, <2>1, <2>2, <2>3, DivMod
  <2>5. q < ClusterCount
    <3>1. SUFFICES ASSUME ClusterCount <= q PROVE FALSE
      BY <1>1, <2>4
    <3>2. PICK d \in Nat : q = ClusterCount + d
      <4>1. q - ClusterCount \in Nat /\ q = ClusterCount + (q - ClusterCount)
        BY <1>1, <2>4, <3>1
      <4> QED BY <4>1
    <3>3. ClusterProcCount * q = ClusterCount * ClusterProcCount + ClusterProcCount * d
      BY <1>1, <3>2
    <3>4. ClusterProcCount * d \in Nat
      BY <1>1
    <3> QED BY <1>1, <1>2, <2>1, <2>4, <3>3, <3>4
  <2> QED
    BY <1>1, <2>1, <2>2, <2>4, <2>5 DEF ClusterOf, Cluster
<1> QED
  BY <1>1, <1>2, <1>3 DEF ClusterOf, Cluster, Slot

-----------------------------------------------------------------------------
(***************************************************************************)
(* The program at hand.                                                    *)
(***************************************************************************)
NamesOnce == \A p \in Programs : NamedOnce(p)

\* lg and mem are made of the program that was read.
Loaded ==
  /\ IsProgram(prog) /\ (NamesOnce => NamedOnce(prog))
  /\ \E wild \in WildIds \cup {0} : lg = Logical(prog, Merged(prog), wild)
  /\ DOMAIN mem = DOMAIN prog.mem
  /\ mem \in [DOMAIN mem -> [type : {"SRAM", "TCAM"}, key : Nat, value : Nat]]

\* What of it the compiler relies on.
LEMMA LoadedFacts ==
  ASSUME Loaded
  PROVE  /\ IsNumbered(Stages) /\ IsFiniteSet(Stages) /\ Cardinality(Stages) \in Nat
         /\ Stages = 0 .. Cardinality(Stages) - 1
         /\ \A s \in Stages : s \in Nat
         /\ IsGraph(StageNext(lg)) /\ DOMAIN StageNext(lg) = Stages
         /\ IsGraph(LevelNext(lg)) /\ DOMAIN LevelNext(lg) = DOMAIN lg.levels
         /\ \A s \in Stages : TablesAt(s) \in Seq(Tables)
<1>1. PICK wild : lg = Logical(prog, Merged(prog), wild)
  BY DEF Loaded
<1>2. PICK st : st = Merged(prog)
  OBVIOUS
<1>3. IsProgram(prog) /\ lg = Logical(prog, st, wild) /\ Tables = DOMAIN prog.mem
  BY <1>1, <1>2 DEF Loaded, Tables
<1>4. IsNumbered(Stages) /\ DOMAIN lg.levels = DOMAIN prog.levels
  BY <1>3, LogicalStages DEF Stages
<1>5. \A s \in Stages : TablesAt(s) \in Seq(Tables)
  BY <1>3, LogicalTables DEF Stages, TablesAt
<1>6. IsFiniteSet(Stages) /\ Stages = 0 .. Cardinality(Stages) - 1 /\ Cardinality(Stages) \in Nat
  BY <1>4, FS_CardinalityType DEF IsNumbered
<1>7. \A s \in Stages : s \in Nat
  BY <1>6
<1>8. DOMAIN StageNext(lg) = Stages /\ DOMAIN LevelNext(lg) = DOMAIN lg.levels
  BY DEF StageNext, LevelNext, Stages
<1>9. IsFiniteSet(DOMAIN lg.levels) /\ \A l \in DOMAIN lg.levels : l \in Nat
  <2>1. IsNumbered(DOMAIN prog.levels)
    BY <1>3 DEF IsProgram
  <2> QED BY <1>4, <2>1, FS_CardinalityType DEF IsNumbered
<1> QED
  BY <1>4, <1>5, <1>6, <1>7, <1>8, <1>9 DEF IsGraph

LEMMA StagesAreNat == Loaded => \A s \in Stages : s \in Nat
  BY LoadedFacts

\* The order is one of all the stages, when there is no cycle.
LEMMA OrderFacts ==
  ASSUME Loaded
  PROVE  /\ Order \in Seq(Stages) /\ \A i, j \in 1 .. Len(Order) : Order[i] = Order[j] => i = j
         /\ IsAcyclic(StageNext(lg)) => ToSet(Order) = Stages
<1>1. IsGraph(StageNext(lg)) /\ DOMAIN StageNext(lg) = Stages
  BY LoadedFacts
<1>2. PICK next : next = StageNext(lg)
  OBVIOUS
<1>3. InTopo(next, TopoOrder(next)) /\ (IsAcyclic(next) => ToSet(TopoOrder(next)) = DOMAIN next)
  BY <1>1, <1>2, TopoFacts
<1>4. Order = TopoOrder(next)
  BY <1>2 DEF Order
<1> QED
  BY <1>1, <1>2, <1>3, <1>4 DEF InTopo

\* A program that is compiled is loaded.
LEMMA LoadLoads ==
  ASSUME NEW p \in Programs, Load(p)
  PROVE  Loaded'
<1>1. prog' = p /\ IsProgram(p)
  BY ProgramAssumption DEF Load
<1>2. PICK key \in Nat, value \in Nat : mem' = Geometry(p, key, value)
  BY ProgramAssumption DEF Load
<1>3. ASSUME NEW t \in DOMAIN p.mem
      PROVE  p.mem[t] \in [keyed : BOOLEAN, type : {"SRAM", "TCAM"}, key : Nat, value : Nat]
  BY <1>1 DEF IsProgram
<1>4. mem' \in [DOMAIN p.mem -> [type : {"SRAM", "TCAM"}, key : Nat, value : Nat]]
  <2>1. ASSUME NEW t \in DOMAIN p.mem
        PROVE  Geometry(p, key, value)[t] \in [type : {"SRAM", "TCAM"}, key : Nat, value : Nat]
    BY <1>3 DEF Geometry
  <2>2. DOMAIN Geometry(p, key, value) = DOMAIN p.mem
    BY DEF Geometry
  <2>3. Geometry(p, key, value) = [t \in DOMAIN p.mem |-> Geometry(p, key, value)[t]]
    BY DEF Geometry
  <2> QED BY <1>2, <2>1, <2>3
<1>5. \E wild \in WildIds \cup {0} : lg' = Logical(p, Merged(p), wild)
  BY DEF Load, MergedOf
<1>6. NamesOnce => NamedOnce(p)
  BY DEF NamesOnce
<1> QED
  BY <1>1, <1>4, <1>5, <1>6 DEF Loaded

\* The compiler starts with no program, and no other step changes the one it has.
LEMMA InitLoaded == Init => Loaded
<1>1. IsProgram(NoProgram)
  <2>1. IsNumbered({})
    BY FS_EmptySet DEF IsNumbered
  <2> QED BY <2>1, FS_EmptySet DEF IsProgram, NoProgram, Nothing, StageIds
<1>2. NamedOnce(NoProgram)
  BY DEF NamedOnce, NoProgram, Nothing, StageIds
<1> QED
  BY <1>1, <1>2 DEF Init, Loaded, NoProgram, Nothing

LEMMA ProgramStays == Loaded /\ UNCHANGED <<prog, lg, mem>> => Loaded'
  BY DEF Loaded

-----------------------------------------------------------------------------
(***************************************************************************)
(* The invariant of types and places.                                      *)
(***************************************************************************)
TypeInv ==
  /\ pc \in {"idle", "parsers", "levels", "place", "number", "fixed", "book", "procs", "dead"}
  /\ phys \in [Slot -> Stages \cup {NoStage, Unset}]
  /\ members \in [Cluster -> 0 .. ClusterProcCount]
  /\ space \in [Cluster -> [sram : 0 .. SramCount, tcam : 0 .. TcamCount]]
  /\ number \in [Cluster -> [sram : Nat, tcam : Nat]]
  /\ DOMAIN home \subseteq Stages /\ \A s \in DOMAIN home : home[s] \in Cluster \cup {-1}
  /\ unplaced \subseteq Stages /\ DOMAIN blocks = Tables /\ incr \in BOOLEAN
  /\ \A a, b \in now : a = b
  /\ \A a, b \in out : a = b
  /\ \A a, b \in sent : a = b
  /\ \A task \in now : \A t \in DOMAIN task.proc : task.proc[t] \in Slot \cup {-1}

\* A loop over the stages has stages to visit, each once, and begins with all.
Visiting ==
  /\ pc \in {"levels", "place", "fixed"} =>
       /\ rest \in Seq(Stages) /\ \A i, j \in 1 .. Len(rest) : rest[i] = rest[j] => i = j
       /\ ToSet(Order) = Stages
  /\ pc = "fixed" => DOMAIN home = Stages

\* No stage has two slots, and a cluster's slots are filled in order.
HasSlot(s) == \E i \in Slot : phys[i] = s
Settled ==
  /\ \A i, j \in Slot : phys[i] \in Stages /\ phys[i] = phys[j] => i = j
  /\ \A c \in Cluster, n \in 0 .. ClusterProcCount - 1 :
       members[c] <= n => phys[c * ClusterProcCount + n] \notin Stages

\* A stage that was visited has a slot or is reported, one that was not neither.
Waiting(s) == pc = "place" /\ s \in ToSet(rest)
Placement ==
  /\ pc \in {"parsers", "levels"} => \A s \in Stages : ~ HasSlot(s)
  /\ pc \in {"parsers", "levels", "fixed"} => unplaced = {}
  /\ pc \in {"place", "number"} =>
       \A s \in Stages : IF Waiting(s) THEN ~ HasSlot(s) /\ s \notin unplaced
                         ELSE HasSlot(s) <=> s \notin unplaced
  /\ pc = "fixed" => \A s \in ToSet(rest) : ~ HasSlot(s)

Inv == Loaded /\ TypeInv /\ Visiting /\ Settled /\ Placement

\* What taking the head of a sequence without repetitions leaves.
LEMMA TailOnce ==
  ASSUME NEW S, NEW seq \in Seq(S), seq # <<>>, \A i, j \in 1 .. Len(seq) : seq[i] = seq[j] => i = j
  PROVE  /\ Head(seq) \in S /\ Head(seq) \in ToSet(seq)
         /\ Tail(seq) \in Seq(S) /\ \A i, j \in 1 .. Len(Tail(seq)) : Tail(seq)[i] = Tail(seq)[j] => i = j
         /\ ToSet(Tail(seq)) = ToSet(seq) \ {Head(seq)}
<1>1. Len(seq) \in Nat \ {0} /\ Head(seq) = seq[1]
  BY EmptySeq
<1>2. PICK r : r = Tail(seq)
  OBVIOUS
<1>3. r \in Seq(S) /\ Len(r) = Len(seq) - 1 /\ \A i \in 1 .. Len(r) : r[i] = seq[i + 1]
  BY <1>2, HeadTailProperties
<1>4. Head(seq) \in S
  BY HeadTailProperties
<1>5. ASSUME NEW i \in 1 .. Len(r), NEW j \in 1 .. Len(r), r[i] = r[j] PROVE i = j
  <2>1. i + 1 \in 1 .. Len(seq) /\ j + 1 \in 1 .. Len(seq) /\ seq[i + 1] = seq[j + 1]
    BY <1>1, <1>3, <1>5
  <2>2. i + 1 = j + 1
    BY <2>1
  <2> QED BY <2>2
<1>6. DOMAIN seq = 1 .. Len(seq) /\ DOMAIN r = 1 .. Len(r)
  BY <1>3
<1>7. ASSUME NEW x \in ToSet(r) PROVE x \in ToSet(seq) \ {Head(seq)}
  <2>1. PICK i \in 1 .. Len(r) : x = r[i]
    BY <1>6 DEF ToSet
  <2>2. i + 1 \in 1 .. Len(seq) /\ x = seq[i + 1] /\ i + 1 # 1 /\ 1 \in 1 .. Len(seq)
    BY <1>1, <1>3, <2>1
  <2>3. x # seq[1]
    BY <2>2
  <2> QED BY <1>1, <1>6, <2>2, <2>3 DEF ToSet
<1>8. ASSUME NEW x \in ToSet(seq) \ {Head(seq)} PROVE x \in ToSet(r)
  <2>1. PICK i \in 1 .. Len(seq) : x = seq[i]
    BY <1>6 DEF ToSet
  <2>2. i # 1
    BY <1>1, <2>1
  <2>3. i - 1 \in 1 .. Len(r) /\ x = r[i - 1]
    BY <1>1, <1>3, <2>1, <2>2
  <2> QED BY <1>6, <2>3 DEF ToSet
<1>9. Head(seq) \in ToSet(seq)
  BY <1>1, <1>6 DEF ToSet
<1> QED
  BY <1>2, <1>3, <1>4, <1>5, <1>7, <1>8, <1>9

\* The memory a stage asks for is a number of blocks.
LEMMA TableSpace ==
  ASSUME Loaded, NEW t \in Tables
  PROVE  /\ Sram(t) \in Nat /\ Tcam(t) \in Nat /\ mem[t].key \in Nat /\ mem[t].value \in Nat
         /\ mem[t].type \in {"SRAM", "TCAM"}
<1>1. mem[t] \in [type : {"SRAM", "TCAM"}, key : Nat, value : Nat]
  BY DEF Loaded, Tables
<1> QED
  BY <1>1 DEF Sram, Tcam

LEMMA StageSpace ==
  ASSUME Loaded, NEW s \in Stages
  PROVE  StageSram(s) \in Nat /\ StageTcam(s) \in Nat
<1>1. PICK ts : ts = TablesAt(s)
  OBVIOUS
<1>2. ts \in Seq(Tables)
  BY <1>1, LoadedFacts
<1>3. DOMAIN ts = 1 .. Len(ts) /\ Len(ts) \in Nat
  BY <1>2
<1>10. IsFiniteSet(DOMAIN ts)
  BY <1>3, CountTo
<1>4. \A i \in DOMAIN ts : Sram(ts[i]) \in Nat /\ Tcam(ts[i]) \in Nat
  BY <1>2, <1>3, TableSpace
<1> DEFINE f == [i \in DOMAIN ts |-> Sram(ts[i])]
           g == [i \in DOMAIN ts |-> Tcam(ts[i])]
<1>5. \A i \in DOMAIN ts : f[i] \in Nat /\ g[i] \in Nat
  BY <1>4
<1>6. DOMAIN f = DOMAIN ts /\ DOMAIN g = DOMAIN ts
  OBVIOUS
<1>7. StageSram(s) = SumFunctionOnSet(f, DOMAIN ts) /\ StageTcam(s) = SumFunctionOnSet(g, DOMAIN ts)
  BY <1>1, <1>6 DEF StageSram, StageTcam, SumFunction
<1> HIDE DEF f, g
<1>8. SumFunctionOnSet(f, DOMAIN ts) \in Nat
  BY <1>10, <1>5, SumNat
<1>9. SumFunctionOnSet(g, DOMAIN ts) \in Nat
  BY <1>10, <1>5, SumNat
<1> QED
  BY <1>7, <1>8, <1>9

\* A stage that fits is put in a slot no other stage has.
LEMMA SettleStep ==
  ASSUME Loaded, TypeInv, Settled, NEW s \in Stages, ~ HasSlot(s), NEW c \in Cluster,
         Fits(s, c), Settle(s, c), UNCHANGED <<lg, mem>>
  PROVE  /\ phys' \in [Slot -> Stages \cup {NoStage, Unset}]
         /\ members' \in [Cluster -> 0 .. ClusterProcCount]
         /\ space' \in [Cluster -> [sram : 0 .. SramCount, tcam : 0 .. TcamCount]]
         /\ Settled'
         /\ \A r \in Stages : HasSlot(r)' <=> r = s \/ HasSlot(r)
<1>0. ClusterProcCount \in Nat \ {0} /\ SramCount \in Nat /\ TcamCount \in Nat
  BY ClusterAssumption
<1>1. PICK x : x = NextSlot(c)
  OBVIOUS
<1>2. PICK m : m = members[c]
  OBVIOUS
<1>3. m \in Nat /\ m < ClusterProcCount
  BY <1>0, <1>2 DEF TypeInv, Fits
<1>4. x = c * ClusterProcCount + m
  BY <1>1, <1>2 DEF NextSlot
<1>5. x \in Slot /\ ClusterOf(x) = c
  BY <1>3, <1>4, SlotOf
<1>6. phys[x] \notin Stages
  BY <1>0, <1>2, <1>3, <1>4 DEF Settled
<1>7. /\ phys' = [phys EXCEPT ![x] = s]
      /\ members' = [members EXCEPT ![c] = m + 1]
  BY <1>1, <1>2 DEF Settle
<1>8. phys' \in [Slot -> Stages \cup {NoStage, Unset}]
  BY <1>5, <1>7 DEF TypeInv
<1>9. members' \in [Cluster -> 0 .. ClusterProcCount]
  <2>1. m + 1 \in 0 .. ClusterProcCount
    BY <1>0, <1>3
  <2> QED BY <1>7, <2>1 DEF TypeInv
<1>10. space' \in [Cluster -> [sram : 0 .. SramCount, tcam : 0 .. TcamCount]]
  <2>1. space[c] \in [sram : 0 .. SramCount, tcam : 0 .. TcamCount]
    BY DEF TypeInv
  <2>2. PICK a : a = StageSram(s)
    OBVIOUS
  <2>3. PICK b : b = StageTcam(s)
    OBVIOUS
  <2>4. a \in Nat /\ b \in Nat
    BY <2>2, <2>3, StageSpace
  <2>5. space[c].sram >= a /\ space[c].tcam >= b
    BY <2>2, <2>3 DEF Fits
  <2>6. space[c].sram - a \in 0 .. SramCount /\ space[c].tcam - b \in 0 .. TcamCount
    BY <1>0, <2>1, <2>4, <2>5
  <2>7. space' = [space EXCEPT ![c].sram = @ - a, ![c].tcam = @ - b]
    BY <2>2, <2>3 DEF Settle
  <2> QED BY <2>1, <2>6, <2>7 DEF TypeInv
<1>11. Stages' = Stages
  BY DEF Stages
<1>12. phys \in [Slot -> Stages \cup {NoStage, Unset}]
  BY DEF TypeInv
<1>13. ASSUME NEW i \in Slot, NEW j \in Slot, phys'[i] \in Stages, phys'[i] = phys'[j] PROVE i = j
  <2>1. \A k \in Slot : phys[k] # s
    BY DEF HasSlot
  <2>2. CASE i = x
    BY <1>5, <1>7, <1>12, <1>13, <2>1, <2>2
  <2>3. CASE j = x
    BY <1>5, <1>7, <1>12, <1>13, <2>1, <2>3
  <2>4. CASE i # x /\ j # x
    <3>1. phys[i] \in Stages /\ phys[i] = phys[j]
      BY <1>7, <1>12, <1>13, <2>4
    <3> QED BY <3>1 DEF Settled
  <2> QED BY <2>2, <2>3, <2>4
<1>14. ASSUME NEW d \in Cluster, NEW n \in 0 .. ClusterProcCount - 1, members'[d] <= n
       PROVE  phys'[d * ClusterProcCount + n] \notin Stages
  <2>1. n \in Nat /\ n < ClusterProcCount
    BY <1>0
  <2>2. PICK y : y = d * ClusterProcCount + n
    OBVIOUS
  <2>3. y \in Slot /\ ClusterOf(y) = d
    BY <2>1, <2>2, SlotOf
  <2>4. members[d] <= n /\ (d = c => n # m)
    <3>1. CASE d = c
      <4>1. m + 1 <= n
        BY <1>7, <1>14, <3>1 DEF TypeInv
      <4> QED BY <1>2, <1>3, <2>1, <3>1, <4>1
    <3>2. CASE d # c
      BY <1>7, <1>14, <3>2 DEF TypeInv
    <3> QED BY <3>1, <3>2
  <2>5. y # x
    <3>1. SUFFICES ASSUME y = x PROVE FALSE
      OBVIOUS
    <3>2. d = c
      BY <1>5, <2>3, <3>1
    <3>3. PICK b : b = c * ClusterProcCount
      OBVIOUS
    <3>4. b \in Nat
      BY <1>0, <3>3 DEF Cluster
    <3>5. n = m
      BY <1>3, <1>4, <2>1, <2>2, <3>1, <3>2, <3>3, <3>4
    <3> QED BY <2>4, <3>2, <3>5
  <2>6. phys[y] \notin Stages
    BY <2>2, <2>4 DEF Settled
  <2> QED BY <1>7, <1>12, <2>2, <2>3, <2>5, <2>6
<1>15. Settled'
  BY <1>11, <1>13, <1>14 DEF Settled
<1>16. ASSUME NEW r \in Stages PROVE HasSlot(r)' <=> r = s \/ HasSlot(r)
  <2>1. phys'[x] = s /\ \A i \in Slot : i # x => phys'[i] = phys[i]
    BY <1>5, <1>7, <1>12
  <2>2. phys[x] # r
    BY <1>6
  <2> QED BY <1>5, <2>1, <2>2 DEF HasSlot
<1> QED
  BY <1>8, <1>9, <1>10, <1>15, <1>16

-----------------------------------------------------------------------------
(***************************************************************************)
(* Every step keeps the invariant.                                         *)
(***************************************************************************)
Program == <<prog, lg, mem>>
Places  == <<home, space, members, phys, unplaced>>

\* Stages and tables are those of the program.
LEMMA SameProgram ==
  ASSUME UNCHANGED Program
  PROVE  /\ Stages' = Stages /\ Tables' = Tables /\ Order' = Order
         /\ \A s : TablesAt(s)' = TablesAt(s)
  BY DEF Program, Stages, Tables, Order, TablesAt

\* Settled and HasSlot speak of the slots alone.
LEMMA SamePlaces ==
  ASSUME Settled, UNCHANGED Program, UNCHANGED <<phys, members>>
  PROVE  Settled' /\ \A s : HasSlot(s)' <=> HasSlot(s)
  BY DEF Settled, HasSlot, Program, Stages

\* Slots without stages.
LEMMA NoPlaces ==
  ASSUME Loaded', members' \in [Cluster -> 0 .. ClusterProcCount],
         NEW x \in {NoStage, Unset}, phys' = [i \in Slot |-> x]
  PROVE  /\ phys' \in [Slot -> Stages \cup {NoStage, Unset}]'
         /\ Settled' /\ \A s \in Stages' : ~ HasSlot(s)'
<1>1. (\A s \in Stages : s \in Nat)'
  BY StagesAreNat, PTL
<1>2. x \notin Stages'
  BY <1>1 DEF NoStage, Unset
<1>3. phys' \in [Slot -> Stages \cup {NoStage, Unset}]'
  OBVIOUS
<1>4. \A i \in Slot : phys'[i] \notin Stages'
  BY <1>2
<1>5. \A c \in Cluster, n \in 0 .. ClusterProcCount - 1 : phys'[c * ClusterProcCount + n] \notin Stages'
  <2>1. ASSUME NEW c \in Cluster, NEW n \in 0 .. ClusterProcCount - 1
        PROVE  c * ClusterProcCount + n \in Slot
    <3>1. n \in Nat /\ n < ClusterProcCount
      BY ClusterAssumption
    <3> QED BY <3>1, SlotOf
  <2> QED BY <1>4, <2>1
<1> QED
  BY <1>3, <1>4, <1>5 DEF Settled, HasSlot

\* The memory of a cluster that holds nothing.
LEMMA FullSpace ==
  /\ [c \in Cluster |-> [sram |-> SramCount, tcam |-> TcamCount]]
       \in [Cluster -> [sram : 0 .. SramCount, tcam : 0 .. TcamCount]]
  /\ [c \in Cluster |-> [sram |-> 0, tcam |-> 0]] \in [Cluster -> [sram : Nat, tcam : Nat]]
  /\ [c \in Cluster |-> 0] \in [Cluster -> 0 .. ClusterProcCount]
  BY ClusterAssumption

LEMMA InitInv == Init => Inv
<1> SUFFICES ASSUME Init PROVE Inv
  OBVIOUS
<1>1. Loaded
  BY InitLoaded
<1>2. \A s \in Stages : s \in Nat
  BY <1>1, LoadedFacts
<1>3. TypeInv
  <2>1. Tables = {} /\ DOMAIN Nothing = {}
    BY DEF Init, Tables, Nothing
  <2> QED
    BY <2>1, FullSpace DEF Init, TypeInv
<1>4. \A i \in Slot : phys[i] \notin Stages
  BY <1>2 DEF Init, Unset
<1>5. \A c \in Cluster, n \in 0 .. ClusterProcCount - 1 : phys[c * ClusterProcCount + n] \notin Stages
  <2>1. ASSUME NEW c \in Cluster, NEW n \in 0 .. ClusterProcCount - 1
        PROVE  c * ClusterProcCount + n \in Slot
    <3>1. n \in Nat /\ n < ClusterProcCount
      BY ClusterAssumption
    <3> QED BY <3>1, SlotOf
  <2> QED BY <1>4, <2>1
<1> QED
  BY <1>1, <1>3, <1>4, <1>5 DEF Inv, Settled, Visiting, Placement, HasSlot, Init

LEMMA LoadInv ==
  ASSUME Inv, NEW p \in Programs, Load(p)
  PROVE  Inv'
<1>1. Loaded'
  BY LoadLoads
<1>2. /\ pc' = "parsers" /\ incr' = FALSE /\ sent' = {} /\ out' = {} /\ now' = now
      /\ home' = Nothing /\ unplaced' = {}
      /\ space' = [c \in Cluster |-> [sram |-> SramCount, tcam |-> TcamCount]]
      /\ members' = [c \in Cluster |-> 0]
      /\ phys' = [i \in Slot |-> Unset]
      /\ number' = [c \in Cluster |-> [sram |-> 0, tcam |-> 0]]
      /\ DOMAIN blocks' = Tables'
  BY DEF Load, Untouched, Tables
<1>3. members' \in [Cluster -> 0 .. ClusterProcCount]
  BY <1>2, FullSpace
<1>4. /\ phys' \in [Slot -> Stages \cup {NoStage, Unset}]'
      /\ Settled' /\ \A s \in Stages' : ~ HasSlot(s)'
  BY <1>1, <1>2, <1>3, NoPlaces
<1>5. TypeInv'
  <2>1. DOMAIN Nothing = {}
    BY DEF Nothing
  <2>2. /\ \A a, b \in now : a = b
        /\ \A task \in now : \A t \in DOMAIN task.proc : task.proc[t] \in Slot \cup {-1}
    BY DEF Inv, TypeInv
  <2> QED
    BY <1>2, <1>3, <1>4, <2>1, <2>2, FullSpace DEF TypeInv
<1> QED
  BY <1>1, <1>2, <1>4, <1>5 DEF Inv, Visiting, Placement

\* A compiler that dies only stops.
LEMMA DiesInv == ASSUME Inv, Dies PROVE Inv'
<1>1. UNCHANGED Program /\ UNCHANGED Places /\ UNCHANGED <<number, blocks, now, out, sent, incr>>
      /\ pc' = "dead"
  BY DEF Dies, Program, Places, allocation
<1>2. Stages' = Stages /\ Tables' = Tables
  BY <1>1, SameProgram
<1>3. Loaded'
  BY <1>1, ProgramStays DEF Inv, Program
<1>4. TypeInv'
  BY <1>1, <1>2 DEF Inv, TypeInv, Places
<1>5. Settled'
  BY <1>1, SamePlaces DEF Inv, Places
<1> QED
  BY <1>1, <1>3, <1>4, <1>5 DEF Inv, Visiting, Placement

LEMMA SortStagesInv == ASSUME Inv, SortStages PROVE Inv'
<1>1. CASE Dies
  BY <1>1, DiesInv
<1>2. CASE ~ Dies
  <2>1. /\ pc = "parsers" /\ pc' = "levels" /\ rest' = Order
        /\ IsAcyclic(StageNext(lg))
        /\ UNCHANGED Program /\ UNCHANGED Places /\ UNCHANGED <<number, blocks, now, out, sent, incr>>
    BY <1>2 DEF SortStages, Program, Places, allocation
  <2>2. Stages' = Stages /\ Tables' = Tables /\ Order' = Order
    BY <2>1, SameProgram
  <2>3. Loaded'
    BY <2>1, ProgramStays DEF Inv, Program
  <2>4. TypeInv'
    BY <2>1, <2>2 DEF Inv, TypeInv, Places
  <2>5. Settled' /\ \A s : HasSlot(s)' <=> HasSlot(s)
    BY <2>1, SamePlaces DEF Inv, Places
  <2>6. Visiting'
    BY <2>1, <2>2, OrderFacts DEF Visiting, Inv
  <2>7. Placement'
    BY <2>1, <2>2, <2>5 DEF Placement, Inv, Places
  <2> QED
    BY <2>3, <2>4, <2>5, <2>6, <2>7 DEF Inv
<1> QED BY <1>1, <1>2

LEMMA DistributeInv == ASSUME Inv, Distribute PROVE Inv'
<1>1. /\ pc = "levels" /\ pc' = "levels" /\ rest # <<>> /\ rest' = Tail(rest)
      /\ UNCHANGED Program /\ UNCHANGED Places /\ UNCHANGED <<number, blocks, now, out, sent, incr>>
  BY DEF Distribute, Program, Places, allocation
<1>2. Stages' = Stages /\ Tables' = Tables /\ Order' = Order
  BY <1>1, SameProgram
<1>3. Loaded'
  BY <1>1, ProgramStays DEF Inv, Program
<1>4. TypeInv'
  BY <1>1, <1>2 DEF Inv, TypeInv, Places
<1>5. Settled' /\ \A s : HasSlot(s)' <=> HasSlot(s)
  BY <1>1, SamePlaces DEF Inv, Places
<1>6. Visiting'
  <2>1. rest \in Seq(Stages) /\ \A i, j \in 1 .. Len(rest) : rest[i] = rest[j] => i = j
    BY <1>1 DEF Inv, Visiting
  <2>2. /\ Tail(rest) \in Seq(Stages)
        /\ \A i, j \in 1 .. Len(Tail(rest)) : Tail(rest)[i] = Tail(rest)[j] => i = j
    BY <1>1, <2>1, TailOnce
  <2> QED BY <1>1, <1>2, <2>2 DEF Inv, Visiting
<1>7. Placement'
  BY <1>1, <1>2, <1>5 DEF Placement, Inv, Places
<1> QED
  BY <1>3, <1>4, <1>5, <1>6, <1>7 DEF Inv

LEMMA AllocateMemoryInv == ASSUME Inv, AllocateMemory PROVE Inv'
<1>1. /\ pc = "levels" /\ pc' = "place" /\ rest' = Order /\ phys' = [i \in Slot |-> NoStage]
      /\ UNCHANGED Program
      /\ UNCHANGED <<home, space, members, unplaced, number, blocks, now, out, sent, incr>>
  BY DEF AllocateMemory, Program, Empty
<1>2. Stages' = Stages /\ Tables' = Tables /\ Order' = Order
  BY <1>1, SameProgram
<1>3. Loaded'
  BY <1>1, ProgramStays DEF Inv, Program
<1>4. /\ phys' \in [Slot -> Stages \cup {NoStage, Unset}]'
      /\ Settled' /\ \A s \in Stages' : ~ HasSlot(s)'
  BY <1>1, <1>3, NoPlaces DEF Inv, TypeInv
<1>5. TypeInv'
  BY <1>1, <1>2, <1>4 DEF Inv, TypeInv
<1>6. Visiting'
  <2>1. ToSet(Order) = Stages
    BY <1>1 DEF Inv, Visiting
  <2> QED BY <1>1, <1>2, <2>1, OrderFacts DEF Visiting, Inv
<1>7. Placement'
  <2>1. unplaced = {} /\ ToSet(Order) = Stages
    BY <1>1 DEF Inv, Placement, Visiting
  <2> QED BY <1>1, <1>2, <1>4, <2>1 DEF Placement, Waiting
<1> QED
  BY <1>3, <1>4, <1>5, <1>6, <1>7 DEF Inv

\* Of a loop's next stage and the stages left after it.
LEMMA NextStage ==
  ASSUME Inv, pc \in {"levels", "place", "fixed"}, rest # <<>>
  PROVE  /\ Head(rest) \in Stages /\ Head(rest) \in ToSet(rest)
         /\ Tail(rest) \in Seq(Stages)
         /\ \A i, j \in 1 .. Len(Tail(rest)) : Tail(rest)[i] = Tail(rest)[j] => i = j
         /\ ToSet(Tail(rest)) = ToSet(rest) \ {Head(rest)}
<1>1. rest \in Seq(Stages) /\ \A i, j \in 1 .. Len(rest) : rest[i] = rest[j] => i = j
  BY DEF Inv, Visiting
<1> QED
  BY <1>1, TailOnce

LEMMA PlaceInv == ASSUME Inv, Place PROVE Inv'
<1>1. PICK c \in Cluster : Fits(Head(rest), c) /\ Settle(Head(rest), c)
  BY DEF Place
<1>2. /\ pc = "place" /\ pc' = "place" /\ rest # <<>> /\ rest' = Tail(rest)
      /\ UNCHANGED Program
      /\ UNCHANGED <<home, unplaced, number, blocks, now, out, sent, incr>>
  BY DEF Place, Program
<1>3. PICK s : s = Head(rest)
  OBVIOUS
<1>4. /\ s \in Stages /\ s \in ToSet(rest) /\ ToSet(rest') = ToSet(rest) \ {s}
      /\ rest' \in Seq(Stages) /\ \A i, j \in 1 .. Len(rest') : rest'[i] = rest'[j] => i = j
  BY <1>2, <1>3, NextStage
<1>5. Stages' = Stages /\ Tables' = Tables /\ Order' = Order
  BY <1>2, SameProgram
<1>6. Loaded'
  BY <1>2, ProgramStays DEF Inv, Program
<1>7. ~ HasSlot(s) /\ s \notin unplaced
  BY <1>2, <1>4 DEF Inv, Placement, Waiting
<1>8. /\ phys' \in [Slot -> Stages \cup {NoStage, Unset}]
      /\ members' \in [Cluster -> 0 .. ClusterProcCount]
      /\ space' \in [Cluster -> [sram : 0 .. SramCount, tcam : 0 .. TcamCount]]
      /\ Settled'
      /\ \A r \in Stages : HasSlot(r)' <=> r = s \/ HasSlot(r)
  <2>1. Fits(s, c) /\ Settle(s, c)
    BY <1>1, <1>3
  <2> QED BY <1>2, <1>4, <1>7, <2>1, SettleStep DEF Inv, Program
<1>9. TypeInv'
  BY <1>2, <1>5, <1>8 DEF Inv, TypeInv
<1>10. Visiting'
  BY <1>2, <1>4, <1>5 DEF Visiting, Inv
<1>11. Placement'
  <2>1. ASSUME NEW r \in Stages
        PROVE  IF Waiting(r)' THEN ~ HasSlot(r)' /\ r \notin unplaced'
               ELSE HasSlot(r)' <=> r \notin unplaced'
    <3>1. Waiting(r)' <=> Waiting(r) /\ r # s
      BY <1>2, <1>4 DEF Waiting
    <3>2. IF Waiting(r) THEN ~ HasSlot(r) /\ r \notin unplaced ELSE HasSlot(r) <=> r \notin unplaced
      BY <1>2 DEF Inv, Placement
    <3>3. HasSlot(r)' <=> r = s \/ HasSlot(r)
      BY <1>8
    <3> QED BY <1>2, <1>7, <3>1, <3>2, <3>3
  <2> QED BY <1>2, <1>5, <2>1 DEF Placement
<1> QED
  BY <1>6, <1>8, <1>9, <1>10, <1>11 DEF Inv

LEMMA PlaceNowhereInv == ASSUME Inv, PlaceNowhere PROVE Inv'
<1>1. PICK s : s = Head(rest)
  OBVIOUS
<1>2. /\ pc = "place" /\ pc' = "place" /\ rest # <<>> /\ rest' = Tail(rest)
      /\ unplaced' = unplaced \cup {s}
      /\ UNCHANGED Program
      /\ UNCHANGED <<home, space, members, phys, number, blocks, now, out, sent, incr>>
  BY <1>1 DEF PlaceNowhere, Program
<1>3. /\ s \in Stages /\ s \in ToSet(rest) /\ ToSet(rest') = ToSet(rest) \ {s}
      /\ rest' \in Seq(Stages) /\ \A i, j \in 1 .. Len(rest') : rest'[i] = rest'[j] => i = j
  BY <1>1, <1>2, NextStage
<1>4. Stages' = Stages /\ Tables' = Tables /\ Order' = Order
  BY <1>2, SameProgram
<1>5. Loaded'
  BY <1>2, ProgramStays DEF Inv, Program
<1>6. TypeInv'
  BY <1>2, <1>3, <1>4 DEF Inv, TypeInv
<1>7. Settled' /\ \A r : HasSlot(r)' <=> HasSlot(r)
  BY <1>2, SamePlaces DEF Inv
<1>8. Visiting'
  BY <1>2, <1>3, <1>4 DEF Visiting, Inv
<1>9. Placement'
  <2>1. ASSUME NEW r \in Stages
        PROVE  IF Waiting(r)' THEN ~ HasSlot(r)' /\ r \notin unplaced'
               ELSE HasSlot(r)' <=> r \notin unplaced'
    <3>1. Waiting(r)' <=> Waiting(r) /\ r # s
      BY <1>2, <1>3 DEF Waiting
    <3>2. IF Waiting(r) THEN ~ HasSlot(r) /\ r \notin unplaced ELSE HasSlot(r) <=> r \notin unplaced
      BY <1>2 DEF Inv, Placement
    <3>3. Waiting(s)
      BY <1>2, <1>3 DEF Waiting
    <3> QED BY <1>2, <1>7, <3>1, <3>2, <3>3
  <2> QED BY <1>2, <1>4, <2>1 DEF Placement
<1> QED
  BY <1>5, <1>6, <1>7, <1>8, <1>9 DEF Inv

\* Steps that touch neither the places nor the loops over the stages.
LEMMA QuietInv ==
  ASSUME Inv, UNCHANGED Program, UNCHANGED Places, TypeInv',
         \/ pc' \in {"idle", "book", "procs", "dead"}
         \/ pc' = "number" /\ (pc = "number" \/ (pc = "place" /\ rest = <<>>))
  PROVE  Inv'
<1>1. Stages' = Stages
  BY SameProgram
<1>2. Loaded'
  BY ProgramStays DEF Inv, Program
<1>3. Settled' /\ \A s : HasSlot(s)' <=> HasSlot(s)
  BY SamePlaces DEF Inv, Places
<1>4. Visiting'
  BY DEF Visiting
<1>5. Placement'
  <2>1. CASE pc' = "number"
    <3>1. ASSUME NEW s \in Stages PROVE ~ Waiting(s)
      BY <2>1 DEF Waiting, ToSet
    <3>2. \A s \in Stages : HasSlot(s) <=> s \notin unplaced
      BY <2>1, <3>1 DEF Inv, Placement
    <3> QED BY <1>1, <1>3, <2>1, <3>2 DEF Placement, Places, Waiting
  <2>2. CASE pc' # "number"
    BY <2>2 DEF Placement
  <2> QED BY <2>1, <2>2
<1> QED
  BY <1>2, <1>3, <1>4, <1>5 DEF Inv

\* A stage without a place is numbered in cluster 0.
LEMMA NumberedInType == \A s : NumberedIn(s) \in Cluster
  BY ClusterType DEF NumberedIn, SlotsOf

LEMMA NumberingInv ==
  ASSUME Inv, StartNumbering \/ NumberTable \/ NumberNextStage \/ Numbered
  PROVE  Inv'
<1>1. UNCHANGED Program /\ UNCHANGED Places /\ UNCHANGED <<now, out, sent, incr>>
  BY DEF StartNumbering, NumberTable, NumberNextStage, Numbered, Program, Places, allocation
<1>2. /\ pc' = "procs" \/ (pc' = "number" /\ (pc = "number" \/ (pc = "place" /\ rest = <<>>)))
  BY DEF StartNumbering, NumberTable, NumberNextStage, Numbered
<1>3. Stages' = Stages /\ Tables' = Tables
  BY <1>1, SameProgram
<1>4. DOMAIN blocks' = DOMAIN blocks
  BY DEF StartNumbering, NumberTable, NumberNextStage, Numbered, allocation
<1>5. number' \in [Cluster -> [sram : Nat, tcam : Nat]]
  <2>1. CASE NumberTable
    <3>1. rest[1] \in Stages /\ rest[2] \in DOMAIN TablesAt(rest[1])
      BY <2>1 DEF NumberTable, AtTable
    <3>2. PICK t : t = TablesAt(rest[1])[rest[2]]
      OBVIOUS
    <3>3. TablesAt(rest[1]) \in Seq(Tables)
      BY <3>1, LoadedFacts DEF Inv
    <3>4. t \in Tables
      BY <3>1, <3>2, <3>3
    <3>5. PICK c \in Cluster : c = NumberedIn(rest[1])
      BY NumberedInType
    <3>6. PICK a \in Nat : a = Sram(t)
      BY <3>4, TableSpace DEF Inv
    <3>7. PICK b \in Nat : b = Tcam(t)
      BY <3>4, TableSpace DEF Inv
    <3>8. number' = [number EXCEPT ![c].sram = @ + a, ![c].tcam = @ + b]
      BY <2>1, <3>2, <3>5, <3>6, <3>7 DEF NumberTable
    <3>9. number \in [Cluster -> [sram : Nat, tcam : Nat]]
      BY DEF Inv, TypeInv
    <3>10. number[c].sram + a \in Nat /\ number[c].tcam + b \in Nat
      BY <3>9
    <3> QED BY <3>8, <3>9, <3>10
  <2>2. CASE ~ NumberTable
    <3>1. number' = number
      BY <2>2 DEF StartNumbering, NumberNextStage, Numbered, allocation
    <3> QED BY <3>1 DEF Inv, TypeInv
  <2> QED BY <2>1, <2>2
<1>6. TypeInv'
  BY <1>1, <1>2, <1>3, <1>4, <1>5 DEF Inv, TypeInv, Places
<1> QED
  BY <1>1, <1>2, <1>6, QuietInv

\* The cluster a table of the last task is in.
LEMMA TiesType ==
  ASSUME Inv, now # {}, NEW s \in Stages
  PROVE  Ties(s) \subseteq Cluster
<1>1. Prev \in now
  BY DEF Prev
<1>2. \A t \in DOMAIN Prev.proc : Prev.proc[t] \in Slot \cup {-1}
  BY <1>1 DEF Inv, TypeInv
<1>3. Existing \subseteq DOMAIN Prev.proc
  BY DEF Existing
<1> QED
  BY <1>2, <1>3, ClusterType DEF Ties

LEMMA TieInv == ASSUME Inv, Tie PROVE Inv'
<1>1. /\ pc = "levels" /\ pc' = "fixed" /\ rest' = Order /\ now # {}
      /\ home' = [s \in Stages |-> IF Ties(s) = {} THEN -1 ELSE CHOOSE c \in Ties(s) : TRUE]
      /\ UNCHANGED Program
      /\ UNCHANGED <<space, members, phys, unplaced, number, blocks, now, out, sent, incr>>
  BY DEF Tie, Program
<1>2. Stages' = Stages /\ Tables' = Tables /\ Order' = Order
  BY <1>1, SameProgram
<1>3. Loaded'
  BY <1>1, ProgramStays DEF Inv, Program
<1>4. home' \in [Stages -> Cluster \cup {-1}]
  BY <1>1, TiesType
<1>5. TypeInv'
  BY <1>1, <1>2, <1>4 DEF Inv, TypeInv
<1>6. Settled' /\ \A s : HasSlot(s)' <=> HasSlot(s)
  BY <1>1, SamePlaces DEF Inv
<1>7. Visiting'
  <2>1. ToSet(Order) = Stages
    BY <1>1 DEF Inv, Visiting
  <2> QED BY <1>1, <1>2, <1>4, <2>1, OrderFacts DEF Visiting, Inv
<1>8. Placement'
  <2>1. /\ unplaced = {} /\ ToSet(Order) = Stages
        /\ \A s \in Stages : ~ HasSlot(s)
    BY <1>1 DEF Inv, Placement, Visiting
  <2> QED BY <1>1, <1>2, <1>6, <2>1 DEF Placement
<1> QED
  BY <1>3, <1>5, <1>6, <1>7, <1>8 DEF Inv

LEMMA PlaceFixedInv == ASSUME Inv, PlaceFixed PROVE Inv'
<1>1. PICK s : s = Head(rest)
  OBVIOUS
<1>2. /\ pc = "fixed" /\ pc' = "fixed" /\ rest # <<>> /\ rest' = Tail(rest)
      /\ UNCHANGED Program
      /\ UNCHANGED <<home, unplaced, number, blocks, now, out, sent, incr>>
  BY DEF PlaceFixed, Program
<1>3. /\ s \in Stages /\ s \in ToSet(rest) /\ ToSet(rest') = ToSet(rest) \ {s}
      /\ rest' \in Seq(Stages) /\ \A i, j \in 1 .. Len(rest') : rest'[i] = rest'[j] => i = j
  BY <1>1, <1>2, NextStage
<1>4. Stages' = Stages /\ Tables' = Tables /\ Order' = Order
  BY <1>2, SameProgram
<1>5. Loaded'
  BY <1>2, ProgramStays DEF Inv, Program
<1>6. ~ HasSlot(s)
  BY <1>2, <1>3 DEF Inv, Placement
<1>7. Visiting'
  BY <1>2, <1>3, <1>4 DEF Visiting, Inv
<1>8. CASE home[s] >= 0 /\ Fits(s, home[s]) /\ Settle(s, home[s])
  <2>1. PICK c \in Cluster : c = home[s]
    <3>1. s \in DOMAIN home
      BY <1>2, <1>3 DEF Inv, Visiting
    <3>2. home[s] \in Cluster \cup {-1} /\ home[s] # -1
      BY <1>8, <3>1 DEF Inv, TypeInv
    <3> QED BY <3>2
  <2>2. Fits(s, c) /\ Settle(s, c)
    BY <1>8, <2>1
  <2>3. /\ phys' \in [Slot -> Stages \cup {NoStage, Unset}]
        /\ members' \in [Cluster -> 0 .. ClusterProcCount]
        /\ space' \in [Cluster -> [sram : 0 .. SramCount, tcam : 0 .. TcamCount]]
        /\ Settled'
        /\ \A r \in Stages : HasSlot(r)' <=> r = s \/ HasSlot(r)
    BY <1>2, <1>3, <1>6, <2>2, SettleStep DEF Inv, Program
  <2>4. TypeInv'
    BY <1>2, <1>4, <2>3 DEF Inv, TypeInv
  <2>5. Placement'
    <3>1. ToSet(rest) \subseteq Stages
      <4>1. rest \in Seq(Stages)
        BY <1>2 DEF Inv, Visiting
      <4> QED BY <4>1 DEF ToSet
    <3> QED BY <1>2, <1>3, <2>3, <3>1 DEF Placement, Inv
  <2> QED BY <1>5, <1>7, <2>3, <2>4, <2>5 DEF Inv
<1>9. CASE UNCHANGED <<space, members, phys>>
  <2>1. TypeInv'
    BY <1>2, <1>4, <1>9 DEF Inv, TypeInv
  <2>2. Settled' /\ \A r : HasSlot(r)' <=> HasSlot(r)
    BY <1>2, <1>9, SamePlaces DEF Inv
  <2>3. Placement'
    BY <1>2, <1>3, <2>2 DEF Placement, Inv
  <2> QED BY <1>5, <1>7, <2>1, <2>2, <2>3 DEF Inv
<1> QED
  BY <1>1, <1>8, <1>9 DEF PlaceFixed

LEMMA StartOverInv == ASSUME Inv, StartOver PROVE Inv'
<1>1. /\ pc \in {"levels", "fixed"} /\ pc' = "place" /\ rest' = Order
      /\ phys' = [i \in Slot |-> NoStage]
      /\ home' = Nothing
      /\ space' = [c \in Cluster |-> [sram |-> SramCount, tcam |-> TcamCount]]
      /\ members' = [c \in Cluster |-> 0]
      /\ UNCHANGED Program
      /\ UNCHANGED <<unplaced, number, blocks, now, out, sent, incr>>
  BY DEF StartOver, Program, Empty
<1>2. Stages' = Stages /\ Tables' = Tables /\ Order' = Order
  BY <1>1, SameProgram
<1>3. Loaded'
  BY <1>1, ProgramStays DEF Inv, Program
<1>4. members' \in [Cluster -> 0 .. ClusterProcCount]
  BY <1>1, FullSpace
<1>5. /\ phys' \in [Slot -> Stages \cup {NoStage, Unset}]'
      /\ Settled' /\ \A s \in Stages' : ~ HasSlot(s)'
  BY <1>1, <1>3, <1>4, NoPlaces
<1>6. TypeInv'
  <2>1. DOMAIN Nothing = {}
    BY DEF Nothing
  <2> QED BY <1>1, <1>2, <1>4, <1>5, <2>1, FullSpace DEF Inv, TypeInv
<1>7. Visiting'
  <2>1. ToSet(Order) = Stages
    BY <1>1 DEF Inv, Visiting
  <2> QED BY <1>1, <1>2, <2>1, OrderFacts DEF Visiting, Inv
<1>8. Placement'
  <2>1. unplaced = {} /\ ToSet(Order) = Stages
    BY <1>1 DEF Inv, Placement, Visiting
  <2> QED BY <1>1, <1>2, <1>5, <2>1 DEF Placement, Waiting
<1> QED
  BY <1>3, <1>5, <1>6, <1>7, <1>8 DEF Inv

LEMMA BookingInv ==
  ASSUME Inv, CopyTables \/ BookTable \/ Booked
  PROVE  Inv'
<1>1. /\ UNCHANGED Program /\ UNCHANGED Places /\ UNCHANGED <<number, now, out, sent>>
      /\ pc' \in {"book", "procs"} /\ incr' \in BOOLEAN
  BY DEF CopyTables, BookTable, Booked, Program, Places, allocation, Inv, TypeInv
<1>2. Stages' = Stages /\ Tables' = Tables
  BY <1>1, SameProgram
<1>3. DOMAIN blocks' = Tables
  <2>1. DOMAIN blocks = Tables
    BY DEF Inv, TypeInv
  <2>2. CASE CopyTables
    BY <2>2 DEF CopyTables
  <2>3. CASE BookTable
    BY <2>1, <2>3 DEF BookTable
  <2>4. CASE Booked
    BY <2>1, <2>4 DEF Booked, allocation
  <2> QED BY <2>2, <2>3, <2>4
<1>4. TypeInv'
  BY <1>1, <1>2, <1>3 DEF Inv, TypeInv, Places
<1> QED
  BY <1>1, <1>4, QuietInv

\* A processor's number in the output is a slot, or -1.
LEMMA ToSlotType == \A procs, n : ToSlot(procs, n) \in Slot \cup {-1}
<1>1. SUFFICES ASSUME NEW procs, NEW n PROVE ToSlot(procs, n) \in Slot \cup {-1}
  OBVIOUS
<1>2. PICK S : S = Slots(procs, n)
  OBVIOUS
<1>3. S \subseteq Slot
  BY <1>2 DEF Slots
<1>4. CASE S = {}
  BY <1>2, <1>4, ClusterType DEF ToSlot
<1>5. CASE S # {}
  <2>1. S \subseteq Nat
    BY <1>3, ClusterType
  <2>2. \E k \in S : \A j \in S : k <= j
    BY <1>5, <2>1, LeastElement
  <2>3. LeastSlot(S) \in S
    BY <2>2 DEF LeastSlot
  <2> QED BY <1>2, <1>3, <1>5, <2>3 DEF ToSlot
<1> QED BY <1>4, <1>5

LEMMA BuildProcessorsInv == ASSUME Inv, BuildProcessors PROVE Inv'
<1>1. /\ pc' = "idle" /\ UNCHANGED Program /\ UNCHANGED Places
      /\ UNCHANGED <<number, blocks, sent, incr>>
  BY DEF BuildProcessors, Program, Places, allocation
<1>2. PICK built : /\ now' = {[proc |-> [t \in Tables |-> ToSlot(built.procs, lg.proc[t])],
                               id |-> lg.id, mem |-> mem, blocks |-> blocks]}
                   /\ out' = {[procs |-> built.procs, short |-> built.short,
                               logic |-> [s \in Stages |-> Emitted(built.procs, s)]]}
  BY DEF BuildProcessors
<1>3. Stages' = Stages /\ Tables' = Tables
  BY <1>1, SameProgram
<1>4. \A a, b \in now' : a = b
  BY <1>2
<1>5. \A a, b \in out' : a = b
  BY <1>2
<1>6. \A task \in now' : \A t \in DOMAIN task.proc : task.proc[t] \in Slot \cup {-1}
  BY <1>2, ToSlotType
<1>7. TypeInv'
  BY <1>1, <1>3, <1>4, <1>5, <1>6 DEF Inv, TypeInv, Places
<1> QED
  BY <1>1, <1>7, QuietInv

LEMMA EmitUpdateInv == ASSUME Inv, NEW t, NEW a, EmitUpdate(t, a) PROVE Inv'
<1>1. CASE Dies
  BY <1>1, DiesInv
<1>2. CASE ~ Dies
  <2>1. /\ pc = "idle" /\ pc' = "idle" /\ UNCHANGED Program /\ UNCHANGED Places
        /\ UNCHANGED <<now, out, number, blocks, incr>>
        /\ sent' = {[table |-> t, proc |-> Prev.proc[t], id |-> Prev.id[t], act |-> a]}
    BY <1>2 DEF EmitUpdate, Program, Places, allocation
  <2>2. Stages' = Stages /\ Tables' = Tables
    BY <2>1, SameProgram
  <2>3. \A u, v \in sent' : u = v
    BY <2>1
  <2>4. TypeInv'
    BY <2>1, <2>2, <2>3 DEF Inv, TypeInv, Places
  <2> QED BY <2>1, <2>4, QuietInv
<1> QED BY <1>1, <1>2

\* The invariant holds in every state.
LEMMA NextInv == Inv /\ [Next]_vars => Inv'
<1> SUFFICES ASSUME Inv, [Next]_vars PROVE Inv'
  OBVIOUS
<1>1. ASSUME NEW p \in Programs, Load(p) PROVE Inv'
  BY <1>1, LoadInv
<1>2. ASSUME NEW p \in Programs, LoadWild(p) PROVE Inv'
  BY <1>2, DiesInv DEF LoadWild
<1>3. CASE Update
  BY <1>3, EmitUpdateInv DEF Update
<1>4. CASE SortStages
  BY <1>4, SortStagesInv
<1>5. CASE Distribute
  BY <1>5, DistributeInv
<1>6. CASE AllocateMemory
  BY <1>6, AllocateMemoryInv
<1>7. CASE Place
  BY <1>7, PlaceInv
<1>8. CASE PlaceNowhere
  BY <1>8, PlaceNowhereInv
<1>9. CASE StartNumbering \/ NumberTable \/ NumberNextStage \/ Numbered
  BY <1>9, NumberingInv
<1>10. CASE Tie
  BY <1>10, TieInv
<1>11. CASE PlaceFixed
  BY <1>11, PlaceFixedInv
<1>12. CASE StartOver
  BY <1>12, StartOverInv
<1>13. CASE CopyTables \/ BookTable \/ Booked
  BY <1>13, BookingInv
<1>14. CASE Overrun \/ BuildNothing
  BY <1>14, DiesInv DEF Overrun, BuildNothing
<1>15. CASE BuildProcessors
  BY <1>15, BuildProcessorsInv
<1>16. CASE UNCHANGED vars
  <2>1. UNCHANGED <<pc, rest, now, out, sent, incr, number, blocks>>
        /\ UNCHANGED Program /\ UNCHANGED Places
    BY <1>16 DEF vars, Program, Places
  <2>2. Stages' = Stages /\ Tables' = Tables /\ Order' = Order
    BY <2>1, SameProgram
  <2>3. Loaded'
    BY <2>1, ProgramStays DEF Inv, Program
  <2>4. TypeInv'
    BY <2>1, <2>2 DEF Inv, TypeInv, Places
  <2>5. Settled' /\ \A s : HasSlot(s)' <=> HasSlot(s)
    BY <2>1, SamePlaces DEF Inv, Places
  <2>6. Visiting'
    BY <2>1, <2>2 DEF Inv, Visiting, Places
  <2>7. \A s : Waiting(s)' <=> Waiting(s)
    BY <2>1 DEF Waiting
  <2>8. Placement'
    BY <2>1, <2>2, <2>5, <2>7 DEF Inv, Placement, Places
  <2> QED BY <2>3, <2>4, <2>5, <2>6, <2>8 DEF Inv
<1> QED
  BY <1>1, <1>2, <1>3, <1>4, <1>5, <1>6, <1>7, <1>8, <1>9, <1>10, <1>11, <1>12, <1>13, <1>14,
     <1>15, <1>16 DEF Next, Compile, Emit

\* What the compiler knows of the program it read, of the stages its loops have still to
\* visit and of the slots it has filled holds in every state.
THEOREM Invariance == Spec => []Inv
<1>1. Inv /\ [Next]_vars => Inv'
  BY NextInv
<1> QED
  BY InitInv, <1>1, PTL DEF Spec

\* The types of the compiler's state.
THEOREM TypeCorrect == Spec => []TypeOK
<1>1. Inv => TypeOK
  <2> SUFFICES ASSUME Inv PROVE TypeOK
    OBVIOUS
  <2>1. \A S : (\A a, b \in S : a = b) => Cardinality(S) <= 1
    <3> SUFFICES ASSUME NEW S, \A a, b \in S : a = b PROVE Cardinality(S) <= 1
      OBVIOUS
    <3>1. CASE S = {}
      BY <3>1, FS_EmptySet
    <3>2. CASE S # {}
      <4>1. PICK x \in S : TRUE
        BY <3>2
      <4>2. S = {x}
        BY <4>1
      <4> QED BY <4>2, FS_Singleton
    <3> QED BY <3>1, <3>2
  <2>2. Cardinality(now) <= 1 /\ Cardinality(out) <= 1 /\ Cardinality(sent) <= 1
    BY <2>1 DEF Inv, TypeInv
  <2> QED
    BY <2>2 DEF Inv, TypeInv, TypeOK
<1> QED
  BY <1>1, Invariance, PTL

\* A full allocation leaves every stage in one processor, or reports it: first fit over
\* the topological order visits every stage once, and fills each slot once.
THEOREM Placed == Spec => []PlacedOrReported
<1>1. Inv => PlacedOrReported
  <2> SUFFICES ASSUME Inv, pc = "number", NEW s \in Stages
               PROVE  Cardinality(SlotsOf(s)) = IF s \in unplaced THEN 0 ELSE 1
    BY DEF PlacedOrReported
  <2>1. HasSlot(s) <=> s \notin unplaced
    BY DEF Inv, Placement, Waiting
  <2>2. CASE s \in unplaced
    <3>1. SlotsOf(s) = {}
      BY <2>1, <2>2 DEF SlotsOf, HasSlot
    <3> QED BY <2>2, <3>1, FS_EmptySet
  <2>3. CASE s \notin unplaced
    <3>1. PICK i \in Slot : phys[i] = s
      BY <2>1, <2>3 DEF HasSlot
    <3>2. SlotsOf(s) = {i}
      BY <3>1 DEF SlotsOf, Inv, Settled
    <3> QED BY <2>3, <3>2, FS_Singleton
  <2> QED BY <2>2, <2>3
<1> QED
  BY <1>1, Invariance, PTL

-----------------------------------------------------------------------------
(***************************************************************************)
(* The levels are parsed in time.                                          *)
(***************************************************************************)
\* What the loop of distributeParsers leaves of a stage it has visited.
Distributed(s) ==
  /\ Before(s) \subseteq DOMAIN total
  /\ total[s] = Inherited(s) \cup Needed(lg, s)
  /\ dist[s] = InParseOrder(lg, Needed(lg, s) \ Inherited(s))

\* The stages before one that is still to be visited were visited or come first.
Queued ==
  /\ DOMAIN total \cap ToSet(rest) = {} /\ DOMAIN total \cup ToSet(rest) = Stages
  /\ \A i \in 1 .. Len(rest) : \A q \in Stages : rest[i] \in StageNext(lg)[q] =>
       q \in DOMAIN total \/ \E j \in 1 .. i - 1 : rest[j] = q

LevelInv ==
  /\ pc = "parsers" => DOMAIN dist = {} /\ DOMAIN total = {}
  /\ pc \in {"levels", "place", "number", "fixed", "book", "procs"} =>
       /\ IsAcyclic(LevelNext(lg))
       /\ DOMAIN dist = DOMAIN total
       /\ \A s \in DOMAIN total : Distributed(s)
  /\ pc = "levels" => Queued
  /\ pc \in {"place", "number", "fixed", "book", "procs"} => DOMAIN total = Stages

\* A step that leaves the stages and their levels alone leaves what was computed.
LEMMA SameLevels ==
  ASSUME UNCHANGED <<lg, levels>>
  PROVE  /\ Stages' = Stages /\ total' = total /\ dist' = dist /\ LevelNext(lg)' = LevelNext(lg)
         /\ \A s : Before(s)' = Before(s)
         /\ \A s : Distributed(s)' <=> Distributed(s)
<1>1. lg' = lg /\ total' = total /\ dist' = dist
  BY DEF levels
<1>2. Stages' = Stages
  BY <1>1 DEF Stages
<1>3. \A s : Before(s)' = Before(s)
  BY <1>1, <1>2 DEF Before
<1>4. \A s : Inherited(s)' = Inherited(s)
  BY <1>1, <1>3 DEF Inherited
<1>5. LevelNext(lg)' = LevelNext(lg)
  BY <1>1
<1>6. ASSUME NEW s PROVE Distributed(s)' <=> Distributed(s)
  <2>1. Needed(lg, s)' = Needed(lg, s) /\ Inherited(s)' = Inherited(s)
    BY <1>1, <1>4
  <2> QED BY <1>1, <1>3, <2>1 DEF Distributed
<1> QED
  BY <1>1, <1>2, <1>3, <1>5, <1>6

\* Where the levels are not looked at, and where they are not touched.
LEMMA IdleLevels == ASSUME pc' \in {"idle", "dead"} PROVE LevelInv'
  BY DEF LevelInv

LEMMA QuietLevels ==
  ASSUME LevelInv, UNCHANGED <<lg, levels>>,
         pc \in {"place", "number", "fixed", "book", "procs"},
         pc' \in {"place", "number", "fixed", "book", "procs"}
  PROVE  LevelInv'
<1>1. /\ IsAcyclic(LevelNext(lg)) /\ DOMAIN dist = DOMAIN total
      /\ \A s \in DOMAIN total : Distributed(s)
      /\ DOMAIN total = Stages
  BY DEF LevelInv
<1>2. /\ Stages' = Stages /\ total' = total /\ dist' = dist /\ LevelNext(lg)' = LevelNext(lg)
      /\ \A s : Distributed(s)' <=> Distributed(s)
  BY SameLevels
<1>3. IsAcyclic(LevelNext(lg))'
  BY <1>1, <1>2
<1>4. pc' # "parsers" /\ pc' # "levels"
  OBVIOUS
<1> QED
  BY <1>1, <1>2, <1>3, <1>4 DEF LevelInv

\* After the last stage every stage has its levels.
LEMMA DoneLevels ==
  ASSUME LevelInv, pc = "levels", rest = <<>>, UNCHANGED <<lg, levels>>,
         pc' \in {"place", "fixed"}
  PROVE  LevelInv'
<1>1. /\ IsAcyclic(LevelNext(lg)) /\ DOMAIN dist = DOMAIN total
      /\ \A s \in DOMAIN total : Distributed(s)
      /\ DOMAIN total \cup ToSet(rest) = Stages
  BY DEF LevelInv, Queued
<1>2. ToSet(rest) = {}
  BY EmptySeq DEF ToSet
<1>3. /\ Stages' = Stages /\ total' = total /\ dist' = dist /\ LevelNext(lg)' = LevelNext(lg)
      /\ \A s : Distributed(s)' <=> Distributed(s)
  BY SameLevels
<1>4. IsAcyclic(LevelNext(lg))'
  BY <1>1, <1>3
<1>5. pc' # "parsers" /\ pc' # "levels"
  OBVIOUS
<1>6. DOMAIN total = Stages
  BY <1>1, <1>2
<1> QED
  BY <1>1, <1>3, <1>4, <1>5, <1>6 DEF LevelInv

\* The sort lists every stage after the ones before it.
LEMMA SortLevels == ASSUME Inv, LevelInv, SortStages PROVE LevelInv'
<1>1. CASE Dies
  <2>1. pc' \in {"idle", "dead"}
    BY <1>1 DEF Dies
  <2> QED BY <2>1, IdleLevels
<1>2. CASE ~ Dies
  <2>1. /\ pc = "parsers" /\ pc' = "levels" /\ rest' = Order
        /\ IsAcyclic(StageNext(lg)) /\ IsAcyclic(LevelNext(lg))
        /\ UNCHANGED <<lg, levels>>
    BY <1>2 DEF SortStages
  <2>2. DOMAIN dist = {} /\ DOMAIN total = {}
    BY <2>1 DEF LevelInv
  <2>3. /\ Stages' = Stages /\ total' = total /\ dist' = dist /\ LevelNext(lg)' = LevelNext(lg)
        /\ \A s : Before(s)' = Before(s)
    BY <2>1, SameLevels
  <2>4. PICK next : next = StageNext(lg)
    OBVIOUS
  <2>5. PICK order : order = TopoOrder(next)
    OBVIOUS
  <2>6. Order = order
    BY <2>4, <2>5 DEF Order
  <2>7. InTopo(next, order) /\ DOMAIN next = Stages /\ ToSet(order) = Stages
    <3>1. IsGraph(next) /\ DOMAIN next = Stages
      BY <2>4, LoadedFacts DEF Inv
    <3> QED BY <2>1, <2>4, <2>5, <3>1, TopoFacts
  <2>8. ASSUME NEW i \in 1 .. Len(order), NEW q \in Stages, order[i] \in next[q]
        PROVE  \E j \in 1 .. i - 1 : order[j] = q
    BY <2>7, <2>8 DEF InTopo
  <2>9. Queued'
    <3>1. StageNext(lg)' = next /\ rest' = order
      BY <2>1, <2>4, <2>6
    <3>2. \A i \in 1 .. Len(rest') : \A q \in Stages' : rest'[i] \in StageNext(lg)'[q] =>
            q \in DOMAIN total' \/ \E j \in 1 .. i - 1 : rest'[j] = q
      BY <2>3, <2>8, <3>1
    <3>3. ToSet(rest') = Stages'
      BY <2>1, <2>3, <2>6, <2>7
    <3>4. DOMAIN total' = {}
      BY <2>2, <2>3
    <3> QED BY <3>3, <3>4, <3>2 DEF Queued
  <2>10. IsAcyclic(LevelNext(lg))'
    BY <2>1, <2>3
  <2> QED
    BY <2>1, <2>2, <2>3, <2>9, <2>10 DEF LevelInv
<1> QED BY <1>1, <1>2

\* The stage visited next has all stages before it visited, and takes its levels from
\* theirs.
LEMMA DistributeLevels == ASSUME Inv, LevelInv, Distribute PROVE LevelInv'
<1>1. PICK s : s = Head(rest)
  OBVIOUS
<1>2. PICK D : D = DOMAIN total
  OBVIOUS
<1>3. /\ pc = "levels" /\ pc' = "levels" /\ rest # <<>> /\ rest' = Tail(rest) /\ lg' = lg
      /\ dist' = [q \in DOMAIN dist \cup {s} |->
                    IF q = s THEN InParseOrder(lg, Needed(lg, s) \ Inherited(s)) ELSE dist[q]]
      /\ total' = [q \in DOMAIN total \cup {s} |->
                     IF q = s THEN Inherited(s) \cup Needed(lg, s) ELSE total[q]]
  BY <1>1 DEF Distribute
<1>4. /\ IsAcyclic(LevelNext(lg)) /\ DOMAIN dist = D /\ \A r \in D : Distributed(r)
      /\ D \cap ToSet(rest) = {} /\ D \cup ToSet(rest) = Stages
      /\ \A i \in 1 .. Len(rest) : \A q \in Stages : rest[i] \in StageNext(lg)[q] =>
           q \in D \/ \E j \in 1 .. i - 1 : rest[j] = q
  BY <1>2, <1>3 DEF LevelInv, Queued
<1>5. /\ rest \in Seq(Stages)
      /\ s \in Stages /\ s \in ToSet(rest) /\ ToSet(Tail(rest)) = ToSet(rest) \ {s}
  BY <1>1, <1>3, NextStage DEF Inv, Visiting
<1>6. /\ Len(rest) \in Nat \ {0} /\ s = rest[1]
      /\ Len(Tail(rest)) = Len(rest) - 1
      /\ \A i \in 1 .. Len(Tail(rest)) : Tail(rest)[i] = rest[i + 1]
  BY <1>1, <1>3, <1>5, EmptySeq, HeadTailProperties
<1>7. s \notin D /\ Before(s) \subseteq D
  <2>1. ASSUME NEW q \in Before(s) PROVE q \in D
    <3>1. 1 \in 1 .. Len(rest) /\ q \in Stages /\ rest[1] \in StageNext(lg)[q]
      BY <1>6, <2>1 DEF Before
    <3>2. ~ \E j \in 1 .. 1 - 1 : rest[j] = q
      OBVIOUS
    <3> QED BY <1>4, <1>6, <2>1, <3>1, <3>2
  <2> QED BY <1>4, <1>5, <2>1
<1>8. Stages' = Stages /\ \A r : Before(r)' = Before(r)
  <2>1. Stages' = Stages
    BY <1>3 DEF Stages
  <2> QED BY <1>3, <2>1 DEF Before
<1>9. DOMAIN total' = D \cup {s} /\ DOMAIN dist' = D \cup {s}
  BY <1>2, <1>3, <1>4
<1>10. /\ total'[s] = Inherited(s) \cup Needed(lg, s)
       /\ dist'[s] = InParseOrder(lg, Needed(lg, s) \ Inherited(s))
       /\ \A r \in D : total'[r] = total[r] /\ dist'[r] = dist[r]
  BY <1>2, <1>3, <1>4, <1>7
<1>11. ASSUME NEW r, Before(r) \subseteq D PROVE Inherited(r)' = Inherited(r)
  <2>1. \A q \in Before(r) : total'[q] = total[q]
    BY <1>10, <1>11
  <2>2. Before(r)' = Before(r)
    BY <1>8
  <2> QED BY <1>3, <2>1, <2>2 DEF Inherited
<1>12. ASSUME NEW r \in D PROVE Distributed(r)'
  <2>1. /\ Before(r) \subseteq D /\ total[r] = Inherited(r) \cup Needed(lg, r)
        /\ dist[r] = InParseOrder(lg, Needed(lg, r) \ Inherited(r))
    BY <1>2, <1>4 DEF Distributed
  <2>2. Inherited(r)' = Inherited(r) /\ Before(r)' = Before(r)
    BY <1>8, <1>11, <2>1
  <2>3. Needed(lg, r)' = Needed(lg, r)
    BY <1>3
  <2>4. total'[r] = total[r] /\ dist'[r] = dist[r]
    BY <1>10
  <2>5. Before(r)' \subseteq DOMAIN total'
    BY <1>9, <2>1, <2>2
  <2>6. total'[r] = Inherited(r)' \cup Needed(lg, r)'
    BY <2>1, <2>2, <2>3, <2>4
  <2>7. dist'[r] = InParseOrder(lg, Needed(lg, r) \ Inherited(r))'
    BY <1>3, <2>1, <2>2, <2>3, <2>4
  <2> QED BY <2>5, <2>6, <2>7 DEF Distributed
<1>13. Distributed(s)'
  <2>1. Inherited(s)' = Inherited(s) /\ Before(s)' = Before(s)
    BY <1>7, <1>8, <1>11
  <2>2. Needed(lg, s)' = Needed(lg, s)
    BY <1>3
  <2>3. Before(s)' \subseteq DOMAIN total'
    BY <1>7, <1>9, <2>1
  <2>4. total'[s] = Inherited(s)' \cup Needed(lg, s)'
    BY <1>10, <2>1, <2>2
  <2>5. dist'[s] = InParseOrder(lg, Needed(lg, s) \ Inherited(s))'
    BY <1>3, <1>10, <2>1, <2>2
  <2> QED BY <2>3, <2>4, <2>5 DEF Distributed
<1>14. Queued'
  <2>1. DOMAIN total' \cap ToSet(rest') = {} /\ DOMAIN total' \cup ToSet(rest') = Stages'
    BY <1>3, <1>4, <1>5, <1>8, <1>9
  <2>2. ASSUME NEW i \in 1 .. Len(rest'), NEW q \in Stages', rest'[i] \in StageNext(lg)'[q],
               q \notin DOMAIN total'
        PROVE  \E j \in 1 .. i - 1 : rest'[j] = q
    <3>1. i + 1 \in 1 .. Len(rest) /\ rest'[i] = rest[i + 1] /\ i \in Nat
      BY <1>3, <1>6, <2>2
    <3>2. q \in Stages /\ rest[i + 1] \in StageNext(lg)[q] /\ q \notin D /\ q # s
      BY <1>3, <1>8, <1>9, <2>2, <3>1
    <3>3. PICK j \in 1 .. (i + 1) - 1 : rest[j] = q
      BY <1>4, <3>1, <3>2
    <3>4. j # 1 /\ j \in Nat
      BY <1>6, <3>2, <3>3
    <3>5. j - 1 \in 1 .. i - 1 /\ j - 1 \in 1 .. Len(Tail(rest)) /\ (j - 1) + 1 = j
      BY <1>6, <3>1, <3>3, <3>4
    <3>6. rest'[j - 1] = q
      BY <1>3, <1>6, <3>3, <3>5
    <3> QED BY <3>5, <3>6
  <2> QED BY <2>1, <2>2 DEF Queued
<1>15. IsAcyclic(LevelNext(lg))'
  BY <1>3, <1>4
<1>16. \A r \in DOMAIN total' : Distributed(r)'
  BY <1>9, <1>12, <1>13
<1> QED
  BY <1>3, <1>9, <1>14, <1>15, <1>16 DEF LevelInv

\* Every step keeps what the stages visited so far have.
LEMMA NextLevels == Inv /\ LevelInv /\ [Next]_vars => LevelInv'
<1> SUFFICES ASSUME Inv, LevelInv, [Next]_vars PROVE LevelInv'
  OBVIOUS
<1>1. ASSUME NEW p \in Programs, Load(p) PROVE LevelInv'
  <2>1. pc' = "parsers" /\ DOMAIN dist' = {} /\ DOMAIN total' = {}
    BY <1>1 DEF Load, Nothing
  <2> QED BY <2>1 DEF LevelInv
<1>2. CASE Dies
  BY <1>2, IdleLevels DEF Dies
<1>3. CASE (\E p \in Programs : LoadWild(p)) \/ Overrun \/ BuildNothing
  BY <1>2, <1>3 DEF LoadWild, Overrun, BuildNothing
<1>4. CASE Update
  <2>1. PICK t, a : EmitUpdate(t, a)
    BY <1>4 DEF Update
  <2>2. CASE Dies
    BY <1>2, <2>2
  <2>3. CASE ~ Dies
    <3>1. pc' \in {"idle", "dead"}
      BY <2>1, <2>3 DEF EmitUpdate
    <3> QED BY <3>1, IdleLevels
  <2> QED BY <2>2, <2>3
<1>5. CASE SortStages
  BY <1>5, SortLevels
<1>6. CASE Distribute
  BY <1>6, DistributeLevels
<1>7. CASE AllocateMemory \/ Tie
  BY <1>7, DoneLevels DEF AllocateMemory, Tie
<1>8. CASE StartOver
  <2>1. UNCHANGED <<lg, levels>> /\ pc' = "place"
    BY <1>8 DEF StartOver
  <2>2. CASE pc = "levels"
    <3>1. rest = <<>>
      BY <1>8, <2>2 DEF StartOver
    <3> QED BY <2>1, <2>2, <3>1, DoneLevels
  <2>3. CASE pc # "levels"
    <3>1. pc = "fixed"
      BY <1>8, <2>3 DEF StartOver
    <3> QED BY <2>1, <3>1, QuietLevels
  <2> QED BY <2>2, <2>3
<1>9. CASE Place \/ PlaceNowhere \/ PlaceFixed
  BY <1>9, QuietLevels DEF Place, PlaceNowhere, PlaceFixed
<1>10. CASE StartNumbering \/ NumberTable \/ NumberNextStage \/ Numbered
  BY <1>10, QuietLevels DEF StartNumbering, NumberTable, NumberNextStage, Numbered
<1>11. CASE CopyTables \/ BookTable \/ Booked
  BY <1>11, QuietLevels DEF CopyTables, BookTable, Booked
<1>12. CASE BuildProcessors
  <2>1. pc' = "idle"
    BY <1>12 DEF BuildProcessors
  <2> QED BY <2>1, IdleLevels
<1>13. CASE UNCHANGED vars
  <2>1. UNCHANGED <<lg, levels>> /\ pc' = pc /\ rest' = rest
    BY <1>13 DEF vars, levels
  <2>2. /\ Stages' = Stages /\ total' = total /\ dist' = dist /\ LevelNext(lg)' = LevelNext(lg)
        /\ \A s : Distributed(s)' <=> Distributed(s)
    BY <2>1, SameLevels
  <2>3. Queued => Queued'
    BY <2>1, <2>2 DEF Queued
  <2>4. IsAcyclic(LevelNext(lg))' <=> IsAcyclic(LevelNext(lg))
    BY <2>2
  <2> QED BY <2>1, <2>2, <2>3, <2>4 DEF LevelInv
<1> QED
  BY <1>1, <1>3, <1>4, <1>5, <1>6, <1>7, <1>8, <1>9, <1>10, <1>11, <1>12, <1>13
  DEF Next, Compile, Emit

-----------------------------------------------------------------------------
(***************************************************************************)
(* The ways through the stages, and what is parsed on them.                *)
(***************************************************************************)
\* A way begins at a stage no action leads to.
IsWay(w) == w \in Seq(Stages) /\ Len(w) # 0 /\ Before(w[1]) = {}

\* The ways of at most so many stages.
NextOnWay(s) == (StageNext(lg)[s] \cup GatewayNext(s)) \cap Stages
Longer(W) == W \cup UNION {{Append(w, s) : s \in NextOnWay(Last(w))} : w \in W}
Wanders(N, g) ==
  g = [d \in 0 .. N |-> IF d = 0 THEN {<<s>> : s \in {s \in Stages : Before(s) = {}}}
                        ELSE Longer(g[d - 1])]

\* The rounds of the recursion that collects them.
LEMMA WandersExist ==
  ASSUME NEW N \in Nat
  PROVE  \E g : Wanders(N, g)
<1> DEFINE T == {n \in Nat : \E g : Wanders(n, g)}
           First == {<<s>> : s \in {s \in Stages : Before(s) = {}}}
<1>1. 0 \in T
  <2> DEFINE g == [d \in 0 .. 0 |-> First]
  <2>1. Wanders(0, g)
    BY DEF Wanders
  <2> QED BY <2>1
<1>2. ASSUME NEW n \in T PROVE n + 1 \in T
  <2>1. PICK g : Wanders(n, g)
    OBVIOUS
  <2>2. n \in Nat
    OBVIOUS
  <2> DEFINE h == [d \in 0 .. n + 1 |-> IF d = 0 THEN First ELSE Longer(g[d - 1])]
  <2>3. ASSUME NEW d \in 0 .. n PROVE h[d] = g[d]
    <3>1. g[d] = IF d = 0 THEN First ELSE Longer(g[d - 1])
      BY <2>1 DEF Wanders
    <3>2. d \in 0 .. n + 1
      BY <2>2
    <3> HIDE DEF First
    <3> QED BY <3>1, <3>2
  <2>4. ASSUME NEW d \in 0 .. n + 1, d # 0 PROVE h[d] = Longer(h[d - 1])
    <3>1. d - 1 \in 0 .. n
      BY <2>2, <2>4
    <3>2. h[d - 1] = g[d - 1]
      BY <2>3, <3>1
    <3>3. h[d] = Longer(g[d - 1])
      BY <2>4
    <3> QED BY <3>2, <3>3
  <2>5. h[0] = First
    BY <2>2
  <2>6. h = [d \in 0 .. n + 1 |-> h[d]]
    OBVIOUS
  <2>7. h = [d \in 0 .. n + 1 |-> IF d = 0 THEN First ELSE Longer(h[d - 1])]
    <3> HIDE DEF h, First
    <3>1. ASSUME NEW d \in 0 .. n + 1
          PROVE  h[d] = IF d = 0 THEN First ELSE Longer(h[d - 1])
      BY <2>4, <2>5
    <3> QED BY <2>6, <3>1
  <2>8. Wanders(n + 1, h)
    <3> HIDE DEF h
    <3> QED BY <2>7 DEF Wanders
  <2> QED
    <3> HIDE DEF h
    <3> QED BY <2>2, <2>8
<1>3. T = Nat
  <2>1. T \in SUBSET Nat
    OBVIOUS
  <2> HIDE DEF T
  <2> QED BY <1>1, <1>2, <2>1, Induction
<1> QED
  BY <1>3

\* The recursion of Ways.
LEMMA WaysIsWanders ==
  Ways = (CHOOSE g : Wanders(Cardinality(Stages), g))[Cardinality(Stages)]
  BY DEF Ways, Wanders, Longer, NextOnWay

\* What the recursion collects are ways.
LEMMA WaysAreWays ==
  ASSUME Inv, NEW w \in Ways
  PROVE  IsWay(w)
<1> DEFINE N == Cardinality(Stages)
           g == CHOOSE g : Wanders(N, g)
           T == {d \in Nat : d <= N => \A v \in g[d] : IsWay(v)}
<1>1. N \in Nat /\ DOMAIN StageNext(lg) = Stages
  BY LoadedFacts DEF Inv
<1>2. Wanders(N, g)
  BY <1>1, WandersExist
<1>3. Ways = g[N]
  BY WaysIsWanders
<1> HIDE DEF N, g
<1>4. g[0] = {<<s>> : s \in {s \in Stages : Before(s) = {}}}
  BY <1>1, <1>2 DEF Wanders
<1>5. ASSUME NEW d \in Nat, d + 1 <= N PROVE g[d + 1] = Longer(g[d])
  <2>1. d + 1 \in 0 .. N /\ d + 1 # 0 /\ (d + 1) - 1 = d
    BY <1>1, <1>5
  <2>2. g[d + 1] = Longer(g[(d + 1) - 1])
    BY <1>2, <2>1 DEF Wanders
  <2> QED BY <2>1, <2>2
<1>6. 0 \in T
  <2>1. ASSUME NEW v \in g[0] PROVE IsWay(v)
    <3>1. PICK s \in Stages : v = <<s>> /\ Before(s) = {}
      BY <1>4
    <3>2. v \in Seq(Stages) /\ Len(v) = 1 /\ v[1] = s
      BY <3>1
    <3> QED BY <3>1, <3>2 DEF IsWay
  <2> QED BY <2>1
<1>7. ASSUME NEW d \in T PROVE d + 1 \in T
  <2>1. d \in Nat /\ d + 1 \in Nat
    OBVIOUS
  <2>2. SUFFICES ASSUME d + 1 <= N, NEW v \in g[d + 1] PROVE IsWay(v)
    BY <2>1
  <2>3. \A u \in g[d] : IsWay(u)
    BY <1>1, <2>1, <2>2
  <2>4. v \in Longer(g[d])
    BY <1>5, <2>1, <2>2
  <2>5. CASE v \in g[d]
    BY <2>3, <2>5
  <2>6. CASE v \notin g[d]
    <3>1. PICK u \in g[d] : \E s \in NextOnWay(Last(u)) : v = Append(u, s)
      BY <2>4, <2>6 DEF Longer
    <3>2. PICK s \in Stages : v = Append(u, s)
      BY <3>1 DEF NextOnWay
    <3>3. u \in Seq(Stages) /\ Len(u) \in Nat \ {0} /\ Before(u[1]) = {}
      <4>1. IsWay(u)
        BY <2>3
      <4>2. u \in Seq(Stages) /\ Len(u) # 0 /\ Before(u[1]) = {}
        BY <4>1 DEF IsWay
      <4>3. Len(u) \in Nat
        BY <4>2
      <4> QED BY <4>2, <4>3
    <3>4. v \in Seq(Stages) /\ Len(v) = Len(u) + 1 /\ v[1] = u[1]
      BY <3>2, <3>3
    <3> QED BY <3>3, <3>4 DEF IsWay
  <2> QED BY <2>5, <2>6
<1>8. T = Nat
  <2>1. T \in SUBSET Nat
    OBVIOUS
  <2> HIDE DEF T
  <2> QED BY <1>6, <1>7, <2>1, Induction
<1>9. \A v \in g[N] : IsWay(v)
  BY <1>1, <1>8
<1> QED
  BY <1>3, <1>9

\* On a foreseen way, the levels parsed up to every stage hold all the stage has, in
\* order.
LEMMA ParsedOnWay ==
  ASSUME Inv, LevelInv, pc = "procs", NEW w, IsWay(w), Foreseen(w)
  PROVE  InParse(lg, ParsedOn(w)) /\ total[Last(w)] \subseteq ToSet(ParsedOn(w))
<1> DEFINE N == Len(w)
           ss == [i \in DOMAIN w |-> dist[w[i]]]
           g == CHOOSE g : Flattens(ss, N, g)
           T == {k \in Nat : k \in 1 .. N => InParse(lg, g[k]) /\ total[w[k]] \subseteq ToSet(g[k])}
<1>1. N \in Nat \ {0} /\ DOMAIN w = 1 .. N /\ w \in Seq(Stages)
  BY DEF IsWay
<1>2. Len(ss) = N
  BY <1>1
<1>3. Flattens(ss, N, g)
  BY <1>1, FlattensExist
<1>4. ParsedOn(w) = g[N]
  <2>1. ParsedOn(w) = FlattenSeq(ss)
    BY DEF ParsedOn
  <2> HIDE DEF ss
  <2> QED BY <1>1, <1>2, <2>1, FlattenIsFlattens
<1>5. \A i \in 1 .. N : ss[i] = dist[w[i]]
  BY <1>1
<1> HIDE DEF ss, g
<1>6. g[1] = dist[w[1]]
  BY <1>1, <1>3, <1>5 DEF Flattens
<1>7. ASSUME NEW k \in Nat, k # 0, k + 1 <= N PROVE g[k + 1] = Joined(g[k], dist[w[k + 1]])
  <2>1. k + 1 \in 1 .. N /\ k + 1 # 1 /\ (k + 1) - 1 = k
    BY <1>1, <1>7
  <2>2. g[k + 1] = Joined(g[(k + 1) - 1], ss[k + 1])
    BY <1>3, <2>1 DEF Flattens
  <2> QED BY <1>5, <2>1, <2>2
<1>8. /\ IsGraph(LevelNext(lg)) /\ IsAcyclic(LevelNext(lg))
      /\ \A s \in Stages : Distributed(s)
  BY LoadedFacts DEF Inv, LevelInv
<1>9. ASSUME NEW s \in Stages, NEW a, InParse(lg, a), Inherited(s) \subseteq ToSet(a)
      PROVE  InParse(lg, Joined(a, dist[s])) /\ total[s] \subseteq ToSet(Joined(a, dist[s]))
  <2>1. /\ total[s] = Inherited(s) \cup Needed(lg, s)
        /\ dist[s] = InParseOrder(lg, Needed(lg, s) \ Inherited(s))
    BY <1>8 DEF Distributed
  <2>2. PICK had : had = Inherited(s)
    OBVIOUS
  <2>3. PICK b : b = dist[s]
    OBVIOUS
  <2>4. had \in SUBSET ToSet(a) /\ b = InParseOrder(lg, Needed(lg, s) \ had)
    BY <1>9, <2>1, <2>2, <2>3
  <2>5. PICK ab : ab = Joined(a, b)
    OBVIOUS
  <2>6. InParse(lg, ab) /\ had \cup Needed(lg, s) \subseteq ToSet(ab)
    <3>1. had \in SUBSET ToSet(a) /\ InParse(lg, a)
      BY <1>9, <2>4
    <3>2. \A x : x = InParseOrder(lg, Needed(lg, s) \ had) => \A y : y = Joined(a, x) =>
            InParse(lg, y) /\ had \cup Needed(lg, s) \subseteq ToSet(y)
      BY <1>8, <3>1, ParseNext
    <3> QED BY <2>4, <2>5, <3>2
  <2> QED BY <2>1, <2>2, <2>3, <2>5, <2>6
<1>10. ASSUME NEW k \in T PROVE k + 1 \in T
  <2>1. k \in Nat /\ k + 1 \in Nat
    OBVIOUS
  <2>2. SUFFICES ASSUME k + 1 \in 1 .. N
                 PROVE  InParse(lg, g[k + 1]) /\ total[w[k + 1]] \subseteq ToSet(g[k + 1])
    BY <2>1
  <2>3. PICK s \in Stages : s = w[k + 1]
    BY <1>1, <2>2
  <2>4. CASE k = 0
    <3>1. Before(s) = {} /\ g[1] = dist[s] /\ w[1] = s
      BY <1>6, <2>3, <2>4 DEF IsWay
    <3>2. Inherited(s) = {}
      BY <3>1 DEF Inherited
    <3>3. InParse(lg, <<>>)
      BY EmptySeq DEF InParse
    <3>4. InParse(lg, Joined(<<>>, dist[s])) /\ total[s] \subseteq ToSet(Joined(<<>>, dist[s]))
      BY <1>9, <3>2, <3>3
    <3>5. Joined(<<>>, dist[s]) = dist[s]
      <4>1. dist[s] = InParseOrder(lg, Needed(lg, s) \ Inherited(s))
        BY <1>8 DEF Distributed
      <4>2. dist[s] \in Seq(DOMAIN LevelNext(lg))
        BY <1>8, <3>2, <4>1, NeededFacts, ParseOrderFacts
      <4> QED BY <4>2 DEF Joined
    <3> QED BY <2>3, <2>4, <3>1, <3>4, <3>5
  <2>5. CASE k # 0
    <3>1. k \in 1 .. N /\ k \in 1 .. N - 1 /\ k + 1 <= N
      BY <1>1, <2>1, <2>2, <2>5
    <3>2. InParse(lg, g[k]) /\ total[w[k]] \subseteq ToSet(g[k])
      BY <3>1
    <3>3. Before(s) = {} \/ w[k] \in Before(s)
      BY <2>3, <3>1 DEF Foreseen, Overlooked
    <3>4. Inherited(s) \subseteq total[w[k]]
      BY <3>3 DEF Inherited
    <3>5. g[k + 1] = Joined(g[k], dist[s])
      BY <1>7, <2>1, <2>3, <2>5, <3>1
    <3>6. InParse(lg, Joined(g[k], dist[s])) /\ total[s] \subseteq ToSet(Joined(g[k], dist[s]))
      BY <1>9, <3>2, <3>4
    <3> QED BY <2>3, <3>5, <3>6
  <2> QED BY <2>4, <2>5
<1>11. T = Nat
  <2>1. T \in SUBSET Nat
    OBVIOUS
  <2>2. 0 \in T
    BY <1>1
  <2> HIDE DEF T
  <2> QED BY <1>10, <2>1, <2>2, Induction
<1>12. InParse(lg, g[N]) /\ total[w[N]] \subseteq ToSet(g[N])
  <2>1. N \in T /\ N \in 1 .. N
    BY <1>1, <1>11
  <2> QED BY <2>1
<1> QED
  BY <1>4, <1>12 DEF Last

\* On every way without an overlooked jump of a gateway, the levels a stage's headers
\* need have been parsed, each after the levels that lead to it: each stage takes over
\* what every stage before it has, and the sort visits those first.
THEOREM InTime == Spec => []LevelsInTime
<1>1. Init => LevelInv
  BY DEF Init, LevelInv
<1>2. Inv /\ LevelInv => LevelsInTime
  <2> SUFFICES ASSUME Inv, LevelInv, pc = "procs", NEW w \in Ways, Foreseen(w)
               PROVE  LET parsed == ParsedOn(w)
                      IN /\ Needed(lg, Last(w)) \subseteq ToSet(parsed)
                         /\ \A i \in DOMAIN parsed : \A l \in LevelsUpTo(lg, parsed[i]) \ {parsed[i]} :
                              \E j \in 1 .. i - 1 : parsed[j] = l
    BY DEF LevelsInTime
  <2>1. IsWay(w)
    BY WaysAreWays
  <2>2. InParse(lg, ParsedOn(w)) /\ total[Last(w)] \subseteq ToSet(ParsedOn(w))
    BY <2>1, ParsedOnWay
  <2>3. Last(w) \in Stages
    BY <2>1 DEF IsWay, Last
  <2>4. Needed(lg, Last(w)) \subseteq total[Last(w)]
    BY <2>3 DEF LevelInv, Distributed
  <2> QED BY <2>2, <2>4 DEF InParse
<1>3. Inv /\ LevelInv /\ [Next]_vars => LevelInv'
  BY NextLevels
<1> QED
  BY <1>1, <1>2, <1>3, Invariance, PTL DEF Spec

-----------------------------------------------------------------------------
(***************************************************************************)
(* The memory of a full allocation, the two kinds of blocks alike.         *)
(***************************************************************************)
Kinds             == {"sram", "tcam"}
Count(kind)       == IF kind = "sram" THEN SramCount ELSE TcamCount
Asked(kind, t)    == IF kind = "sram" THEN Sram(t) ELSE Tcam(t)
BlocksOf(kind, t) == IF kind = "sram" THEN SramOf(t) ELSE TcamOf(t)

\* What the tables of a stage ask for, and what the stages do.
AsksAt(kind, s) == [i \in DOMAIN TablesAt(s) |-> Asked(kind, TablesAt(s)[i])]
Asks(kind)      == [s \in Stages |-> SumFunction(AsksAt(kind, s))]

PlacedIn(c) == {s \in Stages : HasSlot(s) /\ NumberedIn(s) = c}
NoBlocks    == [key |-> <<>>, value |-> <<>>]

\* The tables of cluster c that were numbered.
Done(s, i)   == s < rest[1] \/ (s = rest[1] /\ i < rest[2])
Earlier(c)   == {s \in Stages : s < rest[1] /\ NumberedIn(s) = c}
Given(kind, c) ==
  SumFunctionOnSet(Asks(kind), Earlier(c))
    + (IF rest[1] \in Stages /\ NumberedIn(rest[1]) = c
       THEN SumFunctionOnSet(AsksAt(kind, rest[1]), 1 .. rest[2] - 1) ELSE 0)

AtRest ==
  /\ rest = <<rest[1], rest[2]>> /\ rest[1] \in 0 .. Cardinality(Stages) /\ rest[2] \in Nat \ {0}
  /\ IF rest[1] \in Stages THEN rest[2] <= Len(TablesAt(rest[1])) + 1 ELSE rest[2] = 1

HasBlocks(s, t) == \E i \in DOMAIN TablesAt(s) : TablesAt(s)[i] = t /\ Done(s, i)

\* Numbered tables have the blocks they ask for, below the number of their cluster,
\* and share none; the others have none yet.
Sound(s, t) ==
  \A k \in Kinds :
    /\ BlocksOf(k, t) \subseteq 0 .. number[NumberedIn(s)][k] - 1
    /\ IsFiniteSet(BlocksOf(k, t)) /\ Cardinality(BlocksOf(k, t)) = Asked(k, t)
Apart(t, u) == t = u \/ \A k \in Kinds : BlocksOf(k, t) \cap BlocksOf(k, u) = {}

NumberInv ==
  /\ AtRest
  /\ \A c \in Cluster, k \in Kinds : number[c][k] = Given(k, c)
  /\ \A t \in Tables : (\A s \in Stages : ~ HasBlocks(s, t)) => blocks[t] = NoBlocks
  /\ \A s \in Stages, t \in Tables : HasBlocks(s, t) => Sound(s, t)
  /\ \A s, r \in Stages : \A t, u \in Tables :
       HasBlocks(s, t) /\ HasBlocks(r, u) /\ NumberedIn(r) = NumberedIn(s) => Apart(t, u)

MemInv ==
  /\ pc \in {"parsers", "levels", "fixed", "place"} =>
       /\ \A c \in Cluster, k \in Kinds : number[c][k] = 0
       /\ \A t \in Tables : blocks[t] = NoBlocks
  /\ pc \in {"place", "number"} =>
       \A c \in Cluster, k \in Kinds :
         space[c][k] + SumFunctionOnSet(Asks(k), PlacedIn(c)) = Count(k)
  /\ pc \in {"parsers", "levels"} => \A c \in Cluster, k \in Kinds : space[c][k] = Count(k)
  /\ pc = "book" => incr
  /\ pc = "number" => NumberInv
  /\ MemorySound

\* A kind names a field.
LEMMA KindFields ==
  \A r : r["sram"] = r.sram /\ r["tcam"] = r.tcam
  OBVIOUS

\* Tables and stages ask for numbers of blocks.
LEMMA AskType ==
  ASSUME Loaded, NEW k \in Kinds
  PROVE  /\ \A t \in Tables : Asked(k, t) \in Nat
         /\ \A s \in Stages :
              /\ DOMAIN TablesAt(s) = 1 .. Len(TablesAt(s)) /\ Len(TablesAt(s)) \in Nat
              /\ \A i \in 1 .. Len(TablesAt(s)) :
                   /\ TablesAt(s)[i] \in Tables
                   /\ AsksAt(k, s)[i] = Asked(k, TablesAt(s)[i]) /\ AsksAt(k, s)[i] \in Nat
              /\ Asks(k)[s] = SumFunctionOnSet(AsksAt(k, s), 1 .. Len(TablesAt(s)))
              /\ Asks(k)[s] \in Nat
<1>1. \A t \in Tables : Asked(k, t) \in Nat
  BY TableSpace DEF Asked
<1>2. ASSUME NEW s \in Stages
      PROVE  /\ DOMAIN TablesAt(s) = 1 .. Len(TablesAt(s)) /\ Len(TablesAt(s)) \in Nat
             /\ \A i \in 1 .. Len(TablesAt(s)) :
                  /\ TablesAt(s)[i] \in Tables
                  /\ AsksAt(k, s)[i] = Asked(k, TablesAt(s)[i]) /\ AsksAt(k, s)[i] \in Nat
             /\ Asks(k)[s] = SumFunctionOnSet(AsksAt(k, s), 1 .. Len(TablesAt(s)))
             /\ Asks(k)[s] \in Nat
  <2>1. PICK ts : ts = TablesAt(s)
    OBVIOUS
  <2>2. ts \in Seq(Tables)
    BY <2>1, LoadedFacts
  <2>3. DOMAIN ts = 1 .. Len(ts) /\ Len(ts) \in Nat
    BY <2>2
  <2>4. \A i \in 1 .. Len(ts) : ts[i] \in Tables
    BY <2>2, <2>3
  <2>5. PICK f : f = AsksAt(k, s)
    OBVIOUS
  <2>6. DOMAIN f = 1 .. Len(ts) /\ \A i \in 1 .. Len(ts) : f[i] = Asked(k, ts[i])
    BY <2>1, <2>3, <2>5 DEF AsksAt
  <2>7. \A i \in 1 .. Len(ts) : f[i] \in Nat
    BY <1>1, <2>4, <2>6
  <2>8. Asks(k)[s] = SumFunctionOnSet(f, 1 .. Len(ts))
    BY <2>5, <2>6 DEF Asks, SumFunction
  <2>9. IsFiniteSet(1 .. Len(ts))
    BY <2>3, CountTo
  <2>10. SumFunctionOnSet(f, 1 .. Len(ts)) \in Nat
    BY <2>7, <2>9, SumNat
  <2> QED BY <2>1, <2>3, <2>4, <2>5, <2>6, <2>7, <2>8, <2>10
<1> QED BY <1>1, <1>2

\* The sum over a stage, as first fit takes it from the space of a cluster.
LEMMA AsksStage ==
  ASSUME NEW s \in Stages
  PROVE  Asks("sram")[s] = StageSram(s) /\ Asks("tcam")[s] = StageTcam(s)
<1>1. AsksAt("sram", s) = [i \in DOMAIN TablesAt(s) |-> Sram(TablesAt(s)[i])]
  BY DEF AsksAt, Asked
<1>2. AsksAt("tcam", s) = [i \in DOMAIN TablesAt(s) |-> Tcam(TablesAt(s)[i])]
  BY DEF AsksAt, Asked
<1> QED
  BY <1>1, <1>2 DEF Asks, StageSram, StageTcam

\* What the program and the places determine.
LEMMA SameAsks ==
  ASSUME UNCHANGED Program
  PROVE  /\ Stages' = Stages /\ Tables' = Tables /\ \A s : TablesAt(s)' = TablesAt(s)
         /\ \A k, t : Asked(k, t)' = Asked(k, t)
         /\ \A k, s : AsksAt(k, s)' = AsksAt(k, s)
         /\ \A k : Asks(k)' = Asks(k)
<1>1. Stages' = Stages /\ Tables' = Tables /\ \A s : TablesAt(s)' = TablesAt(s)
  BY SameProgram
<1>2. \A k, t : Asked(k, t)' = Asked(k, t)
  BY DEF Asked, Sram, Tcam, Program
<1>3. \A k, s : AsksAt(k, s)' = AsksAt(k, s)
  BY DEF AsksAt, Asked, Sram, Tcam, Program, TablesAt
<1>4. \A k : Asks(k)' = Asks(k)
  BY DEF Asks, AsksAt, Asked, Sram, Tcam, Program, TablesAt, Stages
<1> QED BY <1>1, <1>2, <1>3, <1>4

LEMMA SameSlots ==
  ASSUME UNCHANGED Program, UNCHANGED phys
  PROVE  /\ \A s : NumberedIn(s)' = NumberedIn(s)
         /\ \A s : HasSlot(s)' <=> HasSlot(s)
         /\ \A c : PlacedIn(c)' = PlacedIn(c)
  BY SameProgram DEF NumberedIn, SlotsOf, HasSlot, PlacedIn

LEMMA SameBlocks ==
  ASSUME UNCHANGED Program
  PROVE  \A t : blocks'[t] = blocks[t] => \A k : BlocksOf(k, t)' = BlocksOf(k, t)
  BY DEF BlocksOf, SramOf, TcamOf, Program

\* A stage that is settled asks for what its cluster's space loses.
LEMMA SettleSum ==
  ASSUME Inv, NEW s \in Stages, ~ HasSlot(s), NEW c \in Cluster, Fits(s, c), Settle(s, c),
         UNCHANGED Program, NEW k \in Kinds,
         \A d \in Cluster : space[d][k] + SumFunctionOnSet(Asks(k), PlacedIn(d)) = Count(k)
  PROVE  \A d \in Cluster : space'[d][k] + SumFunctionOnSet(Asks(k)', PlacedIn(d)') = Count(k)
<1>0. ClusterProcCount \in Nat \ {0} /\ SramCount \in Nat /\ TcamCount \in Nat
  BY ClusterAssumption
<1>1. PICK x : x = NextSlot(c)
  OBVIOUS
<1>2. PICK m : m = members[c]
  OBVIOUS
<1>3. m \in Nat /\ m < ClusterProcCount
  BY <1>0, <1>2 DEF Inv, TypeInv, Fits
<1>4. x = c * ClusterProcCount + m
  BY <1>1, <1>2 DEF NextSlot
<1>5. x \in Slot /\ ClusterOf(x) = c
  BY <1>3, <1>4, SlotOf
<1>6. phys[x] \notin Stages
  BY <1>0, <1>2, <1>3, <1>4 DEF Inv, Settled
<1>7. phys' = [phys EXCEPT ![x] = s] /\ DOMAIN phys = Slot
  BY <1>1 DEF Settle, Inv, TypeInv
<1>8. SlotsOf(s)' = {x}
  BY <1>5, <1>7 DEF SlotsOf, HasSlot
<1>9. NumberedIn(s)' = c /\ HasSlot(s)'
  BY <1>5, <1>8 DEF NumberedIn, HasSlot, SlotsOf
<1>10. ASSUME NEW r \in Stages \ {s}
       PROVE  (HasSlot(r)' <=> HasSlot(r)) /\ NumberedIn(r)' = NumberedIn(r)
  <2>1. SlotsOf(r)' = SlotsOf(r)
    BY <1>5, <1>6, <1>7 DEF SlotsOf
  <2>2. NumberedIn(r)' = NumberedIn(r)
    BY <2>1 DEF NumberedIn
  <2>3. (HasSlot(r) <=> SlotsOf(r) # {}) /\ (HasSlot(r)' <=> SlotsOf(r)' # {})
    BY DEF HasSlot, SlotsOf
  <2> QED BY <2>1, <2>2, <2>3
<1>11. Stages' = Stages /\ Asks(k)' = Asks(k)
  BY SameAsks
<1>12. /\ PlacedIn(c)' = PlacedIn(c) \cup {s} /\ s \notin PlacedIn(c)
       /\ \A d \in Cluster : d # c => PlacedIn(d)' = PlacedIn(d)
  BY <1>9, <1>10, <1>11 DEF PlacedIn
<1>13. PICK f : f = Asks(k)
  OBVIOUS
<1>14. \A r \in Stages : f[r] \in Nat
  BY <1>13, AskType DEF Inv
<1>15. IsFiniteSet(PlacedIn(c)) /\ \A r \in PlacedIn(c) : f[r] \in Int
  <2>1. PlacedIn(c) \subseteq Stages
    BY DEF PlacedIn
  <2>2. IsFiniteSet(Stages)
    BY LoadedFacts DEF Inv
  <2> QED BY <1>14, <2>1, <2>2, FS_Subset
<1>16. f[s] \in Nat
  BY <1>14
<1>17. SumFunctionOnSet(f, PlacedIn(c) \cup {s}) = SumFunctionOnSet(f, PlacedIn(c)) + f[s]
  <2>1. PICK S : S = PlacedIn(c)
    OBVIOUS
  <2> QED BY <1>12, <1>15, <1>16, <2>1, SumAdd
<1>18. SumFunctionOnSet(f, PlacedIn(c)) \in Int
  BY <1>15, SumInt
<1>19. space \in [Cluster -> [sram : 0 .. SramCount, tcam : 0 .. TcamCount]]
  BY DEF Inv, TypeInv
<1>20. space'[c][k] = space[c][k] - f[s] /\ space[c][k] \in Int
  <2>1. f[s] = IF k = "sram" THEN StageSram(s) ELSE StageTcam(s)
    BY <1>13, AsksStage DEF Kinds
  <2>2. /\ space'[c].sram = space[c].sram - StageSram(s)
        /\ space'[c].tcam = space[c].tcam - StageTcam(s)
    BY <1>19 DEF Settle
  <2>3. space[c].sram \in Int /\ space[c].tcam \in Int
    BY <1>0, <1>19
  <2>4. CASE k = "sram"
    BY <2>1, <2>2, <2>3, <2>4
  <2>5. CASE k = "tcam"
    BY <2>1, <2>2, <2>3, <2>5
  <2> QED BY <2>4, <2>5 DEF Kinds
<1>21. \A d \in Cluster : d # c => space'[d] = space[d]
  BY <1>19 DEF Settle
<1>22. ASSUME NEW d \in Cluster
       PROVE  space'[d][k] + SumFunctionOnSet(Asks(k)', PlacedIn(d)') = Count(k)
  <2>1. CASE d # c
    BY <1>11, <1>12, <1>21, <2>1
  <2>2. CASE d = c
    <3>1. space[c][k] + SumFunctionOnSet(f, PlacedIn(c)) = Count(k)
      BY <1>13
    <3>2. SumFunctionOnSet(Asks(k)', PlacedIn(c)') = SumFunctionOnSet(f, PlacedIn(c)) + f[s]
      BY <1>11, <1>12, <1>13, <1>17
    <3> QED BY <1>16, <1>18, <1>20, <2>2, <3>1, <3>2
  <2> QED BY <2>1, <2>2
<1> QED BY <1>22

\* Nothing is asked for where no stage is placed.
LEMMA NothingPlaced ==
  (\A s \in Stages : ~ HasSlot(s)) => \A c, k : SumFunctionOnSet(Asks(k), PlacedIn(c)) = 0
<1> SUFFICES ASSUME \A s \in Stages : ~ HasSlot(s), NEW c, NEW k
             PROVE  SumFunctionOnSet(Asks(k), PlacedIn(c)) = 0
  OBVIOUS
<1>1. PlacedIn(c) = {}
  BY DEF PlacedIn
<1>2. PICK f : f = Asks(k)
  OBVIOUS
<1> QED BY <1>1, <1>2, SumEmpty

\* Consecutive numbers.
LEMMA FromFacts ==
  ASSUME NEW a \in Nat, NEW n \in Nat
  PROVE  ToSet(<<>> \o From(a, n)) = a .. a + n - 1
<1>1. PICK q : q = From(a, n)
  OBVIOUS
<1>2. DOMAIN q = 1 .. n /\ \A i \in 1 .. n : q[i] = a + i - 1
  BY <1>1 DEF From
<1>3. q \in [1 .. n -> Nat]
  BY <1>1 DEF From
<1>4. q \in Seq(Nat)
  BY <1>3, FunctionIsSeq
<1>5. <<>> \o q = q
  BY <1>4, ConcatEmptySeq
<1>6. ToSet(q) = {q[i] : i \in 1 .. n}
  BY <1>2 DEF ToSet
<1>7. ASSUME NEW x \in a .. a + n - 1 PROVE x \in {q[i] : i \in 1 .. n}
  <2>1. x - a + 1 \in 1 .. n /\ q[x - a + 1] = x
    BY <1>2
  <2> QED BY <2>1
<1>8. \A i \in 1 .. n : q[i] \in a .. a + n - 1
  BY <1>2
<1> QED
  BY <1>1, <1>5, <1>6, <1>7, <1>8

\* What numbering table t in cluster c does: its blocks of either kind are the next of
\* the cluster, and no other table's change.
LEMMA TableBlocks ==
  ASSUME Inv, NEW t \in Tables, NEW c \in Cluster, blocks[t] = NoBlocks, UNCHANGED Program,
         blocks' = [blocks EXCEPT
            ![t].key   = @ \o From(IF mem[t].type = "SRAM" THEN number[c].sram ELSE number[c].tcam, mem[t].key),
            ![t].value = @ \o From(number[c].sram + IF mem[t].type = "SRAM" THEN mem[t].key ELSE 0, mem[t].value)],
         number' = [number EXCEPT ![c].sram = @ + Sram(t), ![c].tcam = @ + Tcam(t)]
  PROVE  \A k \in Kinds :
           /\ number[c][k] \in Nat /\ Asked(k, t) \in Nat
           /\ BlocksOf(k, t)' = number[c][k] .. number[c][k] + Asked(k, t) - 1
           /\ number'[c][k] = number[c][k] + Asked(k, t)
           /\ \A d \in Cluster : d # c => number'[d] = number[d]
           /\ \A u \in Tables : u # t => blocks'[u] = blocks[u]
<1>1. /\ Sram(t) \in Nat /\ Tcam(t) \in Nat /\ mem[t].key \in Nat /\ mem[t].value \in Nat
      /\ mem[t].type \in {"SRAM", "TCAM"}
  BY TableSpace DEF Inv
<1>2. number \in [Cluster -> [sram : Nat, tcam : Nat]] /\ DOMAIN blocks = Tables
  BY DEF Inv, TypeInv
<1>3. PICK a \in Nat : a = number[c].sram
  BY <1>2
<1>4. PICK b \in Nat : b = number[c].tcam
  BY <1>2
<1>5. PICK n \in Nat : n = mem[t].key
  BY <1>1
<1>6. PICK m \in Nat : m = mem[t].value
  BY <1>1
<1>7. number'[c].sram = a + Sram(t) /\ number'[c].tcam = b + Tcam(t)
  BY <1>2, <1>3, <1>4
<1>8. \A d \in Cluster : d # c => number'[d] = number[d]
  BY <1>2
<1>9. \A u \in Tables : u # t => blocks'[u] = blocks[u]
  BY <1>2
<1>10. PICK x : x = IF mem[t].type = "SRAM" THEN a ELSE b
  OBVIOUS
<1>11. PICK y : y = a + IF mem[t].type = "SRAM" THEN n ELSE 0
  OBVIOUS
<1>12. /\ blocks'[t].key = <<>> \o From(x, n)
       /\ blocks'[t].value = <<>> \o From(y, m)
  BY <1>2, <1>3, <1>4, <1>5, <1>6, <1>10, <1>11 DEF NoBlocks
<1>13. x \in Nat /\ y \in Nat
  BY <1>10, <1>11
<1>14. ToSet(blocks'[t].key) = x .. x + n - 1 /\ ToSet(blocks'[t].value) = y .. y + m - 1
  BY <1>12, <1>13, FromFacts
<1>15. mem' = mem
  BY DEF Program
<1>16. SramOf(t)' = a .. a + Sram(t) - 1
  <2>1. CASE mem[t].type = "SRAM"
    <3>1. SramOf(t)' = (a + n .. a + n + m - 1) \cup (a .. a + n - 1)
      BY <1>10, <1>11, <1>14, <1>15, <2>1 DEF SramOf
    <3>2. Sram(t) = m + n
      BY <1>5, <1>6, <2>1 DEF Sram
    <3> QED BY <3>1, <3>2
  <2>2. CASE mem[t].type # "SRAM"
    <3>1. SramOf(t)' = a .. a + m - 1
      BY <1>11, <1>14, <1>15, <2>2 DEF SramOf
    <3>2. Sram(t) = m
      BY <1>6, <2>2 DEF Sram
    <3> QED BY <3>1, <3>2
  <2> QED BY <2>1, <2>2
<1>17. TcamOf(t)' = b .. b + Tcam(t) - 1
  <2>1. CASE mem[t].type = "TCAM"
    BY <1>5, <1>10, <1>14, <1>15, <2>1 DEF TcamOf, Tcam
  <2>2. CASE mem[t].type # "TCAM"
    BY <1>15, <2>2 DEF TcamOf, Tcam
  <2> QED BY <2>1, <2>2
<1>18. ASSUME NEW k \in Kinds
       PROVE  /\ number[c][k] \in Nat /\ Asked(k, t) \in Nat
              /\ BlocksOf(k, t)' = number[c][k] .. number[c][k] + Asked(k, t) - 1
              /\ number'[c][k] = number[c][k] + Asked(k, t)
  <2>1. CASE k = "sram"
    BY <1>1, <1>3, <1>7, <1>16, <2>1 DEF Asked, BlocksOf
  <2>2. CASE k = "tcam"
    BY <1>1, <1>4, <1>7, <1>17, <2>2 DEF Asked, BlocksOf
  <2> QED BY <2>1, <2>2 DEF Kinds
<1> QED BY <1>8, <1>9, <1>18

\* A table has one place, where none is named twice.
LEMMA OnePlace ==
  ASSUME NamesOnce, Loaded, NEW r \in Stages, NEW s \in Stages,
         NEW i \in DOMAIN TablesAt(r), NEW j \in DOMAIN TablesAt(s), TablesAt(r)[i] = TablesAt(s)[j]
  PROVE  r = s /\ i = j
<1>1. PICK wild : lg = Logical(prog, Merged(prog), wild)
  BY DEF Loaded
<1>2. PICK st : st = Merged(prog)
  OBVIOUS
<1>3. IsProgram(prog) /\ NamedOnce(prog) /\ lg = Logical(prog, st, wild)
  BY <1>1, <1>2 DEF Loaded
<1> QED
  BY <1>3, LogicalTables DEF Stages, TablesAt

\* Numbering a table keeps what numbering has to keep.
LEMMA NumberTableMem ==
  ASSUME NamesOnce, Inv, NumberInv, NumberTable
  PROVE  NumberInv'
<1>1. PICK s \in Stages : s = rest[1]
  BY DEF NumberTable, AtTable
<1>2. PICK j \in DOMAIN TablesAt(s) : j = rest[2]
  BY <1>1 DEF NumberTable, AtTable
<1>3. PICK t : t = TablesAt(s)[j]
  OBVIOUS
<1>4. PICK c \in Cluster : c = NumberedIn(s)
  BY NumberedInType
<1>5. /\ rest' = <<s, j + 1>> /\ UNCHANGED Program /\ UNCHANGED phys
  BY <1>1, <1>2 DEF NumberTable, Program
<1>6. Loaded
  BY DEF Inv
<1>7. /\ DOMAIN TablesAt(s) = 1 .. Len(TablesAt(s)) /\ Len(TablesAt(s)) \in Nat
      /\ t \in Tables /\ j \in 1 .. Len(TablesAt(s))
  <2>1. "sram" \in Kinds
    BY DEF Kinds
  <2> QED BY <1>3, <1>6, <2>1, AskType
<1>8. s \in Nat /\ j \in Nat \ {0} /\ \A r \in Stages : r \in Nat
  BY <1>6, <1>7, LoadedFacts
<1>9. \A r \in Stages : \A i \in DOMAIN TablesAt(r) : TablesAt(r)[i] = t => r = s /\ i = j
  BY <1>3, <1>6, OnePlace
<1>10. \A r \in Stages : ~ HasBlocks(r, t)
  <2>1. ~ Done(s, j)
    BY <1>1, <1>2, <1>8 DEF Done
  <2> QED BY <1>9, <2>1 DEF HasBlocks
<1>11. blocks[t] = NoBlocks
  BY <1>7, <1>10 DEF NumberInv
<1>12. \A k \in Kinds :
         /\ number[c][k] \in Nat /\ Asked(k, t) \in Nat
         /\ BlocksOf(k, t)' = number[c][k] .. number[c][k] + Asked(k, t) - 1
         /\ number'[c][k] = number[c][k] + Asked(k, t)
         /\ \A d \in Cluster : d # c => number'[d] = number[d]
         /\ \A u \in Tables : u # t => blocks'[u] = blocks[u]
  <2>1. /\ blocks' = [blocks EXCEPT
              ![t].key   = @ \o From(IF mem[t].type = "SRAM" THEN number[c].sram ELSE number[c].tcam, mem[t].key),
              ![t].value = @ \o From(number[c].sram + IF mem[t].type = "SRAM" THEN mem[t].key ELSE 0, mem[t].value)]
        /\ number' = [number EXCEPT ![c].sram = @ + Sram(t), ![c].tcam = @ + Tcam(t)]
    BY <1>1, <1>2, <1>3, <1>4 DEF NumberTable
  <2> QED BY <1>5, <1>7, <1>11, <2>1, TableBlocks
<1>13. /\ Stages' = Stages /\ Tables' = Tables /\ \A r : TablesAt(r)' = TablesAt(r)
       /\ \A k, u : Asked(k, u)' = Asked(k, u)
       /\ \A k, r : AsksAt(k, r)' = AsksAt(k, r)
       /\ \A k : Asks(k)' = Asks(k)
       /\ \A r : NumberedIn(r)' = NumberedIn(r)
  BY <1>5, SameAsks, SameSlots
<1>14. \A u \in Tables : u # t => \A k : BlocksOf(k, u)' = BlocksOf(k, u)
  <2>1. "sram" \in Kinds
    BY DEF Kinds
  <2> QED BY <1>5, <1>12, <2>1, SameBlocks
<1>15. ASSUME NEW r \in Stages, NEW u \in Tables
       PROVE  HasBlocks(r, u)' <=> HasBlocks(r, u) \/ (r = s /\ u = t)
  <2>1. \A i \in DOMAIN TablesAt(r) : i \in Nat
    BY <1>6, LoadedFacts
  <2>2. \A i \in DOMAIN TablesAt(r) : Done(r, i)' <=> r < s \/ (r = s /\ i < j + 1)
    BY <1>5 DEF Done
  <2>3. \A i \in DOMAIN TablesAt(r) : Done(r, i) <=> r < s \/ (r = s /\ i < j)
    BY <1>1, <1>2 DEF Done
  <2>4. \A i \in DOMAIN TablesAt(r) : Done(r, i)' <=> Done(r, i) \/ (r = s /\ i = j)
    BY <1>8, <2>1, <2>2, <2>3
  <2>5. HasBlocks(r, u)' <=> \E i \in DOMAIN TablesAt(r) : TablesAt(r)[i] = u /\ Done(r, i)'
    BY <1>13 DEF HasBlocks
  <2> QED BY <1>3, <2>4, <2>5 DEF HasBlocks
<1>18. AtRest'
  <2>1. j + 1 <= Len(TablesAt(s)) + 1 /\ j + 1 \in Nat \ {0} /\ s \in 0 .. Cardinality(Stages)
    BY <1>1, <1>7 DEF NumberInv, AtRest
  <2> QED BY <1>1, <1>5, <1>13, <2>1 DEF AtRest
<1>19. ASSUME NEW d \in Cluster, NEW k \in Kinds PROVE number'[d][k] = Given(k, d)'
  <2>1. Earlier(d)' = Earlier(d)
    BY <1>1, <1>5, <1>13 DEF Earlier
  <2>2. number[d][k] = Given(k, d)
    BY DEF NumberInv
  <2>3. PICK f : f = AsksAt(k, s)
    OBVIOUS
  <2>4. PICK z : z = SumFunctionOnSet(Asks(k), Earlier(d))
    OBVIOUS
  <2>5. Given(k, d) = z + (IF NumberedIn(s) = d THEN SumFunctionOnSet(f, 1 .. j - 1) ELSE 0)
    BY <1>1, <1>2, <2>3, <2>4 DEF Given
  <2>6. Given(k, d)' = z + (IF NumberedIn(s) = d THEN SumFunctionOnSet(f, 1 .. (j + 1) - 1) ELSE 0)
    BY <1>5, <1>13, <2>1, <2>3, <2>4 DEF Given
  <2>7. \A i \in 1 .. Len(TablesAt(s)) : f[i] \in Nat
    BY <1>6, <2>3, AskType
  <2>8. f[j] = Asked(k, t)
    BY <1>3, <1>6, <1>7, <2>3, AskType
  <2>9. /\ SumFunctionOnSet(f, 1 .. j - 1) \in Nat
        /\ SumFunctionOnSet(f, 1 .. j) = SumFunctionOnSet(f, 1 .. j - 1) + f[j]
    <3>1. 1 \in Int /\ Len(TablesAt(s)) \in Int
      BY <1>7
    <3>2. PICK n \in Int : n = Len(TablesAt(s))
      BY <3>1
    <3>3. j \in 1 .. n /\ \A i \in 1 .. n : f[i] \in Nat
      BY <1>7, <2>7, <3>2
    <3>4. 1 \in Int /\ n \in Int
      OBVIOUS
    <3>5. /\ SumFunctionOnSet(f, 1 .. j - 1) \in Nat
          /\ SumFunctionOnSet(f, 1 .. j) = SumFunctionOnSet(f, 1 .. j - 1) + f[j]
      BY <3>3, <3>4, PrefixStep
    <3> QED BY <3>5
  <2>10. (j + 1) - 1 = j
    BY <1>8
  <2>11. z \in Nat
    <3>1. Earlier(d) \subseteq Stages /\ IsFiniteSet(Stages)
      BY <1>6, LoadedFacts DEF Earlier
    <3>2. PICK S : S = Earlier(d)
      OBVIOUS
    <3>3. PICK g : g = Asks(k)
      OBVIOUS
    <3>4. IsFiniteSet(S) /\ \A r \in S : g[r] \in Nat
      BY <1>6, <3>1, <3>2, <3>3, FS_Subset, AskType
    <3> QED BY <2>4, <3>2, <3>3, <3>4, SumNat
  <2>12. CASE d = c
    <3>1. number'[d][k] = number[d][k] + f[j]
      BY <1>12, <2>8, <2>12
    <3>2. Given(k, d)' = z + SumFunctionOnSet(f, 1 .. j) /\ Given(k, d) = z + SumFunctionOnSet(f, 1 .. j - 1)
      BY <1>4, <2>5, <2>6, <2>10, <2>12
    <3>3. f[j] \in Nat
      BY <1>7, <2>7
    <3> QED BY <2>2, <2>9, <2>11, <3>1, <3>2, <3>3
  <2>13. CASE d # c
    BY <1>4, <1>12, <2>2, <2>5, <2>6, <2>13
  <2> QED BY <2>12, <2>13
<1>20. ASSUME NEW u \in Tables, \A r \in Stages : ~ HasBlocks(r, u)' PROVE blocks'[u] = NoBlocks
  <2>1. u # t /\ \A r \in Stages : ~ HasBlocks(r, u)
    BY <1>15, <1>20
  <2>2. blocks[u] = NoBlocks
    BY <2>1 DEF NumberInv
  <2>3. "sram" \in Kinds
    BY DEF Kinds
  <2> QED BY <1>12, <2>1, <2>2, <2>3
<1>21. ASSUME NEW d \in Cluster, NEW k \in Kinds
       PROVE  number[d][k] \in Nat /\ number'[d][k] \in Nat /\ number[d][k] <= number'[d][k]
  <2>1. number[d].sram \in Nat /\ number[d].tcam \in Nat
    BY DEF Inv, TypeInv
  <2>2. number[d][k] \in Nat
    BY <2>1 DEF Kinds
  <2> QED BY <1>12, <2>2
<1>22. ASSUME NEW r \in Stages, NEW u \in Tables, HasBlocks(r, u)' PROVE Sound(r, u)'
  <2>1. PICK d \in Cluster : d = NumberedIn(r)
    BY NumberedInType
  <2>2. SUFFICES ASSUME NEW k \in Kinds
                 PROVE  /\ BlocksOf(k, u)' \subseteq 0 .. number'[d][k] - 1
                        /\ IsFiniteSet(BlocksOf(k, u)')
                        /\ Cardinality(BlocksOf(k, u)') = Asked(k, u)
    BY <1>13, <2>1 DEF Sound
  <2>3. CASE r = s /\ u = t
    <3>1. PICK n \in Nat : n = number[c][k]
      BY <1>12
    <3>2. PICK a \in Nat : a = Asked(k, t)
      BY <1>12
    <3>3. BlocksOf(k, t)' = n .. n + a - 1 /\ number'[c][k] = n + a
      BY <1>12, <3>1, <3>2
    <3>4. IsFiniteSet(n .. n + a - 1) /\ Cardinality(n .. n + a - 1) = a
      <4>1. IsFiniteSet(n .. n + a - 1)
        BY FS_Interval
      <4>2. Cardinality(n .. n + a - 1) = IF n > n + a - 1 THEN 0 ELSE (n + a - 1) - n + 1
        BY FS_Interval
      <4> QED BY <4>1, <4>2
    <3>5. n .. n + a - 1 \subseteq 0 .. (n + a) - 1
      OBVIOUS
    <3>6. d = c
      BY <1>4, <2>1, <2>3
    <3> QED BY <2>3, <3>2, <3>3, <3>4, <3>5, <3>6
  <2>4. CASE HasBlocks(r, u) /\ u # t
    <3>1. BlocksOf(k, u)' = BlocksOf(k, u)
      BY <1>14, <2>4
    <3>2. Sound(r, u)
      BY <2>4 DEF NumberInv
    <3>3. /\ BlocksOf(k, u) \subseteq 0 .. number[d][k] - 1
          /\ IsFiniteSet(BlocksOf(k, u)) /\ Cardinality(BlocksOf(k, u)) = Asked(k, u)
      BY <2>1, <3>2 DEF Sound
    <3>4. 0 .. number[d][k] - 1 \subseteq 0 .. number'[d][k] - 1
      BY <1>21
    <3> QED BY <3>1, <3>3, <3>4
  <2> QED BY <1>10, <1>15, <1>22, <2>3, <2>4
<1>23. ASSUME NEW r \in Stages, NEW u \in Tables, HasBlocks(r, u), NumberedIn(r) = c, NEW k \in Kinds
       PROVE  BlocksOf(k, u)' \cap BlocksOf(k, t)' = {}
  <2>1. u # t
    BY <1>10, <1>23
  <2>2. BlocksOf(k, u)' = BlocksOf(k, u)
    BY <1>14, <2>1
  <2>3. BlocksOf(k, u) \subseteq 0 .. number[c][k] - 1
    BY <1>23 DEF NumberInv, Sound
  <2>4. (0 .. number[c][k] - 1) \cap (number[c][k] .. number[c][k] + Asked(k, t) - 1) = {}
    BY <1>12
  <2> QED BY <1>12, <2>2, <2>3, <2>4
<1>24. ASSUME NEW r \in Stages, NEW q \in Stages, NEW u \in Tables, NEW v \in Tables,
              HasBlocks(r, u)', HasBlocks(q, v)', NumberedIn(q)' = NumberedIn(r)'
       PROVE  Apart(u, v)'
  <2>1. SUFFICES ASSUME u # v, NEW k \in Kinds PROVE BlocksOf(k, u)' \cap BlocksOf(k, v)' = {}
    BY DEF Apart
  <2>2. NumberedIn(q) = NumberedIn(r)
    BY <1>13, <1>24
  <2>3. CASE r = s /\ u = t
    <3>1. HasBlocks(q, v) /\ NumberedIn(q) = c
      BY <1>4, <1>15, <1>24, <2>1, <2>2, <2>3
    <3> QED BY <1>23, <2>3, <3>1
  <2>4. CASE q = s /\ v = t
    <3>1. HasBlocks(r, u) /\ NumberedIn(r) = c
      BY <1>4, <1>15, <1>24, <2>1, <2>2, <2>4
    <3> QED BY <1>23, <2>4, <3>1
  <2>5. CASE HasBlocks(r, u) /\ HasBlocks(q, v)
    <3>1. u # t /\ v # t
      BY <1>10, <2>5
    <3>2. BlocksOf(k, u)' = BlocksOf(k, u) /\ BlocksOf(k, v)' = BlocksOf(k, v)
      BY <1>14, <3>1
    <3>3. Apart(u, v)
      BY <2>2, <2>5 DEF NumberInv
    <3> QED BY <2>1, <3>2, <3>3 DEF Apart
  <2> QED BY <1>15, <1>24, <2>3, <2>4, <2>5
<1> QED
  BY <1>13, <1>18, <1>19, <1>20, <1>22, <1>24 DEF NumberInv

\* Numbering begins with no table numbered.
LEMMA StartNumberingMem ==
  ASSUME Inv, MemInv, StartNumbering
  PROVE  NumberInv'
<1>1. /\ pc = "place" /\ rest' = <<0, 1>> /\ UNCHANGED Program /\ UNCHANGED phys
      /\ UNCHANGED <<number, blocks>>
  BY DEF StartNumbering, Program, allocation
<1>2. Loaded
  BY DEF Inv
<1>3. /\ Stages' = Stages /\ Tables' = Tables /\ \A r : TablesAt(r)' = TablesAt(r)
  BY <1>1, SameAsks
<1>4. /\ \A r \in Stages : r \in Nat /\ TablesAt(r) \in Seq(Tables)
      /\ Cardinality(Stages) \in Nat
  BY <1>2, LoadedFacts
<1>5. ASSUME NEW r \in Stages, NEW t PROVE ~ HasBlocks(r, t)'
  <2>1. \A i \in DOMAIN TablesAt(r) : i \in Nat \ {0}
    BY <1>4
  <2>2. \A i \in DOMAIN TablesAt(r) : ~ Done(r, i)'
    BY <1>1, <1>4, <2>1 DEF Done
  <2> QED BY <1>3, <2>2 DEF HasBlocks
<1>6. AtRest'
  <2>1. 0 \in 0 .. Cardinality(Stages) /\ 1 \in Nat \ {0}
    BY <1>4
  <2>2. 0 \in Stages => 1 <= Len(TablesAt(0)) + 1
    <3>1. 0 \in Stages => Len(TablesAt(0)) \in Nat
      BY <1>4
    <3> QED BY <3>1
  <2> QED BY <1>1, <1>3, <2>1, <2>2 DEF AtRest
<1>7. ASSUME NEW c \in Cluster, NEW k \in Kinds PROVE number'[c][k] = Given(k, c)'
  <2>1. number[c][k] = 0
    BY <1>1 DEF MemInv
  <2>2. Earlier(c)' = {}
    BY <1>1, <1>3, <1>4 DEF Earlier
  <2>3. \A f : SumFunctionOnSet(f, {}) = 0
    BY SumEmpty
  <2>4. 1 .. 1 - 1 = {}
    OBVIOUS
  <2>5. Given(k, c)' = SumFunctionOnSet(Asks(k)', {})
                         + (IF 0 \in Stages /\ NumberedIn(0)' = c THEN SumFunctionOnSet(AsksAt(k, 0)', {}) ELSE 0)
    BY <1>1, <1>3, <2>2, <2>4 DEF Given
  <2>6. PICK f : f = Asks(k)'
    OBVIOUS
  <2>7. PICK g : g = AsksAt(k, 0)'
    OBVIOUS
  <2>8. SumFunctionOnSet(f, {}) = 0 /\ SumFunctionOnSet(g, {}) = 0
    BY <2>3
  <2> QED BY <1>1, <2>1, <2>5, <2>6, <2>7, <2>8
<1>8. \A t \in Tables : blocks[t] = NoBlocks
  BY <1>1 DEF MemInv
<1> QED
  BY <1>1, <1>3, <1>5, <1>6, <1>7, <1>8 DEF NumberInv

\* After the last table of a stage the first of the next one comes; what is numbered
\* is the same.
LEMMA NextStageMem ==
  ASSUME Inv, NumberInv, NumberNextStage
  PROVE  NumberInv'
<1>1. PICK s \in Stages : s = rest[1]
  BY DEF NumberNextStage
<1>2. /\ rest' = <<s + 1, 1>> /\ UNCHANGED Program /\ UNCHANGED phys /\ UNCHANGED <<number, blocks>>
  BY <1>1 DEF NumberNextStage, Program, allocation
<1>3. Loaded
  BY DEF Inv
<1>4. /\ Stages' = Stages /\ Tables' = Tables /\ \A r : TablesAt(r)' = TablesAt(r)
      /\ \A k, u : Asked(k, u)' = Asked(k, u)
      /\ \A k, r : AsksAt(k, r)' = AsksAt(k, r)
      /\ \A k : Asks(k)' = Asks(k)
      /\ \A r : NumberedIn(r)' = NumberedIn(r)
      /\ \A u, k : BlocksOf(k, u)' = BlocksOf(k, u)
  BY <1>2, SameAsks, SameSlots, SameBlocks
<1>5. /\ \A r \in Stages : r \in Nat /\ TablesAt(r) \in Seq(Tables)
      /\ Cardinality(Stages) \in Nat /\ Stages = 0 .. Cardinality(Stages) - 1 /\ IsFiniteSet(Stages)
  BY <1>3, LoadedFacts
<1>6. PICK n \in Nat : n = Len(TablesAt(s))
  BY <1>5
<1>7. DOMAIN TablesAt(s) = 1 .. n
  BY <1>5, <1>6
<1>8. rest[2] = n + 1
  <2>1. rest[2] \in Nat \ {0} /\ rest[2] <= n + 1
    BY <1>1, <1>6 DEF NumberInv, AtRest
  <2>2. rest[2] \notin 1 .. n
    BY <1>1, <1>7 DEF NumberNextStage, AtTable
  <2> QED BY <2>1, <2>2
<1>9. ASSUME NEW r \in Stages, NEW t PROVE HasBlocks(r, t)' <=> HasBlocks(r, t)
  <2>1. \A i \in DOMAIN TablesAt(r) : i \in Nat \ {0}
    BY <1>5
  <2>2. \A i \in DOMAIN TablesAt(r) : Done(r, i)' <=> r < s + 1 \/ (r = s + 1 /\ i < 1)
    BY <1>2 DEF Done
  <2>3. \A i \in DOMAIN TablesAt(r) : Done(r, i) <=> r < s \/ (r = s /\ i < n + 1)
    BY <1>1, <1>8 DEF Done
  <2>4. r = s => \A i \in DOMAIN TablesAt(r) : i < n + 1
    BY <1>7
  <2>5. \A i \in DOMAIN TablesAt(r) : Done(r, i)' <=> Done(r, i)
    BY <1>5, <2>1, <2>2, <2>3, <2>4
  <2>6. HasBlocks(r, t)' <=> \E i \in DOMAIN TablesAt(r) : TablesAt(r)[i] = t /\ Done(r, i)'
    BY <1>4 DEF HasBlocks
  <2> QED BY <2>5, <2>6 DEF HasBlocks
<1>10. AtRest'
  <2>1. s + 1 \in 0 .. Cardinality(Stages) /\ 1 \in Nat \ {0}
    BY <1>5
  <2>2. s + 1 \in Stages => 1 <= Len(TablesAt(s + 1)) + 1
    <3>1. s + 1 \in Stages => Len(TablesAt(s + 1)) \in Nat
      BY <1>5
    <3> QED BY <3>1
  <2> QED BY <1>2, <1>4, <2>1, <2>2 DEF AtRest
<1>11. ASSUME NEW d \in Cluster, NEW k \in Kinds PROVE number'[d][k] = Given(k, d)'
  <2>1. number[d][k] = Given(k, d)
    BY DEF NumberInv
  <2>2. PICK S : S = Earlier(d)
    OBVIOUS
  <2>3. PICK f : f = Asks(k)
    OBVIOUS
  <2>4. PICK g : g = AsksAt(k, s)
    OBVIOUS
  <2>5. Given(k, d) = SumFunctionOnSet(f, S)
                        + (IF NumberedIn(s) = d THEN SumFunctionOnSet(g, 1 .. n) ELSE 0)
    <3>1. rest[2] - 1 = n
      BY <1>8
    <3> QED BY <1>1, <2>2, <2>3, <2>4, <3>1 DEF Given
  <2>6. f[s] = SumFunctionOnSet(g, 1 .. n) /\ \A r \in Stages : f[r] \in Nat
    BY <1>3, <1>6, <2>3, <2>4, AskType
  <2>7. S \subseteq Stages /\ s \notin S /\ IsFiniteSet(S)
    <3>1. S \subseteq Stages /\ s \notin S
      BY <1>1, <1>5, <2>2 DEF Earlier
    <3> QED BY <1>5, <3>1, FS_Subset
  <2>8. Earlier(d)' = S \cup (IF NumberedIn(s) = d THEN {s} ELSE {})
    <3>1. Earlier(d)' = {r \in Stages : r < s + 1 /\ NumberedIn(r) = d}
      BY <1>2, <1>4 DEF Earlier
    <3>2. S = {r \in Stages : r < s /\ NumberedIn(r) = d}
      BY <1>1, <2>2 DEF Earlier
    <3>3. \A r \in Stages : r < s + 1 <=> r < s \/ r = s
      BY <1>5
    <3> QED BY <3>1, <3>2, <3>3
  <2>9. SumFunctionOnSet(f, S) \in Int
    BY <2>6, <2>7, SumNat
  <2>10. f[s] \in Nat
    BY <2>6
  <2>11. Given(k, d)' = SumFunctionOnSet(f, Earlier(d)')
    <3>1. PICK T : T = Earlier(d)'
      OBVIOUS
    <3>2. PICK h : h = AsksAt(k, s + 1)'
      OBVIOUS
    <3>3. Given(k, d)' = SumFunctionOnSet(f, T)
             + (IF s + 1 \in Stages /\ NumberedIn(s + 1)' = d THEN SumFunctionOnSet(h, 1 .. 1 - 1) ELSE 0)
      BY <1>2, <1>4, <2>3, <3>1, <3>2 DEF Given
    <3>4. SumFunctionOnSet(h, 1 .. 1 - 1) = 0
      <4>1. 1 .. 1 - 1 = {}
        OBVIOUS
      <4> QED BY <4>1, SumEmpty
    <3>5. SumFunctionOnSet(f, T) \in Int
      <4>1. IsFiniteSet(T) /\ T \subseteq Stages
        BY <1>4, <1>5, <3>1, FS_Subset DEF Earlier
      <4> QED BY <2>6, <4>1, SumNat
    <3> QED BY <3>1, <3>3, <3>4, <3>5
  <2>12. CASE NumberedIn(s) = d
    <3>1. SumFunctionOnSet(f, S \cup {s}) = SumFunctionOnSet(f, S) + f[s]
      <4>1. \A r \in S : f[r] \in Int
        BY <2>6, <2>7
      <4>2. f[s] \in Int
        BY <2>10
      <4> QED BY <2>7, <4>1, <4>2, SumAdd
    <3>2. number[d][k] = SumFunctionOnSet(f, S) + f[s]
      BY <2>1, <2>5, <2>6, <2>12
    <3> QED BY <1>2, <2>8, <2>11, <2>12, <3>1, <3>2
  <2>13. CASE NumberedIn(s) # d
    <3>1. Earlier(d)' = S
      BY <2>8, <2>13
    <3>2. number[d][k] = SumFunctionOnSet(f, S)
      BY <2>1, <2>5, <2>9, <2>13
    <3> QED BY <1>2, <2>11, <3>1, <3>2
  <2> QED BY <2>12, <2>13
<1>12. \A r \in Stages, u \in Tables : HasBlocks(r, u)' => Sound(r, u)'
  BY <1>2, <1>4, <1>9 DEF NumberInv, Sound
<1>13. \A t, u \in Tables : Apart(t, u) => Apart(t, u)'
  BY <1>4 DEF Apart
<1> QED
  BY <1>2, <1>4, <1>9, <1>10, <1>11, <1>12, <1>13 DEF NumberInv

\* When every table is numbered, the memory is as it should be.
LEMMA NumberedMem ==
  ASSUME Inv, MemInv, Numbered
  PROVE  MemorySound'
<1>1. /\ pc = "number" /\ rest[1] \notin Stages /\ UNCHANGED Program
      /\ UNCHANGED <<phys, blocks, unplaced>>
  BY DEF Numbered, Program, allocation
<1>2. Loaded /\ NumberInv
  BY <1>1 DEF Inv, MemInv
<1>3. /\ Stages' = Stages /\ Tables' = Tables /\ \A r : TablesAt(r)' = TablesAt(r)
      /\ \A k, u : Asked(k, u)' = Asked(k, u)
      /\ \A r : NumberedIn(r)' = NumberedIn(r)
      /\ \A u, k : BlocksOf(k, u)' = BlocksOf(k, u)
  BY <1>1, SameAsks, SameSlots, SameBlocks
<1>4. /\ \A r \in Stages : r \in Nat /\ TablesAt(r) \in Seq(Tables)
      /\ Cardinality(Stages) \in Nat /\ Stages = 0 .. Cardinality(Stages) - 1 /\ IsFiniteSet(Stages)
  BY <1>2, LoadedFacts
<1>5. \A r \in Stages : r < rest[1]
  BY <1>1, <1>2, <1>4 DEF NumberInv, AtRest
<1>6. ASSUME NEW r \in Stages, NEW t \in ToSet(TablesAt(r)) PROVE HasBlocks(r, t) /\ t \in Tables
  <2>1. PICK i \in DOMAIN TablesAt(r) : TablesAt(r)[i] = t
    BY DEF ToSet
  <2>2. t \in Tables
    BY <1>4, <2>1
  <2> QED BY <1>5, <2>1, <2>2 DEF HasBlocks, Done
<1>7. ASSUME unplaced = {}, NEW c \in Cluster, NEW k \in Kinds
      PROVE  number[c][k] \in Int /\ number[c][k] <= Count(k) /\ Count(k) \in Nat
  <2>1. \A r \in Stages : HasSlot(r)
    BY <1>1, <1>7 DEF Inv, Placement, Waiting
  <2>2. PICK S : S = Earlier(c)
    OBVIOUS
  <2>3. S = PlacedIn(c)
    BY <1>5, <2>1, <2>2 DEF Earlier, PlacedIn
  <2>4. PICK f : f = Asks(k)
    OBVIOUS
  <2>5. S \subseteq Stages /\ IsFiniteSet(S)
    <3>1. S \subseteq Stages
      BY <2>2 DEF Earlier
    <3> QED BY <1>4, <3>1, FS_Subset
  <2>6. \A r \in S : f[r] \in Nat
    BY <1>2, <2>4, <2>5, AskType
  <2>7. SumFunctionOnSet(f, S) \in Nat
    BY <2>5, <2>6, SumNat
  <2>8. number[c][k] = SumFunctionOnSet(f, S) + 0
    BY <1>1, <1>2, <2>2, <2>4 DEF NumberInv, Given
  <2>9. space[c][k] + SumFunctionOnSet(f, S) = Count(k)
    BY <1>1, <2>3, <2>4 DEF MemInv
  <2>10. space[c][k] \in Nat
    <3>1. space[c].sram \in Nat /\ space[c].tcam \in Nat
      BY ClusterAssumption DEF Inv, TypeInv
    <3> QED BY <3>1 DEF Kinds
  <2>11. Count(k) \in Nat
    BY ClusterAssumption DEF Count
  <2> QED BY <2>7, <2>8, <2>9, <2>10, <2>11
<1>8. ASSUME NEW s \in Stages, NEW t \in ToSet(TablesAt(s)), NEW k \in Kinds
      PROVE  /\ Cardinality(BlocksOf(k, t)) = Asked(k, t)
             /\ unplaced = {} => BlocksOf(k, t) \subseteq 0 .. Count(k) - 1
  <2>1. HasBlocks(s, t) /\ t \in Tables
    BY <1>6
  <2>2. Sound(s, t)
    BY <1>2, <2>1 DEF NumberInv
  <2>3. PICK c \in Cluster : c = NumberedIn(s)
    BY NumberedInType
  <2>4. BlocksOf(k, t) \subseteq 0 .. number[c][k] - 1 /\ Cardinality(BlocksOf(k, t)) = Asked(k, t)
    BY <2>2, <2>3 DEF Sound
  <2>5. ASSUME unplaced = {} PROVE 0 .. number[c][k] - 1 \subseteq 0 .. Count(k) - 1
    BY <1>7, <2>5
  <2> QED BY <2>4, <2>5
<1>9. ASSUME NEW s \in Stages, NEW t \in ToSet(TablesAt(s)), NEW r \in Stages, NEW u \in ToSet(TablesAt(r)),
             t # u, NumberedIn(r) = NumberedIn(s)
      PROVE  ~ Overlap(t, u)
  <2>1. HasBlocks(s, t) /\ t \in Tables /\ HasBlocks(r, u) /\ u \in Tables
    BY <1>6
  <2>2. Apart(t, u)
    BY <1>2, <1>9, <2>1 DEF NumberInv
  <2>3. BlocksOf("sram", t) \cap BlocksOf("sram", u) = {} /\ BlocksOf("tcam", t) \cap BlocksOf("tcam", u) = {}
    BY <1>9, <2>2 DEF Apart, Kinds
  <2> QED BY <2>3 DEF BlocksOf, Overlap
<1>10. ASSUME NEW s \in Stages, NEW t \in ToSet(TablesAt(s))
       PROVE  /\ Cardinality(SramOf(t)) = Sram(t) /\ Cardinality(TcamOf(t)) = Tcam(t)
              /\ unplaced = {} => SramOf(t) \subseteq 0 .. SramCount - 1 /\ TcamOf(t) \subseteq 0 .. TcamCount - 1
  <2>1. "sram" \in Kinds /\ "tcam" \in Kinds
    BY DEF Kinds
  <2>2. /\ Cardinality(BlocksOf("sram", t)) = Asked("sram", t)
        /\ unplaced = {} => BlocksOf("sram", t) \subseteq 0 .. Count("sram") - 1
    BY <1>8, <2>1
  <2>3. /\ Cardinality(BlocksOf("tcam", t)) = Asked("tcam", t)
        /\ unplaced = {} => BlocksOf("tcam", t) \subseteq 0 .. Count("tcam") - 1
    BY <1>8, <2>1
  <2> QED BY <2>2, <2>3 DEF BlocksOf, Asked, Count
<1>11. \A t : Sram(t)' = Sram(t) /\ Tcam(t)' = Tcam(t) /\ SramOf(t)' = SramOf(t) /\ TcamOf(t)' = TcamOf(t)
  BY <1>1 DEF Sram, Tcam, SramOf, TcamOf, Program
<1>12. \A t, u : Overlap(t, u)' <=> Overlap(t, u)
  BY <1>11 DEF Overlap
<1> QED
  BY <1>1, <1>3, <1>9, <1>10, <1>11, <1>12 DEF MemorySound, TablesAt

\* Memory nothing was given of.
LEMMA EmptyMem ==
  ASSUME number' = [c \in Cluster |-> [sram |-> 0, tcam |-> 0]]
  PROVE  \A c \in Cluster, k \in Kinds : number'[c][k] = 0
<1>1. \A c \in Cluster : number'[c].sram = 0 /\ number'[c].tcam = 0
  OBVIOUS
<1> QED BY <1>1 DEF Kinds

LEMMA FullMem ==
  ASSUME space' = [c \in Cluster |-> [sram |-> SramCount, tcam |-> TcamCount]]
  PROVE  \A c \in Cluster, k \in Kinds : space'[c][k] = Count(k)
<1>1. \A c \in Cluster : space'[c].sram = SramCount /\ space'[c].tcam = TcamCount
  OBVIOUS
<1> QED BY <1>1 DEF Kinds, Count

\* The space of clusters without stages is all of it.
LEMMA FullPlaces ==
  ASSUME \A c \in Cluster, k \in Kinds : space'[c][k] = Count(k), \A s \in Stages' : ~ HasSlot(s)'
  PROVE  \A c \in Cluster, k \in Kinds : space'[c][k] + SumFunctionOnSet(Asks(k)', PlacedIn(c)') = Count(k)
<1>1. SUFFICES ASSUME NEW c \in Cluster, NEW k \in Kinds
               PROVE  space'[c][k] + SumFunctionOnSet(Asks(k)', PlacedIn(c)') = Count(k)
  OBVIOUS
<1>2. PlacedIn(c)' = {}
  BY DEF PlacedIn
<1>3. SumFunctionOnSet(Asks(k)', PlacedIn(c)') = 0
  <2>1. PICK f : f = Asks(k)'
    OBVIOUS
  <2> QED BY <1>2, <2>1, SumEmpty
<1>4. Count(k) \in Nat
  BY ClusterAssumption DEF Count
<1> QED BY <1>3, <1>4

LEMMA LoadMem == ASSUME Inv, NEW p \in Programs, Load(p) PROVE MemInv'
<1>1. /\ pc' = "parsers"
      /\ space' = [c \in Cluster |-> [sram |-> SramCount, tcam |-> TcamCount]]
      /\ number' = [c \in Cluster |-> [sram |-> 0, tcam |-> 0]]
      /\ blocks' = [t \in Tables' |-> NoBlocks]
  BY DEF Load, Untouched, Tables, NoBlocks
<1>2. \A t \in Tables' : blocks'[t] = NoBlocks
  BY <1>1
<1> QED
  BY <1>1, <1>2, EmptyMem, FullMem DEF MemInv, MemorySound

\* States in which no full allocation is under way or just done.
LEMMA OtherMem == pc \in {"idle", "dead"} \/ (pc \in {"book", "procs"} /\ incr) => MemInv
  BY DEF MemInv, MemorySound

\* Steps between loading and placing that leave the memory alone.
LEMMA QuietMem ==
  ASSUME Inv, MemInv, UNCHANGED Program, UNCHANGED <<number, blocks>>,
         \/ pc = "parsers" /\ pc' = "levels" /\ UNCHANGED space
         \/ pc = "levels" /\ pc' \in {"levels", "fixed"} /\ UNCHANGED space
         \/ pc = "fixed" /\ pc' = "fixed"
  PROVE  MemInv'
<1>1. Tables' = Tables
  BY SameAsks
<1> QED
  BY <1>1 DEF MemInv, MemorySound

\* The first fit begins with no stage placed.
LEMMA BeginMem ==
  ASSUME Inv, MemInv, Inv', UNCHANGED Program, UNCHANGED <<number, blocks>>,
         pc \in {"levels", "fixed"}, pc' = "place",
         \A c \in Cluster, k \in Kinds : space'[c][k] = Count(k), \A s \in Stages' : ~ HasSlot(s)'
  PROVE  MemInv'
<1>1. Tables' = Tables
  BY SameAsks
<1>2. \A c \in Cluster, k \in Kinds : space'[c][k] + SumFunctionOnSet(Asks(k)', PlacedIn(c)') = Count(k)
  BY FullPlaces
<1> QED
  BY <1>1, <1>2 DEF MemInv, MemorySound

LEMMA PlaceMem == ASSUME Inv, MemInv, Place \/ PlaceNowhere PROVE MemInv'
<1>1. PICK s : s = Head(rest)
  OBVIOUS
<1>2. /\ pc = "place" /\ pc' = "place" /\ rest # <<>>
      /\ UNCHANGED Program /\ UNCHANGED <<number, blocks>>
  BY DEF Place, PlaceNowhere, Program
<1>3. Tables' = Tables
  BY <1>2, SameAsks
<1>4. \A c \in Cluster, k \in Kinds : space[c][k] + SumFunctionOnSet(Asks(k), PlacedIn(c)) = Count(k)
  BY <1>2 DEF MemInv
<1>5. \A c \in Cluster, k \in Kinds : space'[c][k] + SumFunctionOnSet(Asks(k)', PlacedIn(c)') = Count(k)
  <2>1. CASE Place
    <3>1. PICK c \in Cluster : Fits(s, c) /\ Settle(s, c)
      BY <1>1, <2>1 DEF Place
    <3>2. s \in Stages /\ s \in ToSet(rest)
      BY <1>1, <1>2, NextStage
    <3>3. ~ HasSlot(s)
      BY <1>2, <3>2 DEF Inv, Placement, Waiting
    <3> QED BY <1>2, <1>4, <3>1, <3>2, <3>3, SettleSum
  <2>2. CASE PlaceNowhere
    <3>1. UNCHANGED phys /\ space' = space
      BY <2>2 DEF PlaceNowhere
    <3>2. \A c, k : Asks(k)' = Asks(k) /\ PlacedIn(c)' = PlacedIn(c)
      BY <1>2, <3>1, SameAsks, SameSlots
    <3>3. SUFFICES ASSUME NEW c \in Cluster, NEW k \in Kinds
                   PROVE  space'[c][k] + SumFunctionOnSet(Asks(k)', PlacedIn(c)') = Count(k)
      OBVIOUS
    <3> QED BY <1>4, <3>1, <3>2
  <2> QED BY <2>1, <2>2
<1> QED
  BY <1>2, <1>3, <1>5 DEF MemInv, MemorySound

LEMMA NumberingMem ==
  ASSUME NamesOnce, Inv, MemInv, StartNumbering \/ NumberTable \/ NumberNextStage
  PROVE  MemInv'
<1>1. /\ pc \in {"place", "number"} /\ pc' = "number" /\ UNCHANGED Program
      /\ UNCHANGED <<phys, space>>
  BY DEF StartNumbering, NumberTable, NumberNextStage, Program, allocation
<1>2. NumberInv'
  <2>1. CASE StartNumbering
    BY <2>1, StartNumberingMem
  <2>2. CASE NumberTable
    <3>1. NumberInv
      BY <2>2 DEF NumberTable, MemInv
    <3> QED BY <2>2, <3>1, NumberTableMem
  <2>3. CASE NumberNextStage
    <3>1. NumberInv
      BY <2>3 DEF NumberNextStage, MemInv
    <3> QED BY <2>3, <3>1, NextStageMem
  <2> QED BY <2>1, <2>2, <2>3
<1>3. \A c \in Cluster, k \in Kinds : space'[c][k] + SumFunctionOnSet(Asks(k)', PlacedIn(c)') = Count(k)
  <2>1. \A c, k : Asks(k)' = Asks(k) /\ PlacedIn(c)' = PlacedIn(c)
    BY <1>1, SameAsks, SameSlots
  <2>2. \A c \in Cluster, k \in Kinds : space[c][k] + SumFunctionOnSet(Asks(k), PlacedIn(c)) = Count(k)
    BY <1>1 DEF MemInv
  <2>3. SUFFICES ASSUME NEW c \in Cluster, NEW k \in Kinds
                 PROVE  space'[c][k] + SumFunctionOnSet(Asks(k)', PlacedIn(c)') = Count(k)
    OBVIOUS
  <2> QED BY <1>1, <2>1, <2>2
<1> QED
  BY <1>1, <1>2, <1>3 DEF MemInv, MemorySound

\* The memory's invariant is kept too.
LEMMA NextMem == NamesOnce /\ Inv /\ MemInv /\ [Next]_vars => MemInv'
<1> SUFFICES ASSUME NamesOnce, Inv, MemInv, [Next]_vars PROVE MemInv'
  OBVIOUS
<1>0. Inv'
  BY NextInv
<1>1. ASSUME pc' \in {"idle", "dead"} \/ (pc' \in {"book", "procs"} /\ incr') PROVE MemInv'
  BY <1>1 DEF MemInv, MemorySound
<1>2. ASSUME NEW p \in Programs, Load(p) PROVE MemInv'
  BY <1>2, LoadMem
<1>3. CASE Dies
  BY <1>1, <1>3 DEF Dies
<1>4. ASSUME NEW p \in Programs, LoadWild(p) PROVE MemInv'
  BY <1>3, <1>4 DEF LoadWild
<1>5. CASE Update
  BY <1>1, <1>5 DEF Update, EmitUpdate, Dies
<1>6. CASE SortStages
  <2>1. CASE ~ Dies
    <3>1. pc = "parsers" /\ pc' = "levels" /\ UNCHANGED Program /\ UNCHANGED <<space, number, blocks>>
      BY <1>6, <2>1 DEF SortStages, Program, allocation
    <3> QED BY <3>1, QuietMem
  <2> QED BY <1>3, <2>1
<1>7. CASE Distribute \/ Tie
  <2>1. /\ pc = "levels" /\ pc' \in {"levels", "fixed"} /\ UNCHANGED Program
        /\ UNCHANGED <<space, number, blocks>>
    BY <1>7 DEF Distribute, Tie, Program, allocation
  <2> QED BY <2>1, QuietMem
<1>8. CASE PlaceFixed
  <2>1. pc = "fixed" /\ pc' = "fixed" /\ UNCHANGED Program /\ UNCHANGED <<number, blocks>>
    BY <1>8 DEF PlaceFixed, Program
  <2> QED BY <2>1, QuietMem
<1>9. CASE AllocateMemory
  <2>1. /\ pc = "levels" /\ pc' = "place" /\ phys' = [i \in Slot |-> NoStage] /\ members' = members
        /\ UNCHANGED Program /\ UNCHANGED <<space, number, blocks>>
    BY <1>9 DEF AllocateMemory, Empty, Program
  <2>2. \A c \in Cluster, k \in Kinds : space'[c][k] = Count(k)
    BY <2>1 DEF MemInv
  <2>3. \A s \in Stages' : ~ HasSlot(s)'
    BY <1>0, <2>1, NoPlaces DEF Inv, TypeInv
  <2> QED BY <1>0, <2>1, <2>2, <2>3, BeginMem
<1>10. CASE StartOver
  <2>1. /\ pc \in {"levels", "fixed"} /\ pc' = "place" /\ phys' = [i \in Slot |-> NoStage]
        /\ space' = [c \in Cluster |-> [sram |-> SramCount, tcam |-> TcamCount]]
        /\ UNCHANGED Program /\ UNCHANGED <<number, blocks>>
    BY <1>10 DEF StartOver, Empty, Program
  <2>2. \A c \in Cluster, k \in Kinds : space'[c][k] = Count(k)
    BY <2>1, FullMem
  <2>3. \A s \in Stages' : ~ HasSlot(s)'
    BY <1>0, <2>1, NoPlaces DEF Inv, TypeInv
  <2> QED BY <1>0, <2>1, <2>2, <2>3, BeginMem
<1>11. CASE Place \/ PlaceNowhere
  BY <1>11, PlaceMem
<1>12. CASE StartNumbering \/ NumberTable \/ NumberNextStage
  BY <1>12, NumberingMem
<1>13. CASE Numbered
  <2>1. MemorySound'
    BY <1>13, NumberedMem
  <2>2. pc' = "procs"
    BY <1>13 DEF Numbered
  <2> QED BY <2>1, <2>2 DEF MemInv
<1>14. CASE CopyTables \/ BookTable \/ Booked
  <2>1. pc' \in {"book", "procs"} /\ incr'
    BY <1>14 DEF CopyTables, BookTable, Booked, MemInv
  <2> QED BY <1>1, <2>1
<1>15. CASE Overrun \/ BuildNothing
  BY <1>3, <1>15 DEF Overrun, BuildNothing
<1>16. CASE BuildProcessors
  BY <1>1, <1>16 DEF BuildProcessors
<1>17. CASE UNCHANGED vars
  <2>1. UNCHANGED Program /\ UNCHANGED <<pc, rest, incr, space, phys, unplaced, number, blocks>>
    BY <1>17 DEF vars, Program
  <2>2. /\ Stages' = Stages /\ Tables' = Tables /\ \A r : TablesAt(r)' = TablesAt(r)
        /\ \A k, u : Asked(k, u)' = Asked(k, u)
        /\ \A k, r : AsksAt(k, r)' = AsksAt(k, r)
        /\ \A k : Asks(k)' = Asks(k)
        /\ \A r : NumberedIn(r)' = NumberedIn(r)
        /\ \A c : PlacedIn(c)' = PlacedIn(c)
        /\ \A u, k : BlocksOf(k, u)' = BlocksOf(k, u)
    BY <2>1, SameAsks, SameSlots, SameBlocks
  <2>3. MemorySound'
    <3>1. MemorySound
      BY DEF MemInv
    <3>2. \A t : Sram(t)' = Sram(t) /\ Tcam(t)' = Tcam(t) /\ SramOf(t)' = SramOf(t) /\ TcamOf(t)' = TcamOf(t)
      BY <2>1 DEF Sram, Tcam, SramOf, TcamOf, Program
    <3>3. \A t, u : Overlap(t, u)' <=> Overlap(t, u)
      BY <3>2 DEF Overlap
    <3> QED BY <2>1, <2>2, <3>1, <3>2, <3>3 DEF MemorySound, TablesAt
  <2>4. NumberInv => NumberInv'
    <3>1. \A r, u : HasBlocks(r, u)' <=> HasBlocks(r, u)
      BY <2>1, <2>2 DEF HasBlocks, Done
    <3>2. \A c, k : Given(k, c)' = Given(k, c)
      BY <2>1, <2>2 DEF Given, Earlier
    <3>3. AtRest' <=> AtRest
      BY <2>1, <2>2 DEF AtRest
    <3>4. \A r, u : Sound(r, u) => Sound(r, u)'
      BY <2>1, <2>2 DEF Sound
    <3>5. \A t, u : Apart(t, u) => Apart(t, u)'
      BY <2>2 DEF Apart
    <3> QED BY <2>1, <2>2, <3>1, <3>2, <3>3, <3>4, <3>5 DEF NumberInv
  <2>5. /\ pc' = pc /\ space' = space /\ incr' = incr /\ number' = number /\ blocks' = blocks
    BY <2>1
  <2>6. \A c, k : SumFunctionOnSet(Asks(k)', PlacedIn(c)') = SumFunctionOnSet(Asks(k), PlacedIn(c))
    BY <2>2
  <2> QED BY <2>2, <2>3, <2>4, <2>5, <2>6 DEF MemInv
<1> QED
  BY <1>2, <1>3, <1>4, <1>5, <1>6, <1>7, <1>8, <1>9, <1>10, <1>11, <1>12, <1>13, <1>14,
     <1>15, <1>16, <1>17 DEF Next, Compile, Emit

\* Where no program names a table twice, a full allocation gives every table the blocks
\* it asks for, shares no block of a cluster, and stays in the cluster's memory when all
\* stages found a place: what the numbering has given of a cluster never exceeds what
\* the stages placed there took of its space.
THEOREM MemoryGiven == ASSUME NamesOnce PROVE Spec => []MemorySound
<1>1. Init => Inv /\ MemInv
  <2>1. Init => pc \in {"idle", "dead"}
    BY DEF Init
  <2> QED BY <2>1, InitInv, OtherMem
<1>2. Inv /\ MemInv /\ [Next]_vars => Inv' /\ MemInv'
  BY NextInv, NextMem
<1>3. MemInv => MemorySound
  BY DEF MemInv
<1> QED
  BY <1>1, <1>2, <1>3, PTL DEF Spec

-----------------------------------------------------------------------------
(***************************************************************************)
(* The processors of the output (allocateProcessors).                      *)
(***************************************************************************)
\* Levels are parsed in finitely many groups.
LEMMA GroupsLen ==
  ASSUME NEW seq, Len(seq) \in Nat
  PROVE  Len(Groups(seq)) \in Nat
<1>1. PICK n : n = (Len(seq) + MaxLevel - 1) \div MaxLevel
  OBVIOUS
<1>2. MaxLevel \in Nat \ {0}
  BY ClusterAssumption
<1>3. PICK a \in Nat : a = Len(seq) + MaxLevel - 1
  BY <1>2
<1>4. n \in Nat
  BY <1>1, <1>2, <1>3, DivMod
<1>5. PICK q : q = Groups(seq)
  OBVIOUS
<1>6. DOMAIN q = 1 .. n /\ q = [g \in 1 .. n |-> q[g]]
  BY <1>1, <1>5 DEF Groups
<1>7. q \in [1 .. n -> {q[g] : g \in 1 .. n}]
  BY <1>6
<1> QED
  BY <1>4, <1>5, <1>7, FunctionIsSeq

\* The slots below a number have the stages allocated there, and no other slot has one.
Shaped(acc) ==
  /\ acc = [procs |-> acc.procs, extra |-> acc.extra, short |-> acc.short]
  /\ \E L : acc.procs \in [Slot -> [stage : Int, id : Int, levels : L]]
  /\ acc.extra \in Nat /\ acc.extra >= Cardinality(Stages)
Holds(proc, i, j) ==
  IF j < i /\ At(j) \in Stages THEN proc.stage = At(j) /\ proc.id = At(j)
  ELSE proc.stage = -1 /\ (proc.id = -1 \/ proc.id >= Cardinality(Stages))
Stocked(acc, i) == Shaped(acc) /\ \A j \in Slot : Holds(acc.procs[j], i, j)

\* A group of levels goes to a processor of its own or to one that is taken, and moves
\* no stage.
LEMMA PutLevelsStocked ==
  ASSUME Loaded, NEW acc, NEW n, Stocked(acc, n), NEW i \in Slot, NEW group, NEW last \in BOOLEAN
  PROVE  Stocked(PutLevels(acc, i, group, last), n)
<1>1. PICK L : acc.procs \in [Slot -> [stage : Int, id : Int, levels : L]]
  BY DEF Stocked, Shaped
<1>2. Cardinality(Stages) \in Nat /\ \A s \in Stages : s \in Nat
  BY LoadedFacts
<1>3. acc = [procs |-> acc.procs, extra |-> acc.extra, short |-> acc.short]
  BY DEF Stocked, Shaped
<1>4. acc.extra \in Nat /\ acc.extra >= Cardinality(Stages)
  BY DEF Stocked, Shaped
<1>5. PICK p : p = acc.procs
  OBVIOUS
<1>6. CASE last \/ FreeSlots(acc) = {}
  <2>1. PICK ls : ls = p[i].levels \o group
    OBVIOUS
  <2>2. PICK q : q = [p EXCEPT ![i].levels = ls]
    OBVIOUS
  <2>3. PICK r : r = PutLevels(acc, i, group, last)
    OBVIOUS
  <2>4. PICK b : b = (acc.short \/ ~ last)
    OBVIOUS
  <2>5. r = [acc EXCEPT !.procs[i].levels = ls, !.short = b]
    BY <1>5, <1>6, <2>1, <2>3, <2>4 DEF PutLevels
  <2>6. r = [procs |-> q, extra |-> acc.extra, short |-> b]
    BY <1>3, <1>5, <2>2, <2>5
  <2>7. q \in [Slot -> [stage : Int, id : Int, levels : L \cup {ls}]]
    BY <1>1, <1>5, <2>2
  <2>8. \A j \in Slot : q[j].stage = p[j].stage /\ q[j].id = p[j].id
    BY <1>1, <1>5, <2>2
  <2>9. \A j \in Slot : Holds(q[j], n, j)
    BY <1>5, <2>8 DEF Stocked, Holds
  <2>10. r.procs = q /\ r.extra = acc.extra /\ r.short = b
    BY <2>6
  <2> QED BY <1>4, <2>3, <2>6, <2>7, <2>9, <2>10 DEF Stocked, Shaped
<1>7. CASE ~ last /\ FreeSlots(acc) # {}
  <2>1. PICK k : k = LeastSlot(FreeSlots(acc))
    OBVIOUS
  <2>2. k \in FreeSlots(acc)
    <3>1. PICK F : F = FreeSlots(acc)
      OBVIOUS
    <3>2. F \subseteq Nat /\ F # {}
      BY <1>7, <3>1, ClusterType DEF FreeSlots
    <3>3. \E x \in F : \A y \in F : x <= y
      BY <3>2, LeastElement
    <3> QED BY <2>1, <3>1, <3>3 DEF LeastSlot
  <2>3. k \in Slot /\ At(k) \notin Stages
    BY <1>2, <2>2 DEF FreeSlots, NoStage
  <2>4. PICK x : x = [stage |-> -1, id |-> acc.extra, levels |-> group]
    OBVIOUS
  <2>5. PICK q : q = [p EXCEPT ![k] = x]
    OBVIOUS
  <2>6. PICK r : r = PutLevels(acc, i, group, last)
    OBVIOUS
  <2>7. r = [acc EXCEPT !.procs[k] = x, !.extra = acc.extra + 1]
    BY <1>7, <2>1, <2>4, <2>6 DEF PutLevels
  <2>8. r = [procs |-> q, extra |-> acc.extra + 1, short |-> acc.short]
    BY <1>3, <1>5, <2>5, <2>7
  <2>9. q \in [Slot -> [stage : Int, id : Int, levels : L \cup {group}]]
    <3>1. x \in [stage : Int, id : Int, levels : L \cup {group}]
      BY <1>4, <2>4
    <3>2. p \in [Slot -> [stage : Int, id : Int, levels : L \cup {group}]]
      BY <1>1, <1>5
    <3> QED BY <2>5, <3>1, <3>2
  <2>10. \A j \in Slot : Holds(q[j], n, j)
    <3>1. ASSUME NEW j \in Slot PROVE Holds(q[j], n, j)
      <4>1. CASE j = k
        <5>1. q[j] = x
          BY <1>1, <1>5, <2>5, <4>1
        <5> QED BY <1>4, <2>3, <2>4, <4>1, <5>1 DEF Holds
      <4>2. CASE j # k
        <5>1. q[j] = p[j]
          BY <1>1, <1>5, <2>5, <4>2
        <5> QED BY <1>5, <5>1 DEF Stocked
      <4> QED BY <4>1, <4>2
    <3> QED BY <3>1
  <2>11. r.procs = q /\ r.extra = acc.extra + 1 /\ r.short = acc.short
    BY <2>8
  <2>12. acc.extra + 1 \in Nat /\ acc.extra + 1 >= Cardinality(Stages)
    BY <1>2, <1>4
  <2> QED BY <2>6, <2>8, <2>9, <2>10, <2>11, <2>12 DEF Stocked, Shaped
<1> QED
  BY <1>6, <1>7

\* The processors after every group of levels of the stage in slot i.
Puts(first, i, groups, last, N, g) ==
  g = [d \in 0 .. N |-> IF d = 0 THEN first ELSE PutLevels(g[d - 1], i, groups[d], d = last)]
PutsOf(first, i, groups, n) == CHOOSE g : Puts(first, i, groups, n, n, g)

LEMMA PutsExist ==
  ASSUME NEW first, NEW i, NEW groups, NEW last, NEW N \in Nat
  PROVE  \E g : Puts(first, i, groups, last, N, g)
<1> DEFINE T == {n \in Nat : \E g : Puts(first, i, groups, last, n, g)}
<1>1. 0 \in T
  <2> DEFINE g == [d \in 0 .. 0 |-> first]
  <2>1. Puts(first, i, groups, last, 0, g)
    BY DEF Puts
  <2> QED BY <2>1
<1>2. ASSUME NEW n \in T PROVE n + 1 \in T
  <2>1. PICK g : Puts(first, i, groups, last, n, g)
    OBVIOUS
  <2>2. n \in Nat
    OBVIOUS
  <2> DEFINE h == [d \in 0 .. n + 1 |-> IF d = 0 THEN first ELSE PutLevels(g[d - 1], i, groups[d], d = last)]
  <2>3. ASSUME NEW d \in 0 .. n PROVE h[d] = g[d]
    BY <2>1, <2>2 DEF Puts
  <2>4. ASSUME NEW d \in 0 .. n + 1, d # 0 PROVE h[d] = PutLevels(h[d - 1], i, groups[d], d = last)
    <3>1. d - 1 \in 0 .. n
      BY <2>2, <2>4
    <3>2. h[d - 1] = g[d - 1]
      BY <2>3, <3>1
    <3>3. h[d] = PutLevels(g[d - 1], i, groups[d], d = last)
      BY <2>4
    <3> QED BY <3>2, <3>3
  <2>5. h[0] = first
    BY <2>2
  <2>6. h = [d \in 0 .. n + 1 |-> h[d]]
    OBVIOUS
  <2>7. h = [d \in 0 .. n + 1 |-> IF d = 0 THEN first ELSE PutLevels(h[d - 1], i, groups[d], d = last)]
    <3> HIDE DEF h
    <3>1. ASSUME NEW d \in 0 .. n + 1
          PROVE  h[d] = IF d = 0 THEN first ELSE PutLevels(h[d - 1], i, groups[d], d = last)
      BY <2>4, <2>5
    <3> QED BY <2>6, <3>1
  <2>8. Puts(first, i, groups, last, n + 1, h)
    <3> HIDE DEF h
    <3> QED BY <2>7 DEF Puts
  <2> QED
    <3> HIDE DEF h
    <3> QED BY <2>2, <2>8
<1>3. T = Nat
  <2>1. T \in SUBSET Nat
    OBVIOUS
  <2> HIDE DEF T
  <2> QED BY <1>1, <1>2, <2>1, Induction
<1> QED
  BY <1>3

Seated(acc, i) == [acc EXCEPT !.procs[i] = [stage |-> At(i), id |-> At(i), levels |-> <<>>]]

LEMMA PutIsPuts ==
  ASSUME NEW acc, NEW i, ~ (At(i) < 0), NEW groups, groups = Groups(dist[At(i)]), NEW n, n = Len(groups)
  PROVE  PutStage(acc, i) = PutsOf(Seated(acc, i), i, groups, n)[n]
  BY DEF PutStage, Puts, PutsOf, Seated

\* What physical_proc_id answers, when it has an entry or the program a stage: a stage, or
\* that there is none.
AllSet == \A i \in Slot : phys[i] # Unset
LEMMA AtType ==
  ASSUME Loaded, TypeInv, Stages # {} \/ AllSet, NEW i \in Slot
  PROVE  /\ At(i) \in Stages \cup {-1} /\ (At(i) \in Stages \/ At(i) < 0)
         /\ (At(i) < 0 <=> At(i) \notin Stages)
         /\ phys[i] \in Stages => At(i) = phys[i]
         /\ At(i) \in Stages \ {0} => phys[i] = At(i)
<1>1. phys[i] \in Stages \cup {-1, -2}
  BY DEF TypeInv, NoStage, Unset
<1>2. Stages = 0 .. Cardinality(Stages) - 1 /\ Cardinality(Stages) \in Nat
  BY LoadedFacts
<1>3. 0 \in Stages \/ phys[i] # -2
  BY <1>2 DEF AllSet, Unset
<1>4. At(i) = IF phys[i] = -2 THEN 0 ELSE phys[i]
  BY DEF At, Unset
<1> QED
  BY <1>1, <1>2, <1>3, <1>4

\* A slot is given the stage allocated there.
LEMMA PutStageStocked ==
  ASSUME Loaded, TypeInv, Stages # {} \/ AllSet, \A s \in Stages : Len(dist[s]) \in Nat,
         NEW i \in Slot, NEW acc, Stocked(acc, i)
  PROVE  Stocked(PutStage(acc, i), i + 1)
<1>0. i \in Nat /\ \A j \in Slot : j \in Nat
  BY ClusterType
<1>1. CASE At(i) < 0
  <2>1. At(i) \notin Stages
    BY <1>1, AtType
  <2>2. PutStage(acc, i) = acc
    BY <1>1 DEF PutStage
  <2>3. ASSUME NEW j \in Slot PROVE Holds(acc.procs[j], i + 1, j)
    <3>1. Holds(acc.procs[j], i, j)
      BY DEF Stocked
    <3>2. j < i + 1 /\ At(j) \in Stages <=> j < i /\ At(j) \in Stages
      BY <1>0, <2>1
    <3> QED BY <3>1, <3>2 DEF Holds
  <2> QED BY <2>2, <2>3 DEF Stocked
<1>2. CASE ~ (At(i) < 0)
  <2>1. PICK s \in Stages : s = At(i)
    BY <1>2, AtType
  <2>2. PICK groups : groups = Groups(dist[At(i)])
    OBVIOUS
  <2>3. PICK n : n = Len(groups)
    OBVIOUS
  <2>4. n \in Nat
    BY <2>1, <2>2, <2>3, GroupsLen
  <2>12. PICK first : first = Seated(acc, i)
    OBVIOUS
  <2>5. PICK g : g = PutsOf(first, i, groups, n)
    OBVIOUS
  <2>6. Puts(first, i, groups, n, n, g)
    BY <2>4, <2>5, PutsExist DEF PutsOf
  <2>7. PutStage(acc, i) = g[n]
    BY <1>2, <2>2, <2>3, <2>5, <2>12, PutIsPuts
  <2>8. Stocked(g[0], i + 1)
    <3>1. PICK L : acc.procs \in [Slot -> [stage : Int, id : Int, levels : L]]
      BY DEF Stocked, Shaped
    <3>2. PICK p : p = acc.procs
      OBVIOUS
    <3>3. PICK x : x = [stage |-> s, id |-> s, levels |-> <<>>]
      OBVIOUS
    <3>4. PICK q : q = [p EXCEPT ![i] = x]
      OBVIOUS
    <3>5. acc = [procs |-> acc.procs, extra |-> acc.extra, short |-> acc.short]
      BY DEF Stocked, Shaped
    <3>6. g[0] = [acc EXCEPT !.procs[i] = x]
      BY <2>1, <2>4, <2>6, <2>12, <3>3 DEF Puts, Seated
    <3>7. g[0] = [procs |-> q, extra |-> acc.extra, short |-> acc.short]
      BY <3>2, <3>4, <3>5, <3>6
    <3>8. s \in Int
      BY <2>1, StagesAreNat
    <3>9. q \in [Slot -> [stage : Int, id : Int, levels : L \cup {<<>>}]]
      <4>1. x \in [stage : Int, id : Int, levels : L \cup {<<>>}]
        BY <3>3, <3>8
      <4>2. p \in [Slot -> [stage : Int, id : Int, levels : L \cup {<<>>}]]
        BY <3>1, <3>2
      <4> QED BY <3>4, <4>1, <4>2
    <3>10. ASSUME NEW j \in Slot PROVE Holds(q[j], i + 1, j)
      <4>1. CASE j = i
        <5>1. q[j] = x /\ j < i + 1
          BY <1>0, <3>1, <3>2, <3>4, <4>1
        <5> QED BY <2>1, <3>3, <4>1, <5>1 DEF Holds
      <4>2. CASE j # i
        <5>1. q[j] = p[j]
          BY <3>1, <3>2, <3>4, <4>2
        <5>2. Holds(p[j], i, j)
          BY <3>2 DEF Stocked
        <5>3. j < i + 1 <=> j < i
          BY <1>0, <4>2
        <5> QED BY <5>1, <5>2, <5>3 DEF Holds
      <4> QED BY <4>1, <4>2
    <3>11. g[0].procs = q /\ g[0].extra = acc.extra /\ g[0].short = acc.short
      BY <3>7
    <3>12. acc.extra \in Nat /\ acc.extra >= Cardinality(Stages)
      BY DEF Stocked, Shaped
    <3> QED BY <3>7, <3>9, <3>10, <3>11, <3>12 DEF Stocked, Shaped
  <2> DEFINE T == {d \in Nat : d <= n => Stocked(g[d], i + 1)}
  <2>9. 0 \in T
    BY <2>8
  <2>10. ASSUME NEW d \in T PROVE d + 1 \in T
    <3>1. d \in Nat
      OBVIOUS
    <3>2. SUFFICES ASSUME d + 1 <= n PROVE Stocked(g[d + 1], i + 1)
      BY <3>1
    <3>3. Stocked(g[d], i + 1)
      BY <2>4, <3>1, <3>2
    <3>4. d + 1 \in 0 .. n /\ d + 1 # 0 /\ (d + 1) - 1 = d
      BY <2>4, <3>1, <3>2
    <3>5. g[d + 1] = PutLevels(g[(d + 1) - 1], i, groups[d + 1], d + 1 = n)
      BY <2>6, <3>4 DEF Puts
    <3>6. PICK last \in BOOLEAN : last = (d + 1 = n)
      OBVIOUS
    <3>7. g[d + 1] = PutLevels(g[d], i, groups[d + 1], last)
      BY <3>4, <3>5, <3>6
    <3> QED BY <3>3, <3>7, PutLevelsStocked
  <2>11. T = Nat
    <3>1. T \in SUBSET Nat
      OBVIOUS
    <3> HIDE DEF T
    <3> QED BY <2>9, <2>10, <3>1, Induction
  <2> QED BY <2>4, <2>7, <2>11
<1> QED
  BY <1>1, <1>2

\* The processors after every slot.
Builds(first, N, g) ==
  g = [d \in 0 .. N |-> IF d = 0 THEN first ELSE PutStage(g[d - 1], d - 1)]

LEMMA BuildsExist ==
  ASSUME NEW first, NEW N \in Nat
  PROVE  \E g : Builds(first, N, g)
<1> DEFINE T == {n \in Nat : \E g : Builds(first, n, g)}
<1>1. 0 \in T
  <2> DEFINE g == [d \in 0 .. 0 |-> first]
  <2>1. Builds(first, 0, g)
    BY DEF Builds
  <2> QED BY <2>1
<1>2. ASSUME NEW n \in T PROVE n + 1 \in T
  <2>1. PICK g : Builds(first, n, g)
    OBVIOUS
  <2>2. n \in Nat
    OBVIOUS
  <2> DEFINE h == [d \in 0 .. n + 1 |-> IF d = 0 THEN first ELSE PutStage(g[d - 1], d - 1)]
  <2>3. ASSUME NEW d \in 0 .. n PROVE h[d] = g[d]
    BY <2>1, <2>2 DEF Builds
  <2>4. ASSUME NEW d \in 0 .. n + 1, d # 0 PROVE h[d] = PutStage(h[d - 1], d - 1)
    <3>1. d - 1 \in 0 .. n
      BY <2>2, <2>4
    <3>2. h[d - 1] = g[d - 1]
      BY <2>3, <3>1
    <3>3. h[d] = PutStage(g[d - 1], d - 1)
      BY <2>4
    <3> QED BY <3>2, <3>3
  <2>5. h[0] = first
    BY <2>2
  <2>6. h = [d \in 0 .. n + 1 |-> h[d]]
    OBVIOUS
  <2>7. h = [d \in 0 .. n + 1 |-> IF d = 0 THEN first ELSE PutStage(h[d - 1], d - 1)]
    <3> HIDE DEF h
    <3>1. ASSUME NEW d \in 0 .. n + 1
          PROVE  h[d] = IF d = 0 THEN first ELSE PutStage(h[d - 1], d - 1)
      BY <2>4, <2>5
    <3> QED BY <2>6, <3>1
  <2>8. Builds(first, n + 1, h)
    <3> HIDE DEF h
    <3> QED BY <2>7 DEF Builds
  <2> QED
    <3> HIDE DEF h
    <3> QED BY <2>2, <2>8
<1>3. T = Nat
  <2>1. T \in SUBSET Nat
    OBVIOUS
  <2> HIDE DEF T
  <2> QED BY <1>1, <1>2, <2>1, Induction
<1> QED
  BY <1>3

LEMMA BuiltIsBuilds ==
  Built = (CHOOSE g : Builds([procs |-> [k \in Slot |-> EmptyProc], extra |-> Cardinality(Stages),
                              short |-> FALSE], Cardinality(Slot), g))[Cardinality(Slot)]
  BY DEF Built, Builds

\* Every slot is given the stage allocated there, and no other has one.
LEMMA BuiltStocked ==
  ASSUME Loaded, TypeInv, Stages # {} \/ AllSet, \A s \in Stages : Len(dist[s]) \in Nat
  PROVE  Stocked(Built, Cardinality(Slot)) /\ \A j \in Slot : j < Cardinality(Slot)
<1> DEFINE N == Cardinality(Slot)
           first == [procs |-> [k \in Slot |-> EmptyProc], extra |-> Cardinality(Stages), short |-> FALSE]
           g == CHOOSE g : Builds(first, N, g)
<1>1. N \in Nat /\ Slot = 0 .. N - 1
  <2>1. PICK m \in Nat : m = ClusterCount * ClusterProcCount
    BY ClusterAssumption
  <2>2. Slot = 0 .. m - 1
    BY <2>1 DEF Slot
  <2>3. Cardinality(0 .. m - 1) = m
    <3>1. 0 \in Int /\ m - 1 \in Int
      OBVIOUS
    <3>2. Cardinality(0 .. m - 1) = IF 0 > m - 1 THEN 0 ELSE (m - 1) - 0 + 1
      BY <3>1, FS_Interval
    <3> QED BY <3>2
  <2> QED BY <2>2, <2>3
<1>2. Builds(first, N, g)
  <2> HIDE DEF first, N
  <2> QED BY <1>1, BuildsExist
<1>3. Built = g[N]
  BY BuiltIsBuilds
<1> HIDE DEF N, first, g
<1> DEFINE T == {d \in Nat : d <= N => Stocked(g[d], d)}
<1>4. 0 \in T
  <2>1. g[0] = [procs |-> [k \in Slot |-> EmptyProc], extra |-> Cardinality(Stages), short |-> FALSE]
    BY <1>1, <1>2 DEF Builds, first
  <2>2. Cardinality(Stages) \in Nat
    BY LoadedFacts
  <2>3. PICK p : p = [k \in Slot |-> EmptyProc]
    OBVIOUS
  <2>4. p \in [Slot -> [stage : Int, id : Int, levels : {<<>>}]]
    BY <2>3 DEF EmptyProc
  <2>5. \A j \in Slot : p[j].stage = -1 /\ p[j].id = -1 /\ ~ (j < 0)
    BY <2>3, ClusterType DEF EmptyProc
  <2>6. \A j \in Slot : Holds(p[j], 0, j)
    BY <2>5 DEF Holds
  <2>7. PICK z : z = FALSE
    OBVIOUS
  <2>9. PICK e : e = Cardinality(Stages)
    OBVIOUS
  <2>10. PICK r : r = g[0]
    OBVIOUS
  <2>11. r = [procs |-> p, extra |-> e, short |-> z]
    BY <2>1, <2>3, <2>7, <2>9, <2>10
  <2>12. r.procs = p /\ r.extra = e /\ r.short = z
    BY <2>11
  <2>8. Stocked(g[0], 0)
    <3>1. r = [procs |-> r.procs, extra |-> r.extra, short |-> r.short]
      BY <2>11, <2>12
    <3>2. \E L : p \in [Slot -> [stage : Int, id : Int, levels : L]]
      BY <2>4
    <3>3. r.extra \in Nat /\ r.extra >= Cardinality(Stages)
      BY <2>2, <2>9, <2>12
    <3>4. Shaped(r)
      BY <2>12, <3>1, <3>2, <3>3 DEF Shaped
    <3> QED BY <2>6, <2>10, <2>12, <3>4 DEF Stocked
  <2> QED BY <2>8
<1>5. ASSUME NEW d \in T PROVE d + 1 \in T
  <2>1. d \in Nat
    OBVIOUS
  <2>2. SUFFICES ASSUME d + 1 <= N PROVE Stocked(g[d + 1], d + 1)
    BY <2>1
  <2>3. Stocked(g[d], d)
    BY <1>1, <2>1, <2>2
  <2>4. d + 1 \in 0 .. N /\ d + 1 # 0 /\ (d + 1) - 1 = d /\ d \in Slot
    BY <1>1, <2>1, <2>2
  <2>5. g[d + 1] = PutStage(g[(d + 1) - 1], (d + 1) - 1)
    BY <1>2, <2>4 DEF Builds
  <2>6. g[d + 1] = PutStage(g[d], d)
    BY <2>4, <2>5
  <2> QED BY <2>3, <2>4, <2>6, PutStageStocked
<1>6. T = Nat
  <2>1. T \in SUBSET Nat
    OBVIOUS
  <2> HIDE DEF T
  <2> QED BY <1>4, <1>5, <2>1, Induction
<1>7. \A j \in Slot : j < N
  BY <1>1
<1>8. Stocked(g[N], N)
  BY <1>1, <1>6
<1> QED
  BY <1>3, <1>7, <1>8 DEF N

\* The processor a stage with a place is found in is one that stage was allocated to.
LEMMA StageReached ==
  ASSUME Loaded, TypeInv, \A s \in Stages : Len(dist[s]) \in Nat,
         NEW s \in Stages, HasSlot(s), NEW procs, procs = Built.procs
  PROVE  /\ ToSlot(procs, s) \in Slot /\ procs[ToSlot(procs, s)].stage = s
         /\ At(ToSlot(procs, s)) = s
<1>1. PICK n : n = Cardinality(Slot)
  OBVIOUS
<1>2. (\A j \in Slot : Holds(procs[j], n, j)) /\ \A j \in Slot : j < n
  BY <1>1, BuiltStocked DEF Stocked
<1>3. s \in Nat /\ s # -1 /\ s < Cardinality(Stages) /\ Cardinality(Stages) \in Nat
  BY LoadedFacts
<1>4. PICK i \in Slot : phys[i] = s
  BY DEF HasSlot
<1>5. At(i) = s
  BY <1>4, AtType
<1>6. procs[i].id = s
  BY <1>2, <1>5 DEF Holds
<1>7. PICK F : F = Slots(procs, s)
  OBVIOUS
<1>8. i \in F /\ F \subseteq Slot
  BY <1>3, <1>6, <1>7 DEF Slots
<1>9. F \subseteq Nat
  BY <1>8, ClusterType
<1>10. \E x \in F : \A y \in F : x <= y
  BY <1>8, <1>9, LeastElement
<1>11. PICK k : k = LeastSlot(F)
  OBVIOUS
<1>12. k \in F
  BY <1>10, <1>11 DEF LeastSlot
<1>13. ToSlot(procs, s) = k
  BY <1>3, <1>7, <1>8, <1>11 DEF ToSlot
<1>14. k \in Slot /\ procs[k].id = s
  BY <1>7, <1>12 DEF Slots
<1>15. At(k) \in Stages
  <2>1. SUFFICES ASSUME At(k) \notin Stages PROVE FALSE
    OBVIOUS
  <2>2. procs[k].id = -1 \/ procs[k].id >= Cardinality(Stages)
    BY <1>2, <1>14, <2>1 DEF Holds
  <2> QED BY <1>3, <1>14, <2>2
<1>16. procs[k].stage = At(k) /\ procs[k].id = At(k)
  BY <1>2, <1>14, <1>15 DEF Holds
<1> QED
  BY <1>13, <1>14, <1>16

-----------------------------------------------------------------------------
(***************************************************************************)
(* What an update keeps, and where its entries go.                         *)
(***************************************************************************)
\* Every stage is given its parser levels before any is given a place.
Leveled ==
  /\ pc = "parsers" => dist = Nothing
  /\ pc = "levels" => DOMAIN dist \cup ToSet(rest) = Stages
  /\ pc \in {"place", "number", "fixed", "book", "procs"} => DOMAIN dist = Stages
  /\ pc \in {"levels", "place", "number", "fixed", "book", "procs"} =>
       \A s \in DOMAIN dist : Len(dist[s]) \in Nat

\* Every stage has a slot in the end, but the ones reported.
Seating ==
  /\ pc = "fixed" => \A s \in Stages \ ToSet(rest) : home[s] < 0 \/ HasSlot(s)
  /\ pc \in {"book", "procs"} => \A s \in Stages \ unplaced : HasSlot(s)

\* An incremental task has the stages in the clusters of the tables they had, and
\* gives blocks to the other tables only.
Updating == pc \in {"fixed", "book"} \/ (pc = "procs" /\ incr)
Tying ==
  /\ pc \in {"parsers", "levels", "place", "number", "fixed"} => ~ incr
  /\ Updating => /\ unplaced = {} /\ DOMAIN home = Stages
                 /\ \A s \in Stages : \A c \in Ties(s) : c = home[s]
                 /\ \A i \in Slot : phys[i] \in Stages => ClusterOf(i) = home[phys[i]]
  /\ Updating /\ pc # "fixed" => \A t \in Existing : blocks[t] = Prev.blocks[t]
  /\ pc = "book" => incr /\ rest \in Seq(Tables \ Existing)

KeepInv == Leveled /\ Seating /\ Tying

\* Between two compiles, every table of a stage with a place is listed under the
\* processor that holds the stage and under its own number there.
Listed(task, json) ==
  \A s \in Stages \ unplaced : \A t \in ToSet(TablesAt(s)) :
    json.procs[task.proc[t]].stage = s /\ TablesAt(s)[task.id[t] + 1] = t
ReachInv ==
  /\ pc \in {"idle", "dead"} \/ (sent = {} /\ out = {})
  /\ pc = "idle" => \A task \in now, json \in out : Listed(task, json)
  /\ UpdateReachesTable

\* The task before, and the tables it shares with this one.
LEMMA SameTask ==
  ASSUME UNCHANGED Program, now' = now
  PROVE  Prev' = Prev /\ Existing' = Existing /\ \A s : Ties(s)' = Ties(s)
  BY DEF Program, Prev, Existing, Ties, Tables

\* Levels are put in order in a finite sequence.
LEMMA ParseOrderLen ==
  ASSUME Loaded, NEW wanted
  PROVE  Len(InParseOrder(lg, wanted)) \in Nat
<1>1. PICK order : order = TopoOrder(LevelNext(lg))
  OBVIOUS
<1>2. order \in Seq(DOMAIN LevelNext(lg))
  BY <1>1, LoadedFacts, TopoFacts DEF InTopo
<1>3. PICK S : S = {i \in DOMAIN order : order[i] \in wanted}
  OBVIOUS
<1>4. S \subseteq DOMAIN order
  BY <1>3
<1>5. Select(order, S) \in Seq(DOMAIN LevelNext(lg))
  BY <1>2, <1>4, SelectFacts
<1>6. InParseOrder(lg, wanted) = Select(order, S)
  BY <1>1, <1>3 DEF InParseOrder
<1> QED
  BY <1>5, <1>6

\* Nothing is said of a compiler between two tasks, or of a dead one.
LEMMA IdleKeep == pc \in {"idle", "dead"} => KeepInv
  BY DEF KeepInv, Leveled, Seating, Tying, Updating

LEMMA DoneKeep == ASSUME pc' \in {"idle", "dead"} PROVE KeepInv'
<1>1. (pc \in {"idle", "dead"})' => KeepInv'
  BY IdleKeep, PTL
<1> QED BY <1>1

\* Sorting and distributing the levels.
LEMMA LevelsKeep ==
  ASSUME Inv, KeepInv, SortStages \/ Distribute
  PROVE  KeepInv'
<1>1. CASE pc' = "dead"
  BY <1>1, DoneKeep
<1>2. CASE SortStages /\ pc' # "dead"
  <2>1. pc = "parsers" /\ pc' = "levels" /\ rest' = Order /\ IsAcyclic(StageNext(lg))
        /\ UNCHANGED Program /\ UNCHANGED <<dist, incr>>
    BY <1>2 DEF SortStages, Dies, Program, levels
  <2>2. Stages' = Stages /\ Order' = Order
    BY <2>1, SameProgram
  <2>3. dist = Nothing /\ DOMAIN Nothing = {} /\ ~ incr
    BY <2>1 DEF KeepInv, Leveled, Tying, Nothing
  <2>4. ToSet(Order) = Stages
    BY <2>1, OrderFacts DEF Inv
  <2> QED BY <2>1, <2>2, <2>3, <2>4 DEF KeepInv, Leveled, Seating, Tying, Updating
<1>3. CASE Distribute
  <2>1. PICK s : s = Head(rest)
    OBVIOUS
  <2>2. PICK seq : seq = InParseOrder(lg, Needed(lg, s) \ Inherited(s))
    OBVIOUS
  <2>3. /\ pc = "levels" /\ pc' = "levels" /\ rest # <<>> /\ rest' = Tail(rest)
        /\ UNCHANGED Program /\ incr' = incr
        /\ dist' = [q \in DOMAIN dist \cup {s} |-> IF q = s THEN seq ELSE dist[q]]
    BY <1>3, <2>1, <2>2 DEF Distribute, Program
  <2>4. Stages' = Stages
    BY <2>3, SameProgram
  <2>5. s \in Stages /\ s \in ToSet(rest) /\ ToSet(rest') = ToSet(rest) \ {s}
    BY <2>1, <2>3, NextStage
  <2>6. Len(seq) \in Nat
    BY <2>2, ParseOrderLen DEF Inv
  <2>7. DOMAIN dist \cup ToSet(rest) = Stages /\ ~ incr /\ \A q \in DOMAIN dist : Len(dist[q]) \in Nat
    BY <2>3 DEF KeepInv, Leveled, Tying
  <2>8. DOMAIN dist' = DOMAIN dist \cup {s} /\ \A q \in DOMAIN dist' : Len(dist'[q]) \in Nat
    BY <2>3, <2>6, <2>7
  <2> QED BY <2>3, <2>4, <2>5, <2>7, <2>8 DEF KeepInv, Leveled, Seating, Tying, Updating
<1> QED
  BY <1>1, <1>2, <1>3

\* The full allocation.
LEMMA FullKeep ==
  ASSUME Inv, KeepInv,
         \/ AllocateMemory \/ Place \/ PlaceNowhere \/ StartNumbering \/ NumberTable
         \/ NumberNextStage \/ Numbered
  PROVE  KeepInv'
<1>1. /\ (pc = "levels" /\ rest = <<>>) \/ pc \in {"place", "number"}
      /\ pc' \in {"place", "number"} \/ (pc' = "procs" /\ pc = "number" /\ UNCHANGED <<phys, unplaced>>)
      /\ UNCHANGED Program /\ UNCHANGED <<dist, incr>>
  BY DEF AllocateMemory, Place, PlaceNowhere, StartNumbering, NumberTable, NumberNextStage, Numbered,
         Program, levels, allocation
<1>2. Stages' = Stages
  BY <1>1, SameProgram
<1>3. ToSet(<<>>) = {}
  BY DEF ToSet
<1>4. DOMAIN dist = Stages /\ ~ incr /\ \A s \in DOMAIN dist : Len(dist[s]) \in Nat
  BY <1>1, <1>3 DEF KeepInv, Leveled, Tying
<1>5. pc' = "procs" => \A s \in Stages \ unplaced : HasSlot(s)
  BY <1>1 DEF Inv, Placement, Waiting
<1>6. pc' = "procs" => \A s \in Stages' \ unplaced' : HasSlot(s)'
  BY <1>1, <1>2, <1>5 DEF HasSlot
<1> QED
  BY <1>1, <1>2, <1>4, <1>6 DEF KeepInv, Leveled, Seating, Tying, Updating

\* Tying the stages to clusters, and giving that up.
LEMMA TieKeep == ASSUME Inv, KeepInv, Tie PROVE KeepInv'
<1>1. /\ pc = "levels" /\ pc' = "fixed" /\ rest = <<>> /\ rest' = Order /\ now # {} /\ ~ Torn
      /\ home' = [s \in Stages |-> IF Ties(s) = {} THEN -1 ELSE CHOOSE c \in Ties(s) : TRUE]
      /\ UNCHANGED Program /\ UNCHANGED <<dist, phys, unplaced, now, incr>>
  BY DEF Tie, Program, levels
<1>2. Stages' = Stages /\ Order' = Order /\ \A s : Ties(s)' = Ties(s)
  BY <1>1, SameProgram, SameTask
<1>3. ToSet(<<>>) = {}
  BY DEF ToSet
<1>4. DOMAIN dist = Stages /\ ~ incr /\ \A s \in DOMAIN dist : Len(dist[s]) \in Nat
  BY <1>1, <1>3 DEF KeepInv, Leveled, Tying
<1>5. unplaced = {} /\ ToSet(Order) = Stages /\ \A s \in Stages : ~ HasSlot(s)
  BY <1>1 DEF Inv, Placement, Visiting
<1>6. \A i \in Slot : phys[i] \notin Stages
  BY <1>5 DEF HasSlot
<1>7. ASSUME NEW s \in Stages, NEW c \in Ties(s) PROVE c = home'[s]
  <2>1. PICK T : T = Ties(s)
    OBVIOUS
  <2>2. T \subseteq Cluster
    BY <1>1, <2>1, TiesType
  <2>3. IsFiniteSet(Cluster)
    <3>1. ClusterCount - 1 \in Int /\ 0 \in Int
      BY ClusterAssumption
    <3> QED BY <3>1, FS_Interval DEF Cluster
  <2>4. IsFiniteSet(T)
    BY <2>2, <2>3, FS_Subset
  <2>5. ~ (Cardinality(T) > 1)
    BY <1>1, <2>1 DEF Torn
  <2>6. PICK d \in T : d = CHOOSE x \in T : TRUE
    BY <1>7, <2>1
  <2>7. c = d
    <3>1. SUFFICES ASSUME c # d PROVE FALSE
      OBVIOUS
    <3>2. PICK U : U = {c, d}
      OBVIOUS
    <3>3. Cardinality(U) = 2
      <4>1. Cardinality({c}) = 1 /\ IsFiniteSet({c})
        BY FS_Singleton
      <4>2. U = {c} \cup {d} /\ d \notin {c}
        BY <3>1, <3>2
      <4> QED BY <4>1, <4>2, FS_AddElement
    <3>4. U \subseteq T
      BY <1>7, <2>1, <3>2
    <3>5. Cardinality(U) <= Cardinality(T)
      BY <2>4, <3>4, FS_Subset
    <3>6. Cardinality(T) \in Nat
      BY <2>4, FS_CardinalityType
    <3> QED BY <2>5, <3>3, <3>5, <3>6
  <2>8. home'[s] = d
    BY <1>1, <1>7, <2>1, <2>6
  <2> QED BY <2>7, <2>8
<1>8. DOMAIN home' = Stages
  BY <1>1
<1> QED
  BY <1>1, <1>2, <1>4, <1>5, <1>6, <1>7, <1>8 DEF KeepInv, Leveled, Seating, Tying, Updating

LEMMA StartOverKeep == ASSUME Inv, KeepInv, StartOver PROVE KeepInv'
<1>1. /\ (pc = "levels" /\ rest = <<>>) \/ pc = "fixed"
      /\ pc' = "place" /\ UNCHANGED Program /\ UNCHANGED <<dist, incr>>
  BY DEF StartOver, Program, levels
<1>2. Stages' = Stages
  BY <1>1, SameProgram
<1>3. ToSet(<<>>) = {}
  BY DEF ToSet
<1>4. DOMAIN dist = Stages /\ ~ incr /\ \A s \in DOMAIN dist : Len(dist[s]) \in Nat
  BY <1>1, <1>3 DEF KeepInv, Leveled, Tying
<1> QED
  BY <1>1, <1>2, <1>4 DEF KeepInv, Leveled, Seating, Tying, Updating

\* A stage is placed in the cluster it is tied to.
LEMMA PlaceFixedKeep == ASSUME Inv, KeepInv, PlaceFixed PROVE KeepInv'
<1>1. PICK s : s = Head(rest)
  OBVIOUS
<1>2. /\ pc = "fixed" /\ pc' = "fixed" /\ rest # <<>> /\ rest' = Tail(rest)
      /\ UNCHANGED Program /\ UNCHANGED <<dist, home, unplaced, now, incr>>
  BY DEF PlaceFixed, Program, levels
<1>3. s \in Stages /\ s \in ToSet(rest) /\ ToSet(rest') = ToSet(rest) \ {s}
  BY <1>1, <1>2, NextStage
<1>4. Stages' = Stages /\ \A r : Ties(r)' = Ties(r)
  BY <1>2, SameProgram, SameTask
<1>5. /\ DOMAIN dist = Stages /\ \A r \in DOMAIN dist : Len(dist[r]) \in Nat
      /\ ~ incr /\ unplaced = {} /\ DOMAIN home = Stages
      /\ \A r \in Stages : \A c \in Ties(r) : c = home[r]
      /\ \A i \in Slot : phys[i] \in Stages => ClusterOf(i) = home[phys[i]]
      /\ \A r \in Stages \ ToSet(rest) : home[r] < 0 \/ HasSlot(r)
  BY <1>2 DEF KeepInv, Leveled, Seating, Tying, Updating
<1>6. /\ \A r \in Stages \ ToSet(rest') : home[r] < 0 \/ HasSlot(r)'
      /\ \A i \in Slot : phys'[i] \in Stages => ClusterOf(i) = home[phys'[i]]
  <2>1. CASE home[s] < 0 /\ UNCHANGED phys
    <3>1. \A r : HasSlot(r)' <=> HasSlot(r)
      BY <2>1 DEF HasSlot
    <3> QED BY <1>3, <1>5, <2>1, <3>1
  <2>2. CASE home[s] >= 0 /\ Fits(s, home[s]) /\ Settle(s, home[s])
    <3>1. PICK c \in Cluster : c = home[s]
      <4>1. s \in DOMAIN home
        BY <1>3, <1>5
      <4>2. home[s] \in Cluster \cup {-1} /\ home[s] # -1
        BY <2>2, <4>1 DEF Inv, TypeInv
      <4> QED BY <4>2
    <3>2. Fits(s, c) /\ Settle(s, c)
      BY <2>2, <3>1
    <3>3. ~ HasSlot(s)
      BY <1>2, <1>3 DEF Inv, Placement
    <3>4. \A r \in Stages : HasSlot(r)' <=> r = s \/ HasSlot(r)
      BY <1>2, <1>3, <3>2, <3>3, SettleStep DEF Inv, Program
    <3>5. members[c] \in Nat /\ members[c] < ClusterProcCount
      BY <3>2, ClusterAssumption DEF Fits, Inv, TypeInv
    <3>6. PICK k : k = NextSlot(c)
      OBVIOUS
    <3>7. k \in Slot /\ ClusterOf(k) = c
      BY <3>5, <3>6, SlotOf DEF NextSlot
    <3>8. phys' = [phys EXCEPT ![k] = s] /\ phys \in [Slot -> Stages \cup {NoStage, Unset}]
      BY <3>2, <3>6 DEF Settle, Inv, TypeInv
    <3>9. ASSUME NEW i \in Slot, phys'[i] \in Stages PROVE ClusterOf(i) = home[phys'[i]]
      <4>1. CASE i = k
        BY <3>1, <3>7, <3>8, <4>1
      <4>2. CASE i # k
        <5>1. phys'[i] = phys[i]
          BY <3>8, <4>2
        <5> QED BY <1>5, <3>9, <5>1
      <4> QED BY <4>1, <4>2
    <3> QED BY <1>3, <1>5, <3>4, <3>9
  <2> QED BY <1>1, <2>1, <2>2 DEF PlaceFixed
<1>7. Leveled'
  BY <1>2, <1>4, <1>5 DEF Leveled
<1>8. Seating'
  BY <1>2, <1>4, <1>6 DEF Seating
<1>9. Tying'
  <2>1. /\ pc' = "fixed" /\ ~ incr' /\ unplaced' = {} /\ DOMAIN home' = Stages'
        /\ \A r \in Stages' : \A c \in Ties(r)' : c = home'[r]
    BY <1>2, <1>4, <1>5
  <2>2. \A i \in Slot : phys'[i] \in Stages' => ClusterOf(i) = home'[phys'[i]]
    BY <1>2, <1>4, <1>6
  <2> QED BY <2>1, <2>2 DEF Tying
<1> QED
  BY <1>7, <1>8, <1>9 DEF KeepInv

\* The blocks of the tables both tasks have are copied, and left alone.
LEMMA BookingKeep ==
  ASSUME Inv, KeepInv, CopyTables \/ BookTable \/ Booked
  PROVE  KeepInv'
<1>1. /\ UNCHANGED Program /\ UNCHANGED <<dist, home, phys, unplaced, now>>
      /\ \/ pc = "fixed" /\ pc' = "book" /\ rest = <<>>
         \/ pc = "book" /\ pc' \in {"book", "procs"} /\ incr' = incr
  <2>1. CASE CopyTables
    BY <2>1 DEF CopyTables, Program, levels
  <2>2. CASE BookTable
    BY <2>2 DEF BookTable, Program, levels
  <2>3. CASE Booked
    BY <2>3 DEF Booked, Program, allocation, levels
  <2> QED BY <2>1, <2>2, <2>3
<1>2. Stages' = Stages /\ Tables' = Tables /\ Prev' = Prev /\ Existing' = Existing
      /\ (\A s : Ties(s)' = Ties(s)) /\ Tables = DOMAIN mem
  BY <1>1, SameProgram, SameTask DEF Tables
<1>3. DOMAIN blocks = Tables /\ Existing \subseteq Tables
  BY DEF Inv, TypeInv, Existing
<1>4. incr' = TRUE /\ \A t \in Existing : blocks'[t] = Prev.blocks[t]
  <2>1. CASE CopyTables
    BY <1>3, <2>1 DEF CopyTables
  <2>2. CASE BookTable
    <3>1. incr = TRUE /\ rest \in Seq(Tables \ Existing) /\ rest # <<>>
          /\ \A t \in Existing : blocks[t] = Prev.blocks[t]
      BY <2>2 DEF BookTable, KeepInv, Tying, Updating, Inv, TypeInv
    <3>2. Head(rest) \notin Existing
      BY <3>1, HeadTailProperties
    <3>3. \A t \in Existing : blocks'[t] = blocks[t]
      BY <1>3, <2>2, <3>2 DEF BookTable
    <3> QED BY <2>2, <3>1, <3>3 DEF BookTable
  <2>3. CASE Booked
    BY <2>3 DEF Booked, allocation, KeepInv, Tying, Updating, Inv, TypeInv
  <2> QED BY <2>1, <2>2, <2>3
<1>5. pc' = "book" => rest' \in Seq(Tables \ Existing)
  <2>1. CASE CopyTables
    <3>1. IsFiniteSet(Tables) /\ \A t \in Tables : t \in Nat
      BY <1>2 DEF Inv, Loaded, IsProgram
    <3>2. PICK R : R = Tables \ Existing
      OBVIOUS
    <3>3. IsFiniteSet(R)
      BY <3>1, <3>2, FS_Subset
    <3>4. \A t \in R : t \in Nat
      BY <3>1, <3>2
    <3>5. InOrder(R) \in Seq(R)
      BY <3>3, <3>4, InOrderFacts
    <3> QED BY <2>1, <3>2, <3>5 DEF CopyTables
  <2>2. CASE BookTable
    <3>1. rest \in Seq(Tables \ Existing) /\ rest # <<>> /\ rest' = Tail(rest)
      BY <2>2 DEF BookTable, KeepInv, Tying
    <3> QED BY <3>1, HeadTailProperties
  <2>3. CASE Booked
    BY <2>3 DEF Booked
  <2> QED BY <2>1, <2>2, <2>3
<1>6. \A s \in Stages \ unplaced : HasSlot(s)
  <2>1. CASE pc = "book"
    BY <2>1 DEF KeepInv, Seating
  <2>2. CASE pc = "fixed"
    <3>1. CopyTables /\ rest = <<>>
      BY <1>1, <2>2 DEF BookTable, Booked
    <3>2. \A s \in Stages : ~ (home[s] < 0)
      BY <3>1 DEF CopyTables, HasDynamic
    <3>3. ToSet(<<>>) = {}
      BY DEF ToSet
    <3> QED BY <2>2, <3>1, <3>2, <3>3 DEF KeepInv, Seating
  <2> QED BY <1>1, <2>1, <2>2
<1>7. \A s : HasSlot(s)' <=> HasSlot(s)
  BY <1>1 DEF HasSlot
<1>8. Leveled'
  BY <1>1, <1>2 DEF KeepInv, Leveled
<1>9. Seating'
  BY <1>1, <1>2, <1>6, <1>7 DEF Seating
<1>10. Tying'
  <2>1. Updating
    BY <1>1, <1>4 DEF Updating, KeepInv, Tying, Inv, TypeInv
  <2>2. /\ unplaced = {} /\ DOMAIN home = Stages
        /\ \A s \in Stages : \A c \in Ties(s) : c = home[s]
        /\ \A i \in Slot : phys[i] \in Stages => ClusterOf(i) = home[phys[i]]
    BY <2>1 DEF KeepInv, Tying
  <2> QED BY <1>1, <1>2, <1>4, <1>5, <2>2 DEF Tying
<1> QED
  BY <1>8, <1>9, <1>10 DEF KeepInv

LEMMA LoadKeep == ASSUME NEW p \in Programs, Load(p) PROVE KeepInv'
  BY DEF Load, KeepInv, Leveled, Seating, Tying, Updating

LEMMA NextKeep == Inv /\ KeepInv /\ [Next]_vars => KeepInv'
<1> SUFFICES ASSUME Inv, KeepInv, [Next]_vars PROVE KeepInv'
  OBVIOUS
<1>1. ASSUME NEW p \in Programs, Load(p) PROVE KeepInv'
  BY <1>1, LoadKeep
<1>2. CASE (\E p \in Programs : LoadWild(p)) \/ Overrun \/ BuildNothing
  BY <1>2, DoneKeep DEF LoadWild, Overrun, BuildNothing, Dies
<1>3. CASE Update
  BY <1>3, DoneKeep DEF Update, EmitUpdate, Dies
<1>4. CASE SortStages \/ Distribute
  BY <1>4, LevelsKeep
<1>5. CASE \/ AllocateMemory \/ Place \/ PlaceNowhere \/ StartNumbering \/ NumberTable
           \/ NumberNextStage \/ Numbered
  BY <1>5, FullKeep
<1>6. CASE Tie
  BY <1>6, TieKeep
<1>7. CASE PlaceFixed
  BY <1>7, PlaceFixedKeep
<1>8. CASE StartOver
  BY <1>8, StartOverKeep
<1>9. CASE CopyTables \/ BookTable \/ Booked
  BY <1>9, BookingKeep
<1>10. CASE BuildProcessors
  BY <1>10, DoneKeep DEF BuildProcessors
<1>11. CASE UNCHANGED vars
  <2>1. UNCHANGED <<pc, rest, dist, home, phys, unplaced, blocks, now, incr>> /\ UNCHANGED Program
    BY <1>11 DEF vars, Program
  <2>2. Stages' = Stages /\ Tables' = Tables /\ Prev' = Prev /\ Existing' = Existing
        /\ \A s : Ties(s)' = Ties(s)
    BY <2>1, SameProgram, SameTask
  <2>3. \A s : HasSlot(s)' <=> HasSlot(s)
    BY <2>1 DEF HasSlot
  <2>4. Leveled'
    BY <2>1, <2>2 DEF KeepInv, Leveled
  <2>5. Seating'
    BY <2>1, <2>2, <2>3 DEF KeepInv, Seating
  <2>6. Tying'
    BY <2>1, <2>2 DEF KeepInv, Tying, Updating
  <2> QED BY <2>4, <2>5, <2>6 DEF KeepInv
<1> QED
  BY <1>1, <1>2, <1>3, <1>4, <1>5, <1>6, <1>7, <1>8, <1>9, <1>10, <1>11 DEF Next, Compile, Emit

LEMMA InitKeep == Init => KeepInv
<1>1. Init => pc \in {"idle", "dead"}
  BY DEF Init
<1> QED BY <1>1, IdleKeep

\* Every stage has its levels before it has a place, and a place unless it was reported,
\* and an update leaves the stages and blocks of the tables it keeps where they are.
THEOREM Keeps == Spec => [](Inv /\ KeepInv)
<1>1. Init => Inv /\ KeepInv
  BY InitInv, InitKeep
<1>2. Inv /\ KeepInv /\ [Next]_vars => (Inv /\ KeepInv)'
  BY NextInv, NextKeep
<1> QED
  BY <1>1, <1>2, PTL DEF Spec

\* A stage with a place, when the processors are built.
LEMMA StageBuilt ==
  ASSUME Inv, KeepInv, pc = "procs", NEW s \in Stages \ unplaced
  PROVE  /\ ToSlot(Built.procs, s) \in Slot
         /\ Built.procs[ToSlot(Built.procs, s)].stage = s
         /\ At(ToSlot(Built.procs, s)) = s
<1>1. \A r \in Stages : Len(dist[r]) \in Nat
  BY DEF KeepInv, Leveled
<1>2. HasSlot(s)
  BY DEF KeepInv, Seating
<1>3. PICK procs : procs = Built.procs
  OBVIOUS
<1>4. /\ ToSlot(procs, s) \in Slot /\ procs[ToSlot(procs, s)].stage = s
      /\ At(ToSlot(procs, s)) = s
  BY <1>1, <1>2, <1>3, StageReached DEF Inv
<1> QED
  BY <1>3, <1>4

\* An update that succeeds leaves every table both tasks have in its blocks, and in its
\* cluster unless it is a table of stage 0: the blocks are copied and no later round
\* changes them, and a stage is placed only in the cluster its tables tie it to.
THEOREM Stays == Spec => ExistingStay
<1>1. Inv /\ KeepInv /\ [Next]_vars =>
        [pc = "procs" /\ incr /\ pc' = "idle" =>
           \A now2 \in now' : \A t \in Existing :
             /\ now2.blocks[t] = Prev.blocks[t]
             /\ lg.proc[t] \in Stages \ {0} => ClusterOf(now2.proc[t]) = ClusterOf(Prev.proc[t])]_vars
  <2> SUFFICES ASSUME Inv, KeepInv, Next, pc = "procs", incr, pc' = "idle",
                      NEW now2 \in now', NEW t \in Existing
               PROVE  /\ now2.blocks[t] = Prev.blocks[t]
                      /\ lg.proc[t] \in Stages \ {0} => ClusterOf(now2.proc[t]) = ClusterOf(Prev.proc[t])
    OBVIOUS
  <2>1. BuildProcessors
    BY DEF Next, Compile, Update, Emit, Load, LoadWild, EmitUpdate, SortStages, Distribute,
           AllocateMemory, Place, PlaceNowhere, StartNumbering, NumberTable, NumberNextStage, Numbered,
           Tie, PlaceFixed, StartOver, CopyTables, BookTable, Booked, Overrun, BuildNothing, Dies
  <2>2. PICK procs : procs = Built.procs
    OBVIOUS
  <2>3. /\ now2.proc = [u \in Tables |-> ToSlot(procs, lg.proc[u])]
        /\ now2.blocks = blocks
    BY <2>1, <2>2 DEF BuildProcessors
  <2>4. /\ unplaced = {} /\ DOMAIN home = Stages
        /\ \A s \in Stages : \A c \in Ties(s) : c = home[s]
        /\ \A i \in Slot : phys[i] \in Stages => ClusterOf(i) = home[phys[i]]
        /\ \A u \in Existing : blocks[u] = Prev.blocks[u]
    BY DEF KeepInv, Tying, Updating
  <2>5. now2.blocks[t] = Prev.blocks[t]
    BY <2>3, <2>4
  <2>6. ASSUME lg.proc[t] \in Stages \ {0} PROVE ClusterOf(now2.proc[t]) = ClusterOf(Prev.proc[t])
    <3>1. PICK s \in Stages : s = lg.proc[t] /\ s # 0
      BY <2>6
    <3>2. t \in Tables
      BY DEF Existing
    <3>3. PICK k : k = ToSlot(procs, s)
      OBVIOUS
    <3>4. k \in Slot /\ At(k) = s
      BY <2>2, <2>4, <3>1, <3>3, StageBuilt
    <3>5. phys[k] = s
      BY <3>1, <3>4, AtType DEF Inv
    <3>6. ClusterOf(k) = home[s]
      BY <2>4, <3>1, <3>4, <3>5
    <3>7. ClusterOf(Prev.proc[t]) \in Ties(s)
      BY <3>1 DEF Ties
    <3>8. ClusterOf(Prev.proc[t]) = home[s]
      BY <2>4, <3>1, <3>7
    <3>9. now2.proc[t] = k
      BY <2>3, <3>1, <3>2, <3>3
    <3> QED BY <3>6, <3>8, <3>9
  <2> QED BY <2>5, <2>6
<1> QED
  BY <1>1, Keeps, PTL DEF Spec, ExistingStay

\* The processors are built with every table under its stage.
LEMMA BuildReach ==
  ASSUME NamesOnce, Inv, KeepInv, ReachInv, BuildProcessors
  PROVE  ReachInv'
<1>1. /\ pc = "procs" /\ pc' = "idle" /\ UNCHANGED Program /\ UNCHANGED <<unplaced, sent>>
  BY DEF BuildProcessors, Program, allocation
<1>2. Stages' = Stages /\ \A s : TablesAt(s)' = TablesAt(s)
  BY <1>1, SameProgram
<1>3. sent' = {}
  BY <1>1 DEF ReachInv
<1>4. PICK procs : procs = Built.procs
  OBVIOUS
<1>5. now' = {[proc |-> [t \in Tables |-> ToSlot(procs, lg.proc[t])],
               id |-> lg.id, mem |-> mem, blocks |-> blocks]}
  BY <1>4 DEF BuildProcessors
<1>6. \A json \in out' : json.procs = procs
  BY <1>4 DEF BuildProcessors
<1>7. ASSUME NEW task \in now', NEW json \in out', NEW s \in Stages \ unplaced, NEW t \in ToSet(TablesAt(s))
      PROVE  json.procs[task.proc[t]].stage = s /\ TablesAt(s)[task.id[t] + 1] = t
  <2>1. PICK i \in DOMAIN TablesAt(s) : TablesAt(s)[i] = t
    BY DEF ToSet
  <2>2. TablesAt(s) \in Seq(Tables)
    BY LoadedFacts DEF Inv
  <2>3. i \in Nat /\ t \in Tables
    BY <2>1, <2>2
  <2>4. lg.proc[t] = s /\ lg.id[t] = i - 1
    <3>1. PICK wild : lg = Logical(prog, Merged(prog), wild)
      BY DEF Inv, Loaded
    <3>2. IsProgram(prog) /\ NamedOnce(prog)
      BY DEF Inv, Loaded
    <3> QED BY <2>1, <3>1, <3>2, TableNumbers DEF Stages, TablesAt
  <2>5. procs[ToSlot(procs, s)].stage = s
    BY <1>1, <1>4, StageBuilt
  <2>6. task.proc[t] = ToSlot(procs, s) /\ task.id[t] + 1 = i
    BY <1>5, <2>3, <2>4
  <2> QED BY <1>6, <2>1, <2>5, <2>6
<1>8. \A task \in now', json \in out' : Listed(task, json)'
  BY <1>1, <1>2, <1>7 DEF Listed
<1> QED
  BY <1>1, <1>3, <1>8 DEF ReachInv, UpdateReachesTable

\* An entry is emitted by what the last task lists.
LEMMA EmitReach == ASSUME Inv, ReachInv, NEW t, NEW a, EmitUpdate(t, a) PROVE ReachInv'
<1>1. pc = "idle" /\ now # {} /\ UNCHANGED Program /\ UNCHANGED <<unplaced, now, out>>
  BY DEF EmitUpdate, Dies, Program, allocation
<1>2. Stages' = Stages /\ \A s : TablesAt(s)' = TablesAt(s)
  BY <1>1, SameProgram
<1>3. Prev \in now
  BY <1>1 DEF Prev
<1>4. ASSUME NEW u \in sent', NEW s \in Stages \ unplaced, u.table \in ToSet(TablesAt(s)), NEW json \in out
      PROVE  json.procs[u.proc].stage = s /\ TablesAt(s)[u.id + 1] = u.table
  <2>1. CASE sent' = sent
    BY <1>4, <2>1 DEF ReachInv, UpdateReachesTable, TablesAt
  <2>2. CASE sent' = {[table |-> t, proc |-> Prev.proc[t], id |-> Prev.id[t], act |-> a]}
    <3>1. u.table = t /\ u.proc = Prev.proc[t] /\ u.id = Prev.id[t]
      BY <2>2
    <3>2. Listed(Prev, json)
      BY <1>1, <1>3, <1>4 DEF ReachInv
    <3> QED BY <1>4, <3>1, <3>2 DEF Listed
  <2> QED BY <2>1, <2>2 DEF EmitUpdate, Dies
<1>5. UpdateReachesTable'
  BY <1>1, <1>2, <1>4 DEF UpdateReachesTable, TablesAt
<1>6. \A task \in now, json \in out : Listed(task, json)
  BY <1>1 DEF ReachInv
<1>7. (\A task \in now, json \in out : Listed(task, json))'
  BY <1>1, <1>2, <1>6 DEF Listed
<1>8. pc' \in {"idle", "dead"}
  BY DEF EmitUpdate, Dies
<1> QED
  BY <1>5, <1>7, <1>8 DEF ReachInv

\* A compiler that dies has emitted what it had.
LEMMA DiesReach == ASSUME ReachInv, Dies PROVE ReachInv'
<1>1. pc' = "dead" /\ UNCHANGED Program /\ UNCHANGED <<unplaced, sent, out>>
  BY DEF Dies, Program, allocation
<1>2. Stages' = Stages /\ lg' = lg
  BY <1>1, SameProgram DEF Program
<1>3. UpdateReachesTable'
  BY <1>1, <1>2 DEF ReachInv, UpdateReachesTable
<1> QED
  BY <1>1, <1>3 DEF ReachInv

\* Nothing is emitted before the task is done.
LEMMA QuietReach ==
  ASSUME ReachInv, pc \notin {"idle", "dead"}, pc' \notin {"idle", "dead"}, UNCHANGED <<sent, out>>
  PROVE  ReachInv'
<1>1. sent' = {} /\ out' = {}
  BY DEF ReachInv
<1> QED
  BY <1>1 DEF ReachInv, UpdateReachesTable

LEMMA NextReach == NamesOnce /\ Inv /\ KeepInv /\ ReachInv /\ [Next]_vars => ReachInv'
<1> SUFFICES ASSUME NamesOnce, Inv, KeepInv, ReachInv, [Next]_vars PROVE ReachInv'
  OBVIOUS
<1>1. ASSUME NEW p \in Programs, Load(p) PROVE ReachInv'
  BY <1>1 DEF Load, ReachInv, UpdateReachesTable
<1>2. CASE Dies
  BY <1>2, DiesReach
<1>3. CASE (\E p \in Programs : LoadWild(p)) \/ Overrun \/ BuildNothing
  BY <1>2, <1>3 DEF LoadWild, Overrun, BuildNothing
<1>4. CASE Update
  BY <1>4, EmitReach DEF Update
<1>5. CASE SortStages
  <2>1. CASE pc' = "dead"
    BY <1>2, <1>5, <2>1 DEF SortStages
  <2>2. CASE pc' # "dead"
    BY <1>5, <2>2, QuietReach DEF SortStages, Dies
  <2> QED BY <2>1, <2>2
<1>6. CASE Distribute \/ AllocateMemory \/ Place \/ PlaceNowhere
  BY <1>6, QuietReach DEF Distribute, AllocateMemory, Place, PlaceNowhere
<1>7. CASE StartNumbering \/ NumberTable \/ NumberNextStage \/ Numbered
  BY <1>7, QuietReach DEF StartNumbering, NumberTable, NumberNextStage, Numbered
<1>8. CASE Tie \/ PlaceFixed \/ StartOver
  BY <1>8, QuietReach DEF Tie, PlaceFixed, StartOver
<1>9. CASE CopyTables \/ BookTable \/ Booked
  BY <1>9, QuietReach DEF CopyTables, BookTable, Booked
<1>10. CASE BuildProcessors
  BY <1>10, BuildReach
<1>11. CASE UNCHANGED vars
  <2>1. UNCHANGED <<pc, now, out, sent, unplaced>> /\ UNCHANGED Program
    BY <1>11 DEF vars, Program
  <2>2. Stages' = Stages /\ lg' = lg /\ \A s : TablesAt(s)' = TablesAt(s)
    BY <2>1, SameProgram DEF Program
  <2>3. UpdateReachesTable'
    BY <2>1, <2>2 DEF ReachInv, UpdateReachesTable
  <2>4. pc = "idle" => \A task \in now, json \in out : Listed(task, json)
    BY DEF ReachInv
  <2>5. (pc = "idle" => \A task \in now, json \in out : Listed(task, json))'
    BY <2>1, <2>2, <2>4 DEF Listed
  <2> QED BY <2>1, <2>3, <2>5 DEF ReachInv
<1> QED
  BY <1>1, <1>3, <1>4, <1>5, <1>6, <1>7, <1>8, <1>9, <1>10, <1>11 DEF Next, Compile, Emit

\* An entry emitted for a table of a stage that has a place goes to the processor of
\* that stage and to the table's own matcher there: a slot that answers to the stage's
\* number was allocated to the stage, the extra processors having greater numbers, and
\* a table that one switch entry names has the number of the stage that is kept.
THEOREM Reaches == ASSUME NamesOnce PROVE Spec => []UpdateReachesTable
<1>1. Init => ReachInv
  BY DEF Init, ReachInv, UpdateReachesTable
<1>2. Inv /\ KeepInv /\ ReachInv /\ [Next]_vars => ReachInv'
  BY NextReach
<1>3. ReachInv => UpdateReachesTable
  BY DEF ReachInv
<1> QED
  BY <1>1, <1>2, <1>3, Keeps, PTL DEF Spec

-----------------------------------------------------------------------------
(***************************************************************************)
(* What a full compile's output causes.                                    *)
(***************************************************************************)
\* A full compile tries the first stage of the order on a memory that holds nothing,
\* and so puts it in slot 0, or nowhere.
Fresh ==
  /\ members = [c \in Cluster |-> 0]
  /\ space = [c \in Cluster |-> [sram |-> SramCount, tcam |-> TcamCount]]
FirstSeat == Order = <<>> \/ Order[1] \in unplaced \/ phys[0] = Order[1]
FirstInv ==
  /\ pc \in {"parsers", "levels"} => Fresh
  /\ pc = "place" => AllSet /\ ((rest = Order /\ Fresh) \/ FirstSeat)
  /\ pc = "number" \/ (pc = "procs" /\ ~ incr) => AllSet /\ FirstSeat

\* The first stage of the order is a stage.
LEMMA OrderHead ==
  ASSUME Loaded, Order # <<>>
  PROVE  Head(Order) = Order[1] /\ Order[1] \in Stages
<1>1. PICK seq \in Seq(Stages) : seq = Order
  BY OrderFacts
<1>2. Head(seq) = seq[1] /\ seq[1] \in Stages
  BY <1>1
<1> QED BY <1>1, <1>2

\* The seat of the first stage is the first it is tried on.
LEMMA FirstPlace == ASSUME Inv, FirstInv, Place PROVE FirstInv'
<1>1. PICK c \in Cluster : /\ Fits(Head(rest), c) /\ Settle(Head(rest), c)
                           /\ \A d \in Cluster : d < c => ~ Fits(Head(rest), d)
  BY DEF Place
<1>2. /\ pc = "place" /\ pc' = "place" /\ rest # <<>> /\ UNCHANGED Program /\ unplaced' = unplaced
  BY DEF Place, Program
<1>3. Order' = Order
  BY <1>2, SameProgram
<1>4. PICK s : s = Head(rest)
  OBVIOUS
<1>5. s \in Stages
  BY <1>2, <1>4, NextStage
<1>6. PICK x : x = NextSlot(c)
  OBVIOUS
<1>7. members[c] \in Nat /\ members[c] < ClusterProcCount /\ ClusterProcCount \in Nat
  BY <1>1, ClusterAssumption DEF Fits, Inv, TypeInv
<1>8. x \in Slot
  BY <1>6, <1>7, SlotOf DEF NextSlot
<1>9. phys[x] \notin Stages
  <2>1. members[c] \in 0 .. ClusterProcCount - 1 /\ members[c] <= members[c]
    BY <1>7
  <2> QED BY <1>6, <2>1 DEF NextSlot, Inv, Settled
<1>10. phys' = [phys EXCEPT ![x] = s]
  BY <1>1, <1>4, <1>6 DEF Settle
<1>11. phys \in [Slot -> Stages \cup {NoStage, Unset}]
  BY DEF Inv, TypeInv
<1>12. AllSet'
  <2>1. s # Unset
    BY <1>5, StagesAreNat DEF Inv, Unset
  <2> QED BY <1>2, <1>8, <1>10, <1>11, <2>1 DEF AllSet, FirstInv
<1>13. FirstSeat'
  <2>1. CASE rest = Order /\ Fresh
    <3>1. Order[1] = s
      BY <1>2, <1>4, <2>1, OrderHead DEF Inv
    <3>2. 0 \in Cluster /\ Fits(s, 0)
      <4>1. 0 \in Cluster
        BY ClusterType
      <4>2. members[0] = members[c] /\ space[0] = space[c]
        BY <2>1, <4>1 DEF Fresh
      <4> QED BY <1>1, <1>4, <4>1, <4>2 DEF Fits
    <3>3. c = 0
      <4>1. ~ (0 < c)
        BY <1>1, <1>4, <3>2
      <4> QED BY <4>1, ClusterAssumption DEF Cluster
    <3>4. x = 0
      <4>1. members[0] = 0
        BY <2>1, <3>2 DEF Fresh
      <4> QED BY <1>6, <1>7, <3>3, <4>1 DEF NextSlot
    <3> QED BY <1>3, <1>8, <1>10, <1>11, <3>1, <3>4 DEF FirstSeat
  <2>2. CASE FirstSeat
    <3>1. CASE Order = <<>> \/ Order[1] \in unplaced
      BY <1>2, <1>3, <3>1 DEF FirstSeat
    <3>2. CASE Order # <<>> /\ phys[0] = Order[1]
      <4>1. x # 0
        BY <1>9, <3>2, OrderHead DEF Inv
      <4>2. 0 \in Slot
        BY ClusterType
      <4> QED BY <1>3, <1>10, <1>11, <3>2, <4>1, <4>2 DEF FirstSeat
    <3> QED BY <2>2, <3>1, <3>2 DEF FirstSeat
  <2> QED BY <1>2, <2>1, <2>2 DEF FirstInv
<1> QED
  BY <1>2, <1>12, <1>13 DEF FirstInv

\* A first stage that fits nowhere is reported.
LEMMA FirstNowhere == ASSUME Inv, FirstInv, PlaceNowhere PROVE FirstInv'
<1>1. /\ pc = "place" /\ pc' = "place" /\ rest # <<>> /\ UNCHANGED Program /\ phys' = phys
      /\ unplaced' = unplaced \cup {Head(rest)}
  BY DEF PlaceNowhere, Program
<1>2. Order' = Order
  BY <1>1, SameProgram
<1>3. AllSet'
  BY <1>1 DEF AllSet, FirstInv
<1>4. FirstSeat'
  <2>1. CASE rest = Order
    BY <1>1, <1>2, <2>1, OrderHead DEF FirstSeat, Inv
  <2>2. CASE FirstSeat
    BY <1>1, <1>2, <2>2 DEF FirstSeat
  <2> QED BY <1>1, <2>1, <2>2 DEF FirstInv
<1> QED
  BY <1>1, <1>3, <1>4 DEF FirstInv

\* Slots that are all set, and a memory that holds nothing.
LEMMA FirstBegin ==
  ASSUME pc' = "place", rest' = Order', phys' = Empty, Fresh'
  PROVE  FirstInv'
<1>1. AllSet'
  BY DEF AllSet, Empty, NoStage, Unset
<1> QED
  BY <1>1 DEF FirstInv

\* Every step keeps what is known of the first stage.
LEMMA NextFirst == Inv /\ KeepInv /\ FirstInv /\ [Next]_vars => FirstInv'
<1> SUFFICES ASSUME Inv, KeepInv, FirstInv, [Next]_vars PROVE FirstInv'
  OBVIOUS
<1>1. ASSUME NEW p \in Programs, Load(p) PROVE FirstInv'
  BY <1>1 DEF Load, Untouched, FirstInv, Fresh
<1>2. CASE pc' \in {"idle", "dead", "fixed", "book"}
  BY <1>2 DEF FirstInv
<1>3. CASE SortStages \/ Distribute
  <2>1. CASE pc' = "dead"
    BY <1>2, <2>1
  <2>2. CASE pc' # "dead"
    <3>1. pc \in {"parsers", "levels"} /\ pc' = "levels" /\ UNCHANGED <<members, space>>
      BY <1>3, <2>2 DEF SortStages, Distribute, Dies, allocation
    <3> QED BY <3>1 DEF FirstInv, Fresh
  <2> QED BY <2>1, <2>2
<1>4. CASE AllocateMemory
  <2>1. UNCHANGED Program
    BY <1>4 DEF AllocateMemory, Program
  <2>2. pc = "levels" /\ pc' = "place" /\ rest' = Order' /\ phys' = Empty /\ UNCHANGED <<members, space>>
    BY <1>4, <2>1, SameProgram DEF AllocateMemory
  <2>3. Fresh'
    BY <2>2 DEF FirstInv, Fresh
  <2> QED BY <2>2, <2>3, FirstBegin
<1>5. CASE StartOver
  <2>1. UNCHANGED Program
    BY <1>5 DEF StartOver, Program
  <2>2. pc' = "place" /\ rest' = Order' /\ phys' = Empty
    BY <1>5, <2>1, SameProgram DEF StartOver
  <2>3. Fresh'
    BY <1>5 DEF StartOver, Fresh
  <2> QED BY <2>2, <2>3, FirstBegin
<1>6. CASE Place
  BY <1>6, FirstPlace
<1>7. CASE PlaceNowhere
  BY <1>7, FirstNowhere
<1>8. CASE StartNumbering \/ NumberTable \/ NumberNextStage \/ Numbered
  <2>1. /\ UNCHANGED Program /\ UNCHANGED <<phys, unplaced>>
        /\ (pc = "place" /\ rest = <<>>) \/ pc = "number"
        /\ pc' \in {"number", "procs"}
    BY <1>8 DEF StartNumbering, NumberTable, NumberNextStage, Numbered, Program, allocation
  <2>2. Order' = Order
    BY <2>1, SameProgram
  <2>3. AllSet /\ FirstSeat
    BY <2>1 DEF FirstInv, FirstSeat
  <2> QED BY <2>1, <2>2, <2>3 DEF FirstInv, AllSet, FirstSeat
<1>9. CASE Booked
  <2>1. pc = "book" /\ pc' = "procs" /\ incr' = incr
    BY <1>9 DEF Booked
  <2> QED BY <2>1 DEF FirstInv, KeepInv, Tying
<1>10. CASE BuildProcessors \/ Tie \/ PlaceFixed \/ CopyTables \/ BookTable \/ Overrun \/ BuildNothing \/ Update
  <2>1. pc' \in {"idle", "dead", "fixed", "book"}
    BY <1>10 DEF BuildProcessors, Tie, PlaceFixed, CopyTables, BookTable, Overrun, BuildNothing, Update,
                 EmitUpdate, Dies
  <2> QED BY <1>2, <2>1
<1>11. CASE \E p \in Programs : LoadWild(p)
  BY <1>2, <1>11 DEF LoadWild, Dies
<1>12. CASE UNCHANGED vars
  <2>1. UNCHANGED <<pc, rest, phys, unplaced, incr, members, space>> /\ UNCHANGED Program
    BY <1>12 DEF vars, Program
  <2>2. Order' = Order
    BY <2>1, SameProgram
  <2> QED BY <2>1, <2>2 DEF FirstInv, Fresh, AllSet, FirstSeat
<1> QED
  BY <1>1, <1>3, <1>4, <1>5, <1>6, <1>7, <1>8, <1>9, <1>10, <1>11, <1>12 DEF Next, Compile, Emit

\* Where the stages sit, when every one has a slot and no slot is read as another.
Seats(procs, seat) ==
  /\ seat \in [Stages -> Slot]
  /\ \A r, s \in Stages : seat[r] = seat[s] => r = s
  /\ \A s \in Stages : Slots(procs, s) = {seat[s]} /\ procs[seat[s]].stage = s

\* After a full compile in which every stage found a place, each sits in one processor.
LEMMA SeatsBuilt ==
  ASSUME Inv, KeepInv, pc = "procs", AllSet, unplaced = {}, Stages # {}, NEW procs, procs = Built.procs
  PROVE  \E seat : Seats(procs, seat)
<1>1. \A s \in Stages : HasSlot(s)
  BY DEF KeepInv, Seating
<1>2. PICK seat : seat = [s \in Stages |-> CHOOSE i \in Slot : phys[i] = s]
  OBVIOUS
<1>3. \A s \in Stages : seat[s] \in Slot /\ phys[seat[s]] = s
  <2>1. TAKE s \in Stages
  <2>2. \E i \in Slot : phys[i] = s
    BY <1>1 DEF HasSlot
  <2> QED BY <1>2, <2>2
<1>4. PICK n : n = Cardinality(Slot)
  OBVIOUS
<1>5. (\A j \in Slot : Holds(procs[j], n, j)) /\ \A j \in Slot : j < n
  <2>1. \A s \in Stages : Len(dist[s]) \in Nat
    BY DEF KeepInv, Leveled
  <2> QED BY <1>4, <2>1, BuiltStocked DEF Stocked, Inv
<1>6. ASSUME NEW s \in Stages
      PROVE  Slots(procs, s) = {seat[s]} /\ procs[seat[s]].stage = s
  <2>1. s \in Nat /\ s # -1 /\ s < Cardinality(Stages) /\ Cardinality(Stages) \in Nat
    BY LoadedFacts DEF Inv
  <2>2. At(seat[s]) = s
    BY <1>3, AtType DEF Inv
  <2>3. procs[seat[s]].stage = s /\ procs[seat[s]].id = s
    BY <1>3, <1>5, <2>2 DEF Holds
  <2>4. ASSUME NEW i \in Slot, procs[i].id = s PROVE i = seat[s]
    <3>1. At(i) \in Stages
      <4>1. SUFFICES ASSUME At(i) \notin Stages PROVE FALSE
        OBVIOUS
      <4>2. procs[i].id = -1 \/ procs[i].id >= Cardinality(Stages)
        BY <1>5, <4>1 DEF Holds
      <4> QED BY <2>1, <2>4, <4>2
    <3>2. procs[i].id = At(i)
      BY <1>5, <3>1 DEF Holds
    <3>3. phys[i] = s
      BY <2>4, <3>2 DEF At, AllSet
    <3> QED BY <1>3, <3>3 DEF Inv, Settled
  <2>5. \A i : i \in Slots(procs, s) <=> i = seat[s]
    <3>1. s >= 0
      BY <2>1
    <3> QED BY <1>3, <2>3, <2>4, <3>1 DEF Slots
  <2> QED BY <2>3, <2>5
<1>7. seat \in [Stages -> Slot]
  BY <1>2, <1>3
<1>8. \A r, s \in Stages : seat[r] = seat[s] => r = s
  BY <1>3
<1> QED
  BY <1>6, <1>7, <1>8 DEF Seats

\* There are no more stages than slots.
LEMMA SeatsEnough ==
  ASSUME Loaded, NEW procs, NEW seat, Seats(procs, seat)
  PROVE  /\ Cardinality(Slot) \in Nat /\ Cardinality(Stages) \in Nat
         /\ Cardinality(Stages) <= Cardinality(Slot)
<1>1. IsFiniteSet(Slot)
  <2>1. PICK m \in Nat : m = ClusterCount * ClusterProcCount
    BY ClusterAssumption
  <2>2. Slot = 0 .. m - 1
    BY <2>1 DEF Slot
  <2> QED BY <2>2, FS_Interval
<1>2. IsFiniteSet(Stages)
  BY LoadedFacts
<1>3. Cardinality(Slot) \in Nat /\ Cardinality(Stages) \in Nat
  BY <1>1, <1>2, FS_CardinalityType
<1>4. ~ (Cardinality(Slot) < Cardinality(Stages))
  <2>1. SUFFICES ASSUME Cardinality(Slot) < Cardinality(Stages) PROVE FALSE
    OBVIOUS
  <2>2. seat \in [Stages -> Slot]
    BY DEF Seats
  <2>3. \E x, y \in Stages : x # y /\ seat[x] = seat[y]
    BY <1>1, <1>2, <2>1, <2>2, FS_PigeonHole
  <2> QED BY <2>3 DEF Seats
<1> QED
  BY <1>3, <1>4

\* The number of a stage that follows is that of its slot.
LEMMA SeatNumber ==
  ASSUME NEW procs, NEW seat, Seats(procs, seat)
  PROVE  /\ \A s \in Stages : Slots(procs, s) # {} /\ LeastSlot(Slots(procs, s)) = seat[s]
         /\ Slots(procs, -1) = {} /\ ToSlot(procs, -1) = -1
         /\ \A s \in Stages : s # -1 => ToSlot(procs, s) = seat[s]
<1>1. ASSUME NEW s \in Stages PROVE Slots(procs, s) # {} /\ LeastSlot(Slots(procs, s)) = seat[s]
  <2>1. PICK k : k = seat[s]
    OBVIOUS
  <2>2. Slots(procs, s) = {k} /\ k \in Nat
    BY <2>1, ClusterType DEF Seats
  <2>3. (CHOOSE x \in {k} : \A j \in {k} : x <= j) = k
    <3>1. k <= k
      BY <2>2
    <3> QED BY <3>1
  <2> QED BY <2>1, <2>2, <2>3 DEF LeastSlot
<1>2. Slots(procs, -1) = {}
  BY DEF Slots
<1> QED
  BY <1>1, <1>2 DEF ToSlot

\* An edge of a gateway that is remapped once.
LEMMA RemappedOnce ==
  ASSUME NEW procs, NEW e, e = [type |-> e.type, to |-> e.to], e.type = "STAGE"
  PROVE  Remapped(procs, e, 1) =
           [type |-> "STAGE",
            to   |-> IF Slots(procs, e.to) = {} THEN e.to ELSE LeastSlot(Slots(procs, e.to))]
<1> DEFINE Maps(g) == g = [d \in 0 .. 1 |->
                             IF d = 0 THEN e.to
                             ELSE IF Slots(procs, g[d - 1]) = {} THEN g[d - 1]
                             ELSE LeastSlot(Slots(procs, g[d - 1]))]
           g == CHOOSE g : Maps(g)
<1>1. PICK b : b = IF Slots(procs, e.to) = {} THEN e.to ELSE LeastSlot(Slots(procs, e.to))
  OBVIOUS
<1>2. \E h : Maps(h)
  <2>1. PICK h : h = [d \in 0 .. 1 |-> IF d = 0 THEN e.to ELSE b]
    OBVIOUS
  <2>2. h[0] = e.to
    BY <2>1
  <2>3. ASSUME NEW d \in 0 .. 1
        PROVE  h[d] = IF d = 0 THEN e.to
                      ELSE IF Slots(procs, h[d - 1]) = {} THEN h[d - 1]
                      ELSE LeastSlot(Slots(procs, h[d - 1]))
    <3>1. CASE d = 0
      BY <2>2, <3>1
    <3>2. CASE d # 0
      <4>1. d - 1 = 0
        BY <3>2
      <4>2. h[d] = b
        BY <2>1, <3>2
      <4> QED BY <1>1, <2>2, <3>2, <4>1, <4>2
    <3> QED BY <3>1, <3>2
  <2>4. h = [d \in 0 .. 1 |-> h[d]]
    BY <2>1
  <2>5. Maps(h)
    BY <2>3, <2>4
  <2> QED BY <2>5
<1>3. Maps(g)
  <2> HIDE DEF Maps
  <2> QED BY <1>2
<1>4. Remapped(procs, e, 1) = [e EXCEPT !.to = g[1]]
  BY DEF Remapped
<1>5. g[1] = b
  <2> HIDE DEF g
  <2>1. \A d \in 0 .. 1 : g[d] = IF d = 0 THEN e.to
                                 ELSE IF Slots(procs, g[d - 1]) = {} THEN g[d - 1]
                                 ELSE LeastSlot(Slots(procs, g[d - 1]))
    BY <1>3
  <2>2. g[0] = e.to
    BY <2>1
  <2>3. 1 \in 0 .. 1 /\ 1 # 0 /\ 1 - 1 = 0
    OBVIOUS
  <2>4. g[1] = IF Slots(procs, g[0]) = {} THEN g[0] ELSE LeastSlot(Slots(procs, g[0]))
    BY <2>1, <2>3
  <2> QED BY <1>1, <2>2, <2>4
<1> HIDE DEF g
<1> QED
  BY <1>1, <1>4, <1>5

\* Executor entries that lead to the same sequences.
LEMMA SameThrough ==
  ASSUME NEW prims, NEW ap, NEW bp, NEW W, NEW V, DOMAIN bp = DOMAIN ap,
         \A i \in DOMAIN ap : bp[i].act = ap[i].act /\ W[bp[i].next] = V[ap[i].next]
  PROVE  Through(prims, bp, W) = Through(prims, ap, V)
<1> DEFINE F(i) == Prefixed(prims[bp[i].act], W[bp[i].next])
           G(i) == Prefixed(prims[ap[i].act], V[ap[i].next])
<1>1. Through(prims, bp, W) = UNION {F(i) : i \in DOMAIN ap}
  BY DEF Through, ToSet
<1>2. Through(prims, ap, V) = UNION {G(i) : i \in DOMAIN ap}
  BY DEF Through, ToSet
<1>3. \A i \in DOMAIN ap : F(i) = G(i)
  OBVIOUS
<1> HIDE DEF F, G
<1> QED
  BY <1>1, <1>2, <1>3

\* What may follow a stage of the output.
EmitVisit(prims, logic, W) == Leaving(GatewayEdges(logic), W, Through(prims, logic.ap, W))

\* A stage is emitted with the sequences it had, when those after it have theirs.
LEMMA StageEmits ==
  ASSUME Loaded, NEW procs, NEW seat, Seats(procs, seat), NEW s \in Stages, NEW V, V[-1] = {<<>>},
         StageLeads(lg.prims, V, lg.stages[s], s, Stages, V[s]), NEW W, W[-1] = {<<>>},
         \A j \in Stages : j > s => W[seat[j]] = V[j]
  PROVE  EmitVisit(lg.prims, Emitted(procs, s), W) = V[s]
<1>1. PICK x : x = lg.stages[s]
  OBVIOUS
<1>2. PICK gw : gw = x.gateway
  OBVIOUS
<1>3. /\ V[s] = Leaving(GatewayEdges(gw), V, Through(lg.prims, x.ap, V))
      /\ \A i \in DOMAIN x.ap : Later(Stages, s, x.ap[i].next)
      /\ \A i \in DOMAIN gw.entries : gw.entries[i].type = "STAGE" => gw.entries[i].to = -1
      /\ gw.default = [type |-> gw.default.type, to |-> gw.default.to]
      /\ gw.default.type = "STAGE" => Later(Stages, s, gw.default.to)
      /\ gw.shared = TRUE => 1 \in DOMAIN gw.entries /\ gw.default = gw.entries[1]
  BY <1>1, <1>2 DEF StageLeads
<1>4. PICK default : default = Remapped(procs, gw.default, 1)
  OBVIOUS
<1>5. PICK logic : logic = Emitted(procs, s)
  OBVIOUS
<1>6. /\ logic.default = default
      /\ DOMAIN logic.ap = DOMAIN x.ap
      /\ \A i \in DOMAIN x.ap : /\ logic.ap[i].act = x.ap[i].act
                                /\ logic.ap[i].next = ToSlot(procs, x.ap[i].next)
      /\ DOMAIN logic.entries = DOMAIN gw.entries
      /\ \A i \in DOMAIN gw.entries :
           logic.entries[i] = IF gw.shared /\ i = 1 THEN default ELSE gw.entries[i]
  <2>1. Cardinality(Slots(procs, s)) = 1
    <3>1. PICK k : Slots(procs, s) = {k}
      BY DEF Seats
    <3>2. Cardinality({k}) = 1
      BY FS_Singleton
    <3> QED BY <3>1, <3>2
  <2> QED BY <1>1, <1>2, <1>4, <1>5, <2>1 DEF Emitted
<1>7. \A j \in Stages : j \in Nat /\ j # -1
  BY LoadedFacts
<1>8. ASSUME NEW j, Later(Stages, s, j) PROVE W[ToSlot(procs, j)] = V[j]
  <2>1. CASE j = -1
    BY <2>1, SeatNumber
  <2>2. CASE j # -1
    <3>1. j \in Stages /\ j > s
      BY <1>8, <2>2 DEF Later
    <3>2. ToSlot(procs, j) = seat[j]
      BY <2>2, <3>1, SeatNumber
    <3> QED BY <3>1, <3>2
  <2> QED BY <2>1, <2>2
<1>9. PICK a : a = Through(lg.prims, x.ap, V)
  OBVIOUS
<1>10. Through(lg.prims, logic.ap, W) = a
  <2>1. \A i \in DOMAIN x.ap : logic.ap[i].act = x.ap[i].act /\ W[logic.ap[i].next] = V[x.ap[i].next]
    BY <1>3, <1>6, <1>8
  <2> QED BY <1>6, <1>9, <2>1, SameThrough
<1>11. After(default, W, a) = After(gw.default, V, a)
  <2>1. CASE gw.default.type = "STAGE"
    <3>1. PICK j : j = gw.default.to
      OBVIOUS
    <3>2. Later(Stages, s, j)
      BY <1>3, <2>1, <3>1
    <3>3. PICK n : n = IF Slots(procs, j) = {} THEN j ELSE LeastSlot(Slots(procs, j))
      OBVIOUS
    <3>4. default = [type |-> "STAGE", to |-> n]
      BY <1>3, <1>4, <2>1, <3>1, <3>3, RemappedOnce
    <3>5. W[n] = V[j]
      <4>1. CASE j = -1
        BY <3>3, <4>1, SeatNumber
      <4>2. CASE j # -1
        <5>1. j \in Stages /\ j > s
          BY <3>2, <4>2 DEF Later
        <5>2. n = seat[j]
          BY <3>3, <5>1, SeatNumber
        <5> QED BY <5>1, <5>2
      <4> QED BY <4>1, <4>2
    <3> QED BY <2>1, <3>1, <3>4, <3>5 DEF After
  <2>2. CASE gw.default.type # "STAGE"
    <3>1. default = gw.default
      BY <1>4, <2>2 DEF Remapped
    <3> QED BY <2>2, <3>1 DEF After
  <2> QED BY <2>1, <2>2
<1>12. ASSUME NEW i \in DOMAIN gw.entries
       PROVE  After(logic.entries[i], W, a) = After(gw.entries[i], V, a)
  <2>1. CASE gw.shared /\ i = 1
    BY <1>3, <1>6, <1>11, <2>1
  <2>2. CASE ~ (gw.shared /\ i = 1)
    <3>1. logic.entries[i] = gw.entries[i]
      BY <1>6, <2>2
    <3>2. CASE gw.entries[i].type = "STAGE"
      <4>1. gw.entries[i].to = -1
        BY <1>3, <3>2
      <4> QED BY <3>1, <3>2, <4>1 DEF After
    <3>3. CASE gw.entries[i].type # "STAGE"
      BY <3>1, <3>3 DEF After
    <3> QED BY <3>2, <3>3
  <2> QED BY <2>1, <2>2
<1>13. Leaving(GatewayEdges(logic), W, a) = Leaving(GatewayEdges(gw), V, a)
  <2> DEFINE F(i) == After(logic.entries[i], W, a)
             G(i) == After(gw.entries[i], V, a)
  <2>1. Leaving(GatewayEdges(logic), W, a) =
          (UNION {F(i) : i \in DOMAIN gw.entries}) \cup After(default, W, a)
    BY <1>6 DEF Leaving, GatewayEdges, ToSet
  <2>2. Leaving(GatewayEdges(gw), V, a) =
          (UNION {G(i) : i \in DOMAIN gw.entries}) \cup After(gw.default, V, a)
    BY DEF Leaving, GatewayEdges, ToSet
  <2>3. \A i \in DOMAIN gw.entries : F(i) = G(i)
    BY <1>12
  <2>4. UNION {F(i) : i \in DOMAIN gw.entries} = UNION {G(i) : i \in DOMAIN gw.entries}
    <3> HIDE DEF F, G
    <3> QED BY <2>3
  <2> HIDE DEF F, G
  <2> QED BY <1>11, <2>1, <2>2, <2>4
<1> QED
  BY <1>3, <1>5, <1>9, <1>10, <1>13 DEF EmitVisit

\* The sequences found after every round of the walk over the processors.
EmitWalk(prims, json, g, d) ==
  [i \in Slot \cup {-1} |->
     IF d = 0 \/ i = -1 THEN {<<>>}
     ELSE IF json.procs[i].stage < 0 THEN {<<>>}
     ELSE EmitVisit(prims, json.logic[json.procs[i].stage], g[d - 1])]
EmitWalks(prims, json, N, g) == g = [d \in 0 .. N |-> EmitWalk(prims, json, g, d)]

\* The walk over the output is well defined, and finds its sequences.
LEMMA EmitWalksExist ==
  ASSUME NEW prims, NEW json, NEW N \in Nat
  PROVE  \E g : EmitWalks(prims, json, N, g)
<1> DEFINE T == {n \in Nat : \E g : EmitWalks(prims, json, n, g)}
<1>0. ASSUME NEW g, NEW h, NEW d, d = 0 \/ h[d - 1] = g[d - 1]
      PROVE  EmitWalk(prims, json, h, d) = EmitWalk(prims, json, g, d)
  BY <1>0 DEF EmitWalk
<1>1. 0 \in T
  <2> DEFINE g == [d \in 0 .. 0 |-> EmitWalk(prims, json, <<>>, 0)]
  <2>1. g = [d \in 0 .. 0 |-> EmitWalk(prims, json, g, d)]
    <3>1. \A d \in 0 .. 0 : d = 0
      OBVIOUS
    <3>2. EmitWalk(prims, json, g, 0) = EmitWalk(prims, json, <<>>, 0)
      BY DEF EmitWalk
    <3> QED BY <3>1, <3>2
  <2>2. EmitWalks(prims, json, 0, g)
    <3> HIDE DEF g
    <3> QED BY <2>1 DEF EmitWalks
  <2> QED BY <2>2
<1>2. ASSUME NEW n \in T PROVE n + 1 \in T
  <2>1. PICK g : EmitWalks(prims, json, n, g)
    OBVIOUS
  <2>2. n \in Nat
    OBVIOUS
  <2> DEFINE h == [d \in 0 .. n + 1 |-> EmitWalk(prims, json, g, d)]
  <2>3. ASSUME NEW d \in 0 .. n PROVE h[d] = g[d]
    <3>1. g[d] = EmitWalk(prims, json, g, d)
      BY <2>1 DEF EmitWalks
    <3>2. d \in 0 .. n + 1
      BY <2>2
    <3> QED BY <3>1, <3>2
  <2>4. ASSUME NEW d \in 0 .. n + 1 PROVE h[d] = EmitWalk(prims, json, h, d)
    <3>1. d = 0 \/ d - 1 \in 0 .. n
      BY <2>2, <2>4
    <3>2. d = 0 \/ h[d - 1] = g[d - 1]
      BY <2>3, <3>1
    <3>3. h[d] = EmitWalk(prims, json, g, d)
      BY <2>4
    <3> HIDE DEF h
    <3>4. EmitWalk(prims, json, h, d) = EmitWalk(prims, json, g, d)
      BY <1>0, <3>2
    <3> QED BY <3>3, <3>4
  <2>5. h = [d \in 0 .. n + 1 |-> h[d]]
    OBVIOUS
  <2>6. EmitWalks(prims, json, n + 1, h)
    <3> HIDE DEF h
    <3> QED BY <2>4, <2>5 DEF EmitWalks
  <2> QED
    <3> HIDE DEF h
    <3> QED BY <2>2, <2>6
<1>3. T = Nat
  <2>1. T \in SUBSET Nat
    OBVIOUS
  <2> HIDE DEF T
  <2> QED BY <1>1, <1>2, <2>1, Induction
<1> QED
  BY <1>3

LEMMA EmittedIsWalks ==
  ASSUME NEW json
  PROVE  EmittedTraces(json) =
           (CHOOSE g : EmitWalks(lg.prims, json, Cardinality(Slot) + 1, g))[Cardinality(Slot) + 1][0]
  BY DEF EmittedTraces, EmitWalks, EmitWalk, EmitVisit, Leaving, GatewayEdges, After, Through, Prefixed, Joined

\* The sequences of a stage are found by as many rounds as there are stages from it on.
LEMMA SeatsWalk ==
  ASSUME Loaded, NEW procs, NEW seat, Seats(procs, seat), NEW V, LogicalWalk(lg, V),
         NEW json, json.procs = procs, json.logic = [s \in Stages |-> Emitted(procs, s)],
         NEW N \in Nat, NEW g, EmitWalks(lg.prims, json, N, g), N >= Cardinality(Stages), N # 0,
         0 \in Stages
  PROVE  g[N][seat[0]] = V[0]
<1>1. PICK n \in Nat : n = Cardinality(Stages)
  BY LoadedFacts
<1>2. Stages = 0 .. n - 1 /\ \A s \in Stages : s \in Nat /\ s < n
  BY <1>1, LoadedFacts
<1>3. V[-1] = {<<>>} /\ \A s \in Stages : StageLeads(lg.prims, V, lg.stages[s], s, Stages, V[s])
  BY DEF LogicalWalk, Stages
<1>4. \A d \in 0 .. N : g[d] = EmitWalk(lg.prims, json, g, d)
  BY DEF EmitWalks
<1>5. \A s \in Stages : seat[s] \in Slot /\ seat[s] # -1 /\ procs[seat[s]].stage = s
  BY ClusterType DEF Seats
<1> DEFINE Found(d) == g[d][-1] = {<<>>} /\ \A s \in Stages : s + d >= n => g[d][seat[s]] = V[s]
           T == {d \in Nat : d <= N => Found(d)}
<1>6. 0 \in T
  <2>1. g[0] = EmitWalk(lg.prims, json, g, 0)
    BY <1>4
  <2>2. g[0][-1] = {<<>>}
    BY <2>1 DEF EmitWalk
  <2>3. \A s \in Stages : ~ (s + 0 >= n)
    BY <1>2
  <2> QED BY <2>2, <2>3
<1>7. ASSUME NEW d \in T PROVE d + 1 \in T
  <2>1. d \in Nat
    OBVIOUS
  <2>2. SUFFICES ASSUME d + 1 <= N PROVE Found(d + 1)
    BY <2>1
  <2>3. Found(d)
    BY <2>1, <2>2
  <2>4. d + 1 \in 0 .. N /\ d + 1 # 0 /\ (d + 1) - 1 = d
    BY <2>1, <2>2
  <2>5. PICK W : W = g[d]
    OBVIOUS
  <2>6. g[d + 1] = [i \in Slot \cup {-1} |->
                      IF i = -1 THEN {<<>>}
                      ELSE IF json.procs[i].stage < 0 THEN {<<>>}
                      ELSE EmitVisit(lg.prims, json.logic[json.procs[i].stage], W)]
    <3>1. g[d + 1] = EmitWalk(lg.prims, json, g, d + 1)
      BY <1>4, <2>4
    <3>2. EmitWalk(lg.prims, json, g, d + 1) =
            [i \in Slot \cup {-1} |->
               IF i = -1 THEN {<<>>}
               ELSE IF json.procs[i].stage < 0 THEN {<<>>}
               ELSE EmitVisit(lg.prims, json.logic[json.procs[i].stage], W)]
      BY <2>4, <2>5 DEF EmitWalk
    <3> QED BY <3>1, <3>2
  <2>7. g[d + 1][-1] = {<<>>}
    BY <2>6
  <2>8. ASSUME NEW s \in Stages, s + (d + 1) >= n PROVE g[d + 1][seat[s]] = V[s]
    <3>1. g[d + 1][seat[s]] = EmitVisit(lg.prims, Emitted(procs, s), W)
      <4>1. ~ (s < 0) /\ s \in Stages
        BY <1>2
      <4> QED BY <1>5, <2>6, <4>1
    <3>2. W[-1] = {<<>>}
      BY <2>3, <2>5
    <3>3. \A j \in Stages : j > s => W[seat[j]] = V[j]
      <4>1. TAKE j \in Stages
      <4>2. HAVE j > s
      <4>3. j + d >= n
        <5>1. j \in Nat /\ s \in Nat
          BY <1>2
        <5> QED BY <2>1, <2>8, <4>2, <5>1
      <4> QED BY <2>3, <2>5, <4>3
    <3>4. StageLeads(lg.prims, V, lg.stages[s], s, Stages, V[s])
      BY <1>3
    <3> QED BY <1>3, <3>1, <3>2, <3>3, <3>4, StageEmits
  <2> QED BY <2>7, <2>8
<1>8. T = Nat
  <2>1. T \in SUBSET Nat
    OBVIOUS
  <2> HIDE DEF T
  <2> QED BY <1>6, <1>7, <2>1, Induction
<1>9. Found(N)
  <2>1. N \in T /\ N <= N
    BY <1>8
  <2> QED BY <2>1
<1>10. 0 + N >= n
  BY <1>1
<1> QED
  BY <1>9, <1>10

\* Without stages every processor is empty, but for parser levels.
LEMMA NothingBuilt ==
  ASSUME Loaded, TypeInv, Stages = {}, AllSet, NEW j \in Slot
  PROVE  Built.procs[j].stage = -1
<1>1. PICK n : n = Cardinality(Slot)
  OBVIOUS
<1>2. Stocked(Built, n)
  BY <1>1, BuiltStocked
<1>3. Holds(Built.procs[j], n, j)
  BY <1>2 DEF Stocked
<1> QED
  BY <1>3 DEF Holds

\* A plain program, fully compiled, is emitted with what it can cause.
LEMMA EmittedKept ==
  ASSUME Inv, KeepInv, FirstInv, pc = "procs", ~ incr, unplaced = {}, Plain(prog), NEW json,
         json.procs = Built.procs, json.logic = [s \in Stages |-> Emitted(Built.procs, s)]
  PROVE  EmittedTraces(json) = SourceTraces(prog)
<1>1. AllSet /\ FirstSeat
  BY DEF FirstInv
<1>2. PICK wild : lg = Logical(prog, Merged(prog), wild)
  BY DEF Inv, Loaded
<1>3. PICK V : LogicalWalk(lg, V) /\ SourceTraces(prog) = V[IF Stages = {} THEN -1 ELSE 0]
  <2>1. IsProgram(prog)
    BY DEF Inv, Loaded
  <2> QED BY <1>2, <2>1, LogicalWalks DEF Stages
<1>4. PICK N \in Nat : N = Cardinality(Slot) + 1 /\ N # 0 /\ Cardinality(Slot) \in Nat
  <2>1. IsFiniteSet(Slot)
    <3>1. PICK m \in Nat : m = ClusterCount * ClusterProcCount
      BY ClusterAssumption
    <3>2. Slot = 0 .. m - 1
      BY <3>1 DEF Slot
    <3> QED BY <3>2, FS_Interval
  <2>2. Cardinality(Slot) \in Nat
    BY <2>1, FS_CardinalityType
  <2> QED BY <2>2
<1>5. PICK g : g = CHOOSE h : EmitWalks(lg.prims, json, N, h)
  OBVIOUS
<1>6. EmitWalks(lg.prims, json, N, g)
  BY <1>5, EmitWalksExist
<1>7. EmittedTraces(json) = g[N][0]
  BY <1>4, <1>5, EmittedIsWalks
<1>8. PICK procs : procs = Built.procs
  OBVIOUS
<1>9. CASE Stages = {}
  <2>1. V[-1] = {<<>>}
    BY <1>3 DEF LogicalWalk
  <2>2. g[N] = EmitWalk(lg.prims, json, g, N)
    <3>1. N \in 0 .. N
      OBVIOUS
    <3> QED BY <1>6, <3>1 DEF EmitWalks
  <2>3. 0 \in Slot /\ json.procs[0].stage < 0
    <3>1. 0 \in Slot
      BY ClusterType
    <3>2. Built.procs[0].stage = -1
      BY <1>1, <1>9, <3>1, NothingBuilt DEF Inv
    <3> QED BY <3>1, <3>2
  <2>4. g[N][0] = {<<>>}
    BY <2>2, <2>3 DEF EmitWalk
  <2> QED BY <1>3, <1>7, <1>9, <2>1, <2>4
<1>10. CASE Stages # {}
  <2>1. PICK seat : Seats(procs, seat)
    BY <1>1, <1>8, <1>10, SeatsBuilt
  <2>2. N >= Cardinality(Stages)
    BY <1>4, <2>1, SeatsEnough DEF Inv
  <2>3. 0 \in Stages /\ IsFiniteSet(Stages) /\ \A s \in Stages : s \in Nat
    BY <1>10, LoadedFacts DEF Inv
  <2>4. Order # <<>> /\ Order[1] = 0
    <3>1. \A s \in DOMAIN lg.stages : s \in Nat
      BY <2>3 DEF Stages
    <3>2. IsFiniteSet(DOMAIN lg.stages) /\ 0 \in DOMAIN lg.stages
      BY <2>3 DEF Stages
    <3> QED BY <1>3, <3>1, <3>2, LogicalFirst DEF Order
  <2>5. phys[0] = 0
    BY <1>1, <2>4 DEF FirstSeat
  <2>6. seat[0] = 0
    <3>1. 0 \in Slot
      BY ClusterType
    <3>2. At(0) = 0
      BY <1>10, <2>3, <2>5, <3>1, AtType DEF Inv
    <3>3. procs[0].id = 0
      <4>1. PICK n : n = Cardinality(Slot)
        OBVIOUS
      <4>2. (\A j \in Slot : Holds(procs[j], n, j)) /\ \A j \in Slot : j < n
        <5>1. \A s \in Stages : Len(dist[s]) \in Nat
          BY DEF KeepInv, Leveled
        <5> QED BY <1>8, <1>10, <4>1, <5>1, BuiltStocked DEF Stocked, Inv
      <4> QED BY <2>3, <3>1, <3>2, <4>2 DEF Holds
    <3>4. 0 \in Slots(procs, 0)
      BY <3>1, <3>3 DEF Slots
    <3> QED BY <2>1, <2>3, <3>4 DEF Seats
  <2>7. json.procs = procs /\ json.logic = [s \in Stages |-> Emitted(procs, s)]
    BY <1>8
  <2>8. g[N][seat[0]] = V[0]
    BY <1>3, <1>4, <1>6, <2>1, <2>2, <2>3, <2>7, SeatsWalk DEF Inv
  <2> QED BY <1>3, <1>7, <1>10, <2>6, <2>8
<1> QED
  BY <1>9, <1>10

\* The sequences of an output are those of the actions it was made with.
LEMMA SameTraces ==
  ASSUME UNCHANGED Program, NEW json
  PROVE  EmittedTraces(json)' = EmittedTraces(json)
  BY DEF EmittedTraces, Program

\* Every step keeps the sequences of the output.
LEMMA NextTraces == Inv /\ KeepInv /\ FirstInv /\ WalkPreserved /\ [Next]_vars => WalkPreserved'
<1> SUFFICES ASSUME Inv, KeepInv, FirstInv, WalkPreserved, [Next]_vars,
                    Finished', ~ incr', unplaced' = {}, Plain(prog'), NEW json \in out'
             PROVE  EmittedTraces(json)' = SourceTraces(prog')
  BY DEF WalkPreserved
<1>1. pc' = "idle"
  BY DEF Finished
<1>2. CASE BuildProcessors
  <2>1. /\ pc = "procs" /\ UNCHANGED Program /\ UNCHANGED <<incr, unplaced>>
        /\ json.procs = Built.procs /\ json.logic = [s \in Stages |-> Emitted(Built.procs, s)]
    BY <1>2 DEF BuildProcessors, Program, allocation
  <2>2. EmittedTraces(json) = SourceTraces(prog)
    BY <2>1, EmittedKept DEF Program
  <2> QED BY <2>1, <2>2, SameTraces DEF Program
<1>3. CASE pc = "idle" /\ UNCHANGED Program /\ UNCHANGED <<now, out, incr, unplaced>>
  <2>1. EmittedTraces(json) = SourceTraces(prog)
    BY <1>3 DEF WalkPreserved, Finished, Program
  <2> QED BY <1>3, <2>1, SameTraces DEF Program
<1>4. CASE UNCHANGED vars
  BY <1>1, <1>3, <1>4 DEF vars, Program
<1>5. CASE Update
  BY <1>1, <1>3, <1>5 DEF Update, EmitUpdate, Dies, Program, allocation
<1>6. CASE Next /\ ~ BuildProcessors /\ ~ Update
  BY <1>1, <1>6 DEF Next, Compile, Emit, Load, LoadWild, SortStages, Distribute, AllocateMemory, Place,
       PlaceNowhere, StartNumbering, NumberTable, NumberNextStage, Numbered, Tie, PlaceFixed, StartOver,
       CopyTables, BookTable, Booked, Overrun, BuildNothing, Dies
<1> QED
  BY <1>2, <1>4, <1>5, <1>6

\* A full compile of a plain program, all of whose stages found a place, gives a pipeline
\* that can cause exactly the sequences of assignments the program can: what an absorbed
\* action did is done where it was reached from, a stage keeps its ways on under its new
\* number and again under its slot's, and the walk begins with the stage it began with
\* (initializeStages, reorderStages, allocateMemory and allocateProcessors).
THEOREM Preserved == Spec => []WalkPreserved
<1>1. Init => FirstInv /\ WalkPreserved
  BY DEF Init, FirstInv, WalkPreserved, Finished
<1>2. Inv /\ KeepInv /\ FirstInv /\ WalkPreserved /\ [Next]_vars => FirstInv' /\ WalkPreserved'
  BY NextFirst, NextTraces
<1> QED
  BY <1>1, <1>2, Keeps, PTL DEF Spec
=============================================================================
