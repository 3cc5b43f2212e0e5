---------------------------- MODULE MCDeployment ----------------------------
(***************************************************************************)
(* Instances of Deployment for TLC: small configurations of two processors *)
(* of one cluster and the table entries inserted into them.                *)
(***************************************************************************)
EXTENDS Deployment

CONSTANTS f, g, e1, c1, c2

MCRowOf == [x \in {f, g} |-> IF x = g THEN NumRows - 1 ELSE 0]

Stage(v) == [type |-> "STAGE", val |-> v]
ToTable  == [type |-> "TABLE", val |-> 0]
Forward  == [sets |-> TRUE, out |-> {e1}, args |-> FALSE]
Copy     == [sets |-> TRUE, out |-> {e1}, args |-> TRUE]

MapTo(p) == [a \in Choice |-> IF a \in Act THEN p ELSE None]
Tbl(ty, d, b, miss, p) ==
  [t |-> 0, noTable |-> d = 0, type |-> ty, depth |-> d, block |-> b, miss |-> miss,
   map |-> MapTo(p), keyed |-> d > 0]
BlockOf(p) == IF p < NumBlocks THEN p ELSE 0

\* Two processors: a dropping parser entry and an exact table of two actions, each
\* table with a block of its own ...
Base ==
  [p \in Proc |->
     [level |-> 1,
      entries |-> IF p = 0 THEN << [l |-> 0, i |-> 0, covers |-> {g}, drop |-> TRUE] >> ELSE <<>>,
      exps |-> IF p = 0 THEN << {<<f, FALSE>>} >> ELSE <<>>,
      default |-> ToTable,
      next |-> IF p = 0 THEN << [key |-> {1}, to |-> Stage(1)] >> ELSE <<>>,
      tables |-> << Tbl("EXACT", 1, BlockOf(p), 0, p + 1) >>,
      actions |-> << [a |-> 0, body |-> Forward] >>
                    \o IF NumActions > 1 THEN << [a |-> 1, body |-> Copy] >> ELSE <<>>]]

\* ... and an update of the first processor alone, without them, which lists action 0
\* twice as basic_tunnel.json does.
UpdateWith(tb) ==
  [p \in Proc |-> IF p # 0 THEN None
     ELSE [level |-> 1, entries |-> <<>>, exps |-> << {<<g, FALSE>>} >>, default |-> ToTable,
           next |-> <<>>, tables |-> << tb >>,
           actions |-> << [a |-> 0, body |-> NoBody], [a |-> 0, body |-> Forward] >>]]
Update == UpdateWith(Tbl("TERNARY", 1, 0, 0, -1))

\* An update whose table moves into the block of the other processor's.
Sharing == UpdateWith(Tbl("EXACT", 1, BlockOf(1), 0, -1))

\* As the compiler writes them: a last processor that has only the default matcher
\* (no_table, depth 0), a miss action that takes parameters, and no action 0, which
\* empty rows choose.
Lean ==
  [p \in Proc |->
     [level |-> IF p = 0 THEN NumLevels ELSE 0, entries |-> <<>>, exps |-> << {<<g, FALSE>>} >>,
      default |-> ToTable,
      next |-> IF p = 0 THEN << [key |-> {1}, to |-> Stage(1)] >> ELSE <<>>,
      tables |-> << IF p = 0 THEN Tbl("EXACT", 1, 0, 1, 1) ELSE Tbl("EXACT", 0, 0, -1, 2) >>,
      actions |-> << IF p = 0 THEN [a |-> 1, body |-> Copy] ELSE [a |-> 0, body |-> Forward] >>]]

BaseOnly == {Base}
AllConfigs == {Base, Update, Sharing, Lean}

Inserts ==
  [op : {"insertSramEntry"}, p : {0, 1}, t : {0}, key : {f, g}, act : {NumActions - 1}]
    \cup [op : {"insertTcamEntry"}, p : {0}, t : {0}, covers : {{f}}, act : {0}]

NoRequests == {}
=============================================================================
