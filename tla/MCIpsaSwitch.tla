---------------------------- MODULE MCIpsaSwitch ----------------------------
(***************************************************************************)
(* Instances of IpsaSwitch for TLC: two processors of one table each, and  *)
(* the request sets the runs draw their calls from.                        *)
(***************************************************************************)
EXTENDS IpsaSwitch

CONSTANTS f, g, e1, c1, c2

\* Flows f and g hash to different rows, or to one row when there is only one.
MCRowOf == [x \in {f, g} |-> IF x = g THEN NumRows - 1 ELSE 0]

Stage(v) == [type |-> "STAGE", val |-> v]
ToTable  == [type |-> "TABLE", val |-> 0]

Forward == [sets |-> TRUE, out |-> {e1}, args |-> FALSE]
Copy    == [sets |-> TRUE, out |-> {e1}, args |-> TRUE]

\* Parsers, gateways, tables and actions made, rewritten and unmade under traffic.
AnyRequests ==
  [op : {"initParserLevel"}, p : Proc, level : {1}]
    \cup [op : {"modParserEntry"}, p : {0}, l : {0}, i : {0}, covers : {{f}}, drop : {TRUE}]
    \cup [op : {"clearParser"}, p : {0}]
    \cup [op : {"insertRelationExp"}, p : {0}, rel : {{<<f, FALSE>>}}]
    \cup [op : {"clearRelationExp"}, p : {0}]
    \cup [op : {"setDefaultGateEntry"}, p : {0}, to : {ToTable, Stage(2)}]
    \cup [op : {"setMemConfig"}, p : {0}, t : {0}, type : {"EXACT"}, depth : {1},
          block : {0}, miss : {0}]
    \cup [op : {"clearOldConfig"}, p : {0}, t : {0}]
    \cup [op : {"insertAction"}, p : {0}, a : {0}, body : {Forward}]
    \cup [op : {"delAction"}, p : {0}, a : {0}]
    \cup [op : {"clearAction"}, p : {0}]

\* Calls on a switch in service: two actions, of which 0 is the miss action.
ServiceRequests ==
  [op : {"clearParser"}, p : {0}]
    \cup [op : {"initParserLevel"}, p : {0}, level : {1}]
    \cup [op : {"clearRelationExp", "clearResMap"}, p : {0}]
    \cup [op : {"modResMap"}, p : {0}, key : {{}}, to : {Stage(1)}]
    \cup [op : {"setNoTable"}, p : {0}, t : {0}, flag : BOOLEAN]
    \cup [op : {"setMissActId"}, p : {0}, t : {0}, miss : {0}]
    \cup [op : {"setActionProc"}, p : {0}, t : {0},
          map : {[a \in Choice |-> IF a = 1 THEN -1 ELSE None]}]
    \cup [op : {"insertSramEntry"}, p : {1}, t : {0}, key : {f}, act : {1}]
    \cup [op : {"insertTcamEntry"}, p : {0}, t : {0}, covers : {{f}}, act : {1}]
    \cup [op : {"insertAction"}, p : {0}, a : {0}, body : {Forward}]
=============================================================================
