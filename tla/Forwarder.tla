------------------------------ MODULE Forwarder ------------------------------
(***************************************************************************)
(* What the switch promises each packet, without processors: it is taken   *)
(* in, actions may choose its output ports, it may be dropped, which is    *)
(* final, and it is sent out exactly once before the next one is taken in. *)
(* The process may die, and then nothing happens any more.                 *)
(***************************************************************************)
CONSTANTS
  Flows,  \* the flows of packets
  Ports   \* the output ports

VARIABLES
  where,    \* the packet: "idle" before it, "in" the pipeline, or "done" with it
  flow,     \* its flow
  out,      \* the ports chosen for it
  dropped,  \* whether it was dropped
  up        \* whether the process lives

packet == <<where, flow, out, dropped>>
vars   == <<where, flow, out, dropped, up>>

Init ==
  /\ where = "idle" /\ flow \in Flows
  /\ out = {} /\ dropped = FALSE /\ up = TRUE

Take(f) ==
  /\ up /\ where = "idle"
  /\ where' = "in" /\ flow' = f
  /\ out' = {} /\ dropped' = FALSE
  /\ UNCHANGED up

\* An action of some processor sets the ports, over those of an earlier one.
Act(ports) ==
  /\ up /\ where = "in"
  /\ out' = ports
  /\ UNCHANGED <<where, flow, dropped, up>>

Drop ==
  /\ up /\ where = "in"
  /\ where' = "done" /\ out' = {} /\ dropped' = TRUE
  /\ UNCHANGED <<flow, up>>

Finish ==
  /\ up /\ where = "in"
  /\ where' = "done"
  /\ UNCHANGED <<flow, out, dropped, up>>

Send ==
  /\ up /\ where = "done"
  /\ where' = "idle"
  /\ UNCHANGED <<flow, out, dropped, up>>

Die == up /\ up' = FALSE /\ UNCHANGED packet

Next ==
  \/ \E f \in Flows : Take(f)
  \/ \E ports \in SUBSET Ports : Act(ports)
  \/ Drop \/ Finish \/ Send \/ Die

Spec == Init /\ [][Next]_vars
=============================================================================
