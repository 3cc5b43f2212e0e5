------------------------------- MODULE PacketIO -------------------------------
(***************************************************************************)
(* The two ends of the packet thread: PhysicalLayer::recv_packet polls the *)
(* capture handles until one has a frame, main() lets the pipeline run on  *)
(* a copy of it and emits the result on every interface of the output      *)
(* port, out of one buffer.  The network puts frames into the handles at   *)
(* any time.  Pipeline::execute is IpsaSwitch; here it is any output port. *)
(***************************************************************************)
EXTENDS Integers, Sequences

CONSTANTS
  NumIf,       \* num_if
  Frames,      \* frames on the network
  Long,        \* those longer than FRONT_HEADER_LEN
  HostOrders,  \* orders in which getifaddrs may list the interfaces
  NoAddress,   \* interfaces whose hardware address is zero
  MaxQueue,    \* bound on the frames a capture handle holds; more are lost
  None

If == 0 .. NumIf - 1

ASSUME InterfaceAssumption ==
  /\ NumIf \in Nat \ {0} /\ MaxQueue \in Nat \ {0}
  /\ Long \subseteq Frames /\ NoAddress \subseteq If
  /\ \A o \in HostOrders : o \in [If -> If] /\ \A i, j \in If : o[i] = o[j] => i = j
  /\ None \notin Frames /\ None \notin If

VARIABLES
  if_macs,   \* per index, the interface whose address it is; None if that is zero
  waiting,   \* per capture handle, the frames not read yet
  pc,        \* "poll", "pipe", "emit"
  if_index,  \* the handle polled, then the one the packet came from
  packet,    \* the buffer: [frame, by, src, tail]
  phv,       \* the packet of the PHV
  out_port,  \* the bits of the output port
  if_idx,    \* the interface the loop has come to
  sent       \* per interface, what went out on it of this packet

vars == <<if_macs, waiting, pc, if_index, packet, phv, out_port, if_idx, sent>>

\* A frame, whether it is as received or as the pipeline left it, whose source
\* address it has, and whether its bytes past FRONT_HEADER_LEN are its own.
Received(f) == [frame |-> f, by |-> "wire", src |-> None, tail |-> "own"]
Contents    == [frame : Frames, by : {"wire", "pipeline"}, src : If \cup {None},
                tail : {"own", "metadata"}]

Nothing == [i \in If |-> None]

\* net_config_init: the addresses are pushed in the order the host lists the
\* interfaces, not in that of the configuration.
Addresses(order) == [k \in If |-> IF order[k] \in NoAddress THEN None ELSE order[k]]

Init ==
  /\ if_macs \in {Addresses(o) : o \in HostOrders}
  /\ waiting = [i \in If |-> <<>>]
  /\ pc = "poll" /\ if_index = 0 /\ packet = None /\ phv = None
  /\ out_port = {} /\ if_idx = 0 /\ sent = Nothing

\* The network.
Arrive(i, f) ==
  /\ Len(waiting[i]) < MaxQueue
  /\ waiting' = [waiting EXCEPT ![i] = Append(@, f)]
  /\ UNCHANGED <<if_macs, pc, if_index, packet, phv, out_port, if_idx, sent>>

\* Faults: the index is not wrapped; the last interface is left out.
NextUnwrapped(k) == k + 1
NextButLast(k)   == (k + 1) % (NumIf - 1)

NextInterface(k) == (k + 1) % NumIf

\* recv_packet, one pcap_next without a frame.
PollEmpty ==
  /\ pc = "poll" /\ waiting[if_index] = <<>>
  /\ if_index' = NextInterface(if_index)
  /\ UNCHANGED <<if_macs, waiting, pc, packet, phv, out_port, if_idx, sent>>

\* init_phv: META_LEN bytes after the first FRONT_HEADER_LEN are cleared for the
\* metadata, whatever the frame has there.
InitPhv(p) == [p EXCEPT !.tail = IF p.frame \in Long THEN "metadata" ELSE @]

\* recv_packet, a frame: it is read into the buffer, and the PHV made of it.
PollFrame ==
  /\ pc = "poll" /\ waiting[if_index] # <<>>
  /\ waiting' = [waiting EXCEPT ![if_index] = Tail(@)]
  /\ packet' = Received(Head(waiting[if_index]))
  /\ phv' = InitPhv(packet')
  /\ pc' = "pipe"
  /\ UNCHANGED <<if_macs, if_index, out_port, if_idx, sent>>

\* Pipeline::execute, and the port it leaves: a bit may name no interface.
Execute ==
  /\ pc = "pipe"
  /\ \E ports \in SUBSET (0 .. NumIf) : out_port' = ports
  /\ phv' = [phv EXCEPT !.by = "pipeline"]
  /\ pc' = "emit" /\ if_idx' = 0 /\ sent' = Nothing
  /\ UNCHANGED <<if_macs, waiting, if_index, packet>>

\* A fault: the buffer is filled for the first interface only.
FilledOnce ==
  IF if_macs[if_idx] = None THEN packet
  ELSE [(IF packet.by = "wire" THEN phv ELSE packet) EXCEPT
          !.src = IF packet.by = "wire" THEN if_macs[if_idx] ELSE @]

\* The buffer as it is sent: refilled from the PHV for an interface that has an
\* address, with that address as source; as it is for one that has none.
Filled == IF if_macs[if_idx] = None THEN packet
          ELSE [phv EXCEPT !.src = if_macs[if_idx]]

Emit ==
  /\ pc = "emit" /\ if_idx \in If \cap out_port
  /\ packet' = Filled
  /\ sent' = [sent EXCEPT ![if_idx] = packet']
  /\ if_idx' = if_idx + 1
  /\ UNCHANGED <<if_macs, waiting, pc, if_index, phv, out_port>>

Skip ==
  /\ pc = "emit" /\ if_idx \in If \ out_port
  /\ if_idx' = if_idx + 1
  /\ UNCHANGED <<if_macs, waiting, pc, if_index, packet, phv, out_port, sent>>

\* The next call of recv_packet starts at handle 0 again.
Emitted ==
  /\ pc = "emit" /\ if_idx = NumIf
  /\ pc' = "poll" /\ if_index' = 0
  /\ UNCHANGED <<if_macs, waiting, packet, phv, out_port, if_idx, sent>>

Thread == PollEmpty \/ PollFrame \/ Execute \/ Emit \/ Skip \/ Emitted

Next == (\E i \in If, f \in Frames : Arrive(i, f)) \/ Thread

\* The thread is not stopped; nothing is assumed of the network.
Spec == Init /\ [][Next]_vars /\ WF_vars(Thread)

-----------------------------------------------------------------------------
TypeOK ==
  /\ if_macs \in [If -> If \cup {None}]
  /\ waiting \in [If -> Seq(Frames)]
  /\ pc \in {"poll", "pipe", "emit"}
  /\ if_index \in If /\ if_idx \in 0 .. NumIf
  /\ packet \in Contents \cup {None} /\ phv \in Contents \cup {None}
  /\ out_port \subseteq 0 .. NumIf
  /\ sent \in [If -> Contents \cup {None}]

\* main(), the loop over the interfaces: although they share one buffer, every copy
\* that goes out is of the packet just processed.  On an interface that has an
\* address it is what the pipeline made of it, with the address main() holds for
\* that interface and not that of one before it, and all its own bytes if it fits the
\* front of the PHV; on one without an address it is at least no other packet.
PortsAgree ==
  pc = "emit" =>
    \A i \in If : sent[i] # None =>
      /\ i \in out_port
      /\ sent[i].frame = phv.frame
      /\ sent[i].frame \notin Long => sent[i].tail = "own"
      /\ if_macs[i] # None => sent[i] = [phv EXCEPT !.src = if_macs[i]]

TakenFrom(i) == pc = "pipe" /\ if_index = i

\* recv_packet: a waiting frame is read if the interfaces before its own fall silent
\* for good; interface 0 is always read.  (Without that, an interface that is never
\* silent starves every later one.)
ServedWhenQuiet ==
  \A i \in If :
    <>[](\A j \in 0 .. i - 1 : waiting[j] = <<>>) => (waiting[i] # <<>> ~> TakenFrom(i))
=============================================================================
