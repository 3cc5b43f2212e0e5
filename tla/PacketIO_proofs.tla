--------------------------- MODULE PacketIO_proofs ---------------------------
(***************************************************************************)
(* Theorems about PacketIO, for every number of interfaces, any frames and *)
(* any order in which the host lists the addresses.                        *)
(***************************************************************************)
EXTENDS PacketIO, TLAPS

(***************************************************************************)
(* PortsAgree is inductive with what it relies on: while a packet is being *)
(* processed the buffer and the PHV hold the same frame, each whole if the *)
(* frame fits, and the pipeline has run before anything is sent.           *)
(***************************************************************************)
Busy == pc \in {"pipe", "emit"}

Whole(c) == c.frame \notin Long => c.tail = "own"

SameFrame ==
  Busy => /\ packet \in Contents /\ phv \in Contents
          /\ packet.frame = phv.frame
          /\ Whole(packet) /\ Whole(phv)

IInv == TypeOK /\ SameFrame /\ PortsAgree

LEMMA TypeInit == Init => TypeOK
<1> SUFFICES ASSUME Init PROVE TypeOK
  OBVIOUS
<1>1. 0 \in If
  BY InterfaceAssumption DEF If
<1>2. if_macs \in [If -> If \cup {None}]
  BY InterfaceAssumption DEF Init, Addresses
<1> QED
  BY <1>1, <1>2, InterfaceAssumption DEF Init, TypeOK, Nothing, If

LEMMA InitInv == Init => IInv
  BY TypeInit DEF Init, IInv, SameFrame, Busy, PortsAgree

\* What a capture handle gives is a frame.
LEMMA HeadTail ==
  ASSUME NEW q \in Seq(Frames), q # <<>>
  PROVE  Head(q) \in Frames /\ Tail(q) \in Seq(Frames)
  OBVIOUS

LEMMA FilledContents ==
  ASSUME TypeOK, packet \in Contents, phv \in Contents, if_idx \in If
  PROVE  /\ Filled \in Contents
         /\ packet.frame = phv.frame => Filled.frame = phv.frame
         /\ Whole(packet) /\ Whole(phv) => Whole(Filled)
         /\ if_macs[if_idx] # None => Filled = [phv EXCEPT !.src = if_macs[if_idx]]
<1>1. if_macs[if_idx] \in If \cup {None}
  BY DEF TypeOK
<1>2. CASE if_macs[if_idx] = None
  BY <1>2 DEF Filled
<1>3. CASE if_macs[if_idx] # None
  <2>1. Filled = [phv EXCEPT !.src = if_macs[if_idx]]
    BY <1>3 DEF Filled
  <2>2. /\ Filled \in Contents
        /\ Filled.frame = phv.frame /\ Filled.tail = phv.tail
    BY <1>1, <2>1 DEF Contents
  <2> QED
    BY <1>3, <2>1, <2>2 DEF Whole
<1> QED
  BY <1>2, <1>3

LEMMA StepInv == IInv /\ [Next]_vars => IInv'
<1> SUFFICES ASSUME IInv, [Next]_vars PROVE IInv'
  OBVIOUS
<1> USE DEF IInv
<1>1. ASSUME NEW i \in If, NEW f \in Frames, Arrive(i, f) PROVE IInv'
  BY <1>1 DEF Arrive, TypeOK, SameFrame, Busy, PortsAgree
<1>2. CASE PollEmpty
  <2>1. if_index' \in If
    BY <1>2, InterfaceAssumption DEF PollEmpty, NextInterface, If, TypeOK
  <2> QED
    BY <1>2, <2>1 DEF PollEmpty, TypeOK, SameFrame, Busy, PortsAgree
<1>3. CASE PollFrame
  <2>1. /\ Head(waiting[if_index]) \in Frames
        /\ waiting' \in [If -> Seq(Frames)]
    BY <1>3, HeadTail DEF PollFrame, TypeOK
  <2>2. /\ packet' \in Contents /\ phv' \in Contents /\ packet'.frame = phv'.frame
        /\ Whole(packet') /\ Whole(phv')
    BY <1>3, <2>1 DEF PollFrame, Received, InitPhv, Contents, Whole
  <2> QED
    BY <1>3, <2>1, <2>2 DEF PollFrame, TypeOK, SameFrame, PortsAgree, Whole
<1>4. CASE Execute
  <2>1. phv \in Contents /\ packet \in Contents
    BY <1>4 DEF Execute, SameFrame, Busy
  <2>2. /\ phv' \in Contents
        /\ phv'.frame = phv.frame /\ phv'.tail = phv.tail
    BY <1>4, <2>1 DEF Execute, Contents
  <2>3. if_idx' \in 0 .. NumIf
    BY <1>4, InterfaceAssumption DEF Execute
  <2> QED
    BY <1>4, <2>1, <2>2, <2>3
    DEF Execute, TypeOK, SameFrame, Busy, PortsAgree, Nothing, Whole
<1>5. CASE Emit
  <2>1. /\ phv \in Contents /\ packet \in Contents
        /\ packet.frame = phv.frame /\ Whole(packet) /\ Whole(phv)
        /\ if_idx \in If /\ if_idx \in out_port
    BY <1>5 DEF Emit, SameFrame, Busy
  <2>2. /\ packet' \in Contents /\ packet'.frame = phv.frame /\ Whole(packet')
        /\ if_macs[if_idx] # None => packet' = [phv EXCEPT !.src = if_macs[if_idx]]
    BY <1>5, <2>1, FilledContents DEF Emit
  <2>3. /\ if_idx' \in 0 .. NumIf
        /\ sent' \in [If -> Contents \cup {None}]
    BY <1>5, <2>1, <2>2, InterfaceAssumption DEF Emit, TypeOK, If
  <2>4. \A i \in If : sent'[i] = IF i = if_idx THEN packet' ELSE sent[i]
    BY <1>5, <2>1 DEF Emit, TypeOK
  <2>5. PortsAgree'
    BY <1>5, <2>1, <2>2, <2>4 DEF Emit, PortsAgree, Whole
  <2> QED
    BY <1>5, <2>1, <2>2, <2>3, <2>5 DEF Emit, TypeOK, SameFrame, Busy, Whole
<1>6. CASE Skip
  <2>1. if_idx' \in 0 .. NumIf
    BY <1>6, InterfaceAssumption DEF Skip, If
  <2> QED
    BY <1>6, <2>1 DEF Skip, TypeOK, SameFrame, Busy, PortsAgree
<1>7. CASE Emitted
  <2>1. 0 \in If
    BY InterfaceAssumption DEF If
  <2> QED
    BY <1>7, <2>1 DEF Emitted, TypeOK, SameFrame, Busy, PortsAgree
<1>8. CASE UNCHANGED vars
  BY <1>8 DEF vars, TypeOK, SameFrame, Busy, PortsAgree, Whole
<1> QED
  BY <1>1, <1>2, <1>3, <1>4, <1>5, <1>6, <1>7, <1>8 DEF Next, Thread

\* The shared buffer and the PHV hold the same frame while a packet is processed.
THEOREM Invariance == Spec => []IInv
  BY InitInv, StepInv, PTL DEF Spec

\* The packet thread and the network keep the state in its type: the poll loop never
\* leaves the interfaces there are, and neither does the loop that emits.
THEOREM TypeCorrect == Spec => []TypeOK
  BY Invariance, PTL DEF IInv

\* For any number of interfaces, with or without addresses, and any output port: what
\* is sent is the packet just processed, with the address main() holds for the interface
\* it goes out on, although all interfaces share one buffer.
THEOREM PortsSafe == Spec => []PortsAgree
  BY Invariance, PTL DEF IInv
=============================================================================
