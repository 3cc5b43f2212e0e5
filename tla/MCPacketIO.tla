----------------------------- MODULE MCPacketIO -----------------------------
(* Three interfaces of PacketIO, one without an address, listed by the host *)
(* in the order of the configuration or another.                            *)
EXTENDS PacketIO

CONSTANTS a, b

InOrder == [i \in If |-> i]
Swapped == [i \in If |-> IF i = 0 THEN 1 ELSE IF i = 1 THEN 0 ELSE i]
Orders  == {InOrder, Swapped}
===========================================================================
