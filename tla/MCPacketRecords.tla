-------------------------- MODULE MCPacketRecords --------------------------
(***************************************************************************)
(* Packets for model checking: one of each controlled tuple, and           *)
(* background traffic, near misses of a controlled tuple among it.         *)
(***************************************************************************)
EXTENDS PacketRecords

Packet4(protocol, dest, port) ==
  [family |-> 4, ihl |-> 20, fragment |-> FALSE, length |-> 28,
   protocol |-> protocol, dest |-> dest, port |-> port]

Packet6(protocol, dest, port) ==
  [family |-> 6, ihl |-> 40, fragment |-> FALSE, length |-> 48,
   protocol |-> protocol, dest |-> dest, port |-> port]

MCPackets == {
  Packet4(6, "host-control", 46151), Packet4(6, "host-control", 46153),
  Packet4(17, "documentation-v4", 46152), Packet4(17, "documentation-v4", 46154),
  Packet4(17, "synthetic-dns", 53),
  Packet6(17, "documentation-v6", 46152), Packet6(17, "documentation-v6", 46154),
  \* background
  Packet4(17, "platform-dns", 53), Packet4(6, "unlisted", 46151),
  Packet4(6, "host-control", 46152), Packet4(17, "host-control", 46151),
  Packet4(17, "documentation-v4", 80), Packet6(6, "documentation-v6", 46152),
  [Packet4(17, "synthetic-dns", 53) EXCEPT !.fragment = TRUE],
  \* malformed: no ports
  [Packet4(6, "host-control", 46151) EXCEPT !.length = 20] }
=============================================================================
