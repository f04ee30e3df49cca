--------------------------- MODULE PacketHeaders ---------------------------
(***************************************************************************)
(* The two header decoders: FixtureVpnService.observe reads packets from   *)
(* the TUN, packets() of network-evidence.py reads the same IP packets     *)
(* from link-layer captures.  A header keeps what either of them looks at; *)
(* lengths are in bytes, an address is the category its bytes stand for.   *)
(***************************************************************************)
EXTENDS Integers

FixedPorts == {46151, 46152, 46153, 46154, 53}

\* The destinations both decoders list; every other address is "unlisted".
Listed4 == {"host-control", "synthetic-dns", "platform-dns", "documentation-v4"}
Listed6 == {"documentation-v6"}

\* ihl: the IPv4 header length; fragment: a non-first fragment; length: of the IP packet.
Headers(lengths, ports) ==
  [family : {4}, ihl : {16, 20, 24}, fragment : BOOLEAN, length : lengths,
   protocol : {1, 6, 17}, dest : Listed4 \cup {"unlisted"}, port : ports]
  \cup
  [family : {6}, ihl : {40}, fragment : {FALSE}, length : lengths,
   protocol : {6, 17, 44}, dest : Listed6 \cup {"unlisted"}, port : ports]
  \cup
  [family : {0}, ihl : {40}, fragment : {FALSE}, length : lengths,
   protocol : {6}, dest : {"unlisted"}, port : ports]

Record(family, protocol, category, port) ==
  [family |-> family, protocol |-> protocol, category |-> category, port |-> port]

NoRecord == Record(0, "none", "none", 0)

ProtocolCategory(h) ==
  CASE h.protocol = 6  -> "tcp"
    [] h.protocol = 17 -> "udp"
    [] OTHER           -> "other"

-----------------------------------------------------------------------------
(* observe(): the sanitised record of a packet, or NoRecord.               *)

Malformed(h) == h.family \notin {4, 6} \/ h.length < h.ihl + 4 \/ h.ihl < 20

\* Mutant: the ports of a later fragment are read from its payload.
HeaderPortOfFragment(h) == IF h.protocol \in {6, 17} THEN h.port ELSE 0

HeaderPort(h) == IF ~h.fragment /\ h.protocol \in {6, 17} THEN h.port ELSE 0

\* Mutant: the category of a listed address survives an arbitrary port.
SanitisedAnyPort(h) ==
  IF Malformed(h) THEN NoRecord
  ELSE IF h.dest = "unlisted"
       THEN Record(h.family, ProtocolCategory(h), "other", 0)
       ELSE Record(h.family, ProtocolCategory(h), h.dest, HeaderPort(h))

Sanitised(h) ==
  IF Malformed(h) THEN NoRecord
  ELSE IF h.dest = "unlisted" \/ HeaderPort(h) \notin FixedPorts
       THEN Record(h.family, ProtocolCategory(h), "other", 0)
       ELSE Record(h.family, ProtocolCategory(h), h.dest, HeaderPort(h))

-----------------------------------------------------------------------------
(* packets(): the row of a captured packet, or NoRecord.  The 128 bytes    *)
(* read of a frame always hold the longest header and the ports.           *)

Skipped(h) ==
  \/ h.family \notin {4, 6}
  \/ h.family = 4 /\ (h.length < 20 \/ h.ihl < 20 \/ h.fragment)
  \/ h.family = 6 /\ h.length < 40
  \/ h.dest = "unlisted"
  \/ h.protocol \notin {6, 17}
  \/ h.length < h.ihl + 4
  \/ h.port \notin FixedPorts

CaptureRow(h) ==
  IF Skipped(h) THEN NoRecord ELSE Record(h.family, ProtocolCategory(h), h.dest, h.port)
=============================================================================
