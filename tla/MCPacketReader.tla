--------------------------- MODULE MCPacketReader ---------------------------
(***************************************************************************)
(* The captures TLC reads: every abstract header alone in a file, at the   *)
(* lengths where a bound is, and files of up to three records whose sizes  *)
(* lie around the bounds of the framing, cut at each kind of place.        *)
(***************************************************************************)
EXTENDS PacketReader

CONSTANTS
  Lengths, Ports,   \* of IP packets, for the single headers
  Sizes             \* of records, for the framing

\* A further record, given without its position.
Lay(frames, f) ==
  Append(frames, [at |-> IF frames = <<>> THEN FILE_HEADER ELSE End(frames[Len(frames)]),
                  size |-> f.size, h |-> f.h, tcpHeader |-> f.tcpHeader, payload |-> f.payload])

Capture(frames, size, link) == [known |-> TRUE, link |-> link, size |-> size, frames |-> frames]

HeaderFile(h, link) ==
  LET size == h.length + (IF link = 1 THEN 14 ELSE 0)
  IN  Capture(Lay(<<>>, [size |-> size, h |-> h, tcpHeader |-> 20, payload |-> 0]),
              FILE_HEADER + RECORD_HEADER + size, link)

HeaderFiles == {HeaderFile(h, link) : h \in Headers(Lengths, Ports), link \in {1, 101}}

\* A segment to the host, with payload where the record has room for it, and other traffic.
Host(size) ==
  [size |-> size, tcpHeader |-> 20, payload |-> IF size > 60 THEN size - 60 ELSE 0,
   h |-> [family |-> 4, ihl |-> 20, fragment |-> FALSE, length |-> 0, protocol |-> 6,
          dest |-> "host-control", port |-> 46151]]

Other(size) == [Host(size) EXCEPT !.h.dest = "unlisted", !.h.port = 80]

Cuts(f) ==
  {s \in {f.at + 1, f.at + RECORD_HEADER - 1, f.at + RECORD_HEADER, End(f) - 1, End(f)} :
     f.at < s /\ s <= End(f)}

Kinds == {Host(s) : s \in Sizes} \cup {Other(60), Other(HEADER_BYTES + 1)}

Longer(captures) == {Lay(frames, f) : frames \in captures, f \in Kinds}

Framed == LET one == Longer({<<>>})  two == Longer(one) IN one \cup two \cup Longer(two)

FramedFiles ==
  UNION {{Capture(frames, size, link) : size \in Cuts(frames[Len(frames)]), link \in {1, 101}} :
           frames \in Framed}

EmptyFiles ==
  [known : BOOLEAN, link : {1, 101, 105}, size : {0, FILE_HEADER - 1, FILE_HEADER}, frames : {<<>>}]

MCFiles == UNION {HeaderFiles, FramedFiles, EmptyFiles}
=============================================================================
