---------------------------- MODULE PacketReader ----------------------------
(***************************************************************************)
(* packets() of network-evidence.py: one pass over a capture file.  The    *)
(* file is what QEMU wrote until it was stopped, so it may end inside the  *)
(* file header, a record header or a record.  The reader knows only its    *)
(* byte position: where the next record begins it can tell from the sizes  *)
(* it has read and skipped, and from nothing else.                         *)
(*                                                                         *)
(* Positions and sizes are in bytes.  Left out: byte order (integers are   *)
(* read in the order the magic number states) and timestamps, which no     *)
(* verdict depends on.                                                     *)
(***************************************************************************)
EXTENDS PacketHeaders, Sequences

CONSTANT Files   \* the captures QEMU may leave

FILE_HEADER == 24
RECORD_HEADER == 16
LIMIT == 262144      \* the largest record accepted
HEADER_BYTES == 128  \* what is read of a record; the rest is skipped

\* A record: the position it begins at, the captured bytes it announces, its packet's header
\* (h), and the lengths of TCP header and payload the packet itself states.
Frames(file) == {file.frames[i] : i \in DOMAIN file.frames}
End(f) == f.at + RECORD_HEADER + f.size

\* What the bytes of a header can say: ihl is four bits, counted in words.
IsFrame(f) ==
  /\ f.at \in Nat /\ f.size \in Nat /\ f.tcpHeader \in Nat /\ f.payload \in Nat
  /\ f.h \in [family : Nat, ihl : 0..60, fragment : BOOLEAN, length : Nat, protocol : Nat,
              dest : Listed4 \cup Listed6 \cup {"unlisted"}, port : Nat]
  /\ f.h.family = 6 => f.h.ihl = 40 /\ ~f.h.fragment

\* Each record begins where its predecessor ends; only the last one may be cut.
WellLaid(file) ==
  LET n == Len(file.frames) IN
  /\ \A i \in 1..n :
       /\ IsFrame(file.frames[i])
       /\ file.frames[i].at = IF i = 1 THEN FILE_HEADER ELSE End(file.frames[i - 1])
       /\ file.frames[i].at < file.size
       /\ \A j \in 1..(i - 1) : End(file.frames[j]) <= file.frames[i].at
  /\ file.size \in Nat
  /\ file.size <= IF n = 0 THEN FILE_HEADER ELSE End(file.frames[n])

ASSUME FilesAssumption ==
  \A file \in Files : file.frames \in Seq(Frames(file)) /\ WellLaid(file)

VARIABLES
  file,   \* known: the magic number is one of the two, link: the link type
  pc,     \* "open", "record", "done", "raised"
  pos,    \* f.tell()
  rows    \* what the generator has yielded

vars == <<file, pc, pos, rows>>

Init == file \in Files /\ pc = "open" /\ pos = 0 /\ rows = <<>>

Raise == pc' = "raised" /\ UNCHANGED <<file, pos, rows>>

Open ==
  /\ pc = "open"
  /\ IF file.size < FILE_HEADER \/ ~file.known \/ file.link \notin {1, 101}
     THEN Raise
     ELSE pc' = "record" /\ pos' = FILE_HEADER /\ UNCHANGED <<file, rows>>

-----------------------------------------------------------------------------
(* A record.                                                               *)

Offset == IF file.link = 1 THEN 14 ELSE 0

\* The bytes at the position: the record that begins there, else bytes that may look like any.
BytesHere ==
  LET here == {f \in Frames(file) : f.at = pos}
  IN  IF here # {} THEN here ELSE {[f EXCEPT !.at = pos] : f \in Frames(file)}

\* Mutant: the limit itself is refused.
DamagedAtLimit(f) == f.size >= LIMIT \/ pos + RECORD_HEADER + f.size > file.size

Damaged(f) == f.size > LIMIT \/ pos + RECORD_HEADER + f.size > file.size

Taken(f) == IF f.size < HEADER_BYTES THEN f.size ELSE HEADER_BYTES
Skip(f) == IF f.size > HEADER_BYTES THEN f.size - HEADER_BYTES ELSE 0

\* Mutant: the rest of a long record is not skipped.
AfterTaken(f) == pos + RECORD_HEADER + Taken(f)

After(f) == pos + RECORD_HEADER + Taken(f) + Skip(f)

Seen(f) == [f.h EXCEPT !.length = Taken(f) - Offset]

\* The length of the IP packet, in its own header.
TotalLength(f) == f.h.ihl + f.tcpHeader + f.payload

\* Mutant: the length of the frame stands for that of the packet.
DataOfFrame(f) ==
  f.h.protocol = 6 /\ Seen(f).length >= f.h.ihl + 20 /\ Seen(f).length - f.h.ihl - f.tcpHeader > 0

Data(f) ==
  f.h.protocol = 6 /\ Seen(f).length >= f.h.ihl + 20 /\ TotalLength(f) - f.h.ihl - f.tcpHeader > 0

Row(f) == [recordStart |-> pos, recordEnd |-> After(f), record |-> CaptureRow(Seen(f)), data |-> Data(f)]

EndOfFile ==
  /\ pc = "record" /\ pos >= file.size
  /\ pc' = "done" /\ UNCHANGED <<file, pos, rows>>

CutHeader ==
  /\ pc = "record" /\ pos < file.size /\ pos + RECORD_HEADER > file.size
  /\ Raise

ReadRecord ==
  /\ pc = "record" /\ pos + RECORD_HEADER <= file.size
  /\ \E f \in BytesHere :
       IF Damaged(f) THEN Raise
       ELSE /\ pos' = After(f)
            /\ rows' = IF CaptureRow(Seen(f)) = NoRecord THEN rows ELSE Append(rows, Row(f))
            /\ UNCHANGED <<file, pc>>

Next == Open \/ EndOfFile \/ CutHeader \/ ReadRecord

Spec == Init /\ [][Next]_vars

-----------------------------------------------------------------------------
(* Properties.                                                             *)

\* The packet of a record, all of it.
Packet(f) == [f.h EXCEPT !.length = f.size - Offset]

Complete == \A f \in Frames(file) : End(f) <= file.size

\* A capture that was cut short is never taken for a short capture, and in a list that is
\* returned every packet of interest has its row, with the extent case_packets() compares, and
\* no payload is taken for a packet (lines 240-253, 270).
RowsAreTheCapture ==
  pc = "done" =>
    /\ Complete
    /\ {[start |-> rows[i].recordStart, end |-> rows[i].recordEnd, record |-> rows[i].record] :
          i \in DOMAIN rows}
         = {[start |-> f.at, end |-> End(f), record |-> CaptureRow(Packet(f))] :
              f \in {g \in Frames(file) : CaptureRow(Packet(g)) # NoRecord}}

\* packets() gives up only on a file it cannot know: an unsupported header, a cut record or one
\* beyond the limit.
RaisesOnlyIfDamaged ==
  pc = "raised" =>
    \/ file.size < FILE_HEADER \/ ~file.known \/ file.link \notin {1, 101}
    \/ ~Complete
    \/ \E f \in Frames(file) : f.size > LIMIT

\* A row that counts as data of the old socket (line 317) stems from a segment with payload,
\* whatever padding the frame has.
DataMeansPayload ==
  \A i \in DOMAIN rows :
    rows[i].data => \E f \in Frames(file) : f.at = rows[i].recordStart /\ f.payload > 0

\* Both decoders call a packet the same, and neither misses one the other reports: what the
\* harness requires in the TUN and what it forbids on the physical link is the same traffic,
\* though one sees the whole packet and the other HEADER_BYTES of its frame.
DecodersAgree ==
  \A f \in Frames(file) :
    LET logged == Sanitised(Packet(f))
        row    == CaptureRow(Seen(f))
    IN  /\ row # NoRecord => logged = row
        /\ logged # NoRecord /\ logged.category # "other" => row = logged

\* Two ports nobody listed stand for all of them.
UnlistedPorts == {80, 443}

PortHidden(h) ==
  \A p \in FixedPorts \cup UnlistedPorts : Sanitised([h EXCEPT !.port = p]) = Sanitised(h)

AddressHidden(h) ==
  \A d \in Listed4 \cup Listed6 \cup {"unlisted"}, p \in UnlistedPorts :
    Sanitised([h EXCEPT !.dest = d, !.port = p]) = Sanitised(h)

\* "Unknown traffic never reveals an address or arbitrary port" (FixtureVpnService.java:76): the
\* record of a packet to an unlisted address is the same for every port, that of a packet to a
\* port outside the fixed five the same for every address.
UnknownRevealsNothing ==
  \A f \in Frames(file) :
    /\ Packet(f).dest = "unlisted" => PortHidden(Packet(f))
    /\ Packet(f).port \notin FixedPorts => AddressHidden(Packet(f))
=============================================================================
