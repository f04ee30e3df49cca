----------------------- MODULE PacketEvidence_proofs -----------------------
(***************************************************************************)
(* Proofs about the two places where a packet becomes evidence: the reader *)
(* of the capture, for every capture, of any length and cut anywhere, and  *)
(* the budget of the log, for all limits and all packets that may arrive.  *)
(*                                                                         *)
(* The reader's position is always that of a record (InStep), so what it   *)
(* returns is the capture, and both decoders agree on every packet of it.  *)
(* In the budget a controlled tuple has a slot of its own (SlotOfTuple),   *)
(* so that its records, its counter and the packets seen of it keep step   *)
(* (EvidenceInv), while the ordinal counts what all counters have taken    *)
(* (CountInv).                                                             *)
(***************************************************************************)
EXTENDS PacketReader, PacketRecords, TLAPS

N == Len(file.frames)

\* The position of the k-th record, or the end of the last one.
At(k) ==
  IF k <= N THEN file.frames[k].at
  ELSE IF N = 0 THEN FILE_HEADER ELSE End(file.frames[N])

Wanted(f) == CaptureRow(Packet(f)) # NoRecord

Found == {[start |-> rows[i].recordStart, end |-> rows[i].recordEnd, record |-> rows[i].record] :
            i \in DOMAIN rows}

Expected(k) == {[start |-> f.at, end |-> End(f), record |-> CaptureRow(Packet(f))] :
                  f \in {g \in {file.frames[i] : i \in 1..(k - 1)} : Wanted(g)}}

InStep(k) ==
  /\ k \in 1..(N + 1)
  /\ pos = At(k)
  /\ \A i \in 1..(k - 1) : End(file.frames[i]) <= file.size
  /\ Found = Expected(k)

BadHeader == file.size < FILE_HEADER \/ ~file.known \/ file.link \notin {1, 101}

RecordType ==
  [family : Nat, protocol : {"tcp", "udp", "other", "none"},
   category : Listed4 \cup Listed6 \cup {"unlisted", "none"}, port : Nat]

RowType ==
  [recordStart : Int, recordEnd : Int,
   record : RecordType, data : BOOLEAN]

\* The inductive invariant.
IInv ==
  /\ file \in Files
  /\ rows \in Seq(RowType)
  /\ pc \in {"open", "record", "done", "raised"}
  /\ pc = "open" => rows = <<>>
  /\ pc \in {"record", "done"} => ~BadHeader
  /\ pc = "record" => \E k \in 1..(N + 1) : InStep(k)
  /\ RowsAreTheCapture
  /\ RaisesOnlyIfDamaged
  /\ DataMeansPayload

\* Sixty bytes of header and four of ports fit into what is read of a record.
LEMMA SeenSuffices ==
  ASSUME NEW f, IsFrame(f),
         Offset = 14 \/ Offset = 0
  PROVE  CaptureRow(Seen(f)) = CaptureRow(Packet(f))
<1>1. CASE f.size <= HEADER_BYTES
  <2>1. Taken(f) = f.size
    BY <1>1 DEF Taken, IsFrame, HEADER_BYTES
  <2> QED BY <2>1 DEF Seen, Packet
<1>2. CASE f.size > HEADER_BYTES
  <2>1. Taken(f) = HEADER_BYTES
    BY <1>2 DEF Taken, IsFrame, HEADER_BYTES
  <2>2. f.h.ihl + 4 <= Taken(f) - Offset /\ 40 <= Taken(f) - Offset
    BY <2>1 DEF IsFrame, HEADER_BYTES
  <2>3. f.h.ihl + 4 <= f.size - Offset /\ 40 <= f.size - Offset
    BY <1>2 DEF IsFrame, HEADER_BYTES
  <2>4. Skipped(Seen(f)) <=> Skipped(Packet(f))
    BY <2>1, <2>2, <2>3, <1>2 DEF Skipped, Seen, Packet, IsFrame, HEADER_BYTES
  <2> QED BY <2>4 DEF CaptureRow, Seen, Packet, ProtocolCategory, IsFrame
<1> QED BY <1>1, <1>2 DEF IsFrame, HEADER_BYTES

-----------------------------------------------------------------------------
(* The records of a file and where they are.                               *)

LEMMA FileFacts ==
  ASSUME file \in Files
  PROVE  /\ N \in Nat /\ DOMAIN file.frames = 1..N /\ file.size \in Nat
         /\ \A i \in 1..N :
              /\ IsFrame(file.frames[i])
              /\ file.frames[i].at = IF i = 1 THEN FILE_HEADER ELSE End(file.frames[i - 1])
              /\ file.frames[i].at < file.size
              /\ \A j \in 1..(i - 1) : End(file.frames[j]) <= file.frames[i].at
         /\ file.size <= IF N = 0 THEN FILE_HEADER ELSE End(file.frames[N])
         /\ Frames(file) = {file.frames[i] : i \in 1..N}
  <1>1. file.frames \in Seq(Frames(file)) /\ WellLaid(file)
    BY FilesAssumption
  <1>2. N \in Nat /\ DOMAIN file.frames = 1..N
    BY <1>1 DEF N
  <1> QED BY <1>1, <1>2 DEF WellLaid, Frames, N

LEMMA OffsetCases == Offset = 14 \/ Offset = 0
  BY DEF Offset

\* At the position of a record the reader finds that record and no other.
LEMMA BytesAtRecord ==
  ASSUME file \in Files, NEW k \in 1..N, pos = file.frames[k].at
  PROVE  BytesHere = {file.frames[k]}
  <1>1. ASSUME NEW i \in 1..N, file.frames[i].at = pos
        PROVE  i = k
    <2>1. IsFrame(file.frames[i]) /\ IsFrame(file.frames[k])
      BY FileFacts
    <2>2. CASE i < k
      <3>1. i \in 1..(k - 1) BY <2>2, FileFacts
      <3>2. End(file.frames[i]) <= file.frames[k].at BY <3>1, FileFacts
      <3> QED BY <1>1, <2>1, <3>2 DEF End, IsFrame, RECORD_HEADER
    <2>3. CASE k < i
      <3>1. k \in 1..(i - 1) BY <2>3, FileFacts
      <3>2. End(file.frames[k]) <= file.frames[i].at BY <3>1, FileFacts
      <3> QED BY <1>1, <2>1, <3>2 DEF End, IsFrame, RECORD_HEADER
    <2> QED BY <2>2, <2>3, FileFacts
  <1>2. {f \in Frames(file) : f.at = pos} = {file.frames[k]}
    BY <1>1, FileFacts
  <1> QED BY <1>2 DEF BytesHere

\* What is read and what is skipped of a record are the record.
LEMMA AfterIsEnd ==
  ASSUME NEW f, IsFrame(f), pos = f.at
  PROVE  After(f) = End(f)
  BY DEF After, End, Taken, Skip, IsFrame, HEADER_BYTES, RECORD_HEADER

LEMMA RowTyped ==
  ASSUME NEW f, IsFrame(f), pos = f.at
  PROVE  Row(f) \in RowType
  <1>1. CaptureRow(Seen(f)) \in RecordType
    <2>1. /\ f.h.family \in Nat /\ f.h.dest \in Listed4 \cup Listed6 \cup {"unlisted"} /\ f.h.port \in Nat
      BY DEF IsFrame
    <2>2. /\ Seen(f).family = f.h.family /\ Seen(f).dest = f.h.dest /\ Seen(f).port = f.h.port
      BY DEF Seen, IsFrame
    <2>3. ProtocolCategory(Seen(f)) \in {"tcp", "udp", "other", "none"}
      BY DEF ProtocolCategory
    <2> QED BY <2>1, <2>2, <2>3 DEF CaptureRow, Record, NoRecord, RecordType
  <1>2. After(f) \in Int
    BY AfterIsEnd DEF End, IsFrame, RECORD_HEADER
  <1>3. Data(f) \in BOOLEAN
    BY DEF Data
  <1> QED BY <1>1, <1>2, <1>3 DEF Row, RowType, IsFrame

LEMMA DataIsPayload ==
  ASSUME NEW f, IsFrame(f), Data(f)
  PROVE  f.payload > 0
  BY DEF Data, TotalLength, IsFrame

-----------------------------------------------------------------------------
(* Both decoders.                                                          *)

LEMMA Agree ==
  ASSUME NEW f, IsFrame(f)
  PROVE  LET named == Sanitised(Packet(f))
             row   == CaptureRow(Packet(f))
         IN  /\ row # NoRecord => named = row
             /\ named # NoRecord /\ named.category # "other" => row = named
  <1> DEFINE h == Packet(f)
  <1>1. /\ h.family \in Nat /\ h.ihl \in 0..60 /\ h.fragment \in BOOLEAN /\ h.length \in Int
        /\ h.protocol \in Nat /\ h.port \in Nat
        /\ h.dest \in Listed4 \cup Listed6 \cup {"unlisted"}
        /\ h.family = 6 => h.ihl = 40 /\ ~h.fragment
    BY OffsetCases DEF Packet, IsFrame
  <1>2. ASSUME ~Skipped(h)
        PROVE  Sanitised(h) = CaptureRow(h)
    <2>1. ~Malformed(h) /\ HeaderPort(h) = h.port /\ h.dest # "unlisted" /\ h.port \in FixedPorts
      BY <1>1, <1>2 DEF Skipped, Malformed, HeaderPort
    <2> QED BY <1>2, <2>1 DEF Sanitised, CaptureRow
  <1>3. ASSUME Sanitised(h) # NoRecord, Sanitised(h).category # "other"
        PROVE  ~Skipped(h)
    <2>1. ~Malformed(h) /\ h.dest # "unlisted" /\ HeaderPort(h) \in FixedPorts
      BY <1>3 DEF Sanitised, Record
    <2> QED BY <1>1, <2>1 DEF Malformed, HeaderPort, FixedPorts, Skipped
  <1>4. Skipped(h) => CaptureRow(h) = NoRecord
    BY DEF CaptureRow
  <1> QED BY <1>2, <1>3, <1>4

\* An unlisted address hides the port, an unlisted port the address.
LEMMA UnlistedHides ==
  ASSUME NEW f, IsFrame(f)
  PROVE  /\ Packet(f).dest = "unlisted" => PortHidden(Packet(f))
         /\ Packet(f).port \notin FixedPorts => AddressHidden(Packet(f))
  <1> DEFINE h == Packet(f)
  <1>1. ASSUME h.dest = "unlisted", NEW p \in FixedPorts \cup UnlistedPorts
        PROVE  Sanitised([h EXCEPT !.port = p]) = Sanitised(h)
    <2> DEFINE g == [h EXCEPT !.port = p]
    <2>1. /\ g.family = h.family /\ g.ihl = h.ihl /\ g.length = h.length /\ g.dest = h.dest
          /\ g.protocol = h.protocol
      BY DEF Packet, IsFrame
    <2> HIDE DEF g, h
    <2>2. Malformed(g) = Malformed(h) /\ ProtocolCategory(g) = ProtocolCategory(h)
      BY <2>1 DEF Malformed, ProtocolCategory
    <2>3. Sanitised(g) = Sanitised(h)
      BY <1>1, <2>1, <2>2 DEF Sanitised
    <2> QED BY <2>3 DEF g
  <1>2. ASSUME h.port \notin FixedPorts,
               NEW d \in Listed4 \cup Listed6 \cup {"unlisted"}, NEW p \in UnlistedPorts
        PROVE  Sanitised([h EXCEPT !.dest = d, !.port = p]) = Sanitised(h)
    <2> DEFINE g == [h EXCEPT !.dest = d, !.port = p]
    <2>1. /\ g.family = h.family /\ g.ihl = h.ihl /\ g.length = h.length
          /\ g.protocol = h.protocol /\ g.fragment = h.fragment /\ g.port = p
      BY DEF Packet, IsFrame
    <2> HIDE DEF g, h
    <2>2. Malformed(g) = Malformed(h) /\ ProtocolCategory(g) = ProtocolCategory(h)
      BY <2>1 DEF Malformed, ProtocolCategory
    <2>3. HeaderPort(h) \notin FixedPorts /\ HeaderPort(g) \notin FixedPorts
      BY <1>2, <2>1 DEF HeaderPort, FixedPorts, UnlistedPorts
    <2>4. Sanitised(g) = Sanitised(h)
      BY <2>1, <2>2, <2>3 DEF Sanitised
    <2> QED BY <2>4 DEF g
  <1> QED BY <1>1, <1>2 DEF PortHidden, AddressHidden

LEMMA AgreeOnFiles == ASSUME file \in Files PROVE DecodersAgree
  <1> SUFFICES ASSUME NEW f \in Frames(file)
               PROVE  LET named == Sanitised(Packet(f))
                          row   == CaptureRow(Seen(f))
                      IN  /\ row # NoRecord => named = row
                          /\ named # NoRecord /\ named.category # "other" => row = named
    BY DEF DecodersAgree
  <1>1. IsFrame(f)
    BY FileFacts
  <1> QED BY <1>1, Agree, SeenSuffices, OffsetCases

-----------------------------------------------------------------------------
(* The step that reads a record.                                           *)

LEMMA ExpectedNext ==
  ASSUME file \in Files, NEW k \in 1..N
  PROVE  LET f == file.frames[k] IN
         Expected(k + 1) =
           IF Wanted(f)
           THEN Expected(k) \cup {[start |-> f.at, end |-> End(f), record |-> CaptureRow(Packet(f))]}
           ELSE Expected(k)
  <1>1. {file.frames[i] : i \in 1..((k + 1) - 1)}
          = {file.frames[i] : i \in 1..(k - 1)} \cup {file.frames[k]}
    <2>1. 1..((k + 1) - 1) = (1..(k - 1)) \cup {k}
      BY FileFacts
    <2> QED BY <2>1
  <1>2. {g \in {file.frames[i] : i \in 1..((k + 1) - 1)} : Wanted(g)}
          = {g \in {file.frames[i] : i \in 1..(k - 1)} : Wanted(g)}
              \cup (IF Wanted(file.frames[k]) THEN {file.frames[k]} ELSE {})
    BY <1>1
  <1> QED BY <1>2 DEF Expected

LEMMA AppendFound ==
  ASSUME rows \in Seq(RowType), NEW r \in RowType, rows' = Append(rows, r)
  PROVE  Found' = Found \cup {[start |-> r.recordStart, end |-> r.recordEnd, record |-> r.record]}
  <1>1. DOMAIN rows = 1..Len(rows) /\ Len(rows) \in Nat
    OBVIOUS
  <1>2. DOMAIN rows' = 1..(Len(rows) + 1)
    OBVIOUS
  <1>3. \A i \in 1..Len(rows) : rows'[i] = rows[i]
    OBVIOUS
  <1>4. rows'[Len(rows) + 1] = r
    OBVIOUS
  <1> QED BY <1>1, <1>2, <1>3, <1>4 DEF Found

LEMMA ReadRecordStep ==
  ASSUME IInv, ReadRecord
  PROVE  IInv'
  <1>1. file \in Files /\ file' = file /\ pc = "record"
    BY DEF IInv, ReadRecord, Raise
  <1>2. PICK k \in 1..(N + 1) : InStep(k)
    BY <1>1 DEF IInv
  <1>3. N' = N /\ N \in Nat
    BY <1>1, FileFacts DEF N
  <1>4. k \in 1..N
    <2>1. pos + RECORD_HEADER <= file.size
      BY DEF ReadRecord
    <2>2. SUFFICES ASSUME k = N + 1 PROVE FALSE
      BY <1>3
    <2>3. pos = IF N = 0 THEN FILE_HEADER ELSE End(file.frames[N])
      BY <1>2, <1>3, <2>2 DEF InStep, At
    <2>4. pos \in Int
      <3>1. N # 0 => IsFrame(file.frames[N])
        BY <1>1, <1>3, FileFacts
      <3> QED BY <2>3, <3>1 DEF End, IsFrame, FILE_HEADER, RECORD_HEADER
    <2> QED BY <1>1, <2>1, <2>3, <2>4, FileFacts DEF RECORD_HEADER
  <1> DEFINE f == file.frames[k]
  <1>5. pos = f.at /\ IsFrame(f) /\ f \in Frames(file) /\ BytesHere = {f}
    BY <1>1, <1>2, <1>4, FileFacts, BytesAtRecord DEF InStep, At
  <1>6. CASE Damaged(f)
    <2>1. pc' = "raised" /\ UNCHANGED <<file, pos, rows>>
      BY <1>5, <1>6 DEF ReadRecord, Raise
    <2>2. ~Complete \/ f.size > LIMIT
      <3>1. f.size > LIMIT \/ End(f) > file.size
        BY <1>5, <1>6 DEF Damaged, End
      <3>2. End(f) \in Int
        BY <1>5 DEF IsFrame, End, RECORD_HEADER
      <3>3. file.size \in Int
        BY <1>1, FileFacts
      <3> QED BY <1>5, <3>1, <3>2, <3>3 DEF Complete
    <2>3. RaisesOnlyIfDamaged'
      BY <1>5, <2>1, <2>2 DEF RaisesOnlyIfDamaged, Complete, Frames
    <2> QED BY <2>1, <2>3 DEF IInv, RowsAreTheCapture, DataMeansPayload, Frames, BadHeader
  <1>7. CASE ~Damaged(f)
    <2>1. /\ pos' = After(f) /\ pc' = pc
          /\ rows' = IF CaptureRow(Seen(f)) = NoRecord THEN rows ELSE Append(rows, Row(f))
      BY <1>5, <1>7 DEF ReadRecord
    <2>2. After(f) = End(f) /\ Row(f) \in RowType /\ CaptureRow(Seen(f)) = CaptureRow(Packet(f))
      BY <1>5, AfterIsEnd, RowTyped, SeenSuffices, OffsetCases
    <2>3. rows \in Seq(RowType) /\ rows' \in Seq(RowType)
      BY <2>1, <2>2 DEF IInv
    <2>4. Expected(k + 1)' = Expected(k + 1)
      BY <1>1 DEF Expected, Wanted, Packet, Offset
    <2>5. Found' = Expected(k + 1)
      <3>1. CASE Wanted(f)
        <4>1. rows' = Append(rows, Row(f))
          BY <2>1, <2>2, <3>1 DEF Wanted
        <4>2. Found' = Found \cup {[start |-> Row(f).recordStart, end |-> Row(f).recordEnd,
                                    record |-> Row(f).record]}
          BY <2>2, <2>3, <4>1, AppendFound
        <4>3. /\ Row(f).recordStart = f.at /\ Row(f).recordEnd = End(f)
              /\ Row(f).record = CaptureRow(Packet(f))
          BY <1>5, <2>2 DEF Row
        <4> QED BY <1>1, <1>2, <1>4, <3>1, <4>2, <4>3, ExpectedNext DEF InStep
      <3>2. CASE ~Wanted(f)
        <4>1. rows' = rows
          BY <2>1, <2>2, <3>2 DEF Wanted
        <4> QED BY <1>1, <1>2, <1>4, <3>2, <4>1, ExpectedNext DEF InStep, Found
      <3> QED BY <3>1, <3>2
    <2>6. \A i \in 1..((k + 1) - 1) : End(file.frames[i]) <= file.size
      <3>1. End(f) <= file.size
        <4>1. End(f) \in Int
          BY <1>5 DEF IsFrame, End, RECORD_HEADER
        <4>3. file.size \in Int
          BY <1>1, FileFacts
        <4>2. ~(End(f) > file.size)
          BY <1>5, <1>7 DEF Damaged, End
        <4> QED BY <4>1, <4>2, <4>3
      <3> QED BY <1>2, <1>4, <3>1 DEF InStep
    <2>7. pos' = At(k + 1)
      <3>1. CASE k = N
        BY <1>3, <2>1, <2>2, <3>1 DEF At
      <3>2. CASE k < N
        <4>1. k + 1 \in 1..N /\ k + 1 # 1 /\ (k + 1) - 1 = k
          BY <1>3, <1>4, <3>2
        <4>2. file.frames[k + 1].at = End(f)
          BY <1>1, <4>1, FileFacts
        <4> QED BY <1>3, <2>1, <2>2, <4>1, <4>2 DEF At
      <3> QED BY <1>3, <1>4, <3>1, <3>2
    <2>8. InStep(k + 1)'
      <3>1. At(k + 1)' = At(k + 1)
        BY <1>1, <1>3 DEF At
      <3>2. k + 1 \in 1..(N + 1)
        BY <1>3, <1>4
      <3> QED BY <1>1, <1>3, <2>4, <2>5, <2>6, <2>7, <3>1, <3>2 DEF InStep
    <2>9. DataMeansPayload'
      <3> SUFFICES ASSUME NEW i \in DOMAIN rows', rows'[i].data
                   PROVE  \E g \in Frames(file) : g.at = rows'[i].recordStart /\ g.payload > 0
        BY <1>1 DEF DataMeansPayload, Frames
      <3>1. CASE i \in DOMAIN rows /\ rows'[i] = rows[i]
        BY <3>1 DEF IInv, DataMeansPayload
      <3>2. CASE rows'[i] = Row(f)
        <4>1. Row(f).data = Data(f) /\ Row(f).recordStart = f.at
          BY <1>5 DEF Row
        <4> QED BY <1>5, <3>2, <4>1, DataIsPayload
      <3> QED BY <2>1, <2>2, <2>3, <3>1, <3>2
    <2>10. k + 1 \in 1..(N' + 1)
      BY <1>3, <1>4
    <2> QED
      BY <1>1, <2>1, <2>3, <2>8, <2>9, <2>10
      DEF IInv, RowsAreTheCapture, RaisesOnlyIfDamaged, BadHeader
  <1> QED BY <1>6, <1>7

-----------------------------------------------------------------------------
(* The other steps, and the theorems.                                      *)

LEMMA OpenStep ==
  ASSUME IInv, Open
  PROVE  IInv'
  <1>1. file \in Files /\ file' = file /\ rows' = rows /\ rows = <<>>
    BY DEF IInv, Open, Raise
  <1>2. N' = N /\ N \in Nat
    BY <1>1, FileFacts DEF N
  <1>3. CASE BadHeader
    <2>1. pc' = "raised" /\ UNCHANGED <<file, pos, rows>>
      BY <1>3 DEF Open, Raise, BadHeader
    <2>2. RaisesOnlyIfDamaged'
      BY <1>3, <2>1 DEF RaisesOnlyIfDamaged, BadHeader
    <2> QED BY <2>1, <2>2 DEF IInv, RowsAreTheCapture, DataMeansPayload, Frames
  <1>4. CASE ~BadHeader
    <2>1. pc' = "record" /\ pos' = FILE_HEADER
      BY <1>4 DEF Open, BadHeader
    <2>2. At(1) = FILE_HEADER /\ At(1)' = At(1)
      <3>1. N >= 1 => file.frames[1].at = FILE_HEADER
        BY <1>1, <1>2, FileFacts
      <3> QED BY <1>1, <1>2, <3>1 DEF At
    <2>3. Found' = {} /\ Expected(1)' = {}
      BY <1>1 DEF Found, Expected
    <2>4. InStep(1)'
      BY <1>1, <1>2, <2>1, <2>2, <2>3 DEF InStep
    <2>5. 1 \in 1..(N' + 1)
      BY <1>2
    <2> QED
      BY <1>1, <1>4, <2>1, <2>4, <2>5
      DEF IInv, RowsAreTheCapture, RaisesOnlyIfDamaged, DataMeansPayload, BadHeader, Frames
  <1> QED BY <1>3, <1>4

LEMMA EndOfFileStep ==
  ASSUME IInv, EndOfFile
  PROVE  IInv'
  <1>1. file \in Files /\ pc' = "done" /\ UNCHANGED <<file, pos, rows>> /\ pc = "record"
    BY DEF IInv, EndOfFile
  <1>2. PICK k \in 1..(N + 1) : InStep(k)
    BY <1>1 DEF IInv
  <1>3. k = N + 1
    <2>1. N \in Nat /\ pos >= file.size /\ file.size \in Nat
      BY <1>1, FileFacts DEF EndOfFile
    <2>2. k \in 1..N => pos = file.frames[k].at /\ file.frames[k].at < file.size
                          /\ file.frames[k].at \in Nat
      BY <1>1, <1>2, FileFacts DEF InStep, At, IsFrame
    <2> QED BY <2>1, <2>2
  <1>4. (N + 1) - 1 = N
    BY <1>1, FileFacts
  <1>5. Complete
    <2>1. \A i \in 1..N : End(file.frames[i]) <= file.size
      BY <1>2, <1>3, <1>4 DEF InStep
    <2>2. Frames(file) = {file.frames[i] : i \in 1..N}
      BY <1>1, FileFacts
    <2> QED BY <2>1, <2>2 DEF Complete
  <1>6. Found = {[start |-> f.at, end |-> End(f), record |-> CaptureRow(Packet(f))] :
                   f \in {g \in Frames(file) : CaptureRow(Packet(g)) # NoRecord}}
    BY <1>1, <1>2, <1>3, <1>4, FileFacts DEF InStep, Expected, Wanted
  <1>7. RowsAreTheCapture'
    <2> DEFINE All == {[start |-> f.at, end |-> End(f), record |-> CaptureRow(Packet(f))] :
                         f \in {g \in Frames(file) : CaptureRow(Packet(g)) # NoRecord}}
    <2>1. Complete' = Complete /\ Found' = Found
      BY <1>1 DEF Complete, Found, Frames
    <2>2. All' = All
      BY <1>1 DEF Frames, Packet, Offset
    <2> QED BY <1>5, <1>6, <2>1, <2>2 DEF RowsAreTheCapture, Found
  <1> QED BY <1>1, <1>7 DEF IInv, RaisesOnlyIfDamaged, DataMeansPayload, BadHeader, Frames

\* The bytes that are left hold no record header: the last record was cut within its own.
LEMMA CutHeaderStep ==
  ASSUME IInv, CutHeader
  PROVE  IInv'
  <1>1. file \in Files /\ pc = "record" /\ pc' = "raised" /\ UNCHANGED <<file, pos, rows>>
    BY DEF IInv, CutHeader, Raise
  <1>2. PICK k \in 1..(N + 1) : InStep(k)
    BY <1>1 DEF IInv
  <1>3. /\ N \in Nat /\ pos < file.size /\ pos + RECORD_HEADER > file.size /\ file.size \in Nat
    BY <1>1, FileFacts DEF CutHeader
  <1>4. k \in 1..N
    <2> SUFFICES ASSUME k = N + 1 PROVE FALSE
      BY <1>3
    <2>1. pos = IF N = 0 THEN FILE_HEADER ELSE End(file.frames[N])
      BY <1>2, <1>3 DEF InStep, At
    <2>2. pos \in Int
      <3>1. N # 0 => IsFrame(file.frames[N])
        BY <1>1, <1>3, FileFacts
      <3> QED BY <2>1, <3>1 DEF End, IsFrame, FILE_HEADER, RECORD_HEADER
    <2> QED BY <1>1, <1>3, <2>1, <2>2, FileFacts
  <1>5. ~Complete
    <2>1. file.frames[k] \in Frames(file) /\ IsFrame(file.frames[k]) /\ pos = file.frames[k].at
      BY <1>1, <1>2, <1>4, FileFacts DEF InStep, At
    <2>2. End(file.frames[k]) > file.size
      BY <1>3, <2>1 DEF End, IsFrame, RECORD_HEADER
    <2>3. End(file.frames[k]) \in Int
      BY <2>1 DEF End, IsFrame, RECORD_HEADER
    <2> QED BY <1>3, <2>1, <2>2, <2>3 DEF Complete
  <1>6. RaisesOnlyIfDamaged'
    BY <1>1, <1>5 DEF RaisesOnlyIfDamaged, Complete, Frames
  <1> QED BY <1>1, <1>6 DEF IInv, RowsAreTheCapture, DataMeansPayload, Frames

\* The reader's invariant holds in every reachable state, for every capture.
THEOREM Invariance == Spec => []IInv
  <1>1. Init => IInv
    <2> SUFFICES ASSUME Init PROVE IInv
      OBVIOUS
    <2>1. file \in Files /\ pc = "open" /\ rows = <<>>
      BY DEF Init
    <2> QED BY <2>1 DEF IInv, RowsAreTheCapture, RaisesOnlyIfDamaged, DataMeansPayload
  <1>2. IInv /\ [Next]_vars => IInv'
    <2> SUFFICES ASSUME IInv, [Next]_vars PROVE IInv'
      OBVIOUS
    <2>1. CASE UNCHANGED vars
      <3>1. UNCHANGED <<N, Found, BadHeader, Complete, Frames(file)>>
        BY <2>1 DEF vars, N, Found, BadHeader, Complete, Frames
      <3>2. \A k : InStep(k)' = InStep(k)
        BY <2>1, <3>1 DEF vars, InStep, At, Expected, Wanted, Packet, Offset, N
      <3> QED
        BY <2>1, <3>1, <3>2
        DEF vars, IInv, RowsAreTheCapture, RaisesOnlyIfDamaged, DataMeansPayload, Packet, Offset, Complete
    <2> QED BY <2>1, OpenStep, EndOfFileStep, CutHeaderStep, ReadRecordStep DEF Next
  <1> QED BY <1>1, <1>2, PTL DEF Spec

\* What packets() returns is the capture, whatever its records and wherever it was cut.
THEOREM ReturnsTheCapture == Spec => []RowsAreTheCapture
  <1>1. IInv => RowsAreTheCapture
    BY DEF IInv
  <1> QED BY <1>1, Invariance, PTL

\* It raises only for the reasons it names.
THEOREM RaisesForCause == Spec => []RaisesOnlyIfDamaged
  <1>1. IInv => RaisesOnlyIfDamaged
    BY DEF IInv
  <1> QED BY <1>1, Invariance, PTL

\* A row with data stems from a segment with payload.
THEOREM DataIsReal == Spec => []DataMeansPayload
  <1>1. IInv => DataMeansPayload
    BY DEF IInv
  <1> QED BY <1>1, Invariance, PTL

\* The decoder of the fixture and that of the analyzer agree on every packet of every capture.
THEOREM OneNameForAPacket == Spec => []DecodersAgree
  <1>1. IInv => DecodersAgree
    BY AgreeOnFiles DEF IInv
  <1> QED BY <1>1, Invariance, PTL

\* The record of unknown traffic tells neither its address nor its port.
THEOREM UnknownHidden == Spec => []UnknownRevealsNothing
  <1>1. ASSUME IInv PROVE UnknownRevealsNothing
    <2>1. \A f \in Frames(file) : IsFrame(f)
      BY <1>1, FileFacts DEF IInv
    <2> QED BY <2>1, UnlistedHides DEF UnknownRevealsNothing
  <1> QED BY <1>1, Invariance, PTL

\* A record takes the reader on by its header at least and never past the end of the file.
ReaderProceeds ==
  pc = "record" =>
    \/ pc' \in {"done", "raised"}
    \/ pc' = "record" /\ pos' >= pos + RECORD_HEADER /\ pos' <= file.size

\* What the reader stands at is a number.
LEMMA PositionTyped == ASSUME IInv, pc = "record" PROVE pos \in Int /\ file.size \in Int
  <1>1. file \in Files
    BY DEF IInv
  <1>2. PICK k \in 1..(N + 1) : pos = At(k)
    BY DEF IInv, InStep
  <1>3. N \in Nat
    BY <1>1, FileFacts
  <1>4. CASE k \in 1..N
    BY <1>1, <1>2, <1>4, FileFacts DEF At, IsFrame
  <1>5. CASE k = N + 1
    <2>1. N # 0 => IsFrame(file.frames[N])
      BY <1>1, <1>3, FileFacts
    <2>2. pos = IF N = 0 THEN FILE_HEADER ELSE End(file.frames[N])
      BY <1>2, <1>3, <1>5 DEF At
    <2> QED
      BY <1>1, <2>1, <2>2, FileFacts DEF End, IsFrame, FILE_HEADER, RECORD_HEADER
  <1> QED
    BY <1>1, <1>2, <1>3, <1>4, <1>5, FileFacts

\* When it reads, it is at a record, and finds that one.
LEMMA ReadsARecord ==
  ASSUME IInv, ReadRecord
  PROVE  \E f \in Frames(file) : IsFrame(f) /\ BytesHere = {f}
  <1>1. file \in Files /\ pc = "record" /\ pos + RECORD_HEADER <= file.size
    BY DEF IInv, ReadRecord
  <1>2. PICK k \in 1..(N + 1) : pos = At(k)
    BY <1>1 DEF IInv, InStep
  <1>3. N \in Nat
    BY <1>1, FileFacts
  <1>4. k # N + 1
    <2> SUFFICES ASSUME k = N + 1 PROVE FALSE
      OBVIOUS
    <2>1. pos = IF N = 0 THEN FILE_HEADER ELSE End(file.frames[N])
      BY <1>2, <1>3 DEF At
    <2> QED
      BY <1>1, <2>1, PositionTyped, FileFacts DEF RECORD_HEADER
  <1>5. k \in 1..N /\ pos = file.frames[k].at
    BY <1>2, <1>3, <1>4 DEF At
  <1> QED
    BY <1>1, <1>5, FileFacts, BytesAtRecord

\* packets() comes to an end: every turn of its loop (lines 240-253) takes it on in a file that
\* does not grow.
THEOREM ReaderRunsOut == Spec => [][ReaderProceeds]_vars
  <1>1. ASSUME IInv, Next, pc = "record" PROVE ReaderProceeds
    <2>1. CASE Open \/ EndOfFile \/ CutHeader
      BY <1>1, <2>1 DEF Open, EndOfFile, CutHeader, Raise, ReaderProceeds
    <2>2. CASE ReadRecord
      <3>1. PICK f \in BytesHere :
              IF Damaged(f) THEN Raise ELSE pos' = After(f) /\ UNCHANGED <<file, pc>>
        BY <2>2 DEF ReadRecord
      <3>2. f.size \in Nat
        BY <1>1, <2>2, <3>1, ReadsARecord DEF IsFrame
      <3>3. CASE Damaged(f)
        BY <3>1, <3>3 DEF Raise, ReaderProceeds
      <3>4. CASE ~Damaged(f)
        <4>1. pos + RECORD_HEADER + f.size <= file.size
          BY <1>1, <3>2, <3>4, PositionTyped DEF Damaged, RECORD_HEADER
        <4>2. After(f) = pos + RECORD_HEADER + f.size
          BY <1>1, <3>2, PositionTyped DEF After, Taken, Skip, HEADER_BYTES, RECORD_HEADER
        <4> QED
          BY <1>1, <3>1, <3>2, <3>4, <4>1, <4>2, PositionTyped DEF ReaderProceeds, RECORD_HEADER
      <3> QED
        BY <3>3, <3>4
    <2> QED
      BY <1>1, <2>1, <2>2 DEF Next
  <1>2. IInv /\ [Next]_vars => [ReaderProceeds]_vars
    BY <1>1 DEF ReaderProceeds
  <1> QED
    BY <1>2, Invariance, PTL DEF Spec

-----------------------------------------------------------------------------
(* The budget of the log.                                                  *)

BudgetType ==
  /\ controlled \in [Slots -> 0..CONTROLLED_LIMIT]
  /\ background \in 0..BACKGROUND_LIMIT
  /\ count \in Nat

HistoryType == seen \in [Classes -> 0..MaxSeen] /\ logged \in [Classes -> 0..MaxSeen]

\* The ordinal is what the counters have taken together.
CountInv ==
  count = background + controlled[1] + controlled[2] + controlled[3] + controlled[4]
            + controlled[5] + controlled[6] + controlled[7]

\* A class has no more records than packets, and the slot of a controlled tuple counts its
\* records, which are its packets up to the limit.
EvidenceInv ==
  /\ \A c \in Classes : logged[c] <= seen[c]
  /\ \A k \in Slots :
       /\ logged[Controlled[k]] = controlled[k]
       /\ controlled[k] = IF seen[Controlled[k]] < CONTROLLED_LIMIT
                          THEN seen[Controlled[k]] ELSE CONTROLLED_LIMIT

BudgetInv == BudgetType /\ HistoryType /\ CountInv /\ EvidenceInv

-----------------------------------------------------------------------------
(* The table of controlled tuples.                                         *)

\* No two slots hold the same tuple.
LEMMA ControlledDistinct ==
  ASSUME NEW j \in Slots, NEW k \in Slots, Controlled[j] = Controlled[k]
  PROVE  j = k
  BY DEF Slots, Controlled, Record

\* A controlled tuple's signature is its own slot.
LEMMA SlotOfTuple ==
  ASSUME NEW k \in Slots
  PROVE  Signature(Controlled[k]) = k /\ Class(Controlled[k]) = Controlled[k]
  <1>1. Controlled[k] \in ControlledTuples
    BY DEF ControlledTuples
  <1>2. (CHOOSE j \in Slots : Controlled[j] = Controlled[k]) = k
    BY ControlledDistinct
  <1> QED
    BY <1>1, <1>2 DEF Signature, Class

\* Every other record counts as background and belongs to no controlled class.
LEMMA BackgroundRecord ==
  ASSUME NEW r, r \notin ControlledTuples
  PROVE  Signature(r) = Background /\ Class(r) = NoRecord /\ NoRecord \notin ControlledTuples
  <1>1. ASSUME NEW k \in Slots PROVE Controlled[k] # NoRecord
    BY DEF Slots, Controlled, NoRecord, Record
  <1> QED
    BY <1>1 DEF Signature, Class, ControlledTuples

\* Whatever the record, its class is a class and its signature a slot or the background.
LEMMA SignatureType ==
  ASSUME NEW r
  PROVE  Class(r) \in Classes /\ Signature(r) \in Slots \cup {Background}
  <1>1. CASE r \in ControlledTuples
    BY <1>1, SlotOfTuple DEF ControlledTuples, Classes
  <1>2. CASE r \notin ControlledTuples
    BY <1>2, BackgroundRecord DEF Classes
  <1> QED
    BY <1>1, <1>2

-----------------------------------------------------------------------------
(* One turn of the loop.                                                   *)

\* A record that finds room takes one place: the counters stay within their limits and the
\* ordinal goes with them.
LEMMA TakeCounts ==
  ASSUME BudgetType, CountInv, NEW slot \in Slots \cup {Background},
         ~Full(slot), Take(slot), count' = count + 1
  PROVE  BudgetType' /\ CountInv'
  <1> USE LimitsAssumption DEF BudgetType, Full, Take, Slots, Background
  <1>1. CASE slot = 0
    BY <1>1 DEF CountInv
  <1>2. CASE slot \in 1..7
    <2>1. controlled' = [controlled EXCEPT ![slot] = controlled[slot] + 1] /\ background' = background
      BY <1>2
    <2>2. controlled[slot] < CONTROLLED_LIMIT
      BY <1>2
    <2>3. BudgetType'
      BY <1>2, <2>1, <2>2
    <2>4. CountInv'
      BY <1>2, <2>1 DEF CountInv
    <2> QED
      BY <2>3, <2>4
  <1> QED
    BY <1>1, <1>2

\* Each turn keeps the counters, the ordinal and the records in step with the packets.
LEMMA ReadKeeps ==
  ASSUME BudgetInv, NEW h, Read(h)
  PROVE  BudgetInv'
  <1> DEFINE r == Sanitised(h)
             c == Class(r)
             slot == Signature(r)
             full == Full(slot)
  <1> HIDE DEF r, c, slot, full
  <1>1. c \in Classes /\ slot \in Slots \cup {Background}
    BY SignatureType DEF c, slot
  <1>2. seen[c] < MaxSeen /\ seen' = [seen EXCEPT ![c] = @ + 1]
    BY DEF Read, r, c
  <1>3. CASE full
    <2>1. UNCHANGED <<controlled, background, count, logged>>
      BY <1>3 DEF Read, r, slot, full
    <2>2. BudgetType' /\ CountInv'
      BY <2>1 DEF BudgetInv, BudgetType, CountInv
    <2>3. HistoryType'
      BY <1>1, <1>2, <2>1, LimitsAssumption DEF BudgetInv, HistoryType
    <2>4. \A d \in Classes : logged'[d] <= seen'[d]
      BY <1>1, <1>2, <2>1, LimitsAssumption DEF BudgetInv, EvidenceInv, HistoryType
    <2>5. ASSUME NEW k \in Slots
          PROVE  /\ logged'[Controlled[k]] = controlled'[k]
                 /\ controlled'[k] = IF seen'[Controlled[k]] < CONTROLLED_LIMIT
                                     THEN seen'[Controlled[k]] ELSE CONTROLLED_LIMIT
      <3>1. Controlled[k] \in Classes
        BY SlotOfTuple, SignatureType
      <3>2. Controlled[k] = c => slot = k
        <4>1. r \notin ControlledTuples => c # Controlled[k]
          BY BackgroundRecord DEF c, ControlledTuples
        <4>2. r \in ControlledTuples => c = r
          BY DEF c, Class
        <4> QED
          BY <4>1, <4>2, SlotOfTuple DEF slot
      <3>3. slot = k => controlled[k] >= CONTROLLED_LIMIT
        BY <1>3 DEF full, Full, Background, Slots
      <3>4. controlled[k] \in 0..CONTROLLED_LIMIT /\ seen[Controlled[k]] \in 0..MaxSeen
        BY <3>1 DEF BudgetInv, BudgetType, HistoryType
      <3>5. seen'[Controlled[k]] = IF Controlled[k] = c THEN seen[Controlled[k]] + 1 ELSE seen[Controlled[k]]
        BY <1>2, <3>1 DEF BudgetInv, HistoryType
      <3>6. /\ logged[Controlled[k]] = controlled[k]
            /\ controlled[k] = IF seen[Controlled[k]] < CONTROLLED_LIMIT
                               THEN seen[Controlled[k]] ELSE CONTROLLED_LIMIT
        BY DEF BudgetInv, EvidenceInv
      <3> QED
        BY <2>1, <3>2, <3>3, <3>4, <3>5, <3>6, LimitsAssumption
    <2> QED
      BY <2>2, <2>3, <2>4, <2>5 DEF BudgetInv, EvidenceInv
  <1>4. CASE ~full
    <2>1. Take(slot) /\ count' = count + 1 /\ logged' = [logged EXCEPT ![c] = @ + 1]
      BY <1>4 DEF Read, r, c, slot, full
    <2>2. BudgetType' /\ CountInv'
      BY <1>1, <1>4, <2>1, TakeCounts DEF BudgetInv, full
    <2>3. HistoryType'
      BY <1>1, <1>2, <2>1, LimitsAssumption DEF BudgetInv, HistoryType, EvidenceInv
    <2>4. \A d \in Classes : logged'[d] <= seen'[d]
      BY <1>1, <1>2, <2>1, LimitsAssumption DEF BudgetInv, EvidenceInv, HistoryType
    <2>5. ASSUME NEW k \in Slots
          PROVE  /\ logged'[Controlled[k]] = controlled'[k]
                 /\ controlled'[k] = IF seen'[Controlled[k]] < CONTROLLED_LIMIT
                                     THEN seen'[Controlled[k]] ELSE CONTROLLED_LIMIT
      <3>1. Controlled[k] \in Classes
        BY SlotOfTuple, SignatureType
      <3>2. Controlled[k] = c <=> slot = k
        <4>1. r \notin ControlledTuples => c # Controlled[k] /\ slot = Background
          BY BackgroundRecord DEF c, slot, ControlledTuples
        <4>2. ASSUME r \in ControlledTuples PROVE Controlled[k] = c <=> slot = k
          <5>1. PICK j \in Slots : r = Controlled[j]
            BY <4>2 DEF ControlledTuples
          <5>2. slot = j /\ c = Controlled[j]
            BY <5>1, SlotOfTuple DEF slot, c
          <5> QED
            BY <5>2, ControlledDistinct
        <4> QED
          BY <4>1, <4>2 DEF Background, Slots
      <3>3. controlled'[k] = IF slot = k THEN controlled[k] + 1 ELSE controlled[k]
        BY <1>1, <2>1 DEF Take, BudgetInv, BudgetType, Background, Slots
      <3>4. slot = k => controlled[k] < CONTROLLED_LIMIT
        BY <1>4, LimitsAssumption DEF full, Full, Background, Slots, BudgetInv, BudgetType
      <3>5. controlled[k] \in 0..CONTROLLED_LIMIT /\ seen[Controlled[k]] \in 0..MaxSeen
        BY <3>1 DEF BudgetInv, BudgetType, HistoryType
      <3>6. seen'[Controlled[k]] = IF Controlled[k] = c THEN seen[Controlled[k]] + 1 ELSE seen[Controlled[k]]
        BY <1>2, <3>1 DEF BudgetInv, HistoryType
      <3>7. logged'[Controlled[k]] = IF Controlled[k] = c THEN logged[Controlled[k]] + 1 ELSE logged[Controlled[k]]
        BY <2>1, <3>1 DEF BudgetInv, HistoryType
      <3>8. /\ logged[Controlled[k]] = controlled[k]
            /\ controlled[k] = IF seen[Controlled[k]] < CONTROLLED_LIMIT
                               THEN seen[Controlled[k]] ELSE CONTROLLED_LIMIT
        BY DEF BudgetInv, EvidenceInv
      <3> QED
        BY <3>2, <3>3, <3>4, <3>5, <3>6, <3>7, <3>8, LimitsAssumption
    <2> QED
      BY <2>2, <2>3, <2>4, <2>5 DEF BudgetInv, EvidenceInv
  <1> QED
    BY <1>3, <1>4

-----------------------------------------------------------------------------
(* The theorems about the budget.                                          *)

\* A new observer and its new budget start inside the invariant.
LEMMA BudgetStarts == BudgetInit => BudgetInv
  <1> SUFFICES ASSUME BudgetInit PROVE BudgetInv
    OBVIOUS
  <1>1. BudgetType /\ HistoryType /\ CountInv
    BY LimitsAssumption DEF BudgetInit, BudgetType, HistoryType, CountInv, Slots
  <1>2. \A c \in Classes : logged[c] <= seen[c]
    BY DEF BudgetInit
  <1>3. ASSUME NEW k \in Slots PROVE Controlled[k] \in Classes
    BY SlotOfTuple, SignatureType
  <1>4. \A k \in Slots : logged[Controlled[k]] = 0 /\ seen[Controlled[k]] = 0 /\ controlled[k] = 0
    BY <1>3 DEF BudgetInit
  <1> QED
    BY <1>1, <1>2, <1>4, LimitsAssumption DEF BudgetInv, EvidenceInv

\* BudgetInv is inductive and holds of every reachable state.
THEOREM BudgetInvariance == BudgetSpec => []BudgetInv
  <1>1. ASSUME BudgetInv, [BudgetNext]_budgetVars PROVE BudgetInv'
    <2>1. CASE BudgetNext
      BY <1>1, <2>1, ReadKeeps DEF BudgetNext
    <2>2. CASE UNCHANGED budgetVars
      BY <1>1, <2>2 DEF budgetVars, BudgetInv, BudgetType, HistoryType, CountInv, EvidenceInv
    <2> QED
      BY <1>1, <2>1, <2>2
  <1> QED
    BY <1>1, BudgetStarts, PTL DEF BudgetSpec

\* The counters never leave their limits, whatever arrives.
THEOREM TypeCorrect == BudgetSpec => []TypeOK
  <1>1. BudgetInv => TypeOK
    BY DEF BudgetInv, BudgetType, HistoryType, TypeOK
  <1> QED
    BY <1>1, BudgetInvariance, PTL

\* An establishment logs no more records than the seven reserved budgets and the shared one
\* hold: 120 for the limits 8 and 64 of the code.
THEOREM Bounded == BudgetSpec => []RecordsBounded
  <1>1. ASSUME BudgetInv PROVE RecordsBounded
    <2>1. \A k \in 1..7 : controlled[k] \in Nat /\ controlled[k] <= CONTROLLED_LIMIT
      BY <1>1, LimitsAssumption DEF BudgetInv, BudgetType, Slots
    <2>2. background \in Nat /\ background <= BACKGROUND_LIMIT
      BY <1>1, LimitsAssumption DEF BudgetInv, BudgetType
    <2> QED
      BY <1>1, <2>1, <2>2, LimitsAssumption DEF BudgetInv, CountInv, RecordsBounded
  <1> QED
    BY <1>1, BudgetInvariance, PTL

\* No amount of other traffic keeps a demanded tuple out of the log.
THEOREM NotStarved == BudgetSpec => []EvidenceNotStarved
  <1>1. TunSignatures \subseteq ControlledTuples
    BY DEF TunSignatures, ControlledTuples, Controlled, Slots
  <1>2. ASSUME BudgetInv PROVE EvidenceNotStarved
    <2>1. ASSUME NEW r \in TunSignatures
          PROVE  logged[Class(r)] = IF seen[Class(r)] < CONTROLLED_LIMIT
                                    THEN seen[Class(r)] ELSE CONTROLLED_LIMIT
      <3>1. PICK k \in Slots : r = Controlled[k]
        BY <1>1 DEF ControlledTuples
      <3>2. Class(r) = Controlled[k]
        BY <3>1, SlotOfTuple
      <3> QED
        BY <1>2, <3>2 DEF BudgetInv, EvidenceInv
    <2> QED
      BY <2>1 DEF EvidenceNotStarved
  <1> QED
    BY <1>2, BudgetInvariance, PTL
-----------------------------------------------------------------------------
(* From the capture to the log.                                            *)

\* A step that reads, in the TUN, a packet the capture would show with a demanded tuple.
EgressLogged ==
  \A f \in Frames(file) :
    LET row == CaptureRow(Seen(f))
    IN  Read(Packet(f)) /\ row \in TunSignatures /\ seen[row] < CONTROLLED_LIMIT =>
          logged' = [logged EXCEPT ![row] = @ + 1] /\ count' = count + 1

\* Decoder and budget together: a packet the analyzer gives a demanded tuple is logged under that
\* tuple when the fixture reads it, if it is one of the first CONTROLLED_LIMIT, whatever else was
\* read before.  A fixture that called the packet something else would put it on the shared
\* budget; one that shared the budgets would have none left.
THEOREM DemandedIsLogged == Spec /\ BudgetSpec => [][EgressLogged]_budgetVars
  <1>1. ASSUME IInv, BudgetInv, NEW f \in Frames(file),
               Read(Packet(f)), CaptureRow(Seen(f)) \in TunSignatures,
               seen[CaptureRow(Seen(f))] < CONTROLLED_LIMIT
        PROVE  LET row == CaptureRow(Seen(f))
               IN  logged' = [logged EXCEPT ![row] = @ + 1] /\ count' = count + 1
    <2> DEFINE row == CaptureRow(Seen(f))
    <2>1. row # NoRecord
      BY <1>1 DEF TunSignatures, NoRecord, Record
    <2>2. Sanitised(Packet(f)) = row
      BY <1>1, <2>1, AgreeOnFiles DEF IInv, DecodersAgree
    <2>3. PICK k \in Slots : row = Controlled[k]
      BY <1>1 DEF TunSignatures, Controlled, Slots
    <2>4. Signature(row) = k /\ Class(row) = row
      BY <2>3, SlotOfTuple
    <2>5. controlled[k] = seen[row] /\ k # Background
      BY <1>1, <2>3 DEF BudgetInv, EvidenceInv, Slots, Background
    <2>6. seen[row] \in Nat /\ CONTROLLED_LIMIT \in Nat
      BY <1>1, <2>4, SignatureType, LimitsAssumption DEF BudgetInv, HistoryType
    <2>7. ~Full(Signature(row))
      BY <1>1, <2>4, <2>5, <2>6 DEF Full
    <2> QED
      BY <1>1, <2>2, <2>4, <2>7 DEF Read
  <1>2. IInv /\ BudgetInv => EgressLogged
    BY <1>1 DEF EgressLogged
  <1> QED
    BY <1>2, Invariance, BudgetInvariance, PTL
=============================================================================
