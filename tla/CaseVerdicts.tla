---------------------------- MODULE CaseVerdicts ----------------------------
(***************************************************************************)
(* One case of network-evidence.py from its first capture sample to the    *)
(* verdict analyze() reaches on it.  CaseEvidence has the cases one after  *)
(* the other and asks which case a line or record belongs to; here one     *)
(* case is looked at for what the verdict makes of it: the order of the    *)
(* log, the ports and data of the packets, and what the test says of       *)
(* itself.                                                                 *)
(*                                                                         *)
(* The test is external: it performs the operations whose lines and        *)
(* packets analyze() looks for, and an operation may report what it likes. *)
(* Where a packet goes is for the verdict to find out: into the TUN, out   *)
(* of the device, or nowhere.  logd takes lines in the order they were     *)
(* written in; logs() may be ahead of it.                                  *)
(***************************************************************************)
EXTENDS Naturals, Sequences

CONSTANTS
  Signed,     \* TUN_SIGNATURES, or part of it: a sequence of operations
  MaxChanges  \* bound: how often a TUN comes up or goes down

Operation(name, category, protocol, port, data) ==
  [name |-> name, category |-> category, protocol |-> protocol, port |-> port, data |-> data]

Operations == [name : STRING, category : STRING, protocol : STRING, port : Nat, data : BOOLEAN]

ASSUME SignedAssumption ==
  /\ MaxChanges \in Nat
  /\ Signed \in Seq(Operations)
  /\ \A i \in DOMAIN Signed : Signed[i].category # "documentation-v6"

\* What the test of each case does (external), in CASES' order; testFullTunnel stands for
\* testPerAppInclude, testKnownGapPerAppExclude for testKnownGapPhysicalSelectionAllowed.
Script ==
  [ testDirectProcessRestrictions |-> <<Operation("DIRECT", "host-control", "tcp", 46151, FALSE)>>,
    testFullTunnel |->
      Signed \o << Operation("JAVA_UDP6", "documentation-v6", "udp", 46152, FALSE),
                   Operation("NATIVE_UDP6", "documentation-v6", "udp", 46154, FALSE) >>,
    testKnownGapPerAppExclude |->
      << Operation("PHYSICAL_UDP", "host-control", "udp", 46152, FALSE),
         Operation("PHYSICAL", "host-control", "tcp", 46151, FALSE) >>,
    testKnownGapSplitRoute |->
      << Operation("OUTSIDE", "host-control", "tcp", 46151, FALSE),
         Operation("ROUTED", "documentation-v4", "udp", 46152, FALSE) >>,
    testExistingSocketAndRealRevocation |->
      << Operation("CONNECT", "host-control", "tcp", 46151, FALSE),
         Operation("OLD_SOCKET_SEND", "host-control", "tcp", 46151, TRUE) >>,
    testVpnLossAndReconnect |->
      << Operation("LOSS", "host-control", "tcp", 46151, FALSE),
         Operation("LOSS_OS_FALLBACK", "host-control", "tcp", 46153, FALSE) >>,
    testProviderReplacement |-> <<>>,
    testLockdownLoss |->
      << Operation("LOCKDOWN_DOWN", "none", "none", 0, FALSE),
         Operation("LOCKDOWN_LOSS", "host-control", "tcp", 46151, FALSE) >> ]

Names == DOMAIN Script
WithoutMode == {"testDirectProcessRestrictions", "testExistingSocketAndRealRevocation"}

\* Out of the device without the case's doing: the platform resolver, and a socket of an earlier
\* case on the physical network, in the three ways it can look like this case's.
Resolver == Operation("resolver", "platform-dns", "udp", 53, FALSE)
Leftovers == {Operation("leftover", "host-control", "tcp", 46151, FALSE),
              Operation("leftover", "host-control", "tcp", 46151, TRUE),
              Operation("leftover", "host-control", "tcp", 46153, FALSE)}

VARIABLES
  name,        \* the case
  pc,          \* the harness: "test", "settle", "logs", "analyzed"
  op, step,    \* the test: the operation it is at and how far
  up,          \* the provider whose TUN is up, or "none"
  lockdown,    \* what isAlwaysOn() and isLockdownEnabled() both return
  changes,     \* how often a TUN came up or went down
  toTun,       \* packets in the TUN or read, and not logged
  inFlight,    \* packets that left the device and are not in the capture
  rows,        \* those in the capture, in the case's interval
  log,         \* a sequence of lines
  obs,         \* observations: what logs() returned
  \* --- history
  entered, left, gone  \* packets that entered a TUN, that left the device; providers that lost it

vars == <<name, pc, op, step, up, lockdown, changes, toTun, inFlight, rows, log, obs, entered, left, gone>>
testVars == <<op, step>>
tunVars == <<up, changes, gone>>

Mark(kind, of, says) == [kind |-> kind, of |-> of, says |-> says, category |-> "none", protocol |-> "none", port |-> 0]
PacketLine(p) == [kind |-> "PACKET", of |-> "observer", says |-> "-",
                  category |-> p.category, protocol |-> p.protocol, port |-> p.port]
EstablishedLine(p, both) == Mark("established", p, IF both THEN "both" ELSE "-")

\* run_case() after reset() and start(mode), which has seen the line.
Init ==
  /\ name \in Names /\ pc = "test" /\ op = 1 /\ step = "begin"
  /\ lockdown \in (IF name = "testLockdownLoss" THEN BOOLEAN ELSE {FALSE})
  /\ IF name \in WithoutMode THEN up = "none" /\ log = <<>>
                             ELSE up = "A" /\ log = <<EstablishedLine("A", lockdown)>>
  /\ changes = 0 /\ toTun = {} /\ rows = {} /\ obs = <<>>
  /\ inFlight \in {{}, {Resolver}} \cup {{l} : l \in Leftovers}
  /\ entered = {} /\ left = inFlight /\ gone = {}

-----------------------------------------------------------------------------
(* The test (external): BEGIN, a packet, END with a result.                *)

Running == pc = "test" /\ op <= Len(Script[name])
Current == Script[name][op]

TestBegins ==
  /\ Running /\ step = "begin" /\ step' = "send"
  /\ log' = Append(log, Mark("BEGIN", Current.name, "-"))
  /\ UNCHANGED <<name, pc, op, tunVars, lockdown, toTun, inFlight, rows, obs, entered, left>>

TestSends ==
  /\ Running /\ step = "send" /\ step' = "end"
  /\ \/ /\ up # "none" /\ Current.category # "none"
        /\ toTun' = toTun \cup {Current} /\ entered' = entered \cup {Current}
        /\ UNCHANGED <<inFlight, left>>
     \/ /\ Current.category # "none"
        /\ inFlight' = inFlight \cup {Current} /\ left' = left \cup {Current}
        /\ UNCHANGED <<toTun, entered>>
     \/ UNCHANGED <<toTun, entered, inFlight, left>>
  /\ UNCHANGED <<name, pc, op, tunVars, lockdown, rows, log, obs>>

\* The results analyze() looks at.  LOCKDOWN_DOWN says what is; the others what they like: a
\* send() succeeds when the kernel has taken the data.
Results(o) ==
  CASE o = "LOCKDOWN_DOWN" -> {IF up = "none" THEN "vpn=false" ELSE "vpn=true"}
    [] o \in {"OLD_SOCKET_SEND", "LOSS"} -> {"success", "timeout"}
    [] OTHER -> {"-"}

TestEnds ==
  /\ Running /\ step = "end" /\ step' = "begin" /\ op' = op + 1
  /\ \E says \in Results(Current.name) : log' = Append(log, Mark("END", Current.name, says))
  /\ UNCHANGED <<name, pc, tunVars, lockdown, toTun, inFlight, rows, obs, entered, left>>

-----------------------------------------------------------------------------
(* The fixtures A and B (FixtureVpnService has the rest), in the cases     *)
(* that lose or change the TUN.                                            *)

Changing == {"testExistingSocketAndRealRevocation", "testVpnLossAndReconnect",
             "testProviderReplacement", "testLockdownLoss"}

Establish(p) ==
  /\ name \in Changing /\ (p = "B" => name = "testProviderReplacement")
  /\ pc # "analyzed" /\ up = "none" /\ changes < MaxChanges
  /\ up' = p /\ changes' = changes + 1
  /\ log' = Append(log, EstablishedLine(p, lockdown))
  /\ UNCHANGED <<name, pc, testVars, lockdown, toTun, inFlight, rows, obs, entered, left, gone>>

\* A revocation or a STOP: the TUN is down and one of the lines that tell it is written.  Of a
\* revocation Android has taken the interface down before onRevoke logs, and closeTun, after the
\* line, only closes the descriptor; the observer may hold one packet yet.
Close(line) ==
  /\ name \in Changing /\ pc # "analyzed" /\ up # "none" /\ changes < MaxChanges
  /\ up' = "none" /\ changes' = changes + 1 /\ gone' = gone \cup {up}
  /\ log' = Append(log, Mark(line, up, "-"))
  /\ toTun' \in {{}} \cup {{p} : p \in toTun}
  /\ UNCHANGED <<name, pc, testVars, lockdown, inFlight, rows, obs, entered, left>>

\* The observer logs a packet, or its budget withholds the record.
Observer ==
  /\ pc # "analyzed"
  /\ \E p \in toTun :
       /\ toTun' = toTun \ {p}
       /\ log' \in {log, Append(log, PacketLine(p))}
  /\ UNCHANGED <<name, pc, testVars, tunVars, lockdown, inFlight, rows, obs, entered, left>>

\* QEMU (external) writes a packet in the case's interval.  Rows are a set and the verdict comes
\* later, so that one it wrote during the test is as well written now.
Qemu ==
  /\ pc = "settle"
  /\ \E p \in inFlight : inFlight' = inFlight \ {p} /\ rows' = rows \cup {p}
  /\ UNCHANGED <<name, pc, testVars, tunVars, lockdown, toTun, log, obs, entered, left>>

-----------------------------------------------------------------------------
(* The harness.                                                            *)

Instrumented ==
  /\ pc = "test" /\ op > Len(Script[name]) /\ pc' = "settle"
  /\ UNCHANGED <<name, testVars, tunVars, lockdown, toTun, inFlight, rows, log, obs, entered, left>>

CaptureEnd ==
  /\ pc = "settle" /\ pc' = "logs"
  /\ UNCHANGED <<name, testVars, tunVars, lockdown, toTun, inFlight, rows, log, obs, entered, left>>

\* Mutant: the newest lines only, as logcat -t would give.
ObserveNewest ==
  /\ pc = "logs" /\ pc' = "analyzed"
  /\ \E n \in 0..Len(log) : obs' = SubSeq(log, n + 1, Len(log))
  /\ UNCHANGED <<name, testVars, tunVars, lockdown, toTun, inFlight, rows, log, entered, left>>

\* observations = logs(), with what logd has taken in.
Observe ==
  /\ pc = "logs" /\ pc' = "analyzed"
  /\ \E n \in 0..Len(log) : obs' = SubSeq(log, 1, n)
  /\ UNCHANGED <<name, testVars, tunVars, lockdown, toTun, inFlight, rows, log, entered, left>>

Next ==
  \/ TestBegins \/ TestSends \/ TestEnds
  \/ \E p \in {"A", "B"} : Establish(p)
  \/ \E line \in {"revoked", "stopped"} : Close(line)
  \/ Observer \/ Qemu
  \/ Instrumented \/ CaptureEnd \/ Observe

Spec == Init /\ [][Next]_vars

-----------------------------------------------------------------------------
(* analyze(), for a case whose interval holds rows.                        *)

Says(line) == \E i \in DOMAIN obs : obs[i] = line
SaysKind(kind) == \E i \in DOMAIN obs : obs[i].kind = kind
Shows(category) == \E i \in DOMAIN obs : obs[i].kind = "PACKET" /\ obs[i].category = category

\* What is left without the platform's resolver.
Rows == {r \in rows : r.category # "platform-dns"}

\* Mutant: any protocol is a positive control.
HostAnyProtocol == {r \in Rows : r.category = "host-control"}

Host == {r \in Rows : r.category = "host-control" /\ r.protocol = "tcp"}

\* Mutant: the calibration counts as the race.
gated_race_packetsAnyPort == {r \in Rows : r.category = "host-control" /\ r.protocol = "tcp"}

gated_race_packets == {r \in Rows : r.category = "host-control" /\ r.protocol = "tcp" /\ r.port = 46151}

Calibration == {r \in Host : r.port = 46153}

\* Mutant: any packet of the connection is evidence that it sent.
OldSocketAnyPacket == Host

OldSocketPhysicalData == {r \in Host : r.data}

require_tun_operation(o) ==
  /\ \E i \in DOMAIN obs : obs[i].kind = "BEGIN" /\ obs[i].of = o.name
  /\ \E i \in DOMAIN obs : obs[i].kind = "END" /\ obs[i].of = o.name
  /\ Says(PacketLine(o))

\* Line i comes after the last BEGIN of the operation; with no BEGIN, every line does.
AfterBegin(i, o) == ~\E j \in DOMAIN obs : j >= i /\ obs[j].kind = "BEGIN" /\ obs[j].of = o.name

\* Mutant: the window has no end.
WindowWithoutEnd(o) == {i \in DOMAIN obs : AfterBegin(i, o)}

\* obs.split(BEGIN)[-1].split(END)[0].
Window(o) ==
  {i \in DOMAIN obs :
     /\ AfterBegin(i, o)
     /\ ~\E j \in 1..i : AfterBegin(j, o) /\ obs[j].kind = "END" /\ obs[j].of = o.name}

Ipv6(o) ==
  IF \E i \in Window(o) : obs[i].kind = "PACKET" /\ obs[i].category = "documentation-v6"
  THEN "Preliminary evidence" ELSE "Unknown"

GatedRace == IF gated_race_packets # {} THEN "Known Gap" ELSE "Not reproduced in this run"

Replacement == SaysKind("revoked") /\ SaysKind("established")

\* Mutant: the loss of the VPN need not be confirmed.
LockdownUnconfirmed == (\E i \in DOMAIN obs : obs[i].says = "both") /\ Rows = {}

Lockdown ==
  /\ \E i \in DOMAIN obs : obs[i].says = "both"
  /\ Says(Mark("END", "LOCKDOWN_DOWN", "vpn=false"))
  /\ Rows = {}

\* No assertion fails.
Accepted ==
  CASE name = "testDirectProcessRestrictions" -> Rows = {}
    [] name = "testFullTunnel" ->
         /\ Rows = {} /\ \A i \in DOMAIN Signed : require_tun_operation(Signed[i])
         /\ Shows("synthetic-dns")
    [] name = "testKnownGapPerAppExclude" -> Host # {} /\ ~Shows("host-control")
    [] name = "testKnownGapSplitRoute" ->
         /\ Host # {} /\ Shows("documentation-v4")
         /\ ~\E r \in Rows : r.category = "documentation-v4"
         /\ ~Shows("host-control")
    [] name = "testExistingSocketAndRealRevocation" ->
         /\ SaysKind("established")
         /\ OldSocketPhysicalData # {} \/ ~Says(Mark("END", "OLD_SOCKET_SEND", "success"))
    [] name = "testVpnLossAndReconnect" ->
         /\ Host # {} /\ Calibration # {}
         /\ gated_race_packets # {} \/ ~Says(Mark("END", "LOSS", "success"))
    [] name = "testProviderReplacement" -> Replacement
    [] name = "testLockdownLoss" -> Lockdown

-----------------------------------------------------------------------------
(* Properties.                                                             *)

Packets == {Script[name][i] : i \in DOMAIN Script[name]} \cup {Resolver} \cup Leftovers

\* Every variable has its type; no packet comes from nowhere.
TypeOK ==
  /\ name \in Names /\ pc \in {"test", "settle", "logs", "analyzed"}
  /\ op \in 1..(Len(Script[name]) + 1) /\ step \in {"begin", "send", "end"}
  /\ up \in {"none", "A", "B"} /\ gone \subseteq {"A", "B"}
  /\ lockdown \in BOOLEAN /\ changes \in 0..MaxChanges
  /\ entered \cup left \subseteq Packets
  /\ toTun \subseteq entered /\ inFlight \cup rows = left
  /\ \A i \in DOMAIN obs : obs[i] = log[i]

Passed(n) == pc = "analyzed" /\ name = n /\ Accepted

LeftoverRecorded(port) == \E r \in rows : r.name = "leftover" /\ r.port = port

\* "Preliminary evidence" for an IPv6 operation is cut out of the text of the log (lines 304-306):
\* it is an IPv6 packet of this operation or, logged late by the observer, of an earlier one, that
\* entered the TUN; a later operation's packet is never evidence for it.
Ipv6NotLater ==
  pc = "analyzed" /\ name = "testFullTunnel" =>
    \A i \in DOMAIN Script[name] :
      LET o == Script[name][i] IN
        o.category = "documentation-v6" /\ Ipv6(o) = "Preliminary evidence" =>
          \E j \in 1..i : Script[name][j].category = "documentation-v6" /\ Script[name][j] \in entered

\* A test that reports success of the old socket is believed only if data left the device on it
\* (lines 317-318): not its handshake, not the calibration.  The capture cannot tell the socket of
\* this case from one an earlier case left with data to send.
SuccessNeedsData ==
  Passed("testExistingSocketAndRealRevocation") /\ Says(Mark("END", "OLD_SOCKET_SEND", "success")) =>
    (\E p \in left : p.name = "OLD_SOCKET_SEND") \/ LeftoverRecorded(46151)

\* The VPN-loss race is judged by the gated port alone (lines 272-276, 319-325): a "Known Gap" is
\* never the calibration's packet, and "Not reproduced" never hides a recorded packet of the gated
\* attempt, whatever the test said of it.
RaceIsGated ==
  Passed("testVpnLossAndReconnect") =>
    /\ GatedRace = "Known Gap" => (\E p \in left : p.name = "LOSS") \/ LeftoverRecorded(46151)
    /\ GatedRace # "Known Gap" => ~\E p \in rows : p.name = "LOSS"
    /\ (\E p \in left : p.name = "LOSS_OS_FALLBACK") \/ LeftoverRecorded(46153)

\* A positive control is a TCP packet that left the device, not the UDP one sent beside it, and
\* the routed target of the split was seen in the TUN and nowhere else (lines 308-314).
ControlsLeft ==
  /\ Passed("testKnownGapPerAppExclude") =>
       (\E p \in left : p.name = "PHYSICAL") \/ (\E r \in rows : r.name = "leftover")
  /\ Passed("testKnownGapSplitRoute") =>
       /\ (\E p \in left : p.name = "OUTSIDE") \/ (\E r \in rows : r.name = "leftover")
       /\ \E p \in entered : p.name = "ROUTED"

\* A case about losing the VPN passes only if a TUN was lost while it ran (lines 327-332): the
\* replaced provider's, or the one that reported both booleans, and then no packet of the attempt
\* under lockdown was recorded.
LossIsReal ==
  /\ Passed("testProviderReplacement") => gone # {}
  /\ Passed("testLockdownLoss") => lockdown /\ gone # {} /\ ~\E r \in rows : r.name = "LOCKDOWN_LOSS"
=============================================================================
