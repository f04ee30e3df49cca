---------------------------- MODULE CaseEvidence ----------------------------
(***************************************************************************)
(* The cases of network-evidence.py, one after the other: reset, start,    *)
(* run_case, and what analyze() concludes from the logs and the capture.   *)
(* Four parties run beside the harness: the instrumented test, the VPN     *)
(* fixture with its observer, logd, which takes in what they log some time *)
(* later, and QEMU, which writes what leaves the device some time later.   *)
(* The test is not in this repository and external, as is Android.         *)
(*                                                                         *)
(* A record knows the case it stems from ("from"); nothing the harness     *)
(* does looks at it.  The log is a set: every question modelled here is    *)
(* "is there a line".  One fixture stands for both providers, which are   *)
(* reset alike; one of them is started.  The two captures are sampled and  *)
(* filtered alike and apart, so one stands for both.  A record takes two   *)
(* units of it, and QEMU may be seen between them: case_packets expects    *)
(* records cut in two.                                                     *)
(***************************************************************************)
EXTENDS Naturals, Sequences

CONSTANTS
  NCases,      \* how many cases
  Operations,  \* the operations every case performs, in order
  Repeats,     \* those whose packet is sent again if nobody answers (a TCP SYN)
  MaxPolls     \* 50: how often start() looks at the log

ASSUME CasesAssumption ==
  /\ NCases \in Nat \ {0} /\ MaxPolls \in Nat
  /\ Operations \in Seq(STRING)

Cases == 1..NCases
Ops == {Operations[k] : k \in 1..Len(Operations)}
None == 0

VARIABLES
  \* --- the harness
  mode,        \* per case: does it start a VPN
  pc, case, polls,
  results,     \* per case: captureStart, captureEnd, observations
  \* --- the test: the operation it is at (0: not running) and how far
  op, step,
  \* --- the VPN fixture
  starting,    \* the case whose start is being handled, or None
  session,     \* the case whose start established the TUN that is up, or None
  toTun,       \* packets routed into the TUN and not read
  hand,        \* the packet the observer has read and not logged (a set of at most one)
  \* --- logd
  written, log,
  \* --- the network and QEMU
  inFlight,    \* packets that left the device and are not in the capture
  capture,     \* the records of the capture, the last perhaps incomplete
  size,        \* units of it
  \* --- history
  entered,     \* packets that entered a TUN
  established, \* cases whose start established a TUN
  overdue      \* lines still on their way to the log when it was cleared

fixtureVars == <<starting, session, toTun, hand>>
testVars == <<op, step>>
logVars == <<written, log>>
netVars == <<inFlight, capture, size>>
historyVars == <<entered, established, overdue>>
harnessVars == <<mode, pc, case, polls, results>>
vars == <<harnessVars, testVars, fixtureVars, logVars, netVars, historyVars>>

Packet(c, o) == [from |-> c, op |-> o]
Line(kind, o, c) == [kind |-> kind, op |-> o, from |-> c]
NoResult == [start |-> 0, end |-> 0, observations |-> {}]

Init ==
  /\ mode \in [Cases -> BOOLEAN]
  /\ pc = "stop" /\ case = 1 /\ polls = 0
  /\ results = [c \in Cases |-> NoResult]
  /\ op = 0 /\ step = "begin"
  /\ starting = None /\ session = None /\ toTun = {} /\ hand = {}
  /\ written = {} /\ log = {}
  /\ inFlight = {} /\ capture = <<>> /\ size = 0
  /\ entered = {} /\ established = {} /\ overdue = {}

-----------------------------------------------------------------------------
(* The harness.                                                            *)

To(next) == pc' = next /\ UNCHANGED <<mode, case, polls, results>>

\* control(A, "STOP"): the fixture closes its TUN; its observer may hold a packet yet.
ResetStop ==
  /\ pc = "stop" /\ To("kill")
  /\ session' = None /\ toTun' = {}
  /\ UNCHANGED <<testVars, starting, hand, logVars, netVars, historyVars>>

\* Mutant: STOP will do, nothing is killed.
ResetKillNothing ==
  /\ pc = "kill" /\ To("clear")
  /\ UNCHANGED <<testVars, fixtureVars, logVars, netVars, historyVars>>

\* am force-stop of the fixture and of the test.  What they wrote is on its way to the log.
ResetKill ==
  /\ pc = "kill" /\ To("clear")
  /\ starting' = None /\ session' = None /\ toTun' = {} /\ hand' = {}
  /\ op' = 0 /\ step' = "begin"
  /\ UNCHANGED <<logVars, netVars, historyVars>>

\* Mutant: a reset that leaves the log.
ResetKeepsLog ==
  /\ pc = "clear" /\ To("start")
  /\ UNCHANGED <<testVars, fixtureVars, logVars, netVars, historyVars>>

\* time.sleep(.4), logcat -c.  The sleep waits for nothing: what logd has not taken in by then, it
\* takes in later.
ResetClear ==
  /\ pc = "clear" /\ To("start")
  /\ log' = {}
  /\ overdue' = overdue \cup written
  /\ UNCHANGED <<testVars, fixtureVars, written, netVars, entered, established>>

\* start(mode), for the cases that have one.
StartFixture ==
  /\ pc = "start"
  /\ IF mode[case]
     THEN To("poll") /\ starting' = case
     ELSE To("sample") /\ UNCHANGED starting
  /\ UNCHANGED <<testVars, session, toTun, hand, logVars, netVars, historyVars>>

SaysEstablished(lines) == \E l \in lines : l.kind = "established"

\* Mutant: start() waits without a limit.
PollForever ==
  /\ pc = "poll" /\ SaysEstablished(log)
  /\ pc' = "sample" /\ polls' = 0
  /\ UNCHANGED <<mode, case, results, testVars, fixtureVars, logVars, netVars, historyVars>>

Poll ==
  /\ pc = "poll"
  /\ \/ SaysEstablished(log) /\ pc' = "sample" /\ polls' = 0
     \/ ~SaysEstablished(log) /\ polls + 1 < MaxPolls /\ polls' = polls + 1 /\ UNCHANGED pc
     \/ ~SaysEstablished(log) /\ polls + 1 >= MaxPolls /\ pc' = "raised" /\ UNCHANGED polls
  /\ UNCHANGED <<mode, case, results, testVars, fixtureVars, logVars, netVars, historyVars>>

\* capture_start = capture_offsets(), then am instrument.
Instrument ==
  /\ pc = "sample"
  /\ pc' = "measure"
  /\ results' = [results EXCEPT ![case].start = size]
  /\ op' = 1 /\ step' = "begin"
  /\ UNCHANGED <<mode, case, polls, fixtureVars, logVars, netVars, historyVars>>

\* am instrument returns, or has not in 150 seconds.
Instrumented ==
  /\ pc = "measure"
  /\ \/ op > Len(Operations) /\ To("settle")
     \/ To("raised")
  /\ UNCHANGED <<testVars, fixtureVars, logVars, netVars, historyVars>>

\* capture_end_after_quiescence() returns; CaptureInterval says when.
CaptureEnd ==
  /\ pc = "settle"
  /\ pc' = "logs"
  /\ results' = [results EXCEPT ![case].end = size]
  /\ UNCHANGED <<mode, case, polls, testVars, fixtureVars, logVars, netVars, historyVars>>

\* Mutant: the last case is not recognised.
ObserveNextAlways ==
  /\ pc = "logs"
  /\ results' = [results EXCEPT ![case].observations = log]
  /\ case' = case + 1 /\ pc' = "stop"
  /\ UNCHANGED <<mode, polls, testVars, fixtureVars, logVars, netVars, historyVars>>

\* observations = logs(); the next case, or the emulator ends and analyze() parses the capture.
Observe ==
  /\ pc = "logs"
  /\ results' = [results EXCEPT ![case].observations = log]
  /\ IF case < NCases
     THEN case' = case + 1 /\ pc' = "stop"
     ELSE /\ UNCHANGED case
          /\ pc' = IF size = 2 * Len(capture) THEN "analyzed" ELSE "raised"
  /\ UNCHANGED <<mode, polls, testVars, fixtureVars, logVars, netVars, historyVars>>

\* adb(), capture_offsets() or an assertion of run_case raises: no further case, no analysis.
AdbFails ==
  /\ pc \notin {"analyzed", "raised"} /\ To("raised")
  /\ UNCHANGED <<testVars, fixtureVars, logVars, netVars, historyVars>>

-----------------------------------------------------------------------------
(* The test (external): BEGIN, a packet, perhaps again, END, per operation.  *)

Running == pc = "measure" /\ op \in 1..Len(Operations)

TestLogs ==
  /\ Running /\ step \in {"begin", "end"}
  /\ written' = written \cup {Line(step, Operations[op], case)}
  /\ IF step = "begin" THEN step' = "send" /\ UNCHANGED op
                       ELSE step' = "begin" /\ op' = op + 1
  /\ UNCHANGED <<harnessVars, fixtureVars, log, netVars, historyVars>>

\* The packet enters the TUN, where nobody answers; or it leaves the device, or is dropped.
TestSends ==
  /\ Running /\ step = "send"
  /\ \/ /\ session # None
        /\ step' \in IF Operations[op] \in Repeats THEN {"send", "end"} ELSE {"end"}
        /\ toTun' = toTun \cup {Packet(case, Operations[op])}
        /\ entered' = entered \cup {Packet(case, Operations[op])}
        /\ UNCHANGED inFlight
     \/ /\ step' = "end"
        /\ inFlight' = inFlight \cup {Packet(case, Operations[op])}
        /\ UNCHANGED <<toTun, entered>>
     \/ step' = "end" /\ UNCHANGED <<toTun, entered, inFlight>>
  /\ UNCHANGED <<harnessVars, op, starting, session, hand, logVars, capture, size, established, overdue>>

-----------------------------------------------------------------------------
(* The VPN fixture, as its log shows it (FixtureVpnService has the rest).  *)

Establish ==
  /\ starting # None
  /\ session' = starting /\ starting' = None
  /\ established' = established \cup {starting}
  /\ written' = written \cup {Line("established", "none", starting)}
  /\ UNCHANGED <<harnessVars, testVars, toTun, hand, log, netVars, entered, overdue>>

\* An establishment that fails, a revocation: no TUN, no STATE established.
LoseSession ==
  /\ starting # None \/ session # None
  /\ starting' = None /\ session' = None /\ toTun' = {}
  /\ UNCHANGED <<harnessVars, testVars, hand, logVars, netVars, historyVars>>

ObserverReads ==
  /\ session # None /\ hand = {}
  /\ \E p \in toTun : hand' = {p} /\ toTun' = toTun \ {p}
  /\ UNCHANGED <<harnessVars, testVars, starting, session, logVars, netVars, historyVars>>

ObserverLogs ==
  /\ \E p \in hand : written' = written \cup {Line("packet", p.op, p.from)}
  /\ hand' = {}
  /\ UNCHANGED <<harnessVars, testVars, starting, session, toTun, log, netVars, historyVars>>

-----------------------------------------------------------------------------
(* logd and QEMU (external).                                               *)

LogdTakes ==
  /\ \E l \in written : log' = log \cup {l} /\ written' = written \ {l}
  /\ UNCHANGED <<harnessVars, testVars, fixtureVars, netVars, historyVars>>

\* The case whose interval is being recorded, if any.
Recorded == IF pc \in {"measure", "settle"} THEN {case} ELSE {}

QemuBegins ==
  /\ size = 2 * Len(capture) /\ pc \notin {"analyzed", "raised"}
  /\ \E p \in inFlight :
       /\ inFlight' = inFlight \ {p}
       /\ capture' = Append(capture, [packet |-> p, during |-> Recorded])
  /\ size' = size + 1
  /\ UNCHANGED <<harnessVars, testVars, fixtureVars, logVars, historyVars>>

QemuEnds ==
  /\ size < 2 * Len(capture) /\ pc \notin {"analyzed", "raised"}
  /\ capture' = [capture EXCEPT ![Len(capture)].during = @ \cup Recorded]
  /\ size' = size + 1
  /\ UNCHANGED <<harnessVars, testVars, fixtureVars, logVars, inFlight, historyVars>>

-----------------------------------------------------------------------------
Host == ResetStop \/ ResetKill \/ ResetClear \/ StartFixture \/ Poll
          \/ Instrument \/ Instrumented \/ CaptureEnd \/ Observe
Test == TestLogs \/ TestSends
Fixture == Establish \/ LoseSession \/ ObserverReads \/ ObserverLogs
Qemu == QemuBegins \/ QemuEnds

Next == Host \/ AdbFails \/ Test \/ Fixture \/ LogdTakes \/ Qemu

Spec == Init /\ [][Next]_vars
\* The harness runs; nobody else owes anything.
FairSpec == Spec /\ WF_vars(Host)

-----------------------------------------------------------------------------
(* analyze().                                                              *)

\* require_tun_operation().
TunOperation(c, o) ==
  \A kind \in {"begin", "end", "packet"} :
    \E l \in results[c].observations : l.kind = kind /\ l.op = o

\* Mutant: only records inside the interval count.
RowContained(i, c) == 2 * (i - 1) >= results[c].start /\ 2 * i <= results[c].end

\* case_packets(): record i, from 2(i-1) to 2i, overlaps the interval of the case.
Row(i, c) == 2 * i > results[c].start /\ 2 * (i - 1) < results[c].end

Finished(c) == c < case \/ pc = "analyzed"

-----------------------------------------------------------------------------
(* Properties.                                                             *)

Lines == [kind : {"begin", "end", "packet", "established"}, op : Ops \cup {"none"}, from : Cases]
Packets == [from : Cases, op : Ops]

TypeHarness ==
  /\ mode \in [Cases -> BOOLEAN]
  /\ pc \in {"stop", "kill", "clear", "start", "poll", "sample", "measure", "settle", "logs",
             "analyzed", "raised"}
  /\ case \in Cases /\ polls \in 0..MaxPolls
  /\ results \in [Cases -> [start : Nat, end : Nat, observations : SUBSET Lines]]

TypeTest == op \in 0..(Len(Operations) + 1) /\ step \in {"begin", "send", "end"}

TypeFixture ==
  /\ starting \in Cases \cup {None} /\ session \in Cases \cup {None}
  /\ toTun \subseteq Packets /\ hand \subseteq Packets

TypeNet ==
  /\ inFlight \subseteq Packets
  /\ capture \in Seq([packet : Packets, during : SUBSET Cases])
  /\ size \in Nat /\ size \in {2 * Len(capture), 2 * Len(capture) - 1}

TypeLog == written \subseteq Lines /\ log \subseteq Lines

TypeHistory == entered \subseteq Packets /\ established \subseteq Cases /\ overdue \subseteq Lines

\* Every variable has its type.
TypeOK == TypeHarness /\ TypeTest /\ TypeFixture /\ TypeNet /\ TypeLog /\ TypeHistory

\* An operation's TUN evidence proves that this case's packet entered the TUN, however late the
\* observer is; unless a PACKET line of an earlier case was still on its way to the log when reset()
\* cleared it, after 0.4 seconds (lines 97-101, 135-144).
EvidenceIsOwn ==
  \A c \in Cases, o \in Ops :
    Finished(c) /\ TunOperation(c, o) =>
      \/ Packet(c, o) \in entered
      \/ \E l \in overdue \cap results[c].observations : l.kind = "packet" /\ l.op = o

\* "A delayed fixture PACKET log after END can count; another case, wrong tuple, `other`, or platform
\* DNS cannot substitute" (pr5-network-feasibility.md:326-327): when every case has its TUN evidence,
\* every case's packet entered the TUN.
OtherCaseCannotSubstitute ==
  pc = "analyzed" /\ (\A c \in Cases, o \in Ops : TunOperation(c, o)) =>
    \A c \in Cases, o \in Ops : Packet(c, o) \in entered

\* A case that asked for a VPN is measured only if its own start established one: no
\* "STATE established" of an earlier case lets start() return (lines 91-96, 157-159).
MeasuredMeansEstablished ==
  pc \in {"sample", "measure", "settle", "logs"} /\ mode[case] => case \in established

\* A case answers for every capture record of which a part was written between its two samples,
\* so that a boundary hides no egress, and else only for one incomplete at both samples (line 153).
Halved(i, c) == results[c].start = results[c].end /\ results[c].start = 2 * i - 1

RowsExact ==
  pc = "analyzed" =>
    \A c \in Cases, i \in DOMAIN capture : Row(i, c) <=> c \in capture[i].during \/ Halved(i, c)

\* A run of the harness ends, whatever the device does: with its analysis or by raising.
Ends == <>(pc \in {"analyzed", "raised"})
=============================================================================
