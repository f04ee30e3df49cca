# Privacy Decoy: verification models

TLA+ models of the parts of this repository that keep state or decide something
from partial knowledge: the external VPN fixture, the host-side network evidence
harness, the artifact analyzer and the choice of CI jobs. TLC checks the models on
small instances, TLAPS proves the main safety results for all values of the constants.

## Inventory

### The system

Privacy Decoy is an Android research project. The app itself is one static screen;
what does work is the evidence machinery around it.

| Component | State | Operations | Interacts with |
|---|---|---|---|
| **VPN fixture service** `FixtureVpnService.java` | per service object: `tun`, `generation` under its monitor; per TUN an observer thread | `onStartCommand`, `establish`, `closeTun`, `observe`, `onRevoke`, `onDestroy` | Android's service and VPN managers (callbacks on two threads), the log |
| **VPN fixture controller** `FixtureController.java` | none | `onCreate`: STOP, or consent test and start | starts the service on the same main thread |
| **Packet record budget** `PacketLogBudget.java` | seven controlled counters, one background counter | `shouldEmit`, `signature` | asked by `observe` before every `PACKET` record |
| **Header decoders** `observe()`, `packets()` of `network-evidence.py` | none | decode one IP packet to a sanitised tuple | `observe` on the TUN, `packets` on link-layer captures; the harness compares their results |
| **Network evidence harness** `network-evidence.py` | capture files and offsets, log snapshots, case records | `reset`, `start`, `run_case`, `capture_end_after_quiescence`, `require_tun_operation`, `case_packets`, `lockdown_setup_control`, `analyze` | drives the fixtures over adb; QEMU appends to the captures |
| **Artifact analyzer** `artifact-analyzer.py` | the report under construction | `analyze`, `scan_archive`, `add_sdk_metadata`, `evaluate_metadata`, `structural_status`, `main` | `zipfile`, `apkanalyzer`, `apksigner`; callers read its exit status |
| **Artifact fixture runner** `run-artifact-fixtures.sh` | shell variables, temporary files | builds fixtures, runs the analyzer, asserts exit statuses | the analyzer |
| **CI change classifier** `classify-ci-changes.sh`, `android.yml` | two flags | path rules, fallback on failure | `git diff`, the jobs of the workflow |
| **Release manifest check** `verify-release-manifest.py` | none | one pass over one file | the build |
| **Native probes** `probe.c`, `NativeProbe.java` | none across calls | one system call or one bounded exchange, mapped to a category | the tests' `BEGIN`/`END` records |
| **Probe app, surface fixtures, app, build** | none | | inputs of the tools above |

### What is hard, and what makes each component correct

* **VPN fixture.** A start runs on the main thread, a revocation on a Binder thread,
  and each establishment leaves an observer that reads a volatile field without the
  monitor and a descriptor that may be closed (and its number reused) under it. Several
  service objects may exist in one process, because Android can create a new one while
  the destruction of the old is still queued. Correct means: an observer believed
  current watches the open TUN of its service; every open TUN can still be closed;
  STOP leaves no TUN; a record of an old mode follows the next establishment at most
  once; a revocation takes effect.
* **Record budget.** Background traffic arrives in any order. Correct means: the log is
  bounded, and no amount of background hides a tuple the harness demands.
* **Capture reader.** QEMU may be stopped inside a record, and only the sizes read so far
  say where the next one begins. Correct means: a capture cut short is refused, a whole one
  is returned with the extents `case_packets` compares.
* **Decoders.** Two languages, two link layers, the same packets. Correct means: they
  call the same packet the same, and an unknown one reveals nothing.
* **Harness.** QEMU writes two files at any time; the host sleeps, samples and compares
  in separate steps; log records of another process arrive late; commands time out on
  the host and may land on the device. Correct means: a case's interval contains its
  traffic, was quiet when it ended, and the wait is bounded; evidence of one case never
  counts for another; a lockdown set-up judged good is locked, whichever of the starts the
  host gave up on came last; what a verdict says of a case is what happened in it.
* **Analyzer.** Every query of the SDK fails on its own. Correct means: VALID and INVALID
  are proofs, UNKNOWN is everything else, and the exit status tells them apart.
* **Classifier.** A failing `git` or script must turn every job on, never off, and the path
  rules must keep up with what the jobs' commands read.

The hazards, each at its line, are in `PROJECT.json`.

## Modules

| Module | Models | Kind |
|---|---|---|
| `FixtureVpnService` | fixture service and controller, with the Android behaviour they rely on | concurrent state machine |
| `ObserverSessions` | what the fixture promises about sessions and their records | abstract specification, implemented by `FixtureVpnService` |
| `PacketHeaders` | both header decoders | operators |
| `PacketRecords` | the loop body of `observe()` with `PacketLogBudget` | state machine |
| `PacketReader` | `packets()`: the pcap file, its records and the rows returned | state machine |
| `CaptureInterval` | `capture_offsets`, `capture_end_after_quiescence`, QEMU, the clock | concurrent state machine with time |
| `CaseEvidence` | `reset`, `start`, `run_case` for several cases, beside the test, the fixture, logd and QEMU; `require_tun_operation` and `case_packets` | concurrent state machine |
| `CaseVerdicts` | one case up to its verdict: the log as a sequence, the assertions of `analyze()` per case | concurrent state machine, operators |
| `LockdownSetup` | `lockdown_setup_control` and what `exercise()` makes of it, beside a device that reboots | concurrent state machine with time |
| `ChangeClassifier` | the classification step of `android.yml`, `classify-ci-changes.sh`, the jobs' conditions | state machine |
| `ArtifactAnalyzer` | one run of the analyzer, from the files to the exit status | state machine |
| `ArtifactFindings` | the findings of its report, by code | operators over `ArtifactAnalyzer` |
| `MC...` | constants and inputs for TLC where a `.cfg` alone does not do | |
| `..._proofs` | theorems and proofs about the module of that name; `PacketEvidence_proofs` about `PacketRecords` (whose specification is therefore called `BudgetSpec`) and `PacketReader` | |

How they compose: `FixtureVpnService` implements `ObserverSessions` (`INSTANCE` with a refinement
mapping); `PacketRecords` and `PacketReader` extend `PacketHeaders`, `ArtifactFindings` extends
`ArtifactAnalyzer`; the harness modules each reduce their neighbours to what the log and the
captures show of them, and say so where they do.

### FixtureVpnService

Every synchronized body is split where another thread can see a difference. `closeTun()`
is `BeginClose` (take the monitor, `generation++`) and `EndClose` (close, clear the field),
because observers run in between without the monitor. `onStartCommand` is
`MainTake`, `MainPrepare`, `MainEnter`/`MainClose` (inside `establish` the monitor is kept),
`MainBuild` or `MainBuildFails`, `MainLaunch`, `MainStopSelf`; `onRevoke` is `RevokeDeliver`
(which logs before it waits for the monitor), `RevokeEnter`, `RevokeClose`,
`RevokeStopSelf`; one turn of `observe` is `ObserverCheck`, `ObserverRead`, `ObserverEmit`.
`ControllerStart`/`ControllerStop` are the activity's `onCreate`, on the main thread.

External and modelled from use: the service manager (`StartService`, `StopSelf`, `Release`:
a service neither started nor bound is destroyed through the main thread's queue, and a
start after that makes a new object), the VPN manager (`OtherProviderPrepares`, `Unbind`,
`AlwaysOnStart`), and `ForceStop`, the harness's `reset`. A read of a closed descriptor may
fail or, because the number may have been reused, return a packet of the TUN opened since.
`generation` is a natural number: the `int` would need 2^32 starts to wrap.

`onRevoke` logs before it has the monitor, so that a start handled in between leaves
`STATE established` last while the revocation closes its TUN. `EstablishedMeansTun` says that the log
does not come to rest there: `stopSelf()`, or the system's unbinding from a service whose TUN is
gone, brings `onDestroy` and its record. `Quiet` is therefore a state in which neither a thread nor
Android has anything to do, the unbinding included.

### PacketHeaders, PacketRecords, PacketReader

A header keeps the fields either decoder looks at; an address is the category its bytes
stand for. `Sanitised` is `observe`, `CaptureRow` is `packets`. `PacketRecords.Read` is one
turn of the loop with a packet in hand: decode, ask the budget, count, log. A new
establishment has a new budget, so one observer is the whole story.

`PacketReader` is the record loop of `packets()` over a file that may end anywhere. The reader
knows its position only; `BytesHere` gives it the record that begins there, or, if it has lost
step, bytes that may look like any record. Positions are bytes; byte order and timestamps are
left out. The first 128 bytes of a record are decoded and the rest skipped, so that `Seen` is
shorter than the packet where the fixture has the whole: `DecodersAgree` compares the two.

### CaptureInterval

Sizes count records; `grown` remembers when a file got each size. Each `stat` is a step of
its own, QEMU may write between any two steps, and time passes in sleeps and, up to
`MaxStalls` ticks in all, anywhere else. Asserting that a capture header is present is the
`failed` exit.

### CaseEvidence

The harness is `ResetStop`, `ResetKill`, `ResetClear` (the lines of `reset`), `StartFixture` and
`Poll` (`start`), `Instrument`, `Instrumented`, `CaptureEnd`, `Observe` (`run_case`); any call may
raise (`AdbFails`). Beside it run four parties that owe it nothing: the instrumented test, which is
not in this repository; the fixture, reduced to what its log shows (`Establish`, `LoseSession`,
`ObserverReads`, `ObserverLogs`; `FixtureVpnService` has the rest); logd, which takes in a line some
time after it was written; and QEMU, which writes a packet some time after it left the device and
may be seen in the middle of a record. Every line and packet carries the case it stems from, which
nothing in the harness looks at: the properties compare what `analyze()` concludes with it.
`capture_end_after_quiescence` is one step here, at any time; `CaptureInterval` says when it returns.
Which records an interval takes in wherever its ends fall is what `RowsExact` states.
The 0.4 seconds of `reset` promise nothing about logd: `ResetClear` clears what is in the log, and
what is still on its way (remembered in `overdue`) arrives afterwards. `EvidenceIsOwn` is therefore
stated with its exception, a `PACKET` line of the operation that was overdue when the log was
cleared and is among this case's observations; run `case_late` shows that such a line does substitute
for a packet of the next case (see the findings). `MeasuredMeansEstablished` needs no exception: `start`
has seen the line of each start it made before the case goes on, so that none is overdue. (The
VPNs some tests bring up or change themselves while they run are in `CaseVerdicts`, not here.) `Repeats` are the operations whose packet is sent again when
nobody answers it, as a TCP handshake's is.

### CaseVerdicts

One case of `CASES`, from its first capture sample to the verdict. `Script` says which operations
the test performs (the test is external); each is a `BEGIN` line, perhaps a packet, an `END` line
with any result. The packet goes into the TUN, out of the device or nowhere. The log is a sequence,
because `analyze()` cuts the IPv6 windows out of its text (`Window`) and `logs()` may be ahead of
logd (`Observe` takes any prefix). In the four cases about losing a TUN the fixtures come and go
(`Establish`, `Close`). `Accepted` is the conjunction of the assertions for that case, and the
properties compare it with the history: which packets entered a TUN or left the device, which
provider lost its TUN. Kept small where nothing is lost by it: records arrive after the test
(`Qemu`), since rows are a set the verdict reads later; a TUN changes only in the cases about that;
`testPerAppInclude` and `testKnownGapPhysicalSelectionAllowed` have the assertions of the case that
stands for them.

A capture does not say which socket a packet belongs to. `Leftovers` are packets of a socket an
earlier case left open, and the properties that speak of "this case's packet" allow for them: the
ports alone do not exclude them.

### LockdownSetup

One action per probe of `lockdown_setup_control`, each of which succeeds, or fails and takes up to
its timeout and the pause (`Succeeds`, `Fails`); `AppOps`, `Clear` and `Launch` change the device even
when the host gave up on them. `Poll` and `Verdict` are what `exercise()` makes of the log. The device
goes down some time after `adb reboot` returned, may come up without the app-op saved, loads the two
settings one at a time, and carries out pending starts when it likes (`StartLands`); an always-on
start is refused without consent, and the refusal is logged after the fixture looked
(`AlwaysOnStart`, `LogRefusal`). `FixtureVpnService` has what happens inside the fixture.

What the model showed while it was written, none of which contradicts a claim of the repository:
a probe round may complete on the old boot, before the device goes down, so that the run ends in
`unknown` or a raise without a reboot having been awaited; a start that landed late may establish
while the measured case has begun; the deadline of the set-up may be overrun by almost one
whole attempt whose wait for the device got its least time, `max(.1, ...)` (`Left`): 60.6 seconds with
the timeouts of the code.

### ChangeClassifier

A path is one of the eleven classes the script's patterns and the jobs' commands tell apart, a
changed file a pair of classes, equal unless it was renamed. `Defaults`, `Base`, `Diff`,
`ScriptFails`, `Publish`, `StepFails` are the lines of the step with their `|| exit 0`; `ReadPath` is
one turn of the script's loop. `Inputs` says which classes the commands of a job read.

Of an edited file `EditsRun` claims that every job runs that builds, runs or judges it, with one
exception it names: for files of the probe app and of the Gradle build (`BaselineOnly`) the script
turns on the baseline job alone, though the analyzer's fixture run builds the probe app with Gradle
and judges its APK (`Inputs("analyzer")`). Such an edit can change the analyzer job's result without
that job being run. Renames are outside what it claims: `git diff --name-only` lists a rename under its
new path, so that moving a file a job reads into `docs/` runs nothing.

### ArtifactAnalyzer

`apks` is the truth about the files, `records` what the run could establish. A query of a
tool answers truthfully or fails, each on its own. `Fail(2)` and `Fail(1)` are the
exceptions `main` names and those it does not. `ArtifactFindings` adds the findings, which
`evaluate_metadata` appends in other places than `structural_status` decides in. The inventory,
the generation id and the parsing of tool output are left out: no verdict depends on them.

## Runs

| Run | Question and answer | Bounds and why they suffice |
|---|---|---|
| `vpn` | Do descriptors, observers and late records stay as `closeTun` and the generation are meant to keep them; does STOP leave no TUN; does a log at rest with `STATE established` last mean one; does the fixture implement `ObserverSessions`, fairness included; does a revocation take effect? Yes. | 2 service objects, 2 TUNs, 3 starts, 1 replacement: a TUN, its successor in the same or another object, its revocation, a third start and an always-on start in between. A one-off run of the safety part with 3 objects agreed, and its theorems hold for all numbers. |
| `packet_reader` | Does `packets()` return what the capture holds and raise only for damage; is data payload; do both decoders agree, and does an unknown packet reveal nothing? Yes. | up to three records with sizes on both sides of every bound, cut at each kind of place; alone, every combination of header fields at the lengths where a bound is. |
| `packet_records` | Is the log bounded and demanded evidence never starved, in any order? Yes. | limits 1 and 2 instead of 8 and 64, 3 packets per class: below, at and above each limit. The theorems hold for all limits. |
| `analyzer_verdict` | Are VALID and INVALID proofs, whichever queries fail, and do the findings tell the verdict? Yes. | a base and up to 2 splits; two values for one key, so that any pair can differ. |
| `analyzer_contradiction` | Is a proven contradiction INVALID? **Not between splits.** | as above |
| `analyzer_exit` | Does exit status 1 mean INVALID? **No.** | as above |
| `capture_quiet` | Is the interval quiet where it ends, up to lost time, and is the wait bounded? Yes. | 4, 3, 7, 2 ticks for 1.0, 0.5, 3.0, 0.1 s: minimum longer than the quiet interval, a deadline one further quiet interval reaches, an interval that divides none of them, so that the last sleep is cut. Growth of up to 3 per file, 1 lost tick. |
| `case_evidence` | Is the evidence of a case its own but for overdue lines, measured behind its own VPN, with exactly its part of the capture, and does the run end? Yes. | 2 cases, so that one follows the other; 1 operation, sent once; 2 polls of the log instead of 50. A one-off run of the safety part with a repeated packet (12 million states) agreed; the theorems hold for any number of cases and operations, repeated or not. |
| `case_late` | Can the record of another case not substitute? **It can**, if logd takes it in after `reset` has cleared the log. | as above, with the packet repeated: one record serves its own case, the other the next |
| `case_verdicts` | Is what `analyze()` concludes on a case what happened in it? Yes, but for packets of a leftover socket. | every case; one of the five signed operations, which are alike, beside both IPv6 ones; two changes of the TUN, a loss and a return. The theorems hold for any signed operations and any number of changes. |
| `lockdown` | Is a verified set-up locked, a refusal explained, the overrun less than one attempt with its least wait, and does the set-up end? Yes. | deadline 5, calls of 3, a least wait of 2, starts of 4, pauses of 1: the remaining time falls above, between and below the bounds of `Left`; an attempt that begins before the deadline and passes it, and several that do not; 3 starts pending at once, 2 polls instead of 50. The theorems hold for all timeouts. |
| `ci_edits` | Does an edit run the jobs that build, run or judge the file, and documentation none, whatever fails? Yes, but for probe app and Gradle files, which run the baseline job only. | all changes of up to 2 files: a file of one class beside one of any other. |

`CHECK_DEADLOCK FALSE` where the program stops: the fixture when nothing is asked of it; the
analyzer, the harness, the set-up, the capture reader, the classification step and the capture wait
when they return; `PacketRecords` when every class is at `MaxSeen`.

Each property has a mutant: an operator beside the definition it replaces, changed as a
plausible bug would (an unsynchronised `closeTun`, a shared budget, `>` for `>=`, ...).
`PROJECT.json` lists which mutant breaks which property.

### Fairness

* `FixtureVpnService`: weak fairness of the main thread, of the Binder thread and of each
  observer, because the scheduler runs threads that can run (a monitor is held for finitely
  many steps and a waiting Binder thread competes with one main thread only), and of the
  delivery of `onRevoke`, a one-way call Android has accepted. Nothing is assumed of the
  host, of other providers or of force-stops.
* `CaptureInterval`: weak fairness of the Python process and of the clock. None of QEMU.
* `CaseEvidence`: weak fairness of the Python process (every `adb` call has a timeout, after which it
  returns or raises). None of the test, the fixture, logd, QEMU or failures: `Ends` holds
  even if the device does nothing at all.
* `LockdownSetup`: weak fairness of the Python process, whose calls all have timeouts. None of the
  device: `Ends` holds even if it never comes up.
* `ChangeClassifier`, `CaseVerdicts`, `PacketReader` and the analyzer: none.

## Proofs

All results hold for every value of the constants that meets the named assumptions.

* `FixtureVpnService_proofs`: `TypeCorrect`, `CurrentOwns`, `NoOrphan`, `ForeignOnlyStale`,
  `AtMostOneLate`, from `Invariance`. The properties are not inductive: that a current observer
  owns the open TUN of its service needs to know who holds the monitor and where. The
  inductive invariant has one part per mechanism. *Monitor*: a lock is held exactly by the
  thread whose program counter is between `BeginClose` and the release. *Descriptor*: an open
  TUN is in the field of exactly one service, and a field holds only TUNs already built.
  *Token*: an observer's token is at most its service's generation, and equal only for the TUN
  in the field. *Foreign*: a reused number implies the own TUN is closed, hence the generation
  has moved. *Late*: a superseded observer that has logged has passed its last test. `AtMostOneLate` is
  what a reader of the log needs of `ImplementsSessions`, which the runs check. Each
  part is preserved by each action (`MonitorStep`, `DescriptorStep`, ...), one step per action.
  `StopLeaves` needs the order of the messages besides (`OrderInv`): messages reach the main
  thread in the order of the service objects they are for, `onDestroy` is the last of its object,
  and an object Android has forgotten has no TUN unless its `onDestroy` is to come. By the time
  STOP closes the TUN of its object, the older objects have therefore closed theirs.
  `EstablishedTrue` follows from *LogInv*: while no TUN is open and `STATE established` is the last
  record, another is to come (`RecordToCome`), by a posted message, the callback or the `onRevoke` at
  work, or the end of a service only its binding keeps; and the binding lasts only as long as the
  TUN routed into, which is open (`ActiveInv`).
  `ImplementsSafely` proves the safety part of `ImplementsSessions`: under `IInv` each action is a
  step of `ObserverSessions` or changes none of its variables (`SessionStep`); `TokenInv` is what
  makes an opened session the only current one, `LateInv` what makes a late record the first.
* `PacketEvidence_proofs`, about `PacketRecords` and `PacketReader`, the two ends of a packet's
  evidence: `TypeCorrect`, `Bounded`, `NotStarved` of the log, for all limits, and `ReturnsTheCapture`,
  `RaisesForCause`, `DataIsReal`, `OneNameForAPacket`, `UnknownHidden` of the capture, for every
  capture. Besides types, the budget's invariant relates each counter to the history of its class,
  and `count` to the sum of the counters. The reader's: its position is where a record begins or the
  file ends, and the rows are those of the records before it.
* `CaptureInterval_proofs`: `TypeCorrect`, `EndIsStable`, `EndsByDeadline`, for all parameters, any
  growth and any time lost. The invariant charges each lost tick once: to the time before the
  first sample (*Placed*), between the two stats of a sample (*Taken*), or between a sample and
  its test (*Fresh*).
* `LockdownSetup_proofs`: `TypeCorrect`, `VerifiedLocked`, `ConsentRefusals`, `Overrun`, for all
  timeouts and any number of starts that land late. Three parts: on one boot the two platform
  settings are only ever turned on, so that a later establishment reports no less than an earlier
  one (*Monotone*); once the app-op was found set on the new boot and the log was cleared with no
  refusal underway, none is logged (*Consent*); the clock is at most the deadline plus what the
  probes of this attempt can have taken, the first of which may begin with nothing left and still has
  its least time (*Clock*).
* `ArtifactAnalyzer_proofs`: `TypeCorrect`, `ExitZeroIsProof`, `InvalidProof`, `FindingsTell`, for any
  number of splits. The invariant says that what is in `records` is true of `apks`, that `readable`
  is exact for the artifacts scanned, and that `status` and `exit` were drawn from complete records.
* `CaseEvidence_proofs`: `TypeCorrect`, `EvidenceOwn`, `Measured`, `Rows`, for any number of cases and operations.
  That evidence is a case's own follows from three parts: *Own*, after a reset everything in the
  fixture, on its way to the log or in it stems from this case or was overdue when the log was
  cleared, because nothing of the fixture is left between force-stop and the clearing of the log
  (*Dead*); *AllWitnessed*, no line is false; *Past*, what a finished case observed stays so.
  `Measured` follows from *StartHeard*: no `STATE established` of an earlier case is on its way or in
  the log, because each start that was waited for has been heard before the case went on. The account of the capture rests on *Offsets*
  (samples are in order and at most the size) and *During* (the units of a record written while a
  case is recorded are those between its samples); QEMU writes one unit at a time, and it belongs
  to the case being recorded and no other (`UnitWritten`).
* `CaseVerdicts_proofs`: `TypeCorrect`, `Ipv6IsNotLater`, `SuccessHasData`, `RaceJudged`,
  `ControlsReal`, `LossReal`, for any list of signed operations and any number of establishments and
  losses. `SignedAssumption` asks of the list what `TUN_SIGNATURES` satisfies: no operation with the
  category of the IPv6 ones. `TypeOK` already says where packets come from (a TUN or the capture only
  ever holds packets of this case's script, the resolver's or a leftover socket's), so each verdict
  on `rows` is a case distinction over the few that look like it (`LossPackets`, `LeftoverFields`).
  Verdicts on the log need to know what a line says of the past: a `PACKET` line stands for a packet
  that entered the TUN after its operation began, the `END` line of an operation not yet reached is
  not in the log, and a `BEGIN` comes before what it begins (*LogInv*, *Witnessed*); a line about a
  lost TUN names a provider that lost one, and `vpn=false` was said with no TUN up, after a loss if
  the case began with one (*LossInv*, *TunnelInv*). `Ipv6IsNotLater` then follows because the window of an
  operation ends at its `END`, before any later operation sends. The invariant was model-checked
  first on the bounds of `case_verdicts`.
* `ChangeClassifier_proofs`: `TypeCorrect`, `EditsAlwaysRun`, `DocsOnly`, for changes of any size. The invariant:
  until they are replaced the flags in the output are both on, and the script's flags are those
  of the paths it has read.

Two kinds of result go beyond the properties of the runs:

* *Composition.* `DemandedIsLogged` takes the specifications of reader and budget together: when the
  fixture reads a packet to which the analyzer would give a demanded tuple, it logs it under that
  tuple, if it is one of the first `CONTROLLED_LIMIT`, whatever it has read before. It needs both
  `DecodersAgree` and the budget's invariant.
* *Termination, but for fairness.* `HostRunsOut` of `CaptureInterval_proofs`, `CaseEvidence_proofs` and
  `LockdownSetup_proofs` names a measure (`wake`, `case` or `now`, which is bounded, and `Ahead`, the
  steps left until it moves) that every step of the harness takes towards its end and no step of
  anybody else takes back; `ReaderRunsOut` does so for `packets()`. What `Ends` and `Returns` need
  besides, that the harness takes a step while it has one, is left to TLC.

Only model-checked: everything temporal with fairness (the liveness part of `ImplementsSessions`,
`RevokeTakesEffect`, `Returns`, `Ends`), which the prover cannot handle, and that a step is possible
(ENABLED). Every safety property of the passing runs is a theorem.

## Findings

* `case_late`: nothing but a fixed 0.4 s sleep keeps a `PACKET` record of a killed fixture from the
  next case's observations; a later one, with the tuple that case demands, substitutes for its packet.
  The evidence note says another case cannot substitute.
* `analyzer_contradiction`: two splits that contradict each other are UNKNOWN when the base's
  own value is not established; the evidence note says proven contradictions are INVALID.
* `analyzer_exit`: an exception `main` does not name ends the interpreter with status 1, which
  the docstring reserves for INVALID.

The allowance of `StableUpToStalls` for lost time is needed: the clock is read after the sample, so
time the host loses in between counts as quiet.

## What is left

The plan of this project was: the concurrent fixture first, then what the harness concludes from it,
then the tools that judge, and proofs of each. All of that is done. Two modules would extend it:

* **`FixtureRunner`**: `run-artifact-fixtures.sh` over the exit statuses of `ArtifactAnalyzer`, with a
  tool that fails for a while: which failing runs it can mistake for expected ones.
* **`NativeExchange`**: `network()` of `probe.c`, connect, poll and send against a peer that answers
  late, refuses or goes away; its categories as the `END` records of `CaseVerdicts`.

## Not modelled, and why

The release manifest check, the fixture runner, native probes, probe app, surface fixtures, app and
build keep no state between steps or are pure I/O (see `PROJECT.json`).

In modelled components: of the harness, the sink servers, printing and the JSON files between its
two halves; of the analyzer, the inventory, the generation id, the parsing of tool output, and files
that change while it reads them; of the fixture, the notification and log wording; of the captures,
byte order and timestamps.
