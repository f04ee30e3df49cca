-------------------------- MODULE CaptureInterval --------------------------
(***************************************************************************)
(* capture_end_after_quiescence() of network-evidence.py: when does a test *)
(* case end in the two capture files an emulator keeps appending to?       *)
(* A size counts what is in a file: 0 while its header is missing, 1 with  *)
(* the header, one more per record.  QEMU writes between any two steps of  *)
(* the function; time passes in its sleeps and, if MaxStalls allows, while *)
(* it is not scheduled (a stat or a loaded host takes time too).           *)
(***************************************************************************)
EXTENDS Naturals, Sequences

CONSTANTS
  MINIMUM, QUIET, DEADLINE, INTERVAL,   \* the parameters, in ticks
  MaxSize,                              \* bound: size of a capture
  MaxStalls                             \* bound: ticks that pass outside a sleep

ASSUME ParametersAssumption ==
  /\ {MINIMUM, QUIET, DEADLINE, INTERVAL, MaxSize, MaxStalls} \subseteq Nat
  /\ MINIMUM <= DEADLINE /\ 0 < QUIET /\ QUIET <= DEADLINE /\ INTERVAL > 0 /\ MaxSize > 0

CAPTURES == <<"physical.pcap", "wifi.pcap">>
Names == {CAPTURES[1], CAPTURES[2]}

VARIABLES
  clock,        \* time.monotonic()
  stalls,       \* ticks lost so far
  size, grown,  \* per file: its size, and the tick at which it got each size
  pc,
  offsets,      \* the sizes last found different
  current,      \* the sample being taken
  stableSince, now, wake,
  sampledAt     \* history: when the last sample was complete

vars == <<clock, stalls, size, grown, pc, offsets, current, stableSince, now, wake, sampledAt>>

\* "started" is tick 0.
Init ==
  /\ clock = 0 /\ stalls = 0
  /\ size \in [Names -> {0, 1}]
  /\ grown = [f \in Names |-> [n \in 0..MaxSize |-> 0]]
  /\ pc = "first"
  /\ offsets = [f \in Names |-> 0] /\ current = <<>>
  /\ stableSince = 0 /\ now = 0 /\ wake = 0 /\ sampledAt = 0

-----------------------------------------------------------------------------
(* The emulator and the clock (external).                                  *)

QemuWrites(f) ==
  /\ size[f] < MaxSize /\ pc \notin {"returned", "failed"}
  /\ size' = [size EXCEPT ![f] = @ + 1]
  /\ grown' = [grown EXCEPT ![f][size[f] + 1] = clock]
  /\ UNCHANGED <<clock, stalls, pc, offsets, current, stableSince, now, wake, sampledAt>>

TimePasses ==
  /\ \/ pc = "sleep" /\ clock < wake /\ UNCHANGED stalls
     \/ pc \notin {"returned", "failed"} /\ stalls < MaxStalls /\ stalls' = stalls + 1
  /\ clock' = clock + 1
  /\ UNCHANGED <<size, grown, pc, offsets, current, stableSince, now, wake, sampledAt>>

-----------------------------------------------------------------------------
(* The function.                                                           *)

\* One stat() of capture_offsets(); the headers are asserted when both sizes are known.
Stat(from, next) ==
  /\ pc = from
  /\ LET sample == Append(current, size[CAPTURES[Len(current) + 1]]) IN
     /\ current' = sample
     /\ pc' = IF Len(sample) < 2 THEN from
              ELSE IF sample[1] = 0 \/ sample[2] = 0 THEN "failed" ELSE next
  /\ sampledAt' = clock
  /\ UNCHANGED <<clock, stalls, size, grown, offsets, stableSince, now, wake>>

Sample == [f \in Names |-> IF f = CAPTURES[1] THEN current[1] ELSE current[2]]

FirstStat == Stat("first", "begin")

\* stable_since = started: the first offsets count as stable from the start.
Begin ==
  /\ pc = "begin"
  /\ offsets' = Sample /\ current' = <<>>
  /\ pc' = "test"
  /\ UNCHANGED <<clock, stalls, size, grown, stableSince, now, wake, sampledAt>>

\* Mutant: no deadline.
SettledOnlyWhenQuiet(t) == t >= MINIMUM /\ t - stableSince >= QUIET

Settled(t) == t >= DEADLINE \/ (t >= MINIMUM /\ t - stableSince >= QUIET)

\* Mutant: a sleep that ignores the deadline.
SleepUntilPastDeadline(t) == t + INTERVAL

SleepUntil(t) == IF t + INTERVAL < DEADLINE THEN t + INTERVAL ELSE DEADLINE

Test ==
  /\ pc = "test"
  /\ now' = clock
  /\ IF Settled(clock)
     THEN pc' = "returned" /\ UNCHANGED wake
     ELSE pc' = "sleep" /\ wake' = SleepUntil(clock)
  /\ UNCHANGED <<clock, stalls, size, grown, offsets, current, stableSince, sampledAt>>

Wake ==
  /\ pc = "sleep" /\ clock >= wake
  /\ pc' = "sample"
  /\ UNCHANGED <<clock, stalls, size, grown, offsets, current, stableSince, now, wake, sampledAt>>

NextStat == Stat("sample", "compare")

\* Mutant: only the first capture restarts the quiet interval.
CompareFirstOnly ==
  /\ pc = "compare"
  /\ IF Sample[CAPTURES[1]] # offsets[CAPTURES[1]] THEN stableSince' = clock ELSE UNCHANGED stableSince
  /\ offsets' = Sample /\ current' = <<>>
  /\ pc' = "test"
  /\ UNCHANGED <<clock, stalls, size, grown, now, wake, sampledAt>>

Compare ==
  /\ pc = "compare"
  /\ IF Sample # offsets
     THEN stableSince' = clock /\ offsets' = Sample
     ELSE UNCHANGED <<stableSince, offsets>>
  /\ current' = <<>>
  /\ pc' = "test"
  /\ UNCHANGED <<clock, stalls, size, grown, now, wake, sampledAt>>

Host == FirstStat \/ Begin \/ Test \/ Wake \/ NextStat \/ Compare

Next == Host \/ TimePasses \/ \E f \in Names : QemuWrites(f)

Spec == Init /\ [][Next]_vars
\* Python runs and the clock advances; QEMU owes nothing.
FairSpec == Spec /\ WF_vars(Host) /\ WF_vars(TimePasses)

-----------------------------------------------------------------------------
(* Properties.                                                             *)

\* Every variable has its type.
TypeOK ==
  /\ clock \in Nat /\ stalls \in 0..MaxStalls
  /\ size \in [Names -> 0..MaxSize]
  /\ grown \in [Names -> [0..MaxSize -> 0..clock]]
  /\ pc \in {"first", "begin", "test", "sleep", "sample", "compare", "returned", "failed"}
  /\ offsets \in [Names -> 0..MaxSize]
  /\ Len(current) <= 2 /\ \A i \in DOMAIN current : current[i] \in 0..MaxSize
  /\ {stableSince, now, sampledAt} \subseteq 0..clock /\ wake \in 0..DEADLINE

Early == pc = "returned" /\ now < DEADLINE

\* "At least one second after instrumentation, both physical and Wi-Fi offsets stable for 0.5
\* seconds" (pr5-network-feasibility.md:318-319), up to the time lost: unless the deadline ended
\* the wait, the offsets were sampled MINIMUM after the start, and were the sizes of both files
\* for QUIET before that and at that moment.  The allowance is needed: the clock is read after
\* the sample (lines 118, 122), and what is lost between them counts as observed.
StableUpToStalls ==
  Early =>
    /\ sampledAt + stalls >= MINIMUM
    /\ \A f \in Names :
         /\ grown[f][offsets[f]] + QUIET <= sampledAt + stalls
         /\ size[f] > offsets[f] => grown[f][offsets[f] + 1] + stalls >= sampledAt

\* Whatever the captures do, it is done by the deadline, but for the time it was not run: the
\* last sleep is cut short (line 121).
DoneByDeadline == clock <= DEADLINE + stalls

\* It does come to an end, by settling or by the deadline (lines 117-121).
Returns == <>(pc \in {"returned", "failed"})
=============================================================================
