---------------------------- MODULE LockdownSetup ----------------------------
(***************************************************************************)
(* The lockdown part of exercise() in network-evidence.py: always-on VPN   *)
(* and lockdown are set, the device is rebooted, lockdown_setup_control()  *)
(* tries to start the fixture until it succeeds or its deadline passes,    *)
(* and the log tells what the fixture found.                               *)
(*                                                                         *)
(* The device is external.  It goes down some time after "adb reboot" has  *)
(* returned and comes up some time later; while it is up any call may      *)
(* succeed or fail.  A start the host gave up on may still be carried out, *)
(* until the device goes down.  Of a log line only what exercise() looks   *)
(* for is kept.  Every call may take up to its timeout.                    *)
(***************************************************************************)
EXTENDS Naturals

CONSTANTS
  DEADLINE,   \* deadline_seconds
  CALL,       \* the timeout of an adb call
  LEAST,      \* the least timeout of wait-for-device: 0.1 seconds
  LAUNCH,     \* the timeout of "am start"
  INTERVAL,   \* the pause after a failed attempt
  MaxPolls,   \* 50: how often exercise() looks at the log
  MaxPending  \* bound: starts not yet carried out

ASSUME TimesAssumption ==
  /\ DEADLINE \in Nat /\ CALL \in Nat /\ LAUNCH \in Nat /\ LEAST \in Nat \ {0}
  /\ INTERVAL \in Nat \ {0} /\ MaxPolls \in Nat \ {0} /\ MaxPending \in Nat \ {0}

\* An attempt after wait-for-device: ten calls (getprop, two pm path, resolve-activity,
\* get-config, four appops, logcat -c), the start, the pause.
ATTEMPT == 10 * CALL + LAUNCH + INTERVAL

VARIABLES
  \* --- the harness
  pc, now, category, polls,
  setup,      \* what logs() returned
  \* --- the device
  boot,       \* "old", "down" or "new"
  allowed,    \* the app-op ACTIVATE_VPN of the fixture
  platform,   \* what isAlwaysOn() and isLockdownEnabled() return
  pending,    \* starts that will reach the fixture, or may
  log,        \* STATE lines
  last,       \* what the last establishment of this boot reported, or None
  refusing,   \* the fixture found no consent and has not logged it
  \* --- history
  prepared,   \* the boot in which the app-ops were last found set
  late        \* such a refusal was underway when the log was last cleared

harnessVars == <<pc, now, category, polls, setup>>
deviceVars == <<boot, allowed, platform, pending, log, last, refusing>>
historyVars == <<prepared, late>>
vars == <<harnessVars, deviceVars, historyVars>>

None == [alwaysOn |-> FALSE, lockdown |-> FALSE, kind |-> "none"]
ConsentRequired == [None EXCEPT !.kind = "consent-required"]
Established(flags) == [alwaysOn |-> flags.alwaysOn, lockdown |-> flags.lockdown, kind |-> "established"]

Off == [alwaysOn |-> FALSE, lockdown |-> FALSE]

\* reset() has cleared the log; exercise() allowed the app-op when it began.
Init ==
  /\ pc = "reboot" /\ now = 0 /\ category = "device-unavailable" /\ polls = 0 /\ setup = {}
  /\ boot = "old" /\ allowed = TRUE /\ platform = Off /\ pending = 0 /\ log = {} /\ last = None
  /\ refusing = FALSE /\ prepared = "none" /\ late = FALSE

Raise(c) == pc' = "raised" /\ category' = c

\* settings put, settings put, adb reboot: it returns before the device is down.
Reboot ==
  /\ pc = "reboot"
  /\ \/ pc' = "while" /\ UNCHANGED category
     \/ Raise("adb")
  /\ UNCHANGED <<now, polls, setup, deviceVars, historyVars>>

-----------------------------------------------------------------------------
(* lockdown_setup_control().                                               *)

\* Mutant: every attempt gets a deadline of its own.
WhileAnew ==
  /\ pc = "while"
  /\ pc' = "device" /\ now' = 0
  /\ UNCHANGED <<category, polls, setup, deviceVars, historyVars>>

While ==
  /\ pc = "while"
  /\ IF now < DEADLINE THEN pc' = "device" /\ UNCHANGED category ELSE Raise(category)
  /\ UNCHANGED <<now, polls, setup, deviceVars, historyVars>>

\* A call that takes up to limit and succeeds, which takes a device; or fails, or times out.
Succeeds(limit, next) ==
  /\ boot # "down"
  /\ \E d \in 0..limit : now' = now + d
  /\ pc' = next
  /\ UNCHANGED <<category, polls, setup>>

Fails(limit, name) ==
  /\ \E d \in 0..limit : now' = now + d + INTERVAL
  /\ pc' = "while" /\ category' = name
  /\ UNCHANGED <<polls, setup>>

Probe(here, next, limit, name) ==
  /\ pc = here
  /\ Succeeds(limit, next) \/ Fails(limit, name)
  /\ UNCHANGED <<deviceVars, historyVars>>

\* Mutant: wait-for-device may take its five seconds whatever is left.
LeftOrCall == CALL

Smaller(a, b) == IF a < b THEN a ELSE b
Larger(a, b) == IF a < b THEN b ELSE a

\* What is left of the deadline, within bounds: the lower one reaches beyond the deadline.
Left == Smaller(CALL, Larger(LEAST, DEADLINE - now))

WaitForDevice == Probe("device", "boot", Left, "device-unavailable")
BootCompleted == Probe("boot", "packages", CALL, "activity-manager-not-ready")
Packages == Probe("packages", "resolve", 2 * CALL, "package-unavailable")
Resolve == Probe("resolve", "activity", CALL, "controller-unresolved")
Activity == Probe("activity", "appops", CALL, "activity-manager-not-ready")

\* Set and read back for both packages; a failed attempt may have set the fixture's.
AppOps ==
  /\ pc = "appops"
  /\ \/ /\ Succeeds(4 * CALL, "clear")
        /\ allowed' = TRUE /\ prepared' = boot
     \/ /\ Fails(4 * CALL, "consent-preparation-unavailable")
        /\ allowed' \in (IF boot = "down" THEN {allowed} ELSE {allowed, TRUE})
        /\ UNCHANGED prepared
  /\ UNCHANGED <<boot, platform, pending, log, last, refusing, late>>

\* Mutant: the log is left as it is.
ClearNothing == Probe("clear", "launch", CALL, "activity-manager-not-ready")

\* logcat -c; one that timed out may have cleared the log.
Clear ==
  /\ pc = "clear"
  /\ \/ Succeeds(CALL, "launch") /\ log' = {}
     \/ Fails(CALL, "activity-manager-not-ready") /\ log' \in {log, {}}
  /\ late' = refusing
  /\ UNCHANGED <<boot, allowed, platform, pending, last, refusing, prepared>>

\* am start -W: it returns when the controller was started, which starts the service later.
\* One that failed or timed out may still be carried out.
Launch ==
  /\ pc = "launch"
  /\ \/ /\ Succeeds(LAUNCH, "poll") /\ pending < MaxPending
        /\ pending' = pending + 1
     \/ /\ Fails(LAUNCH, "controller-start-failed")
        /\ \/ UNCHANGED pending
           \/ boot # "down" /\ pending < MaxPending /\ pending' = pending + 1
  /\ UNCHANGED <<boot, allowed, platform, log, last, refusing, historyVars>>

-----------------------------------------------------------------------------
(* exercise(): wait for the fixture and look at what it reported.          *)

Says(lines, kind) == \E l \in lines : l.kind = kind

\* Mutant: the log is looked at until it says something.
PollUntilSaid ==
  /\ pc = "poll" /\ boot # "down" /\ setup' = log
  /\ IF Says(log, "established") \/ Says(log, "consent-required")
     THEN pc' = "verdict" /\ UNCHANGED polls
     ELSE polls' = polls + 1 /\ UNCHANGED pc
  /\ UNCHANGED <<now, category, deviceVars, historyVars>>

\* logs() raises when the device is not there.
Poll ==
  /\ pc = "poll"
  /\ \/ /\ boot # "down" /\ setup' = log
        /\ IF Says(log, "established") \/ Says(log, "consent-required") \/ polls + 1 = MaxPolls
           THEN pc' = "verdict" /\ UNCHANGED polls
           ELSE polls' = polls + 1 /\ UNCHANGED pc
        /\ UNCHANGED category
     \/ Raise("adb") /\ UNCHANGED <<polls, setup>>
  /\ UNCHANGED <<now, deviceVars, historyVars>>

\* Mutant: always-on alone counts.
SaysAlwaysOn(lines) == \E l \in lines : l.alwaysOn

SaysBoth(lines) == \E l \in lines : l.alwaysOn /\ l.lockdown

Verdict ==
  /\ pc = "verdict"
  /\ IF Says(setup, "consent-required") THEN Raise("consent-preparation-unavailable")
     ELSE IF ~Says(setup, "established") THEN Raise("controller-start-failed")
     ELSE pc' = (IF SaysBoth(setup) THEN "verified" ELSE "unknown") /\ UNCHANGED category
  /\ UNCHANGED <<now, polls, setup, deviceVars, historyVars>>

-----------------------------------------------------------------------------
(* The device (external).                                                  *)

Ended == pc \in {"verified", "unknown", "raised"}

GoesDown ==
  /\ boot = "old" /\ pc # "reboot"
  /\ boot' = "down"
  /\ pending' = 0 /\ log' = {} /\ last' = None /\ refusing' = FALSE
  /\ UNCHANGED <<harnessVars, allowed, platform, historyVars>>

\* The app-op may not have been saved.
ComesUp ==
  /\ boot = "down"
  /\ boot' = "new"
  /\ allowed' \in {allowed, FALSE}
  /\ UNCHANGED <<harnessVars, platform, pending, log, last, refusing, historyVars>>

\* The settings take effect after the reboot, if the platform supports them.
PlatformLoads ==
  /\ boot = "new" /\ ~Ended
  /\ \E key \in {"alwaysOn", "lockdown"} : ~platform[key] /\ platform' = [platform EXCEPT ![key] = TRUE]
  /\ UNCHANGED <<harnessVars, boot, allowed, pending, log, last, refusing, historyVars>>

\* A start reaches controller and service: no consent, an establishment, or a failing one.  The
\* fixture takes one start at a time and logs a refusal some time after it looked.
StartLands ==
  /\ pending > 0 /\ boot # "down" /\ ~Ended /\ ~refusing
  /\ pending' = pending - 1
  /\ \/ ~allowed /\ refusing' = TRUE /\ UNCHANGED <<log, last>>
     \/ allowed /\ log' = log \cup {Established(platform)} /\ last' = Established(platform) /\ UNCHANGED refusing
     \/ allowed /\ UNCHANGED <<log, last, refusing>>
  /\ UNCHANGED <<harnessVars, boot, allowed, platform, historyVars>>

\* An always-on start is refused as well; with consent it does nothing here, having no mode.
AlwaysOnStart ==
  /\ boot = "new" /\ platform.alwaysOn /\ ~Ended /\ ~refusing /\ ~allowed
  /\ refusing' = TRUE
  /\ UNCHANGED <<harnessVars, boot, allowed, platform, pending, log, last, historyVars>>

LogRefusal ==
  /\ refusing /\ ~Ended
  /\ refusing' = FALSE /\ log' = log \cup {ConsentRequired}
  /\ UNCHANGED <<harnessVars, boot, allowed, platform, pending, last, historyVars>>

-----------------------------------------------------------------------------
Host ==
  \/ Reboot \/ While
  \/ WaitForDevice \/ BootCompleted \/ Packages \/ Resolve \/ Activity \/ AppOps \/ Clear \/ Launch
  \/ Poll \/ Verdict

Device == GoesDown \/ ComesUp \/ PlatformLoads \/ StartLands \/ AlwaysOnStart \/ LogRefusal

Next == Host \/ Device

Spec == Init /\ [][Next]_vars

\* The harness runs; the device owes nothing.
FairSpec == Spec /\ WF_vars(Host)

-----------------------------------------------------------------------------
(* Properties.                                                             *)

Lines == [alwaysOn : BOOLEAN, lockdown : BOOLEAN, kind : {"none", "consent-required", "established"}]
Boots == {"old", "down", "new"}

\* Every variable has its type.
TypeOK ==
  /\ pc \in {"reboot", "while", "device", "boot", "packages", "resolve", "activity", "appops",
             "clear", "launch", "poll", "verdict", "verified", "unknown", "raised"}
  /\ now \in Nat /\ polls \in 0..(MaxPolls - 1)
  /\ category \in {"device-unavailable", "activity-manager-not-ready", "package-unavailable",
                   "controller-unresolved", "consent-preparation-unavailable",
                   "controller-start-failed", "adb"}
  /\ setup \subseteq Lines /\ log \subseteq Lines /\ last \in Lines
  /\ boot \in Boots /\ prepared \in Boots \cup {"none"}
  /\ allowed \in BOOLEAN /\ platform \in [alwaysOn : BOOLEAN, lockdown : BOOLEAN]
  /\ pending \in 0..MaxPending /\ refusing \in BOOLEAN /\ late \in BOOLEAN

\* "Optional lockdown is Unknown unless both ... report true after disposable secure-settings
\* setup/reboot" (pr5-network-feasibility.md:132-133): with testLockdownLoss about to run, the
\* TUN that is up was established after the reboot with both true, whichever of the starts the
\* host gave up on came last.
VerifiedTunIsLocked ==
  pc = "verified" => boot = "new" /\ last.alwaysOn /\ last.lockdown

\* exercise() blames the consent for a start it launched after finding the app-ops set (lines
\* 212-213): that start met a reboot in between, or the line is of a start refused before and
\* logged after the log was cleared.  A refusal the clearing removed is never blamed.
RefusalIsOld ==
  pc \in {"verdict", "raised"} /\ Says(setup, "consent-required") => prepared = "old" \/ late

\* The deadline is only looked at between attempts: one that begins before it may end after it,
\* by less than the least wait for the device and what the rest of an attempt can take (together
\* 60.6 seconds with the timeouts of the code).
OverrunIsOneAttempt == now < DEADLINE + LEAST + ATTEMPT

\* The set-up ends, whatever the device does.
Ends == <>Ended
=============================================================================
