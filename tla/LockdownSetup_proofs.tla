------------------------ MODULE LockdownSetup_proofs ------------------------
(***************************************************************************)
(* The lockdown set-up for all timeouts, deadlines and numbers of starts.  *)
(* The argument: within a boot the platform's two booleans only become     *)
(* true, so a line that says both is never newer than the TUN (Monotone);  *)
(* after the app-ops were set in the new boot the log has been cleared of  *)
(* what was refused before (Consent); the clock is bounded per place in    *)
(* the attempt, the first of which may pass the deadline (Clock).          *)
(***************************************************************************)
EXTENDS LockdownSetup, Integers, TLAPS

Both(l) == l.alwaysOn /\ l.lockdown

Monotone ==
  /\ boot # "new" => platform = Off
  /\ boot = "down" => log = {}
  /\ \A l \in log \cup setup :
       /\ l.alwaysOn => platform.alwaysOn
       /\ l.lockdown => platform.lockdown
       /\ Both(l) => Both(last)

Before == {"reboot", "while", "device", "boot", "packages", "resolve", "activity", "appops",
           "clear", "launch"}

Consent ==
  /\ prepared # "down"
  /\ boot = "old" => allowed /\ prepared # "new"
  /\ boot = "down" => prepared # "new"
  /\ prepared = "new" => allowed
  /\ pc \in {"clear", "launch", "poll", "verdict"} => prepared # "none"
  /\ Says(log, "consent-required") \/ refusing => boot = "new"
  /\ pc \in {"launch", "poll", "verdict"} /\ prepared = "new" /\ ~late =>
       ~Says(log, "consent-required") /\ ~refusing
  /\ pc \in Before => setup = {}
  /\ Says(setup, "consent-required") => prepared = "old" \/ late

\* What an attempt may have taken where the harness stands.
Spent(p) ==
  CASE p = "packages" -> CALL
    [] p = "resolve"  -> 3 * CALL
    [] p = "activity" -> 4 * CALL
    [] p = "appops"   -> 5 * CALL
    [] p = "clear"    -> 9 * CALL
    [] p = "launch"   -> 10 * CALL
    [] p \in {"reboot", "device", "boot"} -> 0
    [] OTHER -> ATTEMPT

Clock == now < DEADLINE + LEAST + Spent(pc) /\ (pc = "device" => now < DEADLINE)

IInv == TypeOK /\ Monotone /\ Consent /\ Clock /\ (pc = "verified" => SaysBoth(setup))

\* Every step keeps the types.
LEMMA TypeOKStep ==
  ASSUME IInv, [Next]_vars
  PROVE  TypeOK'
  <1> USE TimesAssumption DEF IInv, TypeOK, harnessVars, deviceVars, historyVars
  <1>1. CASE Reboot
    BY <1>1 DEF Reboot, Raise
  <1>2. CASE While
    BY <1>2 DEF While, Raise
  <1>3. CASE WaitForDevice
    BY <1>3 DEF WaitForDevice, Probe, Succeeds, Fails, Left, Smaller, Larger
  <1>4. CASE BootCompleted
    BY <1>4 DEF BootCompleted, Probe, Succeeds, Fails
  <1>5. CASE Packages
    BY <1>5 DEF Packages, Probe, Succeeds, Fails
  <1>6. CASE Resolve
    BY <1>6 DEF Resolve, Probe, Succeeds, Fails
  <1>7. CASE Activity
    BY <1>7 DEF Activity, Probe, Succeeds, Fails
  <1>8. CASE AppOps
    <2>1. CASE Succeeds(4 * CALL, "clear") /\ allowed' = TRUE /\ prepared' = boot
      <3>1. now' \in Nat
        BY <2>1 DEF Succeeds
      <3> QED
        BY <1>8, <2>1, <3>1 DEF Boots, AppOps, Succeeds
    <2>2. CASE /\ Fails(4 * CALL, "consent-preparation-unavailable")
               /\ allowed' \in (IF boot = "down" THEN {allowed} ELSE {allowed, TRUE})
               /\ UNCHANGED prepared
      <3>1. now' \in Nat
        BY <2>2 DEF Fails
      <3>2. allowed' \in BOOLEAN
        BY <2>2, Zenon
      <3> QED
        BY <1>8, <2>2, <3>1, <3>2 DEF AppOps, Fails
    <2> QED
      BY <1>8, <2>1, <2>2 DEF AppOps
  <1>9. CASE Clear
    BY <1>9 DEF Clear, Succeeds, Fails
  <1>10. CASE Launch
    BY <1>10 DEF Launch, Succeeds, Fails
  <1>11. CASE Poll
    <2>1. setup' \subseteq Lines
      BY <1>11 DEF Poll
    <2>2. polls' \in 0..(MaxPolls - 1)
      BY <1>11 DEF Poll
    <2> QED
      BY <1>11, <2>1, <2>2 DEF Poll, Raise
  <1>12. CASE Verdict
    BY <1>12 DEF Verdict, Raise, SaysBoth
  <1>13. CASE GoesDown
    <2>1. None \in Lines
      BY DEF None, Lines
    <2>2. refusing' \in BOOLEAN
      BY <1>13 DEF GoesDown
    <2>3. pending' \in 0..MaxPending
      BY <1>13 DEF GoesDown
    <2> QED
      BY <1>13, <2>1, <2>2, <2>3 DEF Boots, GoesDown
  <1>14. CASE ComesUp
    <2>1. allowed' \in BOOLEAN
      BY <1>14, Zenon DEF ComesUp
    <2> QED
      BY <1>14, <2>1 DEF Boots, ComesUp
  <1>15. CASE PlatformLoads
    <2>1. platform' \in [alwaysOn : BOOLEAN, lockdown : BOOLEAN]
      BY <1>15 DEF PlatformLoads
    <2> QED
      BY <1>15, <2>1 DEF PlatformLoads
  <1>16. CASE StartLands
    <2>1. ConsentRequired \in Lines /\ Established(platform) \in Lines
      BY DEF Lines, None, ConsentRequired, Established
    <2>2. log' \subseteq Lines /\ last' \in Lines
      BY <1>16, <2>1 DEF StartLands
    <2>3. pending' \in 0..MaxPending
      BY <1>16 DEF StartLands
    <2> QED
      BY <1>16, <2>2, <2>3 DEF StartLands
  <1>A. CASE AlwaysOnStart
    BY <1>A DEF AlwaysOnStart
  <1>L. CASE LogRefusal
    <2>1. ConsentRequired \in Lines
      BY DEF Lines, None, ConsentRequired
    <2> QED
      BY <1>L, <2>1 DEF LogRefusal
  <1>17. CASE UNCHANGED vars
    BY <1>17 DEF vars
  <1> QED
    BY <1>1, <1>2, <1>3, <1>4, <1>5, <1>6, <1>7, <1>8,
       <1>9, <1>10, <1>11, <1>12, <1>13, <1>14, <1>15, <1>16, <1>A, <1>L, <1>17 DEF Next, Host, Device


\* A boot's booleans only become true, and the newest line is the most that can be said.
LEMMA MonotoneStep ==
  ASSUME IInv, [Next]_vars
  PROVE  Monotone'
  <1> USE DEF IInv
  <1>1. CASE UNCHANGED <<boot, platform, log, setup, last>>
    BY <1>1 DEF Monotone, Both
  <1>2. CASE \/ Reboot \/ While \/ WaitForDevice \/ BootCompleted \/ Packages \/ Resolve \/ Activity
             \/ AppOps \/ Launch \/ Verdict \/ AlwaysOnStart \/ UNCHANGED vars
    <2>1. UNCHANGED <<boot, platform, log, setup, last>>
      BY <1>2 DEF Reboot, Raise, While, WaitForDevice, BootCompleted, Packages, Resolve, Activity,
                  Probe,
                  Succeeds, Fails, AppOps, Launch, Verdict, AlwaysOnStart, vars, harnessVars, deviceVars
    <2> QED
      BY <1>1, <2>1
  <1>3. CASE Clear
    BY <1>3 DEF Monotone, Both, Clear, Succeeds, Fails
  <1>4. CASE Poll
    BY <1>4 DEF Monotone, Both, Poll, Raise, deviceVars
  <1>5. CASE GoesDown
    BY <1>5 DEF Monotone, Both, Off, None, GoesDown, harnessVars
  <1>6. CASE ComesUp
    BY <1>6 DEF Monotone, Both, ComesUp, harnessVars
  <1>7. CASE PlatformLoads
    BY <1>7 DEF TypeOK, Monotone, Both, PlatformLoads, harnessVars
  <1>8. CASE StartLands
    BY <1>8 DEF TypeOK, Monotone, Both, Lines, Off, Established, StartLands, harnessVars
  <1>9. CASE LogRefusal
    <2>1. boot = "new"
      BY <1>9 DEF Consent, LogRefusal
    <2>2. ~ConsentRequired.alwaysOn /\ ~ConsentRequired.lockdown
      BY DEF None, ConsentRequired
    <2> QED
      BY <1>9, <2>1, <2>2 DEF Monotone, Both, LogRefusal, harnessVars
  <1> QED
    BY <1>2, <1>3, <1>4, <1>5, <1>6, <1>7, <1>8, <1>9 DEF Next, Host, Device

\* After the app-ops were set in the new boot no line says consent-required, unless late.
LEMMA ConsentStep ==
  ASSUME IInv, [Next]_vars
  PROVE  Consent'
  <1> USE DEF IInv, TypeOK, Consent, Before, Says, harnessVars, deviceVars, historyVars
  <1>1. CASE Reboot
    BY <1>1 DEF Reboot, Raise
  <1>2. CASE While
    BY <1>2 DEF While, Raise
  <1>3. CASE WaitForDevice
    BY <1>3 DEF WaitForDevice, Probe, Succeeds, Fails, Left, Smaller, Larger
  <1>4. CASE BootCompleted
    BY <1>4 DEF BootCompleted, Probe, Succeeds, Fails
  <1>5. CASE Packages
    BY <1>5 DEF Packages, Probe, Succeeds, Fails
  <1>6. CASE Resolve
    BY <1>6 DEF Resolve, Probe, Succeeds, Fails
  <1>7. CASE Activity
    BY <1>7 DEF Activity, Probe, Succeeds, Fails
  <1>8. CASE AppOps
    <2>1. CASE Succeeds(4 * CALL, "clear") /\ allowed' = TRUE /\ prepared' = boot
      BY <1>8, <2>1 DEF Boots, AppOps, Succeeds
    <2>2. CASE /\ Fails(4 * CALL, "consent-preparation-unavailable")
               /\ allowed' \in (IF boot = "down" THEN {allowed} ELSE {allowed, TRUE})
               /\ UNCHANGED prepared
      <3>1. allowed => allowed'
        BY <2>2, Zenon
      <3> QED
        BY <1>8, <2>2, <3>1 DEF AppOps, Fails
    <2> QED
      BY <1>8, <2>1, <2>2 DEF AppOps
  <1>9. CASE Clear
    BY <1>9 DEF Clear, Succeeds, Fails
  <1>10. CASE Launch
    BY <1>10 DEF Launch, Succeeds, Fails
  <1>11. CASE Poll
    <2>1. CASE setup' = log /\ boot # "down"
      <3>1. Says(setup', "consent-required") => boot = "new" /\ (prepared # "new" \/ late)
        BY <1>11, <2>1 DEF Poll
      <3>2. Says(setup', "consent-required") => prepared = "old" \/ late
        BY <1>11, <3>1 DEF Boots, Poll
      <3> QED
        BY <1>11, <2>1, <3>2 DEF Poll, Raise
    <2>2. CASE UNCHANGED setup /\ pc' = "raised"
      BY <1>11, <2>2 DEF Poll, Raise
    <2> QED
      BY <1>11, <2>1, <2>2 DEF Poll, Raise
  <1>12. CASE Verdict
    BY <1>12 DEF Verdict, Raise, SaysBoth
  <1>13. CASE GoesDown
    BY <1>13 DEF GoesDown
  <1>14. CASE ComesUp
    BY <1>14 DEF ComesUp
  <1>15. CASE PlatformLoads
    BY <1>15 DEF PlatformLoads, Ended
  <1>16. CASE StartLands
    <2>1. CASE ~allowed /\ refusing' = TRUE /\ UNCHANGED log
      <3>1. boot = "new" /\ prepared # "new"
        BY <1>16, <2>1 DEF Boots, StartLands
      <3> QED
        BY <1>16, <2>1, <3>1 DEF StartLands
    <2>2. CASE allowed /\ log' = log \cup {Established(platform)} /\ UNCHANGED refusing
      <3>1. Says(log', "consent-required") <=> Says(log, "consent-required")
        BY <2>2 DEF Established
      <3> QED
        BY <1>16, <2>2, <3>1 DEF StartLands
    <2>3. CASE UNCHANGED <<log, refusing>>
      BY <1>16, <2>3 DEF StartLands
    <2> QED
      BY <1>16, <2>1, <2>2, <2>3 DEF StartLands
  <1>A. CASE AlwaysOnStart
    BY <1>A DEF AlwaysOnStart
  <1>L. CASE LogRefusal
    <2>1. boot = "new"
      BY <1>L DEF LogRefusal
    <2> QED
      BY <1>L, <2>1 DEF LogRefusal
  <1>17. CASE UNCHANGED vars
    BY <1>17 DEF vars
  <1> QED
    BY <1>1, <1>2, <1>3, <1>4, <1>5, <1>6, <1>7, <1>8,
       <1>9, <1>10, <1>11, <1>12, <1>13, <1>14, <1>15, <1>16, <1>A, <1>L, <1>17 DEF Next, Host, Device


\* The time an attempt has taken is bounded by where it stands.
LEMMA ClockStep ==
  ASSUME IInv, [Next]_vars
  PROVE  Clock'
  <1> USE TimesAssumption DEF IInv, TypeOK, Clock, Spent, ATTEMPT
  <1>1. CASE Reboot
    BY <1>1 DEF Reboot, Raise
  <1>2. CASE While
    BY <1>2 DEF While, Raise
  <1>3. CASE WaitForDevice
    BY <1>3 DEF WaitForDevice, Probe, Succeeds, Fails, Left, Smaller, Larger
  <1>4. CASE BootCompleted
    BY <1>4 DEF BootCompleted, Probe, Succeeds, Fails
  <1>5. CASE Packages
    BY <1>5 DEF Packages, Probe, Succeeds, Fails
  <1>6. CASE Resolve
    BY <1>6 DEF Resolve, Probe, Succeeds, Fails
  <1>7. CASE Activity
    BY <1>7 DEF Activity, Probe, Succeeds, Fails
  <1>8. CASE AppOps
    <2>1. CASE Succeeds(4 * CALL, "clear")
      BY <1>8, <2>1 DEF Succeeds, AppOps
    <2>2. CASE Fails(4 * CALL, "consent-preparation-unavailable")
      BY <1>8, <2>2 DEF Fails, AppOps
    <2> QED
      BY <1>8, <2>1, <2>2 DEF AppOps
  <1>9. CASE Clear
    BY <1>9 DEF Clear, Succeeds, Fails
  <1>10. CASE Launch
    BY <1>10 DEF Launch, Succeeds, Fails
  <1>11. CASE Poll
    BY <1>11 DEF Poll, Raise
  <1>12. CASE Verdict
    BY <1>12 DEF Verdict, Raise
  <1>13. CASE Device \/ UNCHANGED vars
    <2>1. UNCHANGED <<pc, now>>
      BY <1>13 DEF Device, GoesDown, ComesUp, PlatformLoads, StartLands, AlwaysOnStart, LogRefusal,
                   vars, harnessVars
    <2> QED
      BY <2>1
  <1> QED
    BY <1>1, <1>2, <1>3, <1>4, <1>5, <1>6, <1>7, <1>8, <1>9, <1>10, <1>11, <1>12, <1>13
       DEF Next, Host

\* The verdict was reached by a line with both true.
LEMMA VerifiedStep ==
  ASSUME IInv, [Next]_vars
  PROVE  (pc = "verified" => SaysBoth(setup))'
  <1> USE DEF IInv
  <1>1. CASE Verdict
    BY <1>1 DEF Verdict, Raise, SaysBoth
  <1>2. CASE ~Verdict
    <2>1. pc' = "verified" => pc = "verified" /\ setup' = setup
      BY <1>2 DEF Next, Host, Device, Reboot, Raise, While, WaitForDevice, BootCompleted, Packages,
                  Resolve, Activity, AppOps, Clear, Launch, Probe, Succeeds, Fails, Poll,
                  GoesDown, ComesUp, PlatformLoads, StartLands, AlwaysOnStart, LogRefusal, vars, harnessVars
    <2> QED
      BY <2>1 DEF SaysBoth
  <1> QED
    BY <1>1, <1>2

-----------------------------------------------------------------------------
\* The initial states satisfy the invariant.
LEMMA InitIInv == Init => IInv
  <1> SUFFICES ASSUME Init PROVE IInv
    OBVIOUS
  <1>1. TypeOK
    <2>1. None \in Lines /\ Off \in [alwaysOn : BOOLEAN, lockdown : BOOLEAN]
      BY DEF None, Off, Lines
    <2>2. allowed \in BOOLEAN /\ refusing \in BOOLEAN /\ late \in BOOLEAN
      BY DEF Init
    <2>3. now \in Nat /\ polls \in 0..(MaxPolls - 1) /\ pending \in 0..MaxPending
      BY TimesAssumption DEF Init
    <2> QED
      BY <2>1, <2>2, <2>3 DEF Init, TypeOK, Boots
  <1>2. Monotone /\ Consent
    BY DEF Init, Monotone, Consent, Says
  <1>3. Clock
    BY TimesAssumption DEF Init, Clock, Spent
  <1> QED
    BY <1>1, <1>2, <1>3 DEF IInv, Init

\* The inductive invariant holds in every reachable state, whatever the timeouts.
THEOREM Invariance == Spec => []IInv
  <1>1. IInv /\ [Next]_vars => IInv'
    BY TypeOKStep, MonotoneStep, ConsentStep, ClockStep, VerifiedStep DEF IInv
  <1> QED
    BY InitIInv, <1>1, PTL DEF Spec

\* Every variable of the set-up keeps its type.
THEOREM TypeCorrect == Spec => []TypeOK
  BY Invariance, PTL DEF IInv

\* When the set-up passes (network-evidence.py:217-219) the TUN that is up was established
\* after the reboot, with always-on and lockdown both true.
THEOREM VerifiedLocked == Spec => []VerifiedTunIsLocked
  <1>1. IInv => VerifiedTunIsLocked
    <2> SUFFICES ASSUME IInv, pc = "verified" PROVE boot = "new" /\ last.alwaysOn /\ last.lockdown
      BY DEF VerifiedTunIsLocked
    <2>1. PICK l \in setup : Both(l)
      BY DEF IInv, SaysBoth, Both
    <2>2. Both(last) /\ platform.alwaysOn
      BY <2>1 DEF IInv, Monotone, Both
    <2> QED
      BY <2>2 DEF IInv, Monotone, Both, Off
  <1> QED
    BY Invariance, <1>1, PTL

\* A start is refused for want of consent (network-evidence.py:212-213) only if the app-ops were
\* last found set before the reboot, or the refusal was underway when the log was cleared.
THEOREM ConsentRefusals == Spec => []RefusalIsOld
  <1>1. IInv => RefusalIsOld
    BY DEF IInv, Consent, RefusalIsOld
  <1> QED
    BY Invariance, <1>1, PTL

\* The loop at network-evidence.py:51-92 overruns its deadline by less than one attempt with its
\* least wait for the device.
THEOREM Overrun == Spec => []OverrunIsOneAttempt
  <1>1. IInv => OverrunIsOneAttempt
    BY TimesAssumption DEF IInv, TypeOK, Clock, Spent, ATTEMPT, OverrunIsOneAttempt
  <1> QED
    BY Invariance, <1>1, PTL
-----------------------------------------------------------------------------
(* What is left to do.                                                     *)

\* Steps of the harness to the end of this attempt, at most.
Ahead ==
  CASE pc = "reboot"   -> MaxPolls + 11
    [] pc = "while"    -> MaxPolls + 10
    [] pc = "device"   -> MaxPolls + 9
    [] pc = "boot"     -> MaxPolls + 8
    [] pc = "packages" -> MaxPolls + 7
    [] pc = "resolve"  -> MaxPolls + 6
    [] pc = "activity" -> MaxPolls + 5
    [] pc = "appops"   -> MaxPolls + 4
    [] pc = "clear"    -> MaxPolls + 3
    [] pc = "launch"   -> MaxPolls + 2
    [] pc = "poll"     -> MaxPolls + 1 - polls
    [] pc = "verdict"  -> 1
    [] OTHER           -> 0

\* A step of the harness takes time or one of those steps; the device takes neither back.
HostAdvances ==
  /\ Host => now' > now \/ (now' = now /\ Ahead' < Ahead)
  /\ Device => now' = now /\ Ahead' = Ahead

\* A call that succeeds goes on in the attempt; one that fails takes the pause.
LEMMA CallAdvances ==
  ASSUME TypeOK, NEW limit \in Nat, NEW next, NEW name,
         Succeeds(limit, next) \/ Fails(limit, name),
         pc' = next => Ahead' < Ahead
  PROVE  now' > now \/ (now' = now /\ Ahead' < Ahead)
  <1>1. CASE Succeeds(limit, next)
    BY <1>1 DEF Succeeds, TypeOK
  <1>2. CASE Fails(limit, name)
    BY <1>2, TimesAssumption DEF Fails, TypeOK
  <1> QED
    BY <1>1, <1>2

\* A probe with its successor in the attempt.
LEMMA ProbeAdvances ==
  ASSUME TypeOK, NEW here, NEW next, NEW limit \in Nat, NEW name, Probe(here, next, limit, name),
         pc' = next => Ahead' < Ahead
  PROVE  now' > now \/ (now' = now /\ Ahead' < Ahead)
  BY CallAdvances DEF Probe

\* The set-up cannot go on forever: now is bounded (OverrunIsOneAttempt), Ahead at most MaxPolls
\* plus 11, and every step of the harness takes the one up or the other down.  Of the loop at
\* network-evidence.py:51-92 and the polls after it, whatever the device does.
THEOREM HostRunsOut ==
  Spec => []OverrunIsOneAttempt /\ [](Ahead \in 0..(MaxPolls + 11)) /\ [][HostAdvances]_vars
  <1>1. ASSUME IInv PROVE Ahead \in 0..(MaxPolls + 11)
    <2>1. MaxPolls \in Nat /\ polls \in Nat /\ polls <= MaxPolls - 1
      BY <1>1, TimesAssumption DEF IInv, TypeOK
    <2>2. CASE pc = "poll"
      BY <2>1, <2>2 DEF Ahead
    <2>3. CASE pc \in Before
      <3>1. \E k \in 2..11 : Ahead = MaxPolls + k
        BY <2>3 DEF Ahead, Before
      <3> QED
        BY <2>1, <3>1
    <2>4. CASE pc = "verdict"
      BY <2>1, <2>4 DEF Ahead
    <2>5. CASE pc \in {"verified", "unknown", "raised"}
      <3>1. Ahead = 0
        BY <2>5 DEF Ahead
      <3> QED
        BY <2>1, <3>1
    <2> QED
      BY <1>1, <2>2, <2>3, <2>4, <2>5 DEF IInv, TypeOK, Before
  <1>2. ASSUME IInv, Host PROVE now' > now \/ (now' = now /\ Ahead' < Ahead)
    <2> USE TimesAssumption DEF IInv
    <2>1. CASE Reboot
      BY <1>2, <2>1 DEF Reboot, Raise, TypeOK, Ahead
    <2>2. CASE While
      BY <1>2, <2>2 DEF While, Raise, TypeOK, Ahead
    <2>3. CASE WaitForDevice
      <3>1. pc = "device" /\ (pc' = "boot" => Ahead' < Ahead)
        BY <2>3 DEF WaitForDevice, Probe, Ahead
      <3>2. Left \in Nat
        BY <1>2, <2>3, <3>1 DEF TypeOK, Left, Smaller, Larger, Clock
      <3> QED
        BY <1>2, <2>3, <3>1, <3>2, ProbeAdvances DEF WaitForDevice
    <2>4. CASE BootCompleted
      <3>1. pc' = "packages" => Ahead' < Ahead
        BY <2>4 DEF BootCompleted, Probe, Ahead
      <3> QED
        BY <1>2, <2>4, <3>1, ProbeAdvances DEF BootCompleted
    <2>5. CASE Packages
      <3>1. pc' = "resolve" => Ahead' < Ahead
        BY <2>5 DEF Packages, Probe, Ahead
      <3>2. 2 * CALL \in Nat
        OBVIOUS
      <3> QED
        BY <1>2, <2>5, <3>1, <3>2, ProbeAdvances DEF Packages
    <2>6. CASE Resolve
      <3>1. pc' = "activity" => Ahead' < Ahead
        BY <2>6 DEF Resolve, Probe, Ahead
      <3> QED
        BY <1>2, <2>6, <3>1, ProbeAdvances DEF Resolve
    <2>7. CASE Activity
      <3>1. pc' = "appops" => Ahead' < Ahead
        BY <2>7 DEF Activity, Probe, Ahead
      <3> QED
        BY <1>2, <2>7, <3>1, ProbeAdvances DEF Activity
    <2>8. CASE AppOps
      <3>1. pc' = "clear" => Ahead' < Ahead
        BY <2>8 DEF AppOps, Ahead
      <3>2. 4 * CALL \in Nat
        OBVIOUS
      <3>3. Succeeds(4 * CALL, "clear") \/ Fails(4 * CALL, "consent-preparation-unavailable")
        BY <2>8 DEF AppOps
      <3> QED
        BY <1>2, <3>1, <3>2, <3>3, CallAdvances
    <2>9. CASE Clear
      <3>1. pc' = "launch" => Ahead' < Ahead
        BY <2>9 DEF Clear, Ahead
      <3>2. Succeeds(CALL, "launch") \/ Fails(CALL, "activity-manager-not-ready")
        BY <2>9 DEF Clear
      <3> QED
        BY <1>2, <3>1, <3>2, CallAdvances
    <2>10. CASE Launch
      <3>1. pc' = "poll" => Ahead' < Ahead
        <4>1. polls' = polls
          BY <2>10 DEF Launch, Succeeds, Fails
        <4> QED
          BY <1>2, <2>10, <4>1 DEF Launch, TypeOK, Ahead
      <3>2. Succeeds(LAUNCH, "poll") \/ Fails(LAUNCH, "controller-start-failed")
        BY <2>10 DEF Launch
      <3> QED
        BY <1>2, <3>1, <3>2, CallAdvances
    <2>11. CASE Poll
      BY <1>2, <2>11 DEF Poll, Raise, TypeOK, Ahead
    <2>12. CASE Verdict
      BY <1>2, <2>12 DEF Verdict, Raise, TypeOK, Ahead
    <2> QED
      BY <1>2, <2>1, <2>2, <2>3, <2>4, <2>5, <2>6, <2>7, <2>8, <2>9, <2>10, <2>11, <2>12 DEF Host
  <1>3. ASSUME Device PROVE now' = now /\ Ahead' = Ahead
    <2>1. UNCHANGED harnessVars
      BY <1>3 DEF Device, GoesDown, ComesUp, PlatformLoads, StartLands, AlwaysOnStart, LogRefusal
    <2> QED
      BY <2>1 DEF harnessVars, Ahead
  <1>4. IInv /\ [Next]_vars => [HostAdvances]_vars
    BY <1>2, <1>3 DEF HostAdvances
  <1> QED
    BY <1>1, <1>4, Invariance, Overrun, PTL DEF Spec
=============================================================================
