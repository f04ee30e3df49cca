---------------------- MODULE FixtureVpnService_proofs ----------------------
(***************************************************************************)
(* Proofs about the VPN fixture, for every number of service instances,    *)
(* TUNs, starts and replacements.  The argument: the monitor serialises    *)
(* main and Binder threads (MonitorInv); the descriptors that are open are *)
(* exactly those in a "tun" field (DescriptorInv); the token of a running  *)
(* observer never exceeds its service's generation, is below it while the  *)
(* monitor is held, and equals it only for the TUN in the field            *)
(* (TokenInv); hence a late record is the last one (LateInv).  That STOP   *)
(* leaves no TUN follows from the order of the messages (OrderInv); that   *)
(* a log at rest is true, from the STATE records still to come (LogInv);   *)
(* that the sessions are implemented, from IInv (ImplementsSafely).        *)
(***************************************************************************)
EXTENDS FixtureVpnService, TLAPS

InMonitor == {"close", "build", "launch"}

\* Who holds a monitor is inside a method that takes it.
MonitorInv ==
  /\ \A i \in Instances : lock[i] = "main" <=> (main.inst = i /\ main.pc \in InMonitor)
  /\ \A i \in Instances : lock[i] = "binder" <=> (binder.inst = i /\ binder.pc = "close")
  /\ main.pc \in {"build", "launch"} => main.task = "MODE"
  /\ main.pc \in {"enter", "close"} => main.task # "NONE"

\* A field holds an open descriptor, every open descriptor is in one field, and the TUN just
\* built has no observer yet.
DescriptorInv ==
  /\ \A i \in Instances : tun[i] # None => tun[i] \in open
  /\ \A t \in open : \E i \in Instances : tun[i] = t
  /\ \A i, j \in Instances : tun[i] = tun[j] /\ tun[i] # None => i = j
  /\ \A t \in Tuns : t > tuns => t \notin open /\ obs[t].pc = "none"
  /\ main.pc = "build" => tun[main.inst] = None
  /\ main.pc = "launch" => tun[main.inst] # None /\ obs[tun[main.inst]].pc = "none"

\* The generation separates the current observer from the superseded ones.
TokenInv ==
  \A t \in Tuns : Running(t) =>
    /\ obs[t].token <= generation[obs[t].inst]
    /\ lock[obs[t].inst] # "free" => obs[t].token < generation[obs[t].inst]
    /\ obs[t].token = generation[obs[t].inst] => tun[obs[t].inst] = t

ForeignInv == ForeignPacketOnlyWhenStale

\* Only a superseded observer, with no packet in hand and about to end, has logged late.
LateInv ==
  \A t \in Tuns :
    /\ late[t] <= 1
    /\ obs[t].pc = "none" => late[t] = 0
    /\ Running(t) /\ late[t] = 1 => obs[t].pc = "check" /\ Stale(t)

IInv == TypeOK /\ MonitorInv /\ DescriptorInv /\ TokenInv /\ ForeignInv /\ LateInv

-----------------------------------------------------------------------------
(* Types.                                                                  *)

Message == [kind : {"STOP", "MODE", "NONE", "DESTROY"}, inst : Instances]

\* There is an instance for the threads to start from.
LEMMA OneInstance == 1 \in Instances
  BY BoundsAssumption DEF Instances

\* Counting up one entry of a family of counters, whether or not it has that entry.
LEMMA CountUp ==
  ASSUME NEW S, NEW f \in [S -> Nat], NEW x
  PROVE  [f EXCEPT ![x] = f[x] + 1] \in [S -> Nat]
  <1>1. [f EXCEPT ![x] = f[x] + 1] = [y \in S |-> IF y = x THEN f[x] + 1 ELSE f[y]]
    BY Zenon
  <1>2. ASSUME NEW y \in S PROVE (IF y = x THEN f[x] + 1 ELSE f[y]) \in Nat
    OBVIOUS
  <1> QED
    BY <1>1, <1>2

\* A service that is let go gets at most one more message.
LEMMA ReleaseType ==
  ASSUME queue \in Seq(Message), live \in Instances \cup {None},
         NEW a \in BOOLEAN, NEW b \in BOOLEAN, Release(a, b)
  PROVE  queue' \in Seq(Message) /\ live' \in Instances \cup {None}
  <1>1. CASE a \/ b \/ live = None
    BY <1>1 DEF Release
  <1>2. CASE ~(a \/ b \/ live = None)
    <2>1. [kind |-> "DESTROY", inst |-> live] \in Message
      BY <1>2 DEF Message
    <2> QED
      BY <1>2, <2>1 DEF Release
  <1> QED
    BY <1>1, <1>2

\* A start posts one message to an instance within the bound.
LEMMA StartType ==
  ASSUME TypeAms, NEW k \in {"STOP", "MODE", "NONE"}, StartService(k)
  PROVE  TypeAms'
  <1> DEFINE target == IF live = None THEN created + 1 ELSE live
  <1>1. target \in Instances
    BY BoundsAssumption DEF TypeAms, StartService, Instances, None
  <1>2. [kind |-> k, inst |-> target] \in Message
    BY <1>1 DEF Message
  <1>3. queue' \in Seq(Message)
    BY <1>2 DEF TypeAms, StartService, Message
  <1>4. live' \in Instances \cup {None} /\ started' \in BOOLEAN
    BY <1>1 DEF StartService
  <1>5. created' \in 0..MaxInstances /\ commands' \in 0..MaxCommands
    BY <1>1, BoundsAssumption DEF TypeAms, StartService, Instances
  <1> QED
    BY <1>3, <1>4, <1>5 DEF TypeAms, Message

\* stopSelf() keeps the service manager's types.
LEMMA StopSelfType ==
  ASSUME TypeAms, TypeVpn, NEW i \in Instances, StopSelf(i), UNCHANGED <<created, commands>>
  PROVE  TypeAms'
  <1>1. CASE live = i
    BY <1>1, ReleaseType DEF TypeAms, TypeVpn, StopSelf, Message
  <1>2. CASE live # i
    BY <1>2 DEF TypeAms, StopSelf
  <1> QED
    BY <1>1, <1>2

\* Every variable keeps its type.
LEMMA TypeStep == TypeOK /\ MonitorInv /\ [Next]_vars => TypeOK'
  <1>1. ASSUME TypeOK, MonitorInv, MainTake PROVE TypeOK'
    <2>1. TypeThreads'
      <3>1. queue \in Seq(Message) /\ queue # <<>>
        BY <1>1 DEF TypeOK, TypeAms, MainTake, Message
      <3>2. Head(queue) \in Message
        BY <3>1
      <3> QED
        BY <1>1, <3>2 DEF TypeOK, TypeThreads, MainTake, Message
    <2>2. TypeAms'
      BY <1>1 DEF TypeOK, TypeAms, MainTake
    <2> QED
      BY <1>1, <2>1, <2>2 DEF TypeOK, TypeService, TypeObservers, TypeTuns, TypeVpn, TypeLog,
                              MainTake, serviceVars, amsVars, vpnVars, tunVars, logVars
  <1>2. ASSUME TypeOK, MonitorInv, MainPrepare PROVE TypeOK'
    <2>1. TypeThreads'
      BY <1>2, BoundsAssumption DEF TypeOK, TypeThreads, MainPrepare, Instances, Tuns, None
    <2>2. TypeVpn'
      BY <1>2, BoundsAssumption DEF TypeOK, TypeVpn, MainPrepare, Instances, Tuns, None
    <2>3. TypeLog'
      BY <1>2, BoundsAssumption DEF TypeOK, TypeLog, MainPrepare, Instances, Tuns, None
    <2> QED
      BY <1>2, <2>1, <2>2, <2>3 DEF TypeOK, TypeService, TypeObservers, TypeTuns, TypeAms,
                                    MainPrepare, serviceVars, amsVars, vpnVars, tunVars, logVars
  <1>3. ASSUME TypeOK, MonitorInv, MainEnter PROVE TypeOK'
    <2>1. TypeService'
      BY <1>3 DEF TypeOK, TypeService, MainEnter, BeginClose, TypeThreads
    <2>2. TypeThreads'
      BY <1>3 DEF TypeOK, TypeThreads, MainEnter
    <2> QED
      BY <1>3, <2>1, <2>2 DEF TypeOK, TypeObservers, TypeTuns, TypeAms, TypeVpn, TypeLog, MainEnter,
                              serviceVars, amsVars, vpnVars, tunVars, logVars
  <1>4. ASSUME TypeOK, MonitorInv, MainClose PROVE TypeOK'
    <2>1. TypeService'
      BY <1>4, BoundsAssumption DEF TypeOK, TypeService, MainClose, EndClose, Instances, Tuns, None
    <2>2. TypeThreads'
      BY <1>4, OneInstance, BoundsAssumption DEF TypeOK, TypeThreads, MainClose, Idle, MonitorInv,
                                                 Instances, Tuns, None
    <2>3. TypeTuns'
      BY <1>4, BoundsAssumption DEF TypeOK, TypeTuns, MainClose, EndClose, Instances, Tuns, None
    <2>4. TypeVpn'
      BY <1>4, BoundsAssumption DEF TypeOK, TypeVpn, MainClose, EndClose, Instances, Tuns, None
    <2>5. TypeLog'
      BY <1>4, BoundsAssumption DEF TypeOK, TypeLog, MainClose, Instances, Tuns, None
    <2> QED
      BY <1>4, <2>1, <2>2, <2>3, <2>4, <2>5 DEF TypeOK, TypeObservers, TypeAms, MainClose,
                                                serviceVars, amsVars, vpnVars, tunVars, logVars
  <1>5. ASSUME TypeOK, MonitorInv, MainBuild PROVE TypeOK'
    <2>1. TypeService'
      BY <1>5, BoundsAssumption DEF TypeOK, TypeService, MainBuild, TypeThreads, TypeTuns,
                                    Instances, Tuns, None
    <2>2. TypeThreads'
      BY <1>5, BoundsAssumption DEF TypeOK, TypeThreads, MainBuild, Instances, Tuns, None
    <2>3. TypeTuns'
      BY <1>5, BoundsAssumption DEF TypeOK, TypeTuns, MainBuild, Instances, Tuns, None
    <2>4. TypeAms'
      BY <1>5, BoundsAssumption DEF TypeOK, TypeAms, MainBuild, Instances, Tuns, None
    <2>5. TypeVpn'
      BY <1>5, BoundsAssumption DEF TypeOK, TypeVpn, MainBuild, TypeTuns, Instances, Tuns, None
    <2> QED
      BY <1>5, <2>1, <2>2, <2>3, <2>4, <2>5 DEF TypeOK, TypeObservers, TypeLog, MainBuild,
                                                serviceVars, amsVars, vpnVars, tunVars, logVars
  <1>6. ASSUME TypeOK, MonitorInv, MainBuildFails PROVE TypeOK'
    <2>1. TypeService'
      BY <1>6 DEF TypeOK, TypeService, MainBuildFails, TypeThreads
    <2>2. TypeThreads'
      BY <1>6 DEF TypeOK, TypeThreads, MainBuildFails
    <2>3. TypeLog'
      BY <1>6 DEF TypeOK, TypeLog, MainBuildFails
    <2> QED
      BY <1>6, <2>1, <2>2, <2>3 DEF TypeOK, TypeObservers, TypeTuns, TypeAms, TypeVpn,
                                    MainBuildFails, serviceVars, amsVars, vpnVars, tunVars, logVars
  <1>7. ASSUME TypeOK, MonitorInv, MainLaunch PROVE TypeOK'
    <2>1. TypeService'
      BY <1>7, BoundsAssumption DEF TypeOK, TypeService, MainLaunch, Instances, Tuns, None
    <2>2. TypeThreads'
      BY <1>7, OneInstance, BoundsAssumption DEF TypeOK, TypeThreads, MainLaunch, Idle, Instances,
                                                 Tuns, None
    <2>3. TypeObservers'
      BY <1>7, BoundsAssumption DEF TypeOK, TypeObservers, MainLaunch, TypeThreads, TypeService,
                                    Instances, Tuns, None
    <2>4. TypeLog'
      BY <1>7, BoundsAssumption DEF TypeOK, TypeLog, MainLaunch, Instances, Tuns, None
    <2> QED
      BY <1>7, <2>1, <2>2, <2>3, <2>4 DEF TypeOK, TypeTuns, TypeAms, TypeVpn, MainLaunch,
                                          serviceVars, amsVars, vpnVars, tunVars, logVars
  <1>8. ASSUME TypeOK, MonitorInv, MainStopSelf PROVE TypeOK'
    <2>1. TypeThreads'
      BY <1>8, OneInstance DEF TypeOK, TypeThreads, MainStopSelf, Idle
    <2>2. TypeAms'
      BY <1>8, StopSelfType DEF TypeOK, TypeAms, MainStopSelf, TypeThreads
    <2>3. TypeLog'
      BY <1>8 DEF TypeOK, TypeLog, MainStopSelf
    <2> QED
      BY <1>8, <2>1, <2>2, <2>3 DEF TypeOK, TypeService, TypeObservers, TypeTuns, TypeVpn,
                                    MainStopSelf, serviceVars, amsVars, vpnVars, tunVars, logVars
  <1>9. ASSUME TypeOK, MonitorInv, RevokeEnter PROVE TypeOK'
    <2>1. TypeService'
      BY <1>9 DEF TypeOK, TypeService, RevokeEnter, BeginClose, TypeThreads
    <2>2. TypeThreads'
      BY <1>9 DEF TypeOK, TypeThreads, RevokeEnter
    <2> QED
      BY <1>9, <2>1, <2>2 DEF TypeOK, TypeObservers, TypeTuns, TypeAms, TypeVpn, TypeLog,
                              RevokeEnter, serviceVars, amsVars, vpnVars, tunVars, logVars
  <1>10. ASSUME TypeOK, MonitorInv, RevokeClose PROVE TypeOK'
    <2>1. TypeService'
      BY <1>10, BoundsAssumption DEF TypeOK, TypeService, RevokeClose, EndClose, Instances, Tuns,
                                     None
    <2>2. TypeThreads'
      BY <1>10, BoundsAssumption DEF TypeOK, TypeThreads, RevokeClose, Instances, Tuns, None
    <2>3. TypeTuns'
      BY <1>10, BoundsAssumption DEF TypeOK, TypeTuns, RevokeClose, EndClose, Instances, Tuns, None
    <2>4. TypeVpn'
      BY <1>10, BoundsAssumption DEF TypeOK, TypeVpn, RevokeClose, EndClose, Instances, Tuns, None
    <2> QED
      BY <1>10, <2>1, <2>2, <2>3, <2>4 DEF TypeOK, TypeObservers, TypeAms, TypeLog, RevokeClose,
                                           serviceVars, amsVars, vpnVars, tunVars, logVars
  <1>11. ASSUME TypeOK, MonitorInv, RevokeStopSelf PROVE TypeOK'
    <2>1. TypeThreads'
      BY <1>11, OneInstance DEF TypeOK, TypeThreads, RevokeStopSelf, BinderIdle
    <2>2. TypeAms'
      BY <1>11, StopSelfType DEF TypeOK, TypeAms, RevokeStopSelf, TypeThreads
    <2> QED
      BY <1>11, <2>1, <2>2 DEF TypeOK, TypeService, TypeObservers, TypeTuns, TypeVpn, TypeLog,
                               RevokeStopSelf, serviceVars, amsVars, vpnVars, tunVars, logVars
  <1>12. ASSUME TypeOK, MonitorInv, ControllerStop PROVE TypeOK'
    <2>1. TypeAms'
      BY <1>12, StartType DEF TypeOK, TypeAms, ControllerStop
    <2> QED
      BY <1>12, <2>1 DEF TypeOK, TypeService, TypeThreads, TypeObservers, TypeTuns, TypeVpn,
                         TypeLog, ControllerStop, serviceVars, amsVars, vpnVars, tunVars, logVars
  <1>13. ASSUME TypeOK, MonitorInv, ControllerStart PROVE TypeOK'
    <2>1. TypeAms'
      BY <1>13, StartType DEF TypeOK, ControllerStart, amsVars, TypeAms
    <2>2. TypeVpn'
      BY <1>13 DEF TypeOK, TypeVpn, ControllerStart
    <2>3. TypeLog'
      BY <1>13 DEF TypeOK, TypeLog, ControllerStart
    <2> QED
      BY <1>13, <2>1, <2>2, <2>3 DEF TypeOK, TypeService, TypeThreads, TypeObservers, TypeTuns,
                                     ControllerStart, serviceVars, amsVars, vpnVars, tunVars,
                                     logVars
  <1>14. ASSUME TypeOK, MonitorInv, AlwaysOnStart PROVE TypeOK'
    <2>1. TypeAms'
      BY <1>14, StartType DEF TypeOK, TypeAms, AlwaysOnStart
    <2> QED
      BY <1>14, <2>1 DEF TypeOK, TypeService, TypeThreads, TypeObservers, TypeTuns, TypeVpn,
                         TypeLog, AlwaysOnStart, serviceVars, amsVars, vpnVars, tunVars, logVars
  <1>15. ASSUME TypeOK, MonitorInv, OtherProviderPrepares PROVE TypeOK'
    <2>1. TypeAms'
      BY <1>15, ReleaseType DEF TypeOK, OtherProviderPrepares, TypeAms, Message
    <2>2. TypeVpn'
      <3>1. revokes' \in [Instances -> Nat]
        <4>1. revokes \in [Instances -> Nat]
          BY <1>15 DEF TypeOK, TypeVpn
        <4>2. [revokes EXCEPT ![live] = @ + 1] \in [Instances -> Nat]
          BY <4>1, CountUp
        <4> QED
          BY <1>15, <4>1, <4>2, Zenon DEF OtherProviderPrepares
      <3>2. replacements' \in 0..MaxReplacements
        BY <1>15, BoundsAssumption DEF TypeOK, TypeVpn, OtherProviderPrepares
      <3>3. prepared' \in BOOLEAN /\ bound' \in BOOLEAN /\ active' \in Tuns \cup {None}
        BY <1>15, Zenon DEF OtherProviderPrepares
      <3> QED
        BY <3>1, <3>2, <3>3, Zenon DEF TypeVpn
    <2> QED
      BY <1>15, <2>1, <2>2 DEF TypeOK, TypeService, TypeThreads, TypeObservers, TypeTuns, TypeLog,
                               OtherProviderPrepares, serviceVars, amsVars, vpnVars, tunVars,
                               logVars
  <1>16. ASSUME TypeOK, MonitorInv, Unbind PROVE TypeOK'
    <2>1. TypeAms'
      BY <1>16, ReleaseType DEF TypeOK, Unbind, TypeAms, Message
    <2>2. TypeVpn'
      BY <1>16 DEF TypeOK, TypeVpn, Unbind
    <2> QED
      BY <1>16, <2>1, <2>2 DEF TypeOK, TypeService, TypeThreads, TypeObservers, TypeTuns, TypeLog,
                               Unbind, serviceVars, amsVars, vpnVars, tunVars, logVars
  <1>17. ASSUME TypeOK, MonitorInv, ForceStop PROVE TypeOK'
    <2>1. TypeService'
      BY <1>17, BoundsAssumption DEF TypeOK, TypeService, ForceStop, Instances, Tuns, None
    <2>2. TypeThreads'
      BY <1>17, OneInstance, BoundsAssumption DEF TypeOK, TypeThreads, ForceStop, Idle, BinderIdle,
                                                  Instances, Tuns, None
    <2>3. TypeObservers'
      BY <1>17, BoundsAssumption DEF TypeOK, TypeObservers, ForceStop, Instances, Tuns, None
    <2>4. TypeTuns'
      BY <1>17, BoundsAssumption DEF TypeOK, TypeTuns, ForceStop, Instances, Tuns, None
    <2>5. TypeAms'
      <3>1. queue' \in Seq(Message)
        BY <1>17 DEF ForceStop
      <3> QED
        BY <1>17, <3>1 DEF TypeOK, TypeAms, ForceStop, Message
    <2>6. TypeVpn'
      BY <1>17, BoundsAssumption DEF TypeOK, TypeVpn, ForceStop, Instances, Tuns, None
    <2>7. TypeLog'
      BY <1>17, BoundsAssumption DEF TypeOK, TypeLog, ForceStop, Instances, Tuns, None
    <2> QED
      BY <2>1, <2>2, <2>3, <2>4, <2>5, <2>6, <2>7 DEF TypeOK
  <1>18. ASSUME TypeOK, MonitorInv, NEW i \in Instances, RevokeDeliver(i) PROVE TypeOK'
    <2>1. TypeThreads'
      BY <1>18, BoundsAssumption DEF TypeOK, TypeThreads, RevokeDeliver, Instances, Tuns, None
    <2>2. TypeVpn'
      BY <1>18, BoundsAssumption DEF TypeOK, TypeVpn, RevokeDeliver, Instances, Tuns, None
    <2>3. TypeLog'
      BY <1>18, BoundsAssumption DEF TypeOK, TypeLog, RevokeDeliver, Instances, Tuns, None
    <2> QED
      BY <1>18, <2>1, <2>2, <2>3 DEF TypeOK, TypeService, TypeObservers, TypeTuns, TypeAms,
                                     RevokeDeliver, serviceVars, amsVars, vpnVars, tunVars, logVars
  <1>19. ASSUME TypeOK, MonitorInv, NEW t \in Tuns, ObserverCheck(t) PROVE TypeOK'
    <2>1. TypeObservers'
      BY <1>19 DEF TypeOK, TypeObservers, ObserverCheck
    <2> QED
      BY <1>19, <2>1 DEF TypeOK, TypeService, TypeThreads, TypeTuns, TypeAms, TypeVpn, TypeLog,
                         ObserverCheck, serviceVars, amsVars, vpnVars, tunVars, logVars
  <1>20. ASSUME TypeOK, MonitorInv, NEW t \in Tuns, ObserverRead(t) PROVE TypeOK'
    <2>1. TypeObservers'
      BY <1>20 DEF TypeOK, TypeObservers, ObserverRead, TypeTuns
    <2> QED
      BY <1>20, <2>1 DEF TypeOK, TypeService, TypeThreads, TypeTuns, TypeAms, TypeVpn, TypeLog,
                         ObserverRead, serviceVars, amsVars, vpnVars, tunVars, logVars
  <1>21. ASSUME TypeOK, MonitorInv, NEW t \in Tuns, ObserverEmit(t) PROVE TypeOK'
    <2>1. TypeObservers'
      BY <1>21 DEF TypeOK, TypeObservers, ObserverEmit
    <2>2. TypeLog'
      BY <1>21 DEF TypeOK, TypeLog, ObserverEmit
    <2> QED
      BY <1>21, <2>1, <2>2 DEF TypeOK, TypeService, TypeThreads, TypeTuns, TypeAms, TypeVpn,
                               ObserverEmit, serviceVars, amsVars, vpnVars, tunVars, logVars
  <1>22. ASSUME TypeOK, UNCHANGED vars PROVE TypeOK'
    BY <1>22, SMTT(30) DEF TypeOK, TypeService, TypeThreads, TypeObservers, TypeTuns, TypeAms,
                           TypeVpn, TypeLog, serviceVars, amsVars, vpnVars, tunVars, logVars, vars
  <1> QED
    BY <1>1, <1>2, <1>3, <1>4, <1>5, <1>6, <1>7, <1>8, <1>9, <1>10, <1>11, <1>12, <1>13, <1>14,
       <1>15, <1>16, <1>17, <1>18, <1>19, <1>20, <1>21, <1>22
          DEF Next, Main, Revoke, Observer, Host, Android

-----------------------------------------------------------------------------
(* Steps that touch neither a service's fields nor a descriptor nor an     *)
(* observer.                                                               *)

Elsewhere ==
  \/ MainTake \/ MainPrepare \/ MainStopSelf
  \/ \E i \in Instances : RevokeDeliver(i)
  \/ RevokeStopSelf
  \/ Host
  \/ AlwaysOnStart \/ OtherProviderPrepares \/ Unbind
  \/ UNCHANGED vars

\* Such a step leaves the fields alone and keeps both threads outside every monitor, or where
\* they were.
LEMMA ElsewhereFrame ==
  ASSUME TypeOK, Elsewhere
  PROVE  /\ UNCHANGED <<generation, tun, lock, obs, open, tuns, late>>
         /\ UNCHANGED main \/ (main.pc \notin InMonitor /\ main'.pc \notin InMonitor)
         /\ UNCHANGED binder \/ (binder.pc # "close" /\ binder'.pc # "close")
         /\ main'.pc = "enter" => UNCHANGED main \/ main'.task # "NONE"
  <1> USE DEF TypeOK, InMonitor, serviceVars, amsVars, vpnVars, tunVars, logVars
  <1>1. CASE MainTake
    BY <1>1 DEF MainTake, TypeThreads, TypeAms
  <1>2. CASE MainPrepare
    BY <1>2 DEF MainPrepare, TypeThreads
  <1>3. CASE MainStopSelf
    BY <1>3 DEF MainStopSelf, Idle, TypeThreads
  <1>4. CASE RevokeStopSelf
    BY <1>4 DEF RevokeStopSelf, BinderIdle, TypeThreads
  <1>5. CASE Host
    BY <1>5 DEF Host, ControllerStop, ControllerStart
  <1>6. CASE AlwaysOnStart
    BY <1>6 DEF AlwaysOnStart
  <1>7. CASE OtherProviderPrepares
    BY <1>7 DEF OtherProviderPrepares
  <1>8. CASE Unbind
    BY <1>8 DEF Unbind
  <1>9. CASE UNCHANGED vars
    BY <1>9 DEF vars
  <1>10. ASSUME NEW i \in Instances, RevokeDeliver(i)
        PROVE  /\ UNCHANGED <<generation, tun, lock, obs, open, tuns, late, main>>
               /\ binder.pc # "close" /\ binder'.pc # "close"
    BY <1>10 DEF RevokeDeliver
  <1> QED
    BY <1>1, <1>2, <1>3, <1>4, <1>5, <1>6, <1>7, <1>8, <1>9, <1>10 DEF Elsewhere

\* Every step is one of those or one of the steps treated one by one below.
LEMMA StepCases ==
  ASSUME [Next]_vars
  PROVE  \/ Elsewhere
         \/ MainEnter \/ MainClose \/ MainBuild \/ MainBuildFails \/ MainLaunch
         \/ RevokeEnter \/ RevokeClose
         \/ \E t \in Tuns : Observer(t)
         \/ ForceStop
  BY DEF Next, Main, Revoke, Android, Elsewhere

\* An observer's step changes its own record, and its count of late records, only.
LEMMA ObserverFrame ==
  ASSUME TypeOK, NEW t \in Tuns, Observer(t)
  PROVE  /\ UNCHANGED <<generation, tun, lock, open, tuns, main, binder>>
         /\ obs[t].pc \in {"check", "read", "emit"}
         /\ \A u \in Tuns : u # t => obs'[u] = obs[u] /\ late'[u] = late[u]
         /\ obs'[t].inst = obs[t].inst /\ obs'[t].token = obs[t].token
         /\ obs'[t].pc \in {"check", "read", "emit", "done"}
  <1> USE DEF TypeOK, TypeObservers, TypeLog, serviceVars, tunVars, logVars
  <1>1. CASE ObserverCheck(t)
    BY <1>1 DEF ObserverCheck
  <1>2. CASE ObserverRead(t)
    BY <1>2 DEF ObserverRead
  <1>3. CASE ObserverEmit(t)
    BY <1>3 DEF ObserverEmit
  <1> QED
    BY <1>1, <1>2, <1>3 DEF Observer

-----------------------------------------------------------------------------
(* The monitor.                                                            *)

\* No step breaks the mutual exclusion of the monitor.
LEMMA MonitorStep == TypeOK /\ MonitorInv /\ [Next]_vars => MonitorInv'
  <1> USE DEF MonitorInv, InMonitor, TypeOK, TypeService, TypeThreads, serviceVars
  <1>1. ASSUME TypeOK, MonitorInv, Elsewhere PROVE MonitorInv'
    BY <1>1, ElsewhereFrame
  <1>2. ASSUME TypeOK, MonitorInv, MainEnter PROVE MonitorInv'
    BY <1>2 DEF MainEnter, BeginClose
  <1>3. ASSUME TypeOK, MonitorInv, MainClose PROVE MonitorInv'
    BY <1>3 DEF MainClose, EndClose, Idle
  <1>4. ASSUME TypeOK, MonitorInv, MainBuild PROVE MonitorInv'
    BY <1>4 DEF MainBuild
  <1>5. ASSUME TypeOK, MonitorInv, MainBuildFails PROVE MonitorInv'
    BY <1>5 DEF MainBuildFails
  <1>6. ASSUME TypeOK, MonitorInv, MainLaunch PROVE MonitorInv'
    BY <1>6 DEF MainLaunch, Idle
  <1>7. ASSUME TypeOK, MonitorInv, RevokeEnter PROVE MonitorInv'
    BY <1>7 DEF RevokeEnter, BeginClose
  <1>8. ASSUME TypeOK, MonitorInv, RevokeClose PROVE MonitorInv'
    BY <1>8 DEF RevokeClose, EndClose
  <1>9. ASSUME TypeOK, MonitorInv, ForceStop PROVE MonitorInv'
    BY <1>9 DEF ForceStop, Idle, BinderIdle
  <1>10. ASSUME TypeOK, MonitorInv, NEW t \in Tuns, Observer(t) PROVE MonitorInv'
    BY <1>10, ObserverFrame
  <1> QED
    BY <1>1, <1>2, <1>3, <1>4, <1>5, <1>6, <1>7, <1>8, <1>9, <1>10, StepCases

-----------------------------------------------------------------------------
(* Descriptors.                                                            *)

\* closeTun's second step takes one descriptor out of its field and out of the open ones.
LEMMA CloseDescriptor ==
  ASSUME TypeOK, DescriptorInv, NEW k \in Instances, EndClose(k)
  PROVE  /\ \A i \in Instances : tun'[i] # None => tun'[i] \in open'
         /\ \A t \in open' : \E i \in Instances : tun'[i] = t
         /\ \A i, j \in Instances : tun'[i] = tun'[j] /\ tun'[i] # None => i = j
         /\ open' \subseteq open
         /\ tun'[k] = None
         /\ \A i \in Instances : i # k => tun'[i] = tun[i]
  <1> USE DEF TypeOK, TypeService, EndClose
  <1>1. tun'[k] = None /\ \A i \in Instances : i # k => tun'[i] = tun[i]
    OBVIOUS
  <1>2. open' = open \ {tun[k]}
    OBVIOUS
  <1> QED
    BY <1>1, <1>2 DEF DescriptorInv

\* No step leaves an open descriptor outside the fields, or a closed one in them.
LEMMA DescriptorStep == TypeOK /\ MonitorInv /\ DescriptorInv /\ [Next]_vars => DescriptorInv'
  <1> USE DEF TypeOK, TypeService, TypeThreads, TypeTuns, InMonitor
  <1>1. ASSUME TypeOK, MonitorInv, DescriptorInv, Elsewhere PROVE DescriptorInv'
    BY <1>1, ElsewhereFrame DEF DescriptorInv
  <1>2. ASSUME TypeOK, MonitorInv, DescriptorInv, MainEnter PROVE DescriptorInv'
    BY <1>2 DEF DescriptorInv, MainEnter, BeginClose, tunVars
  <1>3. ASSUME TypeOK, MonitorInv, DescriptorInv, MainClose PROVE DescriptorInv'
    <2>1. main.inst \in Instances /\ EndClose(main.inst)
      BY <1>3 DEF MainClose
    <2>2. UNCHANGED <<tuns, obs>>
      BY <1>3 DEF MainClose
    <2>3. main'.pc = "build" => main'.inst = main.inst
      BY <1>3 DEF MainClose, Idle, MonitorInv
    <2>4. main'.pc # "launch"
      BY <1>3 DEF MainClose, Idle, MonitorInv
    <2> QED
      BY <1>3, <2>1, <2>2, <2>3, <2>4, CloseDescriptor DEF DescriptorInv
  <1>4. ASSUME TypeOK, MonitorInv, DescriptorInv, MainBuild PROVE DescriptorInv'
    <2> DEFINE n == tuns + 1
    <2>1. n \in Tuns /\ n # None /\ n \notin open /\ obs[n].pc = "none"
      BY <1>4, BoundsAssumption DEF MainBuild, DescriptorInv, Tuns, None
    <2>2. tun'[main.inst] = n /\ \A i \in Instances : i # main.inst => tun'[i] = tun[i]
      BY <1>4 DEF MainBuild
    <2>3. open' = open \cup {n} /\ tuns' = n /\ UNCHANGED obs
      BY <1>4 DEF MainBuild
    <2>4. main'.pc = "launch" /\ main'.inst = main.inst /\ main.inst \in Instances
      BY <1>4 DEF MainBuild
    <2>5. tun[main.inst] = None
      BY <1>4 DEF MainBuild, DescriptorInv
    <2>6. \A t \in Tuns : t > tuns' => t \notin open' /\ obs'[t].pc = "none"
      BY <1>4, <2>3, BoundsAssumption DEF DescriptorInv, Tuns
    <2>7. \A i \in Instances : tun'[i] # None => tun'[i] \in open'
      BY <1>4, <2>2, <2>3 DEF DescriptorInv
    <2>8. \A t \in open' : \E i \in Instances : tun'[i] = t
      BY <1>4, <2>2, <2>3, <2>4, <2>5 DEF DescriptorInv, Tuns, None
    <2>9. \A i, j \in Instances : tun'[i] = tun'[j] /\ tun'[i] # None => i = j
      BY <1>4, <2>1, <2>2 DEF DescriptorInv
    <2> QED
      BY <2>1, <2>2, <2>3, <2>4, <2>6, <2>7, <2>8, <2>9 DEF DescriptorInv
  <1>5. ASSUME TypeOK, MonitorInv, DescriptorInv, MainBuildFails PROVE DescriptorInv'
    BY <1>5 DEF DescriptorInv, MainBuildFails, tunVars
  <1>6. ASSUME TypeOK, MonitorInv, DescriptorInv, MainLaunch PROVE DescriptorInv'
    <2>1. UNCHANGED <<tun, open, tuns>> /\ main'.pc = "idle"
      BY <1>6 DEF MainLaunch, Idle, tunVars
    <2>2. tun[main.inst] \in open
      BY <1>6 DEF MainLaunch, DescriptorInv
    <2>3. \A t \in Tuns : t # tun[main.inst] => obs'[t] = obs[t]
      BY <1>6 DEF MainLaunch, TypeObservers
    <2> QED
      BY <1>6, <2>1, <2>2, <2>3 DEF DescriptorInv
  <1>7. ASSUME TypeOK, MonitorInv, DescriptorInv, RevokeEnter PROVE DescriptorInv'
    BY <1>7 DEF DescriptorInv, RevokeEnter, BeginClose, tunVars
  <1>8. ASSUME TypeOK, MonitorInv, DescriptorInv, RevokeClose PROVE DescriptorInv'
    <2>1. binder.inst \in Instances /\ EndClose(binder.inst)
      BY <1>8 DEF RevokeClose
    <2>2. UNCHANGED <<tuns, obs, main>>
      BY <1>8 DEF RevokeClose
    <2>3. main.pc \in {"build", "launch"} => main.inst # binder.inst
      BY <1>8 DEF RevokeClose, MonitorInv
    <2> QED
      BY <1>8, <2>1, <2>2, <2>3, CloseDescriptor DEF DescriptorInv
  <1>9. ASSUME TypeOK, MonitorInv, DescriptorInv, ForceStop PROVE DescriptorInv'
    <2>1. \A i \in Instances : tun'[i] = None
      BY <1>9 DEF ForceStop
    <2>2. open' = {} /\ UNCHANGED tuns /\ main'.pc = "idle"
      BY <1>9 DEF ForceStop, Idle
    <2>3. \A t \in Tuns : obs[t].pc = "none" => obs'[t].pc = "none"
      BY <1>9 DEF ForceStop
    <2> QED
      BY <1>9, <2>1, <2>2, <2>3 DEF DescriptorInv
  <1>10. ASSUME TypeOK, MonitorInv, DescriptorInv, NEW t \in Tuns, Observer(t) PROVE DescriptorInv'
    <2>1. \A u \in Tuns : obs[u].pc = "none" => obs'[u].pc = "none"
      BY <1>10, ObserverFrame
    <2> QED
      BY <1>10, <2>1, ObserverFrame DEF DescriptorInv
  <1> QED
    BY <1>1, <1>2, <1>3, <1>4, <1>5, <1>6, <1>7, <1>8, <1>9, <1>10, StepCases

-----------------------------------------------------------------------------
(* Tokens.                                                                 *)

\* Entering closeTun makes every observer of that service stale, and no other one current.
LEMMA CloseSupersedes ==
  ASSUME TypeOK, TokenInv, NEW k \in Instances, NEW thread \in {"main", "binder"},
         BeginClose(k, thread), UNCHANGED <<obs, tun>>
  PROVE  /\ TokenInv'
         /\ \A t \in Tuns : Running(t) /\ Stale(t) => Stale(t)'
  <1> USE DEF TypeOK, TypeService, TypeObservers, BeginClose, Running
  <1>1. SUFFICES ASSUME NEW t \in Tuns, Running(t)
                 PROVE  /\ obs[t].token <= generation'[obs[t].inst]
                        /\ lock'[obs[t].inst] # "free" => obs[t].token < generation'[obs[t].inst]
                        /\ obs[t].token = generation'[obs[t].inst] => tun[obs[t].inst] = t
                        /\ Stale(t) => obs[t].token # generation'[obs[t].inst]
    BY DEF TokenInv, Stale
  <1>2. obs[t].inst \in Instances /\ obs[t].token \in Nat /\ generation[obs[t].inst] \in Nat
    OBVIOUS
  <1>3. CASE obs[t].inst = k
    <2>1. generation'[k] = generation[k] + 1
      OBVIOUS
    <2>2. obs[t].token <= generation[k]
      BY <1>1, <1>3 DEF TokenInv
    <2> QED
      BY <1>2, <1>3, <2>1, <2>2
  <1>4. CASE obs[t].inst # k
    <2>1. generation'[obs[t].inst] = generation[obs[t].inst] /\ lock'[obs[t].inst] = lock[obs[t].inst]
      BY <1>2, <1>4
    <2> QED
      BY <1>1, <2>1 DEF TokenInv, Stale
  <1> QED
    BY <1>3, <1>4

\* While its monitor is held a service may change its field: no observer of it is current.
LEMMA HeldMonitorFrame ==
  ASSUME TypeOK, TokenInv, NEW k \in Instances, lock[k] # "free",
         UNCHANGED <<obs, generation>>,
         \A i \in Instances : i # k => tun'[i] = tun[i] /\ lock'[i] = lock[i]
  PROVE  TokenInv'
  <1>1. SUFFICES ASSUME NEW t \in Tuns, Running(t)
                 PROVE  /\ obs[t].token <= generation[obs[t].inst]
                        /\ lock'[obs[t].inst] # "free" => obs[t].token < generation[obs[t].inst]
                        /\ obs[t].token = generation[obs[t].inst] => tun'[obs[t].inst] = t
    BY DEF TokenInv, Running
  <1>2. obs[t].inst \in Instances /\ obs[t].token \in Nat /\ generation[obs[t].inst] \in Nat
    BY DEF TypeOK, TypeService, TypeObservers
  <1>3. CASE obs[t].inst = k
    BY <1>1, <1>2, <1>3 DEF TokenInv
  <1>4. CASE obs[t].inst # k
    BY <1>1, <1>2, <1>4 DEF TokenInv
  <1> QED
    BY <1>3, <1>4

\* What establish leaves behind: the TUN's observer with the service's generation as its token.
LEMMA Launched ==
  ASSUME TypeOK, DescriptorInv, MainLaunch
  PROVE  LET n == tun[main.inst] IN
         /\ n \in Tuns /\ obs[n].pc = "none"
         /\ obs'[n] = [pc |-> "check", inst |-> main.inst, token |-> generation[main.inst], src |-> None]
         /\ \A t \in Tuns : t # n => obs'[t] = obs[t]
         /\ UNCHANGED <<generation, tun, late>>
         /\ lock'[main.inst] = "free"
         /\ \A i \in Instances : i # main.inst => lock'[i] = lock[i]
  BY DEF TypeOK, TypeService, TypeThreads, TypeObservers, DescriptorInv, MainLaunch

\* A token never runs ahead of its generation, and equals it only for the TUN in the field.
LEMMA TokenStep == TypeOK /\ MonitorInv /\ DescriptorInv /\ TokenInv /\ [Next]_vars => TokenInv'
  <1> DEFINE Pre == TypeOK /\ MonitorInv /\ DescriptorInv /\ TokenInv
  <1>1. ASSUME Pre, Elsewhere PROVE TokenInv'
    BY <1>1, ElsewhereFrame DEF TokenInv, Running
  <1>2. ASSUME Pre, MainEnter PROVE TokenInv'
    BY <1>2, CloseSupersedes DEF MainEnter, TypeOK, TypeThreads
  <1>3. ASSUME Pre, MainClose PROVE TokenInv'
    <2>1. main.inst \in Instances /\ lock[main.inst] # "free"
      BY <1>3 DEF MainClose, TypeOK, TypeThreads, MonitorInv, InMonitor
    <2>2. \A i \in Instances : i # main.inst => tun'[i] = tun[i] /\ lock'[i] = lock[i]
      BY <1>3 DEF MainClose, EndClose, TypeOK, TypeService
    <2> QED
      BY <1>3, <2>1, <2>2, HeldMonitorFrame DEF MainClose
  <1>4. ASSUME Pre, MainBuild PROVE TokenInv'
    <2>1. main.inst \in Instances /\ lock[main.inst] # "free"
      BY <1>4 DEF MainBuild, TypeOK, TypeThreads, MonitorInv, InMonitor
    <2>2. \A i \in Instances : i # main.inst => tun'[i] = tun[i] /\ lock'[i] = lock[i]
      BY <1>4 DEF MainBuild, TypeOK, TypeService
    <2> QED
      BY <1>4, <2>1, <2>2, HeldMonitorFrame DEF MainBuild
  <1>5. ASSUME Pre, MainBuildFails PROVE TokenInv'
    <2>1. main.inst \in Instances /\ lock[main.inst] # "free"
      BY <1>5 DEF MainBuildFails, TypeOK, TypeThreads, MonitorInv, InMonitor
    <2>2. \A i \in Instances : i # main.inst => tun'[i] = tun[i] /\ lock'[i] = lock[i]
      BY <1>5 DEF MainBuildFails, TypeOK, TypeService
    <2> QED
      BY <1>5, <2>1, <2>2, HeldMonitorFrame DEF MainBuildFails
  <1>6. ASSUME Pre, MainLaunch PROVE TokenInv'
    <2> DEFINE n == tun[main.inst]
    <2>1. main.inst \in Instances /\ lock[main.inst] # "free" /\ generation[main.inst] \in Nat
      BY <1>6 DEF MainLaunch, TypeOK, TypeService, TypeThreads, MonitorInv, InMonitor
    <2>2. SUFFICES ASSUME NEW t \in Tuns, Running(t)'
                   PROVE  /\ obs'[t].token <= generation[obs'[t].inst]
                          /\ lock'[obs'[t].inst] # "free" => obs'[t].token < generation[obs'[t].inst]
                          /\ obs'[t].token = generation[obs'[t].inst] => tun[obs'[t].inst] = t
      BY <1>6, Launched DEF TokenInv
    <2>3. CASE t = n
      BY <1>6, <2>1, <2>3, Launched
    <2>4. CASE t # n
      <3>1. obs'[t] = obs[t]
        BY <1>6, <2>4, Launched
      <3>2. obs[t].inst \in Instances /\ obs[t].token \in Nat
        BY <1>6 DEF TypeOK, TypeObservers
      <3>3. Running(t)
        BY <2>2, <3>1 DEF Running
      <3>4. lock'[obs[t].inst] # "free" => lock[obs[t].inst] # "free"
        BY <1>6, <3>2, Launched
      <3> QED
        BY <1>6, <3>1, <3>3, <3>4 DEF TokenInv
    <2> QED
      BY <2>3, <2>4
  <1>7. ASSUME Pre, RevokeEnter PROVE TokenInv'
    BY <1>7, CloseSupersedes DEF RevokeEnter, TypeOK, TypeThreads
  <1>8. ASSUME Pre, RevokeClose PROVE TokenInv'
    <2>1. binder.inst \in Instances /\ lock[binder.inst] # "free"
      BY <1>8 DEF RevokeClose, TypeOK, TypeThreads, MonitorInv
    <2>2. \A i \in Instances : i # binder.inst => tun'[i] = tun[i] /\ lock'[i] = lock[i]
      BY <1>8 DEF RevokeClose, EndClose, TypeOK, TypeService
    <2> QED
      BY <1>8, <2>1, <2>2, HeldMonitorFrame DEF RevokeClose
  <1>9. ASSUME Pre, ForceStop PROVE TokenInv'
    <2>1. \A t \in Tuns : ~Running(t)'
      BY <1>9 DEF ForceStop, Running, TypeOK, TypeObservers
    <2> QED
      BY <2>1 DEF TokenInv
  <1>10. ASSUME Pre, NEW t \in Tuns, Observer(t) PROVE TokenInv'
    <2>1. \A u \in Tuns : Running(u)' => Running(u)
                            /\ obs'[u].inst = obs[u].inst /\ obs'[u].token = obs[u].token
      BY <1>10, ObserverFrame DEF Running
    <2>2. UNCHANGED <<generation, tun, lock>>
      BY <1>10, ObserverFrame
    <2> QED
      BY <1>10, <2>1, <2>2 DEF TokenInv
  <1> QED
    BY <1>1, <1>2, <1>3, <1>4, <1>5, <1>6, <1>7, <1>8, <1>9, <1>10, StepCases

-----------------------------------------------------------------------------
(* Records.                                                                *)

Safe == TypeOK /\ MonitorInv /\ DescriptorInv /\ TokenInv

\* What any step does to a thread: its own step, its launch, its end, or nothing but
\* perhaps to supersede it.
LEMMA ThreadCases ==
  ASSUME Safe, [Next]_vars, NEW t \in Tuns
  PROVE  \/ Observer(t)
         \/ obs[t].pc = "none" /\ obs'[t].pc = "check" /\ late'[t] = late[t]
         \/ /\ obs'[t].pc \in {"none", "done"} /\ late'[t] = late[t]
            /\ obs'[t].pc = "none" => obs[t].pc = "none"
         \/ /\ obs'[t] = obs[t] /\ late'[t] = late[t]
            /\ Running(t) /\ Stale(t) => Stale(t)'
  <1> DEFINE Goal ==
         \/ Observer(t)
         \/ obs[t].pc = "none" /\ obs'[t].pc = "check" /\ late'[t] = late[t]
         \/ /\ obs'[t].pc \in {"none", "done"} /\ late'[t] = late[t]
            /\ obs'[t].pc = "none" => obs[t].pc = "none"
         \/ /\ obs'[t] = obs[t] /\ late'[t] = late[t]
            /\ Running(t) /\ Stale(t) => Stale(t)'
  <1>1. ASSUME UNCHANGED <<generation, obs, late>> PROVE Goal
    BY <1>1 DEF Stale
  <1>2. CASE Elsewhere
    BY <1>1, <1>2, ElsewhereFrame DEF Safe
  <1>3. CASE MainEnter
    BY <1>3, CloseSupersedes DEF MainEnter, Safe, TypeOK, TypeThreads, logVars
  <1>4. CASE MainClose \/ MainBuild \/ MainBuildFails
    BY <1>1, <1>4 DEF MainClose, MainBuild, MainBuildFails, logVars
  <1>5. CASE MainLaunch
    BY <1>5, Launched DEF Safe, Stale
  <1>6. CASE RevokeEnter
    BY <1>6, CloseSupersedes DEF RevokeEnter, Safe, TypeOK, TypeThreads, logVars
  <1>7. CASE RevokeClose
    BY <1>1, <1>7 DEF RevokeClose, logVars
  <1>8. CASE ForceStop
    BY <1>8 DEF ForceStop, Safe, TypeOK, TypeObservers
  <1>9. ASSUME NEW u \in Tuns, Observer(u), u # t PROVE Goal
    BY <1>9, ObserverFrame DEF Safe, Stale
  <1> QED
    BY <1>2, <1>3, <1>4, <1>5, <1>6, <1>7, <1>8, <1>9, StepCases

\* A current observer reads its own TUN.
LEMMA CurrentReadsOwn ==
  ASSUME Safe, NEW t \in Tuns, Running(t), ~Stale(t)
  PROVE  t \in open
  <1>1. tun[obs[t].inst] = t
    BY DEF Safe, TokenInv, Stale
  <1>2. obs[t].inst \in Instances /\ t # None
    BY DEF Safe, TypeOK, TypeObservers, Tuns, None
  <1> QED
    BY <1>1, <1>2 DEF Safe, DescriptorInv

\* Only a superseded observer has a packet of another TUN in hand.
LEMMA ForeignStep == Safe /\ ForeignInv /\ [Next]_vars => ForeignInv'
  <1>1. SUFFICES ASSUME Safe, ForeignInv, [Next]_vars, NEW t \in Tuns,
                        obs'[t].pc = "emit", obs'[t].src # t
                 PROVE  Stale(t)'
    BY DEF ForeignInv, ForeignPacketOnlyWhenStale
  <1>2. CASE Observer(t)
    <2>1. UNCHANGED generation /\ obs'[t].inst = obs[t].inst /\ obs'[t].token = obs[t].token
      BY <1>1, <1>2, ObserverFrame DEF Safe
    <2>2. ObserverRead(t) /\ obs'[t].src \in (IF t \in open THEN {t} ELSE open)
      BY <1>1, <1>2 DEF Observer, ObserverCheck, ObserverRead, ObserverEmit, Safe, TypeOK,
                        TypeObservers
    <2>3. t \notin open
      BY <1>1, <2>2
    <2>4. Running(t)
      BY <2>2 DEF ObserverRead, Running
    <2> QED
      BY <1>1, <2>1, <2>3, <2>4, CurrentReadsOwn DEF Stale
  <1>3. CASE obs'[t] = obs[t] /\ (Running(t) /\ Stale(t) => Stale(t)')
    BY <1>1, <1>3 DEF ForeignInv, ForeignPacketOnlyWhenStale, Running
  <1> QED
    BY <1>1, <1>2, <1>3, ThreadCases

\* An observer that has logged late ends at its next test of the generation.
LEMMA LateStep == Safe /\ LateInv /\ [Next]_vars => LateInv'
  <1>1. SUFFICES ASSUME Safe, LateInv, [Next]_vars, NEW t \in Tuns
                 PROVE  /\ late'[t] <= 1
                        /\ obs'[t].pc = "none" => late'[t] = 0
                        /\ Running(t)' /\ late'[t] = 1 => obs'[t].pc = "check" /\ Stale(t)'
    BY DEF LateInv
  <1>2. late[t] \in Nat /\ late[t] <= 1
    BY <1>1 DEF LateInv, Safe, TypeOK, TypeLog
  <1>3. CASE Observer(t)
    <2>1. UNCHANGED generation /\ obs'[t].inst = obs[t].inst /\ obs'[t].token = obs[t].token
      BY <1>1, <1>3, ObserverFrame DEF Safe
    <2>2. CASE ObserverCheck(t)
      <3>1. late'[t] = late[t] /\ obs'[t].pc \in {"read", "done"}
        BY <1>1, <2>2 DEF ObserverCheck, Safe, TypeOK, TypeObservers, logVars
      <3>2. obs'[t].pc = "read" => ~Stale(t)
        BY <1>1, <2>2 DEF ObserverCheck, Safe, TypeOK, TypeObservers, Stale
      <3>3. Running(t)
        BY <2>2 DEF ObserverCheck, Running
      <3> QED
        BY <1>1, <1>2, <3>1, <3>2, <3>3 DEF LateInv, Running
    <2>3. CASE ObserverRead(t)
      <3>1. late'[t] = late[t] /\ obs[t].pc = "read" /\ obs'[t].pc # "none"
        BY <1>1, <2>3 DEF ObserverRead, Safe, TypeOK, TypeObservers, logVars
      <3> QED
        BY <1>1, <1>2, <3>1 DEF LateInv, Running
    <2>4. CASE ObserverEmit(t)
      <3>1. obs[t].pc = "emit" /\ obs'[t].pc = "check" /\ late[t] = 0
        BY <1>1, <1>2, <2>4 DEF ObserverEmit, Safe, TypeOK, TypeObservers, LateInv, Running
      <3>2. late'[t] = late[t] \/ (late'[t] = late[t] + 1 /\ Stale(t))
        <4>1. PICK logged \in BOOLEAN :
                late' = IF logged /\ Stale(t) THEN [late EXCEPT ![t] = @ + 1] ELSE late
          BY <2>4, Zenon DEF ObserverEmit
        <4>2. late \in [Tuns -> Nat]
          BY <1>1 DEF Safe, TypeOK, TypeLog
        <4> QED
          BY <4>1, <4>2
      <3>3. Stale(t) => Stale(t)'
        BY <2>1 DEF Stale
      <3> QED
        BY <3>1, <3>2, <3>3
    <2> QED
      BY <1>3, <2>2, <2>3, <2>4 DEF Observer
  <1>4. CASE obs[t].pc = "none" /\ obs'[t].pc = "check" /\ late'[t] = late[t]
    BY <1>1, <1>4 DEF LateInv
  <1>5. CASE /\ obs'[t].pc \in {"none", "done"} /\ late'[t] = late[t]
             /\ obs'[t].pc = "none" => obs[t].pc = "none"
    BY <1>1, <1>2, <1>5 DEF LateInv, Running
  <1>6. CASE /\ obs'[t] = obs[t] /\ late'[t] = late[t]
             /\ Running(t) /\ Stale(t) => Stale(t)'
    BY <1>1, <1>6 DEF LateInv, Running
  <1> QED
    BY <1>1, <1>3, <1>4, <1>5, <1>6, ThreadCases

-----------------------------------------------------------------------------
(* The theorems.                                                           *)

\* The fixture starts inside the invariant.
LEMMA InitInv == Init => IInv
  <1> SUFFICES ASSUME Init PROVE IInv
    OBVIOUS
  <1>1. TypeOK
    <2>1. TypeService
      BY DEF Init, TypeService
    <2>6. replacements \in 0..MaxReplacements
      BY BoundsAssumption DEF Init
    <2>7. revokes \in [Instances -> Nat]
      BY DEF Init
    <2>8. prepared \in BOOLEAN /\ bound \in BOOLEAN /\ active \in Tuns \cup {None}
      BY Zenon DEF Init
    <2>5. TypeTuns /\ TypeLog
      BY BoundsAssumption DEF Init, TypeTuns, TypeLog
    <2>2. TypeThreads
      BY OneInstance DEF Init, TypeThreads, Idle, BinderIdle
    <2>3. TypeObservers
      BY OneInstance DEF Init, TypeObservers, NoObserver
    <2>4. TypeAms
      <3>1. queue \in Seq(Message)
        BY DEF Init
      <3>2. created \in 0..MaxInstances /\ commands \in 0..MaxCommands
        BY BoundsAssumption DEF Init
      <3> QED
        BY <3>1, <3>2 DEF Init, TypeAms, Message
    <2> QED
      BY <2>1, <2>2, <2>3, <2>4, <2>5, <2>6, <2>7, <2>8 DEF TypeOK, TypeVpn
  <1>2. MonitorInv
    BY DEF Init, MonitorInv, InMonitor, Idle, BinderIdle
  <1>3. DescriptorInv
    BY DEF Init, DescriptorInv, NoObserver, Idle
  <1>4. TokenInv /\ ForeignInv /\ LateInv
    BY DEF Init, TokenInv, ForeignInv, ForeignPacketOnlyWhenStale, LateInv, Running, NoObserver
  <1> QED
    BY <1>1, <1>2, <1>3, <1>4 DEF IInv

\* IInv is inductive and holds of every reachable state.
THEOREM Invariance == Spec => []IInv
  <1>1. IInv /\ [Next]_vars => IInv'
    BY TypeStep, MonitorStep, DescriptorStep, TokenStep, ForeignStep, LateStep DEF IInv, Safe
  <1> QED
    BY <1>1, InitInv, PTL DEF Spec

\* Every variable has its type, whatever the bounds.
THEOREM TypeCorrect == Spec => []TypeOK
  BY Invariance, PTL DEF IInv

\* closeTun can always close what establish opened.
THEOREM NoOrphan == Spec => []NoOrphanDescriptor
  <1>1. IInv => NoOrphanDescriptor
    BY DEF IInv, DescriptorInv, NoOrphanDescriptor
  <1> QED
    BY <1>1, Invariance, PTL

\* Outside the monitor a current observer watches the open TUN of its service.
THEOREM CurrentOwns == Spec => []CurrentObserverOwnsTun
  <1>1. IInv => CurrentObserverOwnsTun
    BY CurrentReadsOwn DEF IInv, Safe, TokenInv, Stale, CurrentObserverOwnsTun
  <1> QED
    BY <1>1, Invariance, PTL

\* No current observer takes a packet of another TUN for its own.
THEOREM ForeignOnlyStale == Spec => []ForeignPacketOnlyWhenStale
  BY Invariance, PTL DEF IInv, ForeignInv

\* A superseded observer logs at most one record.
THEOREM AtMostOneLate == Spec => []OneLateRecord
  <1>1. IInv => OneLateRecord
    BY DEF IInv, LateInv, OneLateRecord
  <1> QED
    BY <1>1, Invariance, PTL

-----------------------------------------------------------------------------
(* STOP.  Messages reach the main thread in the order of the instances     *)
(* they are for, and onDestroy is the last of its instance.                *)

\* The callback the main thread is in is one of instance i; a message to i is posted; its onDestroy is to come.
Handling(i) == main.pc # "idle" /\ main.inst = i
Addressed(i) == \E p \in 1..Len(queue) : queue[p].inst = i
Doomed(i) ==
  \/ \E p \in 1..Len(queue) : queue[p].inst = i /\ queue[p].kind = "DESTROY"
  \/ Handling(i) /\ main.task = "DESTROY"

\* Messages come in the order of the instances, and onDestroy is the last of its instance.
QueueInv ==
  /\ \A p, r \in 1..Len(queue) : p < r =>
       queue[p].inst <= queue[r].inst /\ (queue[p].kind = "DESTROY" => queue[p].inst # queue[r].inst)
  /\ \A p \in 1..Len(queue) : queue[p].inst <= created
  /\ main.pc # "idle" => main.inst <= created
  /\ main.pc # "idle" => \A p \in 1..Len(queue) :
       main.inst <= queue[p].inst /\ (main.task = "DESTROY" => main.inst # queue[p].inst)
  /\ live # None => live = created
  /\ main.task = "DESTROY" => main.pc \in {"idle", "enter", "close"}
  /\ main.task = "STOP" => main.pc # "prepare"

\* An instance Android has forgotten has no TUN and nothing to do, or its onDestroy is to come; no
\* instance with a TUN is later than the one at work.
HolderInv ==
  \A i \in Instances :
    /\ i = live => ~Doomed(i)
    /\ i # live /\ (tun[i] # None \/ Handling(i) \/ Addressed(i)) => Doomed(i)
    /\ tun[i] # None => i <= created
    /\ tun[i] # None => \A p \in 1..Len(queue) : i <= queue[p].inst
    /\ tun[i] # None /\ main.pc # "idle" => i <= main.inst

StopInv == main.task = "STOP" /\ main.pc = "stopSelf" => tun[main.inst] = None

OrderInv == QueueInv /\ HolderInv /\ StopInv

\* What the service manager's and the threads' types give the order.
LEMMA Typed ==
  ASSUME TypeOK
  PROVE  /\ Len(queue) \in Nat /\ queue \in Seq(Message)
         /\ \A p \in 1..Len(queue) : queue[p] \in Message /\ queue[p].inst \in Instances
         /\ created \in Nat /\ live \in Instances \cup {None}
         /\ main.inst \in Instances /\ Instances \subseteq Nat /\ None \notin Instances
  <1>1. queue \in Seq(Message)
    BY DEF TypeOK, TypeAms, Message
  <1>2. \A p \in 1..Len(queue) : queue[p] \in Message
    BY <1>1
  <1>3. \A msg \in Message : msg.inst \in Instances
    BY DEF Message
  <1>4. main.inst \in Instances
    BY DEF TypeOK, TypeThreads
  <1> QED
    BY <1>1, <1>2, <1>3, <1>4 DEF TypeOK, TypeAms, Instances, None

\* A step that posts nothing, keeps main at its callback and at most closes TUNs.
LEMMA CallbackOrder ==
  ASSUME TypeOK, QueueInv, HolderInv, UNCHANGED <<queue, live, created>>,
         main'.inst = main.inst, main'.task = main.task, main'.pc = "idle" <=> main.pc = "idle",
         main.task = "STOP" => main'.pc # "prepare", main.task = "DESTROY" => main'.pc \in {"idle", "enter", "close"},
         \A i \in Instances : tun'[i] \in {tun[i], None}
  PROVE  QueueInv' /\ HolderInv'
  <1>1. QueueInv'
    BY DEF QueueInv
  <1>2. \A i : (Handling(i)' <=> Handling(i)) /\ (Addressed(i)' <=> Addressed(i)) /\ (Doomed(i)' <=> Doomed(i))
    BY DEF Handling, Addressed, Doomed
  <1>3. HolderInv'
    BY <1>2 DEF HolderInv
  <1> QED
    BY <1>1, <1>3

\* An instance that is forgotten gets its onDestroy posted, behind all there is, be it that main
\* leaves a callback with it.
LEMMA ReleaseOrder ==
  ASSUME TypeOK, QueueInv, HolderInv, NEW a, NEW b, Release(a, b) \/ UNCHANGED <<queue, live>>,
         main' = main \/ (main' = Idle /\ main.task # "DESTROY"), UNCHANGED <<created, tun>>
  PROVE  QueueInv' /\ HolderInv'
  <1>1. /\ main'.pc # "idle" => main' = main
        /\ main'.task # "NONE" => main' = main
        /\ main.pc # "idle" /\ main.task = "DESTROY" => main' = main
    BY DEF Idle
  <1>2. CASE UNCHANGED <<queue, live>>
    <2>1. QueueInv'
      BY <1>1, <1>2 DEF QueueInv, Idle
    <2>2. \A i : (Handling(i)' => Handling(i)) /\ (Addressed(i)' <=> Addressed(i)) /\ (Doomed(i)' <=> Doomed(i))
      BY <1>1, <1>2 DEF Handling, Addressed, Doomed
    <2>3. HolderInv'
      BY <1>1, <1>2, <2>2 DEF HolderInv
    <2> QED
      BY <2>1, <2>3
  <1>3. CASE live # None /\ queue' = Append(queue, [kind |-> "DESTROY", inst |-> live]) /\ live' = None
    <2> DEFINE n == Len(queue) + 1
    <2>1. Len(queue') = n /\ queue'[n] = [kind |-> "DESTROY", inst |-> live]
          /\ \A p \in 1..Len(queue) : queue'[p] = queue[p]
      BY <1>3, Typed
    <2>2. live = created /\ live \in Instances /\ ~Doomed(live)
      BY <1>3, Typed DEF QueueInv, HolderInv
    <2>3. \A p \in 1..Len(queue) : queue[p].inst <= live /\ (queue[p].inst = live => queue[p].kind # "DESTROY")
      BY <2>2 DEF Doomed, QueueInv
    <2>4. main.pc # "idle" /\ main.task = "DESTROY" => main.inst # live
      BY <2>2 DEF Doomed, Handling
    <2>5. QueueInv'
      <3>1. ASSUME NEW p \in 1..n, NEW r \in 1..n, p < r
            PROVE  queue'[p].inst <= queue'[r].inst /\ (queue'[p].kind = "DESTROY" => queue'[p].inst # queue'[r].inst)
        <4>1. p \in 1..Len(queue)
          BY <3>1, Typed
        <4>2. CASE r = n
          BY <2>1, <2>3, <4>1, <4>2
        <4>3. CASE r \in 1..Len(queue)
          BY <2>1, <3>1, <4>1, <4>3 DEF QueueInv
        <4> QED
          BY <4>2, <4>3, Typed
      <3>2. \A p \in 1..n : queue'[p].inst <= created
        BY <2>1, <2>2, Typed DEF QueueInv
      <3>3. main.pc # "idle" => \A p \in 1..n :
              main.inst <= queue'[p].inst /\ (main.task = "DESTROY" => main.inst # queue'[p].inst)
        BY <2>1, <2>2, <2>4, Typed DEF QueueInv
      <3> QED
        BY <1>1, <1>3, <2>1, <3>1, <3>2, <3>3 DEF QueueInv, Idle
    <2>6. \A i \in Instances : (Handling(i)' => Handling(i)) /\ (Addressed(i)' <=> Addressed(i) \/ i = live)
                               /\ (Doomed(i)' <=> Doomed(i) \/ i = live)
      <3>1. \A i : Handling(i)' => Handling(i)
        BY <1>1 DEF Handling
      <3>2. \A i \in Instances : Addressed(i)' <=> Addressed(i) \/ i = live
        BY <2>1, Typed DEF Addressed
      <3>3. \A i \in Instances : Doomed(i)' <=> Doomed(i) \/ i = live
        BY <1>1, <2>1, Typed DEF Doomed, Handling
      <3> QED
        BY <3>1, <3>2, <3>3
    <2>7. \A i \in Instances : tun[i] # None => \A p \in 1..n : i <= queue'[p].inst
      BY <2>1, <2>2, Typed DEF HolderInv
    <2> QED
      BY <1>1, <1>3, <2>1, <2>5, <2>6, <2>7, Typed DEF HolderInv
  <1> QED
    BY <1>2, <1>3 DEF Release

\* A start is posted to the live instance or to a new one, behind all there is.
LEMMA StartOrder ==
  ASSUME TypeOK, QueueInv, HolderInv, NEW k \in {"STOP", "MODE", "NONE"}, StartService(k), UNCHANGED <<tun, main>>
  PROVE  QueueInv' /\ HolderInv'
  <1> DEFINE n == Len(queue) + 1
             target == IF live = None THEN created + 1 ELSE live
  <1>1. Len(queue') = n /\ queue'[n] = [kind |-> k, inst |-> target]
        /\ \A p \in 1..Len(queue) : queue'[p] = queue[p]
    BY Typed DEF StartService
  <1>2. created' = target /\ live' = target /\ target >= created /\ target \in Nat
        /\ (live # None => target = live) /\ (live = None => target > created)
    BY Typed DEF StartService, QueueInv
  <1>3. target \in Instances => ~Doomed(target)
    <2>1. CASE live # None
      BY <1>2, <2>1 DEF HolderInv
    <2>2. CASE live = None
      BY <1>2, <2>2, Typed DEF QueueInv, Doomed, Handling
    <2> QED
      BY <2>1, <2>2
  <1>4. target \in Instances
    BY <1>2, Typed, BoundsAssumption DEF StartService, Instances, None
  <1>5. \A p \in 1..Len(queue) : queue[p].inst <= target /\ (queue[p].kind = "DESTROY" => queue[p].inst # target)
    BY <1>2, <1>3, <1>4, Typed DEF QueueInv, Doomed
  <1>6. main.pc # "idle" => main.inst <= target /\ (main.task = "DESTROY" => main.inst # target)
    BY <1>2, <1>3, <1>4, Typed DEF QueueInv, Doomed, Handling
  <1>7. QueueInv'
    <2>1. ASSUME NEW p \in 1..n, NEW r \in 1..n, p < r
          PROVE  queue'[p].inst <= queue'[r].inst /\ (queue'[p].kind = "DESTROY" => queue'[p].inst # queue'[r].inst)
      <3>1. p \in 1..Len(queue)
        BY <2>1, Typed
      <3>2. CASE r = n
        BY <1>1, <1>5, <3>1, <3>2
      <3>3. CASE r \in 1..Len(queue)
        BY <1>1, <2>1, <3>1, <3>3 DEF QueueInv
      <3> QED
        BY <3>2, <3>3, Typed
    <2>2. \A p \in 1..n : queue'[p].inst <= created'
      BY <1>1, <1>2, <1>5, Typed DEF QueueInv
    <2>3. main.pc # "idle" => \A p \in 1..n :
            main.inst <= queue'[p].inst /\ (main.task = "DESTROY" => main.inst # queue'[p].inst)
      BY <1>1, <1>6, Typed DEF QueueInv
    <2> QED
      BY <1>1, <1>2, <1>6, <2>1, <2>2, <2>3 DEF QueueInv
  <1>8. \A i \in Instances : (Handling(i)' <=> Handling(i)) /\ (Addressed(i)' <=> Addressed(i) \/ i = target)
                             /\ (Doomed(i)' <=> Doomed(i))
    <2>1. n \in 1..n /\ \A p \in 1..n : p = n \/ p \in 1..Len(queue)
      BY Typed
    <2>2. 1..Len(queue) \subseteq 1..n
      BY Typed
    <2>3. \A i : Handling(i)' <=> Handling(i)
      BY DEF Handling
    <2>4. \A i : Addressed(i)' <=> Addressed(i) \/ i = target
      <3>1. ASSUME NEW i, Addressed(i)' PROVE Addressed(i) \/ i = target
        BY <1>1, <2>1, <3>1 DEF Addressed
      <3>2. ASSUME NEW i, Addressed(i) PROVE Addressed(i)'
        BY <1>1, <2>2, <3>2 DEF Addressed
      <3>3. ASSUME NEW i, i = target PROVE Addressed(i)'
        BY <1>1, <2>1, <3>3 DEF Addressed
      <3> QED
        BY <3>1, <3>2, <3>3
    <2>5. \A i : Doomed(i)' <=> Doomed(i)
      <3>1. ASSUME NEW i, Doomed(i)' PROVE Doomed(i)
        BY <1>1, <2>1, <2>3, <3>1 DEF Doomed
      <3>2. ASSUME NEW i, Doomed(i) PROVE Doomed(i)'
        BY <1>1, <2>2, <2>3, <3>2 DEF Doomed
      <3> QED
        BY <3>1, <3>2
    <2> QED
      BY <2>3, <2>4, <2>5
  <1>9. \A i \in Instances : i # target => i # live
    BY <1>2, Typed
  <1>10. \A i \in Instances : tun[i] # None => i <= target
    BY <1>2, Typed DEF HolderInv
  <1>11. \A i \in Instances : tun[i] # None => \A p \in 1..n : i <= queue'[p].inst
    BY <1>1, <1>10 DEF HolderInv
  <1> QED
    BY <1>1, <1>2, <1>3, <1>7, <1>8, <1>9, <1>10, <1>11 DEF HolderInv

\* Main takes the first message: nothing is lost of the order.
LEMMA TakeOrder ==
  ASSUME TypeOK, QueueInv, HolderInv, MainTake
  PROVE  QueueInv' /\ HolderInv'
  <1>1. queue # <<>> /\ Len(queue) \in Nat \ {0} /\ 1 \in 1..Len(queue) /\ Head(queue) = queue[1]
    BY Typed DEF MainTake
  <1>2. Len(queue') = Len(queue) - 1 /\ \A p \in 1..Len(queue') : p + 1 \in 2..Len(queue) /\ queue'[p] = queue[p + 1]
    BY <1>1, Typed DEF MainTake
  <1>3. main.pc = "idle" /\ main'.inst = queue[1].inst /\ main'.task = queue[1].kind
        /\ main'.pc \in {"enter", "prepare"} /\ (main'.task \in {"STOP", "DESTROY"} => main'.pc = "enter")
    BY <1>1 DEF MainTake
  <1>4. UNCHANGED <<live, created, tun>>
    BY DEF MainTake, serviceVars
  <1>5. \A p \in 1..Len(queue') :
          queue[1].inst <= queue'[p].inst /\ (queue[1].kind = "DESTROY" => queue[1].inst # queue'[p].inst)
    BY <1>1, <1>2, Typed DEF QueueInv
  <1>6. QueueInv'
    <2>1. \A p, r \in 1..Len(queue') : p < r =>
            queue'[p].inst <= queue'[r].inst /\ (queue'[p].kind = "DESTROY" => queue'[p].inst # queue'[r].inst)
      <3> SUFFICES ASSUME NEW p \in 1..Len(queue'), NEW r \in 1..Len(queue'), p < r
                   PROVE  queue'[p].inst <= queue'[r].inst /\ (queue'[p].kind = "DESTROY" => queue'[p].inst # queue'[r].inst)
        OBVIOUS
      <3>1. p + 1 \in 1..Len(queue) /\ r + 1 \in 1..Len(queue) /\ p + 1 < r + 1
        BY <1>1, <1>2
      <3> QED
        BY <1>2, <3>1 DEF QueueInv
    <2>2. \A p \in 1..Len(queue') : queue'[p].inst <= created
      BY <1>1, <1>2 DEF QueueInv
    <2> QED
      BY <1>1, <1>3, <1>4, <1>5, <2>1, <2>2 DEF QueueInv
  <1>7. \A i : (Handling(i)' <=> i = queue[1].inst) /\ (Addressed(i)' => Addressed(i)) /\ (Handling(i)' => Addressed(i))
    BY <1>1, <1>2, <1>3 DEF Handling, Addressed
  <1>8. \A i : Doomed(i)' <=> Doomed(i)
    <2>1. ASSUME NEW i, Doomed(i)' PROVE Doomed(i)
      BY <1>1, <1>2, <1>3, <2>1 DEF Doomed, Handling
    <2>2. ASSUME NEW i, Doomed(i) PROVE Doomed(i)'
      <3>1. PICK p \in 1..Len(queue) : queue[p].inst = i /\ queue[p].kind = "DESTROY"
        BY <1>3, <2>2 DEF Doomed, Handling
      <3>2. CASE p = 1
        BY <1>3, <3>1, <3>2 DEF Doomed, Handling
      <3>3. CASE p # 1
        <4>1. p - 1 \in 1..Len(queue') /\ queue'[p - 1] = queue[p]
          BY <1>1, <1>2, <3>3
        <4> QED
          BY <3>1, <4>1 DEF Doomed
      <3> QED
        BY <3>2, <3>3
    <2> QED
      BY <2>1, <2>2
  <1>9. HolderInv'
    BY <1>1, <1>2, <1>3, <1>4, <1>7, <1>8 DEF HolderInv
  <1> QED
    BY <1>6, <1>9

\* onDestroy leaves an instance without a TUN and without messages.
LEMMA DestroyOrder ==
  ASSUME TypeOK, QueueInv, HolderInv, MainClose, main.task = "DESTROY"
  PROVE  QueueInv' /\ HolderInv'
  <1>1. /\ UNCHANGED <<queue, live, created>> /\ main' = Idle /\ main.pc = "close"
        /\ tun' = [tun EXCEPT ![main.inst] = None]
    BY DEF MainClose, EndClose, amsVars
  <1>2. QueueInv'
    BY <1>1 DEF QueueInv, Idle
  <1>3. Doomed(main.inst) /\ ~Addressed(main.inst)
    BY <1>1 DEF QueueInv, Doomed, Handling, Addressed
  <1>4. \A i : ~Handling(i)' /\ (Addressed(i)' <=> Addressed(i)) /\ (Doomed(i)' => Doomed(i))
               /\ (Doomed(i) /\ i # main.inst => Doomed(i)')
    BY <1>1 DEF Handling, Addressed, Doomed, Idle
  <1>5. tun'[main.inst] = None /\ \A i \in Instances : i # main.inst => tun'[i] = tun[i]
    BY <1>1, Typed DEF TypeOK, TypeService
  <1>6. HolderInv'
    BY <1>1, <1>3, <1>4, <1>5 DEF HolderInv, Idle
  <1> QED
    BY <1>2, <1>6

\* The TUN is built for the instance at work; Android may have to create another one to bind it.
LEMMA BuildOrder ==
  ASSUME TypeOK, MonitorInv, QueueInv, HolderInv, MainBuild
  PROVE  QueueInv' /\ HolderInv'
  <1>1. /\ queue' = queue /\ main.pc = "build" /\ main.task = "MODE"
        /\ main'.pc = "launch" /\ main'.task = main.task /\ main'.inst = main.inst
    BY DEF MainBuild, MonitorInv, TypeOK, TypeThreads
  <1>2. /\ created <= created' /\ created' \in Nat /\ live' = created'
        /\ live # None => live' = live
        /\ live = None => live' = created + 1
    BY Typed DEF MainBuild, QueueInv
  <1>3. \A i \in Instances : i # main.inst => tun'[i] = tun[i]
    BY DEF MainBuild, TypeOK, TypeService
  <1>4. QueueInv'
    BY <1>1, <1>2, Typed DEF QueueInv
  <1>5. \A i : (Handling(i)' <=> Handling(i)) /\ (Addressed(i)' <=> Addressed(i)) /\ (Doomed(i)' <=> Doomed(i))
    BY <1>1 DEF Handling, Addressed, Doomed
  <1>6. Handling(main.inst) /\ main.inst <= created /\ \A p \in 1..Len(queue) : main.inst <= queue[p].inst
    BY <1>1 DEF Handling, QueueInv
  <1>7. \A i \in Instances : Doomed(i) => i <= created
    BY <1>6, Typed DEF Doomed, Handling, QueueInv
  <1>8. \A i \in Instances : i = live' => ~Doomed(i)
    BY <1>2, <1>7, Typed DEF HolderInv
  <1>9. \A i \in Instances : i # live' => i # live
    BY <1>2, Typed
  <1>10. HolderInv'
    <2> SUFFICES ASSUME NEW i \in Instances
                 PROVE  /\ i # live' /\ (tun'[i] # None \/ Handling(i) \/ Addressed(i)) => Doomed(i)
                        /\ tun'[i] # None => i <= created' /\ i <= main.inst
                        /\ tun'[i] # None => \A p \in 1..Len(queue) : i <= queue[p].inst
      BY <1>1, <1>5, <1>8 DEF HolderInv
    <2>1. CASE i = main.inst
      BY <1>2, <1>6, <1>9, <2>1, Typed DEF HolderInv
    <2>2. CASE i # main.inst
      BY <1>1, <1>2, <1>3, <1>9, <2>2, Typed DEF HolderInv
    <2> QED
      BY <2>1, <2>2
  <1> QED
    BY <1>4, <1>10

\* Every step keeps the order.
LEMMA OrderStep == TypeOK /\ MonitorInv /\ QueueInv /\ HolderInv /\ [Next]_vars => QueueInv' /\ HolderInv'
  <1> SUFFICES ASSUME TypeOK, MonitorInv, QueueInv, HolderInv, [Next]_vars PROVE QueueInv' /\ HolderInv'
    OBVIOUS
  <1> USE DEF amsVars, serviceVars
  <1>1. CASE MainTake
    BY <1>1, TakeOrder
  <1>2. CASE MainPrepare
    BY <1>2, CallbackOrder DEF MainPrepare, TypeOK, TypeThreads, QueueInv
  <1>3. CASE MainEnter
    BY <1>3, CallbackOrder DEF MainEnter, TypeOK, TypeThreads
  <1>4. CASE MainClose
    <2>1. CASE main.task = "DESTROY"
      BY <1>4, <2>1, DestroyOrder
    <2>2. CASE main.task # "DESTROY"
      <3>1. main.task \in {"MODE", "STOP"}
        BY <1>4, <2>2 DEF MainClose, MonitorInv, TypeOK, TypeThreads
      <3>2. main' = [main EXCEPT !.pc = IF main.task = "MODE" THEN "build" ELSE "stopSelf"]
        BY <1>4, <3>1 DEF MainClose
      <3>3. \A i \in Instances : tun'[i] \in {tun[i], None}
        BY <1>4 DEF MainClose, EndClose, TypeOK, TypeService
      <3> QED
        BY <1>4, <2>2, <3>2, <3>3, CallbackOrder DEF MainClose, TypeOK, TypeThreads
    <2> QED
      BY <2>1, <2>2
  <1>5. CASE MainBuild
    BY <1>5, BuildOrder
  <1>6. CASE MainBuildFails
    BY <1>6, CallbackOrder DEF MainBuildFails, TypeOK, TypeThreads, QueueInv
  <1>7. CASE MainLaunch
    BY <1>7, ReleaseOrder DEF MainLaunch, QueueInv
  <1>8. CASE MainStopSelf
    BY <1>8, ReleaseOrder DEF MainStopSelf, StopSelf, QueueInv
  <1>9. CASE RevokeEnter
    BY <1>9, CallbackOrder DEF RevokeEnter, QueueInv
  <1>10. CASE RevokeClose
    <2>1. \A i \in Instances : tun'[i] \in {tun[i], None}
      BY <1>10 DEF RevokeClose, EndClose, TypeOK, TypeService
    <2> QED
      BY <1>10, <2>1, CallbackOrder DEF RevokeClose, QueueInv
  <1>11. CASE RevokeStopSelf
    BY <1>11, ReleaseOrder DEF RevokeStopSelf, StopSelf
  <1>12. CASE Host
    <2>1. CASE UNCHANGED amsVars
      BY <1>12, <2>1, ReleaseOrder DEF Host, ControllerStop, ControllerStart
    <2>2. CASE StartService("STOP") \/ StartService("MODE")
      BY <1>12, <2>2, StartOrder DEF Host, ControllerStop, ControllerStart
    <2> QED
      BY <1>12, <2>1, <2>2 DEF Host, ControllerStop, ControllerStart
  <1>13. CASE AlwaysOnStart
    BY <1>13, StartOrder DEF AlwaysOnStart
  <1>14. CASE OtherProviderPrepares
    BY <1>14, ReleaseOrder DEF OtherProviderPrepares
  <1>15. CASE Unbind
    BY <1>15, ReleaseOrder DEF Unbind
  <1>16. CASE ForceStop
    BY <1>16, Typed DEF ForceStop, QueueInv, HolderInv, Handling, Addressed, Doomed, Idle
  <1>17. ASSUME NEW i \in Instances, RevokeDeliver(i) PROVE QueueInv' /\ HolderInv'
    BY <1>17, ReleaseOrder DEF RevokeDeliver
  <1>18. ASSUME NEW t \in Tuns, Observer(t) PROVE QueueInv' /\ HolderInv'
    BY <1>18, ReleaseOrder DEF Observer, ObserverCheck, ObserverRead, ObserverEmit
  <1>19. CASE UNCHANGED vars
    BY <1>19, ReleaseOrder DEF vars
  <1> QED
    BY <1>1, <1>2, <1>3, <1>4, <1>5, <1>6, <1>7, <1>8, <1>9, <1>10, <1>11, <1>12, <1>13, <1>14,
       <1>15, <1>16, <1>17, <1>18, <1>19 DEF Next, Main, Revoke, Android

\* Until STOP has stopped its service, nothing builds a TUN for it again.
LEMMA StopStep == TypeOK /\ MonitorInv /\ QueueInv /\ StopInv /\ [Next]_vars => StopInv'
  <1> SUFFICES ASSUME TypeOK, MonitorInv, QueueInv, StopInv, [Next]_vars,
                      main'.task = "STOP", main'.pc = "stopSelf"
               PROVE  tun'[main'.inst] = None
    BY DEF StopInv
  <1>1. CASE MainClose
    BY <1>1 DEF MainClose, EndClose, MonitorInv, TypeOK, TypeService, TypeThreads, Idle
  <1>2. CASE UNCHANGED main
    <2>1. \A i \in Instances : tun'[i] \in {tun[i], None}
      <3>1. CASE Elsewhere
        BY <3>1, ElsewhereFrame
      <3>2. CASE RevokeEnter
        BY <3>2 DEF RevokeEnter
      <3>3. CASE RevokeClose
        BY <3>3 DEF RevokeClose, EndClose, TypeOK, TypeService
      <3>4. CASE \E t \in Tuns : Observer(t)
        BY <3>4, ObserverFrame
      <3>5. CASE ForceStop
        BY <3>5 DEF ForceStop
      <3>6. CASE MainEnter \/ MainClose \/ MainBuild \/ MainBuildFails \/ MainLaunch
        BY <1>2, <3>6 DEF MainEnter, MainClose, MainBuild, MainBuildFails, MainLaunch, Idle,
                          MonitorInv, TypeOK, TypeThreads
      <3> QED
        BY <3>1, <3>2, <3>3, <3>4, <3>5, <3>6, StepCases
    <2> QED
      BY <1>2, <2>1 DEF StopInv, TypeOK, TypeThreads
  <1>3. CASE MainTake \/ MainStopSelf \/ MainLaunch \/ ForceStop
    BY <1>3 DEF MainTake, MainStopSelf, MainLaunch, ForceStop, Idle
  <1>4. CASE MainPrepare \/ MainEnter \/ MainBuild \/ MainBuildFails
    BY <1>4 DEF MainPrepare, MainEnter, MainBuild, MainBuildFails, MonitorInv, QueueInv, TypeOK,
                TypeThreads
  <1>5. CASE ~(MainTake \/ MainPrepare \/ MainStopSelf \/ MainEnter \/ MainClose \/ MainBuild
              \/ MainBuildFails \/ MainLaunch \/ ForceStop)
    <2>1. UNCHANGED main
      BY <1>5, ObserverFrame DEF Next, Main, Revoke, Android, Host, RevokeEnter, RevokeClose,
                                 RevokeStopSelf, RevokeDeliver,
         ControllerStop, ControllerStart, AlwaysOnStart, OtherProviderPrepares, Unbind, vars
    <2> QED
      BY <1>2, <2>1
  <1> QED
    BY <1>1, <1>3, <1>4, <1>5

\* The initial state is in order.
LEMMA InitOrder == Init => OrderInv
  BY DEF Init, OrderInv, QueueInv, HolderInv, StopInv, Idle, Handling, Addressed, Doomed, None

\* The order holds in every reachable state.
THEOREM OrderKept == Spec => []OrderInv
  <1>1. IInv /\ OrderInv /\ [Next]_vars => OrderInv'
    BY OrderStep, StopStep DEF IInv, OrderInv
  <1> QED
    BY <1>1, InitOrder, Invariance, PTL DEF Spec

\* When STOP has closed its service's TUN, no service object of the process holds another
\* (FixtureVpnService.java:17-20): an older instance would have been destroyed before, its
\* onDestroy being posted ahead of every start of a younger one.
THEOREM StopLeaves == Spec => []StopLeavesNoTun
  <1>1. IInv /\ OrderInv => StopLeavesNoTun
    <2> SUFFICES ASSUME IInv, OrderInv, main.pc = "stopSelf", main.task = "STOP", NEW t \in open
                 PROVE  FALSE
      BY DEF StopLeavesNoTun
    <2> USE DEF IInv, OrderInv
    <2>1. PICK i \in Instances : tun[i] = t /\ tun[i] # None
      BY DEF DescriptorInv, TypeOK, TypeTuns, Tuns, None
    <2>2. i < main.inst /\ main.inst <= created
      BY <2>1, Typed DEF HolderInv, StopInv, QueueInv
    <2>3. i # live
      BY <2>2, Typed DEF QueueInv
    <2>4. Doomed(i)
      BY <2>1, <2>3 DEF HolderInv
    <2> QED
      BY <2>2, <2>4, Typed DEF Doomed, Handling, QueueInv
  <1> QED
    BY <1>1, Invariance, OrderKept, PTL

-----------------------------------------------------------------------------
(* The log at rest.                                                        *)

\* The TUN routed into is open.
ActiveInv == active # None => active \in open

\* A message that will bring about another STATE record, or the end of its service: an Intent
\* without a mode does so in the service Android knows.
Ends(m) == m.kind # "NONE" \/ m.inst = live
Posted == \E p \in 1..Len(queue) : Ends(queue[p])

\* Another STATE record is to come: by a message, by the callback at work, by the onRevoke at work,
\* or by the end of a service that only its binding keeps.
RecordToCome ==
  \/ Posted
  \/ main.pc # "idle" /\ Ends([kind |-> main.task, inst |-> main.inst])
  \/ binder.pc # "idle" /\ binder.inst = live
  \/ bound /\ ~started /\ live # None

\* As long as no TUN is open, "STATE established" is not the last word.
LogInv ==
  /\ main.task = "MODE" /\ main.pc = "stopSelf" => lastState # "established"
  /\ lastState = "established" /\ open = {} => RecordToCome

\* The system routes into a TUN from its establishment to its close at most.
LEMMA ActiveStep == TypeOK /\ ActiveInv /\ [Next]_vars => ActiveInv'
  <1> SUFFICES ASSUME TypeOK, ActiveInv, [Next]_vars PROVE ActiveInv'
    OBVIOUS
  <1>1. CASE UNCHANGED <<open, active>> \/ active' = None
    BY <1>1 DEF ActiveInv
  <1>2. CASE MainClose
    BY <1>2 DEF MainClose, EndClose, ActiveInv
  <1>3. CASE MainBuild
    BY <1>3 DEF MainBuild, ActiveInv
  <1>4. CASE RevokeClose
    BY <1>4 DEF RevokeClose, EndClose, ActiveInv
  <1>5. CASE ~(MainClose \/ MainBuild \/ RevokeClose)
    <2>1. UNCHANGED <<open, active>> \/ active' = None
      BY <1>5 DEF Next, Main, Revoke, Observer, Host, Android, MainTake, MainPrepare, MainEnter, MainBuildFails,
                  MainLaunch, MainStopSelf, RevokeDeliver, RevokeEnter, RevokeStopSelf, ObserverCheck,
                  ObserverRead, ObserverEmit, ControllerStop, ControllerStart, AlwaysOnStart,
                  OtherProviderPrepares, Unbind, ForceStop, vars, vpnVars, tunVars
    <2> QED
      BY <1>1, <2>1
  <1> QED
    BY <1>2, <1>3, <1>4, <1>5

\* What is posted stays posted, and the new message is the last one.
LEMMA PostMore ==
  ASSUME TypeOK, NEW m \in Message, queue' = Append(queue, m)
  PROVE  /\ \A p \in 1..Len(queue) : p \in 1..Len(queue') /\ queue'[p] = queue[p]
         /\ Len(queue') \in 1..Len(queue') /\ queue'[Len(queue')] = m
  BY Typed

\* A service that is let go has its onDestroy posted; otherwise nothing changes.
LEMMA ReleasePosts ==
  ASSUME TypeOK, NEW a \in BOOLEAN, NEW b \in BOOLEAN, Release(a, b)
  PROVE  Posted' \/ (UNCHANGED <<queue, live>> /\ (a \/ b \/ live = None))
  <1>1. CASE ~(a \/ b \/ live = None)
    <2> DEFINE m == [kind |-> "DESTROY", inst |-> live]
    <2>1. m \in Message /\ queue' = Append(queue, m)
      BY <1>1, Typed DEF Message, Release
    <2> QED
      BY <2>1, PostMore DEF Posted, Ends
  <1> QED
    BY <1>1 DEF Release

\* stopSelf() keeps what is to come, and ends the service by itself if it is the one Android knows.
LEMMA StopSelfPosts ==
  ASSUME TypeOK, NEW i \in Instances, StopSelf(i), UNCHANGED bound
  PROVE  /\ RecordToCome' \/ UNCHANGED <<queue, live, started>>
         /\ live = i => RecordToCome'
  <1>1. CASE live = i
    <2>1. Posted' \/ (UNCHANGED <<queue, live>> /\ bound)
      BY <1>1, ReleasePosts, Typed DEF StopSelf, TypeOK, TypeVpn
    <2>2. ~started' /\ live # None
      BY <1>1, Typed DEF StopSelf
    <2> QED
      BY <2>1, <2>2 DEF RecordToCome
  <1> QED
    BY <1>1 DEF StopSelf

\* Every start is answered in the log.
LEMMA StartPosts ==
  ASSUME TypeOK, NEW k \in {"STOP", "MODE", "NONE"}, StartService(k)
  PROVE  Posted'
  <1> DEFINE target == IF live = None THEN created + 1 ELSE live
  <1>1. target \in Instances /\ live' = target
    BY Typed, BoundsAssumption DEF StartService, Instances, None
  <1>2. [kind |-> k, inst |-> target] \in Message
    BY <1>1 DEF Message
  <1>3. queue' = Append(queue, [kind |-> k, inst |-> target])
    BY DEF StartService
  <1> QED
    BY <1>1, <1>2, <1>3, PostMore DEF Posted, Ends

\* A step that leaves the service manager, the binding and the onRevoke at work alone and main at its
\* callback keeps what is to come.
LEMMA ComeFrame ==
  ASSUME RecordToCome, UNCHANGED <<queue, live, started, bound>>,
         UNCHANGED main \/ (main'.pc # "idle" /\ main'.task = main.task /\ main'.inst = main.inst),
         UNCHANGED binder \/ (binder'.pc # "idle" /\ binder'.inst = binder.inst)
  PROVE  RecordToCome'
  BY DEF RecordToCome, Posted, Ends

\* Every step keeps the promise of another record.
LEMMA LogStep == IInv /\ QueueInv /\ HolderInv /\ LogInv /\ [Next]_vars => LogInv'
  <1> SUFFICES ASSUME TypeOK, MonitorInv, DescriptorInv, QueueInv, HolderInv, LogInv, [Next]_vars PROVE LogInv'
    BY DEF IInv
  <1> USE DEF serviceVars, amsVars, vpnVars, tunVars, logVars
  <1>1. CASE MainTake
    <2>1. main.pc = "idle" /\ queue # <<>> /\ main'.pc \in {"enter", "prepare"} /\ Head(queue) = queue[1]
          /\ main'.task = queue[1].kind /\ main'.inst = queue[1].inst
          /\ UNCHANGED <<binder, open, live, started, bound, lastState>>
      BY <1>1, Typed DEF MainTake
    <2>2. ASSUME NEW p \in 1..Len(queue), p # 1 PROVE p - 1 \in 1..Len(queue') /\ queue'[p - 1] = queue[p]
      BY <1>1, <2>2, Typed DEF MainTake
    <2>3. ASSUME Posted PROVE RecordToCome'
      <3>1. PICK p \in 1..Len(queue) : Ends(queue[p])
        BY <2>3 DEF Posted
      <3>2. CASE p = 1
        BY <2>1, <3>1, <3>2 DEF RecordToCome, Ends
      <3>3. CASE p # 1
        BY <2>1, <2>2, <3>1, <3>3 DEF RecordToCome, Posted, Ends
      <3> QED
        BY <3>2, <3>3
    <2>4. RecordToCome => RecordToCome'
      BY <2>1, <2>3 DEF RecordToCome
    <2> QED
      BY <2>1, <2>4 DEF LogInv
  <1>2. CASE MainPrepare
    <2>1. main'.pc # "idle" /\ main'.task = main.task /\ main'.inst = main.inst
          /\ UNCHANGED <<queue, live, started, bound, binder, open>>
      BY <1>2 DEF MainPrepare, TypeOK, TypeThreads
    <2>2. lastState' = "established" => lastState = "established" /\ ~(main'.pc = "stopSelf" /\ main.task = "MODE")
      BY <1>2 DEF MainPrepare, TypeOK, TypeThreads
    <2> QED
      BY <2>1, <2>2, ComeFrame DEF LogInv
  <1>3. CASE MainEnter
    <2>1. main'.pc = "close" /\ main'.task = main.task /\ main'.inst = main.inst
          /\ UNCHANGED <<queue, live, started, bound, binder, open, lastState>>
      BY <1>3 DEF MainEnter, TypeOK, TypeThreads
    <2> QED
      BY <2>1, ComeFrame DEF LogInv
  <1>4. CASE MainClose
    <2>1. main.task \in {"MODE", "STOP", "DESTROY"}
      BY <1>4 DEF MainClose, MonitorInv, TypeOK, TypeThreads
    <2>2. CASE main.task = "DESTROY"
      BY <1>4, <2>2 DEF MainClose, LogInv, Idle
    <2>3. CASE main.task # "DESTROY"
      <3>1. main' = [main EXCEPT !.pc = IF main.task = "MODE" THEN "build" ELSE "stopSelf"]
        BY <1>4, <2>1, <2>3 DEF MainClose
      <3>2. main'.pc # "idle" /\ main'.task = main.task /\ ~(main'.pc = "stopSelf" /\ main'.task = "MODE")
        BY <3>1 DEF TypeOK, TypeThreads
      <3>3. main'.task # "NONE"
        BY <2>1, <3>2
      <3> QED
        BY <3>2, <3>3 DEF LogInv, RecordToCome, Ends
    <2> QED
      BY <2>2, <2>3
  <1>5. CASE MainBuild
    BY <1>5 DEF MainBuild, LogInv, TypeOK, TypeThreads
  <1>6. CASE MainBuildFails
    BY <1>6 DEF MainBuildFails, LogInv
  <1>7. CASE MainLaunch
    BY <1>7, Typed DEF MainLaunch, LogInv, DescriptorInv, Idle
  <1>8. CASE MainStopSelf
    <2>1. main.pc = "stopSelf" /\ main' = Idle /\ StopSelf(main.inst) /\ UNCHANGED <<bound, binder, open>>
      BY <1>8 DEF MainStopSelf
    <2>2. CASE main.task # "NONE"
      BY <1>8, <2>1, <2>2 DEF MainStopSelf, LogInv, QueueInv, Idle, TypeOK, TypeThreads
    <2>3. CASE main.task = "NONE"
      <3>1. RecordToCome => RecordToCome'
        BY <2>1, <2>3, Typed, StopSelfPosts DEF RecordToCome, Ends, Posted
      <3> QED
        BY <1>8, <2>1, <2>3, <3>1 DEF MainStopSelf, LogInv, Idle
    <2> QED
      BY <2>2, <2>3
  <1>9. CASE RevokeEnter
    <2>1. binder'.pc = "close" /\ binder'.inst = binder.inst
          /\ UNCHANGED <<queue, live, started, bound, main, open, lastState>>
      BY <1>9 DEF RevokeEnter, TypeOK, TypeThreads
    <2> QED
      BY <2>1, ComeFrame DEF LogInv
  <1>10. CASE RevokeClose
    <2> DEFINE i == binder.inst
    <2>1. binder'.pc = "stopSelf" /\ binder'.inst = i /\ i \in Instances /\ open' = open \ {tun[i]}
          /\ UNCHANGED <<queue, live, started, bound, main, lastState>>
      BY <1>10 DEF RevokeClose, EndClose, TypeOK, TypeThreads
    <2>2. CASE open = {}
      BY <2>1, <2>2, ComeFrame DEF LogInv
    <2>3. CASE open # {} /\ open' = {}
      <3>1. tun[i] # None
        <4>1. tun[i] \in open
          BY <2>1, <2>3
        <4>2. None \notin open
          BY DEF TypeOK, TypeTuns, Tuns, None
        <4> QED
          BY <4>1, <4>2
      <3>2. i = live \/ Doomed(i)
        BY <2>1, <3>1 DEF HolderInv
      <3>3. RecordToCome'
        BY <2>1, <3>2 DEF RecordToCome, Posted, Ends, Doomed, Handling
      <3> QED
        BY <2>1, <3>3 DEF LogInv
    <2> QED
      BY <2>1, <2>2, <2>3 DEF LogInv
  <1>11. CASE RevokeStopSelf
    <2>1. binder.inst \in Instances /\ binder' = BinderIdle /\ StopSelf(binder.inst)
          /\ UNCHANGED <<main, bound, open, lastState>>
      BY <1>11 DEF RevokeStopSelf, TypeOK, TypeThreads
    <2>2. RecordToCome => RecordToCome'
      BY <2>1, StopSelfPosts DEF RecordToCome, Ends, Posted
    <2> QED
      BY <2>1, <2>2 DEF LogInv
  <1>12. CASE Host
    BY <1>12, StartPosts DEF Host, ControllerStop, ControllerStart, LogInv, RecordToCome
  <1>13. CASE AlwaysOnStart
    BY <1>13, StartPosts DEF AlwaysOnStart, LogInv, RecordToCome
  <1>14. CASE OtherProviderPrepares \/ Unbind
    <2>1. Release(started, FALSE) /\ UNCHANGED <<main, binder, open, started, lastState>>
      BY <1>14 DEF OtherProviderPrepares, Unbind
    <2>2. Posted' \/ (UNCHANGED <<queue, live>> /\ (started \/ live = None))
      BY <2>1, ReleasePosts DEF TypeOK, TypeAms
    <2>3. RecordToCome => RecordToCome'
      BY <2>1, <2>2 DEF RecordToCome, Posted, Ends
    <2> QED
      BY <2>1, <2>3 DEF LogInv
  <1>15. CASE ForceStop
    BY <1>15 DEF ForceStop, LogInv
  <1>16. ASSUME NEW i \in Instances, RevokeDeliver(i) PROVE LogInv'
    BY <1>16 DEF RevokeDeliver, LogInv
  <1>17. ASSUME NEW t \in Tuns, Observer(t) PROVE LogInv'
    <2>1. UNCHANGED <<queue, live, started, bound, main, binder, open, lastState>>
      BY <1>17 DEF Observer, ObserverCheck, ObserverRead, ObserverEmit
    <2> QED
      BY <2>1, ComeFrame DEF LogInv
  <1>18. CASE UNCHANGED vars
    BY <1>18, ComeFrame DEF vars, LogInv
  <1> QED
    BY <1>1, <1>2, <1>3, <1>4, <1>5, <1>6, <1>7, <1>8, <1>9, <1>10, <1>11, <1>12, <1>13, <1>14,
       <1>15, <1>16, <1>17, <1>18 DEF Next, Main, Revoke, Android

\* A log at rest with "STATE established" last describes an open TUN (FixtureVpnService.java:91-93):
\* without one another record is to come, unless only a binding keeps the service, and the binding
\* needs the TUN routed into, which is open.
THEOREM EstablishedTrue == Spec => []EstablishedMeansTun
  <1>1. Init => ActiveInv /\ LogInv
    BY DEF Init, ActiveInv, LogInv, Idle
  <1>2. IInv /\ OrderInv /\ ActiveInv /\ LogInv /\ [Next]_vars => ActiveInv' /\ LogInv'
    BY ActiveStep, LogStep DEF IInv, OrderInv
  <1>3. TypeOK /\ ActiveInv /\ LogInv => EstablishedMeansTun
    BY Typed DEF EstablishedMeansTun, Quiet, ActiveInv, LogInv, RecordToCome, Posted
  <1> QED
    BY <1>1, <1>2, <1>3, Invariance, OrderKept, PTL DEF Spec, IInv

-----------------------------------------------------------------------------
(* The safety part of the promise: every step of the fixture is a step of  *)
(* its observer sessions, or changes nothing they see.                     *)

\* The phases, one by one.
PhasesMean ==
  \A t \in Tuns :
    /\ Phase(t) = "unused" <=> obs[t].pc = "none"
    /\ Phase(t) = "ended" <=> obs[t].pc = "done"
    /\ Phase(t) = "current" <=> Running(t) /\ ~Stale(t)
    /\ Phase(t) = "superseded" <=> Running(t) /\ Stale(t)
    /\ Phase(t) \in {"unused", "current", "superseded", "ended"}

\* The cases of Phase exclude each other and leave none out.
LEMMA Phases == TypeOK => PhasesMean
  <1> SUFFICES ASSUME TypeOK, NEW t \in Tuns
               PROVE  /\ Phase(t) = "unused" <=> obs[t].pc = "none"
                      /\ Phase(t) = "ended" <=> obs[t].pc = "done"
                      /\ Phase(t) = "current" <=> Running(t) /\ ~Stale(t)
                      /\ Phase(t) = "superseded" <=> Running(t) /\ Stale(t)
                      /\ Phase(t) \in {"unused", "current", "superseded", "ended"}
    BY DEF PhasesMean
  <1>1. obs[t].pc \in {"none", "check", "read", "emit", "done"}
    BY DEF TypeOK, TypeObservers
  <1>2. CASE obs[t].pc = "none"
    BY <1>2 DEF Phase, Running
  <1>3. CASE obs[t].pc = "done"
    BY <1>3 DEF Phase, Running
  <1>4. CASE Running(t) /\ Stale(t)
    BY <1>4 DEF Phase, Running
  <1>5. CASE Running(t) /\ ~Stale(t)
    BY <1>5 DEF Phase, Running
  <1> QED
    BY <1>1, <1>2, <1>3, <1>4, <1>5 DEF Running

\* So in the next state.
LEMMA PhasesNext == TypeOK' => PhasesMean'
  BY Phases, PTL

\* What of a step the sessions do not see.
LEMMA SessionsUntouched ==
  ASSUME UNCHANGED <<generation, late>>,
         \A t \in Tuns : obs'[t].pc = obs[t].pc /\ obs'[t].inst = obs[t].inst /\ obs'[t].token = obs[t].token
  PROVE  UNCHANGED Ideal!vars
  <1>1. \A t \in Tuns : Phase(t)' = Phase(t) /\ obs'[t].inst = obs[t].inst
    BY DEF Phase, Running, Stale
  <1> QED
    BY <1>1, Zenon DEF Ideal!vars

\* generation++ supersedes what is current of that instance.
LEMMA SupersedeStep ==
  ASSUME TypeOK, TypeOK', TokenInv, NEW i \in Instances,
         generation' = [generation EXCEPT ![i] = @ + 1], UNCHANGED <<obs, late>>
  PROVE  Ideal!Supersede(i)
  <1>1. \A t \in Tuns : Running(t)' <=> Running(t)
    BY DEF Running
  <1>2. \A t \in Tuns : obs[t].inst # i => (Stale(t)' <=> Stale(t))
    BY DEF Stale, TypeOK, TypeService, TypeObservers
  <1>3. \A t \in Tuns : obs[t].inst = i /\ Running(t) => Stale(t)'
    <2> SUFFICES ASSUME NEW t \in Tuns, obs[t].inst = i, Running(t) PROVE Stale(t)'
      OBVIOUS
    <2>1. obs[t].token <= generation[i] /\ obs[t].token \in Nat /\ generation[i] \in Nat
      BY DEF TokenInv, TypeOK, TypeService, TypeObservers
    <2>2. generation'[i] = generation[i] + 1
      BY DEF TypeOK, TypeService
    <2> QED
      BY <2>1, <2>2 DEF Stale
  <1>4. \A t \in Tuns : Phase(t)' = IF Phase(t) = "current" /\ obs[t].inst = i THEN "superseded" ELSE Phase(t)
    <2> SUFFICES ASSUME NEW t \in Tuns
                 PROVE  Phase(t)' = IF Phase(t) = "current" /\ obs[t].inst = i THEN "superseded" ELSE Phase(t)
      OBVIOUS
    <2>1. CASE obs[t].inst = i
      <3>1. CASE Running(t)
        <4>1. Phase(t)' = "superseded"
          BY <1>1, <1>3, <2>1, <3>1, PhasesNext DEF PhasesMean
        <4>2. Phase(t) \in {"current", "superseded"}
          BY <3>1, Phases DEF PhasesMean
        <4> QED
          BY <2>1, <4>1, <4>2
      <3>2. CASE ~Running(t)
        <4>1. obs'[t].pc = obs[t].pc /\ obs[t].pc \in {"none", "done"}
          BY <3>2 DEF Running, TypeOK, TypeObservers
        <4>2. Phase(t)' = Phase(t) /\ Phase(t) # "current"
          BY <3>2, <4>1, Phases, PhasesNext DEF PhasesMean
        <4> QED
          BY <4>2
      <3> QED
        BY <3>1, <3>2
    <2>2. CASE obs[t].inst # i
      <3>1. (Stale(t)' <=> Stale(t)) /\ (Running(t)' <=> Running(t)) /\ obs'[t].pc = obs[t].pc
        BY <1>1, <1>2, <2>2
      <3>2. Phase(t)' = Phase(t)
        BY <3>1, Phases, PhasesNext DEF PhasesMean
      <3> QED
        BY <2>2, <3>2
    <2> QED
      BY <2>1, <2>2
  <1> QED
    BY <1>4 DEF Ideal!Supersede, Ideal!Current

\* An observer that leaves ends its session.
LEMMA EndStep ==
  ASSUME TypeOK, TypeOK', NEW t \in Tuns, Running(t), UNCHANGED <<generation, late>>,
         obs'[t].pc = "done", obs'[t].inst = obs[t].inst,
         \A u \in Tuns : u # t => obs'[u] = obs[u]
  PROVE  Ideal!Next
  <1>1. Phase(t) \in {"current", "superseded"} /\ Phase(t)' = "ended"
    BY Phases, PhasesNext DEF PhasesMean
  <1>2. \A u \in Tuns : u # t => Phase(u)' = Phase(u)
    BY DEF Phase, Running, Stale
  <1>3. \A u \in Tuns : obs'[u].inst = obs[u].inst
    OBVIOUS
  <1>4. Ideal!End({t})
    BY <1>1, <1>2, <1>3 DEF Ideal!End
  <1> QED
    BY <1>4 DEF Ideal!Next

\* Each step of the fixture is a step of the sessions, or none.
LEMMA SessionStep == IInv /\ IInv' /\ [Next]_vars => [Ideal!Next]_(Ideal!vars)
  <1> SUFFICES ASSUME IInv, IInv', [Next]_vars PROVE Ideal!Next \/ UNCHANGED Ideal!vars
    OBVIOUS
  <1> USE DEF IInv
  <1>1. CASE Elsewhere
    BY <1>1, ElsewhereFrame, SessionsUntouched
  <1>2. CASE MainEnter
    <2>1. Ideal!Supersede(main.inst)
      BY <1>2, SupersedeStep DEF MainEnter, BeginClose, TypeOK, TypeThreads, logVars
    <2> QED
      BY <2>1 DEF Ideal!Next, TypeOK, TypeThreads
  <1>3. CASE RevokeEnter
    <2>1. Ideal!Supersede(binder.inst)
      BY <1>3, SupersedeStep DEF RevokeEnter, BeginClose, TypeOK, TypeThreads, logVars
    <2> QED
      BY <2>1 DEF Ideal!Next, TypeOK, TypeThreads
  <1>4. CASE MainClose \/ MainBuild \/ MainBuildFails \/ RevokeClose
    <2>1. UNCHANGED <<generation, late, obs>>
      BY <1>4 DEF MainClose, MainBuild, MainBuildFails, RevokeClose, logVars
    <2> QED
      BY <2>1, SessionsUntouched
  <1>5. CASE MainLaunch
    <2>0. main.inst \in Instances /\ tun[main.inst] \in Tuns
      BY <1>5 DEF MainLaunch, DescriptorInv, TypeOK, TypeService, TypeThreads
    <2>7. PICK i \in Instances, n \in Tuns : i = main.inst /\ n = tun[i]
      BY <2>0
    <2>1. obs[n].pc = "none" /\ lock[i] = "main"
      BY <1>5, <2>7 DEF MainLaunch, DescriptorInv, MonitorInv, InMonitor
    <2>2. /\ obs'[n] = [pc |-> "check", inst |-> i, token |-> generation[i], src |-> None]
          /\ \A t \in Tuns : t # n => obs'[t] = obs[t]
          /\ UNCHANGED <<generation, late>>
      BY <1>5, <2>7 DEF MainLaunch, TypeOK, TypeObservers
    <2>3. \A t \in Tuns : obs[t].inst = i => Phase(t) # "current"
      BY <2>1, Phases DEF PhasesMean, TokenInv, Stale, TypeOK, TypeService, TypeObservers
    <2>4. Phase(n) = "unused" /\ Phase(n)' = "current"
      <3>1. Running(n)' /\ ~Stale(n)'
        BY <2>1, <2>2 DEF Running, Stale
      <3> QED
        BY <2>1, <3>1, Phases, PhasesNext DEF PhasesMean
    <2>5. \A t \in Tuns : t # n => Phase(t)' = Phase(t)
      BY <2>2 DEF Phase, Running, Stale
    <2>6. Ideal!Open(n, i)
      <3>1. [t \in Tuns |-> Phase(t)]' = [[t \in Tuns |-> Phase(t)] EXCEPT ![n] = "current"]
        BY <2>4, <2>5
      <3>2. [t \in Tuns |-> obs[t].inst]' = [[t \in Tuns |-> obs[t].inst] EXCEPT ![n] = i]
        <4>1. \A t \in Tuns : obs'[t].inst = IF t = n THEN i ELSE obs[t].inst
          BY <2>2
        <4> QED
          BY <4>1
      <3>3. Phase(n) = "unused" /\ \A t \in Tuns : ~(Phase(t) = "current" /\ obs[t].inst = i)
        BY <2>3, <2>4
      <3> QED
        BY <2>2, <3>1, <3>2, <3>3 DEF Ideal!Open, Ideal!Current
    <2> QED
      BY <2>1, <2>6 DEF Ideal!Next
  <1>6. ASSUME NEW t \in Tuns, Observer(t) PROVE Ideal!Next \/ UNCHANGED Ideal!vars
    <2>1. /\ UNCHANGED generation /\ Running(t) /\ obs'[t].inst = obs[t].inst /\ obs'[t].token = obs[t].token
          /\ \A u \in Tuns : u # t => obs'[u] = obs[u] /\ late'[u] = late[u]
      BY <1>6, ObserverFrame DEF Running
    <2>2. CASE obs'[t].pc = "done"
      <3>1. UNCHANGED late
        BY <1>6, <2>2 DEF Observer, ObserverCheck, ObserverRead, ObserverEmit, logVars, TypeOK,
                          TypeObservers
      <3> QED
        BY <2>1, <2>2, <3>1, EndStep
    <2>3. CASE obs'[t].pc # "done"
      <3>1. obs'[t].pc \in {"check", "read", "emit"}
        BY <1>6, <2>3, ObserverFrame
      <3>2. \A u \in Tuns : Phase(u)' = Phase(u) /\ obs'[u].inst = obs[u].inst
        BY <2>1, <3>1 DEF Phase, Running, Stale
      <3>3. CASE UNCHANGED late
        BY <3>2, <3>3, Zenon DEF Ideal!vars
      <3>4. CASE late' # late
        <4>1. obs[t].pc = "emit" /\ Stale(t) /\ late' = [late EXCEPT ![t] = @ + 1]
          BY <1>6, <3>4 DEF Observer, ObserverCheck, ObserverRead, ObserverEmit, logVars
        <4>2. late[t] = 0
          BY <4>1 DEF LateInv, Running, TypeOK, TypeLog
        <4>3. Phase(t) = "superseded"
          BY <2>1, <4>1, Phases DEF PhasesMean
        <4>4. Ideal!LateRecord(t)
          BY <3>2, <4>1, <4>2, <4>3 DEF Ideal!LateRecord
        <4> QED
          BY <4>4 DEF Ideal!Next
      <3> QED
        BY <3>3, <3>4
    <2> QED
      BY <2>2, <2>3
  <1>7. CASE ForceStop
    <2> DEFINE S == {t \in Tuns : Running(t)}
    <2>1. \A t \in Tuns : obs'[t].inst = obs[t].inst /\ obs'[t].pc = IF obs[t].pc = "none" THEN "none" ELSE "done"
      BY <1>7 DEF ForceStop, TypeOK, TypeObservers
    <2>2. UNCHANGED late
      BY <1>7 DEF ForceStop
    <2>3. \A t \in Tuns : Phase(t)' = IF t \in S THEN "ended" ELSE Phase(t)
      <3> SUFFICES ASSUME NEW t \in Tuns PROVE Phase(t)' = IF Running(t) THEN "ended" ELSE Phase(t)
        OBVIOUS
      <3>1. obs[t].pc \in {"none", "check", "read", "emit", "done"}
        BY DEF TypeOK, TypeObservers
      <3> QED
        BY <2>1, <3>1 DEF Phase, Running
    <2>4. \A t \in S : Phase(t) \in {"current", "superseded"}
      BY Phases DEF PhasesMean
    <2>5. Ideal!End(S)
      BY <2>1, <2>2, <2>3, <2>4 DEF Ideal!End
    <2> QED
      BY <2>5 DEF Ideal!Next
  <1> QED
    BY <1>1, <1>2, <1>3, <1>4, <1>5, <1>6, <1>7, StepCases

\* The fixture implements the safety part of its promise (ImplementsSessions without fairness).
THEOREM ImplementsSafely == Spec => Ideal!SafeSpec
  <1>1. Init => Ideal!Init
    <2> SUFFICES ASSUME Init PROVE Ideal!Init
      OBVIOUS
    <2>1. \A t \in Tuns : obs[t].pc = "none" /\ obs[t].inst \in Instances /\ Phase(t) = "unused"
      <3> SUFFICES ASSUME NEW t \in Tuns
                   PROVE  obs[t].pc = "none" /\ obs[t].inst \in Instances /\ Phase(t) = "unused"
        OBVIOUS
      <3>1. obs[t].pc = "none" /\ obs[t].inst \in Instances
        BY OneInstance DEF Init, NoObserver
      <3> QED
        BY <3>1 DEF Phase, Running
    <2>2. [t \in Tuns |-> obs[t].inst] \in [Tuns -> Instances]
      BY <2>1
    <2>3. [t \in Tuns |-> Phase(t)] = [t \in Tuns |-> "unused"]
      BY <2>1
    <2>4. late = [t \in Tuns |-> 0]
      BY DEF Init
    <2> QED
      BY <2>2, <2>3, <2>4 DEF Ideal!Init
  <1> QED
    BY <1>1, SessionStep, Invariance, PTL DEF Spec, Ideal!SafeSpec
=============================================================================
