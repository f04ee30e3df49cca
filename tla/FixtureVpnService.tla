------------------------- MODULE FixtureVpnService -------------------------
(***************************************************************************)
(* The external VPN fixture: FixtureVpnService.java and the activity that  *)
(* drives it, FixtureController.java, in one provider process.             *)
(*                                                                         *)
(* Threads: the main thread (controller and service callbacks, one at a    *)
(* time), a Binder thread (onRevoke) and one observer thread per           *)
(* established TUN.  The fields "tun" and "generation" of a service        *)
(* instance are written under its monitor; observers read the volatile     *)
(* "generation" without it.  What Android does around them (the service    *)
(* manager, the VPN manager, descriptor numbers) is external and modelled  *)
(* from the calls the code makes.  A TUN is numbered by its establishment, *)
(* so its number also stands for the mode it was built with.               *)
(***************************************************************************)
EXTENDS Naturals, Sequences

CONSTANTS
  MaxInstances,     \* bound: service objects created
  MaxTuns,          \* bound: establishments
  MaxCommands,      \* bound: service starts requested
  MaxReplacements   \* bound: times another provider takes the VPN over

ASSUME BoundsAssumption ==
  /\ MaxInstances \in Nat \ {0}
  /\ MaxTuns \in Nat \ {0}
  /\ MaxCommands \in Nat
  /\ MaxReplacements \in Nat

Instances == 1..MaxInstances
Tuns == 1..MaxTuns
None == 0

VARIABLES
  \* --- the fields and the monitor of each service instance
  generation, tun, lock,
  \* --- threads
  main,       \* [pc, task, inst]: the callback the main thread is in
  binder,     \* [pc, inst]: the onRevoke call in progress
  obs,        \* per TUN: its observer [pc, inst, token, src]
  \* --- the process: open TUN descriptors, number of TUNs built so far
  open, tuns,
  \* --- Android: service manager
  queue,      \* messages posted to the main thread
  live,       \* the instance Android knows, or None
  started, bound, created, commands,
  \* --- Android: VPN manager
  prepared,   \* this package holds the VPN consent
  active,     \* the TUN the system routes into, or None
  revokes,    \* one-way onRevoke calls not yet delivered
  replacements,
  \* --- the log: last STATE record, PACKET records per superseded observer
  lastState, late

serviceVars == <<generation, tun, lock>>
amsVars == <<queue, live, started, created, commands>>
vpnVars == <<prepared, bound, active, revokes, replacements>>
tunVars == <<open, tuns>>
logVars == <<lastState, late>>
vars == <<serviceVars, main, binder, obs, tunVars, amsVars, vpnVars, logVars>>

Stale(t) == obs[t].token # generation[obs[t].inst]

NoObserver == [pc |-> "none", inst |-> 1, token |-> 0, src |-> None]
Idle == [pc |-> "idle", task |-> "NONE", inst |-> 1]
BinderIdle == [pc |-> "idle", inst |-> 1]

Init ==
  /\ generation = [i \in Instances |-> 0]
  /\ tun = [i \in Instances |-> None]
  /\ lock = [i \in Instances |-> "free"]
  /\ main = Idle /\ binder = BinderIdle
  /\ obs = [t \in Tuns |-> NoObserver]
  /\ open = {} /\ tuns = 0
  /\ queue = <<>> /\ live = None /\ started = FALSE /\ created = 0 /\ commands = 0
  /\ prepared = FALSE /\ bound = FALSE /\ active = None
  /\ revokes = [i \in Instances |-> 0] /\ replacements = 0
  /\ lastState = "none" /\ late = [t \in Tuns |-> 0]

-----------------------------------------------------------------------------
(* Android's service manager (external).                                   *)

\* startService / startForegroundService: deliver to the live instance or to a new one.
StartService(kind) ==
  LET target == IF live = None THEN created + 1 ELSE live IN
  /\ commands < MaxCommands /\ target <= MaxInstances
  /\ commands' = commands + 1
  /\ started' = TRUE
  /\ live' = target
  /\ created' = IF live = None THEN target ELSE created
  /\ queue' = Append(queue, [kind |-> kind, inst |-> target])

\* A service neither started nor bound is forgotten and told to destroy itself.
Release(stillStarted, stillBound) ==
  IF stillStarted \/ stillBound \/ live = None
  THEN UNCHANGED <<queue, live>>
  ELSE /\ queue' = Append(queue, [kind |-> "DESTROY", inst |-> live])
       /\ live' = None

\* stopSelf() without a start id: it withdraws later starts too; a forgotten instance's is ignored.
StopSelf(i) ==
  IF live = i
  THEN started' = FALSE /\ Release(FALSE, bound)
  ELSE UNCHANGED <<queue, live, started>>

-----------------------------------------------------------------------------
(* synchronized closeTun(), in two steps: observers do not take the        *)
(* monitor and may run between the increment and the close.                *)

\* Mutant: closeTun without "synchronized".
BeginCloseUnsynchronized(i, thread) ==
  /\ lock' = [lock EXCEPT ![i] = thread]
  /\ generation' = [generation EXCEPT ![i] = @ + 1]

\* Mutant: closeTun without "generation++".
BeginCloseSameGeneration(i, thread) ==
  /\ lock[i] = "free"
  /\ lock' = [lock EXCEPT ![i] = thread]
  /\ UNCHANGED generation

BeginClose(i, thread) ==
  /\ lock[i] = "free"
  /\ lock' = [lock EXCEPT ![i] = thread]
  /\ generation' = [generation EXCEPT ![i] = @ + 1]

\* Mutant: the field is cleared before it is used to close.
EndCloseAfterNull(i) ==
  /\ UNCHANGED <<open, active>>
  /\ tun' = [tun EXCEPT ![i] = None]

EndClose(i) ==
  /\ open' = open \ {tun[i]}
  /\ active' = IF active = tun[i] THEN None ELSE active
  /\ tun' = [tun EXCEPT ![i] = None]

-----------------------------------------------------------------------------
(* Main thread: onStartCommand, establish, onDestroy.                      *)

\* Mutant: onDestroy does not call closeTun.
MainTakeIgnoresDestroy ==
  /\ main.pc = "idle" /\ queue # <<>>
  /\ queue' = Tail(queue)
  /\ main' = IF Head(queue).kind = "DESTROY" THEN Idle
             ELSE [pc   |-> IF Head(queue).kind = "STOP" THEN "enter" ELSE "prepare",
                   task |-> Head(queue).kind,
                   inst |-> Head(queue).inst]
  /\ UNCHANGED <<serviceVars, binder, obs, tunVars, live, started, created, commands, vpnVars, logVars>>

MainTake ==
  /\ main.pc = "idle" /\ queue # <<>>
  /\ queue' = Tail(queue)
  /\ main' = [pc   |-> IF Head(queue).kind \in {"STOP", "DESTROY"} THEN "enter" ELSE "prepare",
              task |-> Head(queue).kind,
              inst |-> Head(queue).inst]
  /\ UNCHANGED <<serviceVars, binder, obs, tunVars, live, started, created, commands, vpnVars, logVars>>

\* prepare(this), then Mode.valueOf: a start without a mode stops the service.
MainPrepare ==
  /\ main.pc = "prepare"
  /\ \/ /\ prepared' = TRUE
        /\ main' = [main EXCEPT !.pc = IF main.task = "MODE" THEN "enter" ELSE "stopSelf"]
        /\ UNCHANGED lastState
     \/ /\ ~prepared
        /\ main' = [main EXCEPT !.pc = "stopSelf"]
        /\ lastState' = "consent-required"
        /\ UNCHANGED prepared
  /\ UNCHANGED <<serviceVars, binder, obs, tunVars, amsVars, bound, active, revokes, replacements, late>>

MainEnter ==
  /\ main.pc = "enter"
  /\ BeginClose(main.inst, "main")
  /\ main' = [main EXCEPT !.pc = "close"]
  /\ UNCHANGED <<tun, binder, obs, tunVars, amsVars, vpnVars, logVars>>

\* establish() keeps the monitor; STOP and onDestroy leave it here.
MainClose ==
  /\ main.pc = "close"
  /\ EndClose(main.inst)
  /\ lock' = IF main.task = "MODE" THEN lock ELSE [lock EXCEPT ![main.inst] = "free"]
  /\ main' = CASE main.task = "MODE"    -> [main EXCEPT !.pc = "build"]
               [] main.task = "STOP"    -> [main EXCEPT !.pc = "stopSelf"]
               [] main.task = "DESTROY" -> Idle
  /\ lastState' = IF main.task = "DESTROY" THEN "destroyed" ELSE lastState
  /\ UNCHANGED <<generation, binder, obs, tuns, amsVars, prepared, bound, revokes, replacements, late>>

\* Builder.establish() succeeds only for the prepared package; the system then binds the service.
MainBuild ==
  /\ main.pc = "build" /\ prepared /\ tuns < MaxTuns
  /\ live = None => created < MaxInstances
  /\ tuns' = tuns + 1
  /\ tun' = [tun EXCEPT ![main.inst] = tuns + 1]
  /\ open' = open \cup {tuns + 1}
  /\ active' = tuns + 1
  /\ bound' = TRUE
  /\ live' = IF live = None THEN created + 1 ELSE live
  /\ created' = IF live = None THEN created + 1 ELSE created
  /\ main' = [main EXCEPT !.pc = "launch"]
  /\ UNCHANGED <<generation, lock, binder, obs, queue, started, commands, prepared, revokes, replacements, logVars>>

\* A Builder exception, or null for an unprepared package: caught in onStartCommand.
MainBuildFails ==
  /\ main.pc = "build"
  /\ lock' = [lock EXCEPT ![main.inst] = "free"]
  /\ main' = [main EXCEPT !.pc = "stopSelf"]
  /\ lastState' = "establishment-failed"
  /\ UNCHANGED <<generation, tun, binder, obs, tunVars, amsVars, vpnVars, late>>

MainLaunch ==
  /\ main.pc = "launch"
  /\ obs' = [obs EXCEPT ![tun[main.inst]] =
               [pc |-> "check", inst |-> main.inst, token |-> generation[main.inst], src |-> None]]
  /\ lastState' = "established"
  /\ lock' = [lock EXCEPT ![main.inst] = "free"]
  /\ main' = Idle
  /\ UNCHANGED <<generation, tun, binder, tunVars, amsVars, vpnVars, late>>

MainStopSelf ==
  /\ main.pc = "stopSelf"
  /\ StopSelf(main.inst)
  /\ lastState' = IF main.task = "STOP" THEN "stopped" ELSE lastState
  /\ main' = Idle
  /\ UNCHANGED <<serviceVars, binder, obs, tunVars, created, commands, vpnVars, late>>

-----------------------------------------------------------------------------
(* Binder thread: onRevoke.  It logs before it has the monitor.            *)

\* Mutant: a revocation nobody sent.
RevokeDeliverUnsent(i) ==
  /\ binder.pc = "idle"
  /\ revokes' = [revokes EXCEPT ![i] = @ - 1]
  /\ binder' = [pc |-> "enter", inst |-> i]
  /\ lastState' = "revoked"
  /\ UNCHANGED <<serviceVars, main, obs, tunVars, amsVars, prepared, bound, active, replacements, late>>

RevokeDeliver(i) ==
  /\ binder.pc = "idle" /\ revokes[i] > 0
  /\ revokes' = [revokes EXCEPT ![i] = @ - 1]
  /\ binder' = [pc |-> "enter", inst |-> i]
  /\ lastState' = "revoked"
  /\ UNCHANGED <<serviceVars, main, obs, tunVars, amsVars, prepared, bound, active, replacements, late>>

\* Mutant: onRevoke stops the service without closeTun.
RevokeEnterSkipsClose ==
  /\ binder.pc = "enter"
  /\ binder' = [binder EXCEPT !.pc = "stopSelf"]
  /\ UNCHANGED <<serviceVars, main, obs, tunVars, amsVars, vpnVars, logVars>>

RevokeEnter ==
  /\ binder.pc = "enter"
  /\ BeginClose(binder.inst, "binder")
  /\ binder' = [binder EXCEPT !.pc = "close"]
  /\ UNCHANGED <<tun, main, obs, tunVars, amsVars, vpnVars, logVars>>

RevokeClose ==
  /\ binder.pc = "close"
  /\ EndClose(binder.inst)
  /\ lock' = [lock EXCEPT ![binder.inst] = "free"]
  /\ binder' = [binder EXCEPT !.pc = "stopSelf"]
  /\ UNCHANGED <<generation, main, obs, tuns, amsVars, prepared, bound, revokes, replacements, logVars>>

\* Mutant: onRevoke leaves the service running.
RevokeStopSelfNot ==
  /\ binder.pc = "stopSelf"
  /\ binder' = BinderIdle
  /\ UNCHANGED <<serviceVars, main, obs, tunVars, amsVars, vpnVars, logVars>>

RevokeStopSelf ==
  /\ binder.pc = "stopSelf"
  /\ StopSelf(binder.inst)
  /\ binder' = BinderIdle
  /\ UNCHANGED <<serviceVars, main, obs, tunVars, created, commands, vpnVars, logVars>>

-----------------------------------------------------------------------------
(* Observer thread of TUN t: observe(descriptor, mode, token).             *)

\* Mutant: while(true).
ObserverCheckAlways(t) ==
  /\ obs[t].pc = "check"
  /\ obs' = [obs EXCEPT ![t].pc = "read"]
  /\ UNCHANGED <<serviceVars, main, binder, tunVars, amsVars, vpnVars, logVars>>

ObserverCheck(t) ==
  /\ obs[t].pc = "check"
  /\ obs' = [obs EXCEPT ![t].pc = IF obs[t].token = generation[obs[t].inst] THEN "read" ELSE "done"]
  /\ UNCHANGED <<serviceVars, main, binder, tunVars, amsVars, vpnVars, logVars>>

\* Os.read: a packet, EAGAIN (sleep and loop) or an error (leave).  The descriptor may be
\* closed after its number was fetched; the number may then name the TUN opened since.
ObserverRead(t) ==
  /\ obs[t].pc = "read"
  /\ \/ \E s \in IF t \in open THEN {t} ELSE open, pc \in {"emit", "check"} :
          obs' = [obs EXCEPT ![t].pc = pc, ![t].src = s]
     \/ obs' = [obs EXCEPT ![t].pc = "done"]
  /\ UNCHANGED <<serviceVars, main, binder, tunVars, amsVars, vpnVars, logVars>>

\* Log the PACKET record, or not: malformed or out of budget (PacketLogBudget decides).
ObserverEmit(t) ==
  /\ obs[t].pc = "emit"
  /\ obs' = [obs EXCEPT ![t].pc = "check"]
  /\ \E logged \in BOOLEAN :
       late' = IF logged /\ Stale(t) THEN [late EXCEPT ![t] = @ + 1] ELSE late
  /\ UNCHANGED <<serviceVars, main, binder, tunVars, amsVars, vpnVars, lastState>>

-----------------------------------------------------------------------------
(* FixtureController.onCreate, on the main thread.                         *)

ControllerStop ==
  /\ main.pc = "idle"
  /\ StartService("STOP")
  /\ UNCHANGED <<serviceVars, main, binder, obs, tunVars, vpnVars, logVars>>

ControllerStart ==
  /\ main.pc = "idle"
  /\ \/ StartService("MODE") /\ prepared' = TRUE /\ UNCHANGED lastState
     \/ ~prepared /\ lastState' = "consent-required" /\ UNCHANGED <<amsVars, prepared>>
  /\ UNCHANGED <<serviceVars, main, binder, obs, tunVars, bound, active, revokes, replacements, late>>

-----------------------------------------------------------------------------
(* Android acting on its own (external).                                   *)

\* An always-on start: an Intent without a "mode" extra.
AlwaysOnStart ==
  /\ StartService("NONE")
  /\ UNCHANGED <<serviceVars, main, binder, obs, tunVars, vpnVars, logVars>>

\* Another provider is prepared: the interface is torn down, the service unbound and told, one-way.
OtherProviderPrepares ==
  /\ prepared /\ replacements < MaxReplacements
  /\ replacements' = replacements + 1
  /\ prepared' = FALSE /\ active' = None /\ bound' = FALSE
  /\ revokes' = IF bound THEN [revokes EXCEPT ![live] = @ + 1] ELSE revokes
  /\ Release(started, FALSE)
  /\ UNCHANGED <<serviceVars, main, binder, obs, tunVars, started, created, commands, logVars>>

\* The closed TUN's interface is gone: the system drops its binding.
Unbind ==
  /\ bound /\ active = None
  /\ bound' = FALSE
  /\ Release(started, FALSE)
  /\ UNCHANGED <<serviceVars, main, binder, obs, tunVars, started, created, commands,
                 prepared, active, revokes, replacements, logVars>>

\* reset of the host harness: am force-stop ends every thread and descriptor of the process,
\* then the log is cleared.
ForceStop ==
  /\ tun' = [i \in Instances |-> None] /\ lock' = [i \in Instances |-> "free"]
  /\ main' = Idle /\ binder' = BinderIdle
  /\ obs' = [t \in Tuns |-> IF obs[t].pc = "none" THEN obs[t] ELSE [obs[t] EXCEPT !.pc = "done"]]
  /\ open' = {} /\ active' = None /\ bound' = FALSE
  /\ queue' = <<>> /\ live' = None /\ started' = FALSE
  /\ revokes' = [i \in Instances |-> 0]
  /\ lastState' = "none"
  /\ UNCHANGED <<generation, tuns, created, commands, prepared, replacements, late>>

-----------------------------------------------------------------------------
Main == MainTake \/ MainPrepare \/ MainEnter \/ MainClose \/ MainBuild \/ MainBuildFails
          \/ MainLaunch \/ MainStopSelf
Revoke == RevokeEnter \/ RevokeClose \/ RevokeStopSelf
Observer(t) == ObserverCheck(t) \/ ObserverRead(t) \/ ObserverEmit(t)
Host == ControllerStop \/ ControllerStart
Android == AlwaysOnStart \/ OtherProviderPrepares \/ Unbind \/ ForceStop

Next ==
  \/ Main
  \/ \E i \in Instances : RevokeDeliver(i)
  \/ Revoke
  \/ \E t \in Tuns : Observer(t)
  \/ Host
  \/ Android

Spec == Init /\ [][Next]_vars

\* The scheduler runs every thread that can run; Android delivers what it has accepted.
Fairness ==
  /\ WF_vars(Main) /\ WF_vars(Revoke)
  /\ \A i \in Instances : WF_vars(RevokeDeliver(i))
  /\ \A t \in Tuns : WF_vars(Observer(t))

FairSpec == Spec /\ Fairness

-----------------------------------------------------------------------------
(* The promise, in terms of sessions: one per TUN.                         *)

Running(t) == obs[t].pc \in {"check", "read", "emit"}

Phase(t) ==
  CASE obs[t].pc = "none"         -> "unused"
    [] obs[t].pc = "done"         -> "ended"
    [] Running(t) /\ ~Stale(t)    -> "current"
    [] Running(t) /\ Stale(t)     -> "superseded"

Ideal == INSTANCE ObserverSessions WITH
           Sessions <- Tuns, Owners <- Instances,
           phase <- [t \in Tuns |-> Phase(t)],
           owner <- [t \in Tuns |-> obs[t].inst],
           extra <- late

-----------------------------------------------------------------------------
(* Properties.                                                             *)

TypeService ==
  /\ generation \in [Instances -> Nat]
  /\ tun \in [Instances -> Tuns \cup {None}]
  /\ lock \in [Instances -> {"free", "main", "binder"}]

TypeThreads ==
  /\ main \in [pc : {"idle", "prepare", "enter", "close", "build", "launch", "stopSelf"},
              task : {"STOP", "MODE", "NONE", "DESTROY"}, inst : Instances]
  /\ binder \in [pc : {"idle", "enter", "close", "stopSelf"}, inst : Instances]

TypeObservers ==
  obs \in [Tuns -> [pc : {"none", "check", "read", "emit", "done"}, inst : Instances,
                   token : Nat, src : Tuns \cup {None}]]

TypeTuns == open \subseteq Tuns /\ tuns \in 0..MaxTuns

TypeAms ==
  /\ queue \in Seq([kind : {"STOP", "MODE", "NONE", "DESTROY"}, inst : Instances])
  /\ live \in Instances \cup {None} /\ started \in BOOLEAN
  /\ created \in 0..MaxInstances /\ commands \in 0..MaxCommands

TypeVpn ==
  /\ prepared \in BOOLEAN /\ bound \in BOOLEAN
  /\ active \in Tuns \cup {None}
  /\ revokes \in [Instances -> Nat] /\ replacements \in 0..MaxReplacements

TypeLog ==
  /\ lastState \in {"none", "consent-required", "established", "establishment-failed",
                    "stopped", "revoked", "destroyed"}
  /\ late \in [Tuns -> Nat]

\* Every variable has its type.
TypeOK ==
  /\ TypeService /\ TypeThreads /\ TypeObservers /\ TypeTuns
  /\ TypeAms /\ TypeVpn /\ TypeLog

\* Outside the monitor, an observer whose token is current watches the TUN its service
\* holds, and that TUN is open: no observer outlives its TUN unnoticed, none reads a
\* successor's (establish, closeTun, observe).
CurrentObserverOwnsTun ==
  \A t \in Tuns :
    Running(t) /\ ~Stale(t) /\ lock[obs[t].inst] = "free"
      => tun[obs[t].inst] = t /\ t \in open

\* Every open TUN descriptor is reachable from the service that built it: closeTun can
\* still close it, whatever onStartCommand, onRevoke and onDestroy did in between.
NoOrphanDescriptor ==
  \A t \in open : \E i \in Instances : tun[i] = t

\* A packet read through a reused descriptor number comes only to an observer whose token
\* has been superseded (the close follows the increment in closeTun).
ForeignPacketOnlyWhenStale ==
  \A t \in Tuns : obs[t].pc = "emit" /\ obs[t].src # t => Stale(t)

\* A superseded observer logs at most the packet it had in hand: one PACKET record with the
\* old mode may follow the next "STATE established", never two (the test at line 54).
OneLateRecord == \A t \in Tuns : late[t] <= 1

\* When STOP has closed its service's TUN, no service object of the process holds another:
\* after "STATE stopped" nothing of this package is routed (lines 17-20, 93).
StopLeavesNoTun ==
  main.pc = "stopSelf" /\ main.task = "STOP" => open = {}

\* Nothing is left to run: neither the threads nor Android's service and VPN managers have anything
\* to do for this package, until somebody asks.
Quiet ==
  /\ main.pc = "idle" /\ binder.pc = "idle" /\ queue = <<>>
  /\ \A i \in Instances : revokes[i] = 0
  /\ bound => active # None

\* A log that has come to rest with "STATE established" last describes a TUN that is open.  onRevoke
\* logs before it has the monitor, so that it may close a TUN established, and logged, since: it is
\* its stopSelf() and the lost binding that bring about another record, "STATE destroyed" (lines
\* 91-93).
EstablishedMeansTun == Quiet /\ lastState = "established" => open # {}

\* The fixture implements its promise: per service instance at most one observer is current,
\* a superseded one adds at most one record, and it ends.
ImplementsSessions == Ideal!Spec

\* A delivered onRevoke closes the TUN the service held at that moment.
RevokeTakesEffect ==
  \A t \in Tuns :
    (binder.pc = "enter" /\ tun[binder.inst] = t) ~> (t \notin open)
=============================================================================
