------------------------ MODULE CaseVerdicts_proofs ------------------------
(***************************************************************************)
(* Proofs about the verdict on one case, for any list of signed operations *)
(* and any number of changes of the TUN.  A verdict is drawn from two      *)
(* collections: rows, which are packets of this case or among the few it   *)
(* cannot tell from its own (TypeOK says so), and lines.  The invariant    *)
(* says what a line proves: that a packet entered a TUN (Witnessed), that  *)
(* a TUN was lost (LossInv), and, for the IPv6 windows, what came before   *)
(* the end of the first of the two operations (TunnelInv).                 *)
(***************************************************************************)
EXTENDS CaseVerdicts, Integers, SequenceTheorems, TLAPS

Kinds == {"BEGIN", "END", "established", "revoked", "stopped"}
Sayings == {"-", "both", "vpn=false", "vpn=true", "success", "timeout"}
Speakers == {"A", "B"} \cup {p.name : p \in Packets}

Lines ==
  {Mark(kind, of, says) : kind \in Kinds, of \in Speakers, says \in Sayings}
    \cup {PacketLine(p) : p \in Packets}

\* What the harness reads is what was logged first, and it reads when the test is over.
LogInv ==
  /\ log \in Seq(Lines) /\ obs \in Seq(Lines) /\ Len(obs) <= Len(log)
  /\ pc # "test" => op = Len(Script[name]) + 1

\* A PACKET line is that of a packet which entered a TUN.
Witnessed ==
  \A k \in DOMAIN log : log[k].kind = "PACKET" => \E p \in entered : log[k] = PacketLine(p)

\* A line about a loss, and a TUN that is down where one was up, mean that one was lost.
LossInv ==
  /\ \A k \in DOMAIN log :
       /\ log[k].kind \in {"revoked", "stopped"} => gone # {}
       /\ log[k].says = "vpn=false" /\ name = "testLockdownLoss" => gone # {}
       /\ log[k].says = "both" => lockdown
  /\ up = "none" /\ name \notin WithoutMode => gone # {}

Java6 == Operation("JAVA_UDP6", "documentation-v6", "udp", 46152, FALSE)
Native6 == Operation("NATIVE_UDP6", "documentation-v6", "udp", 46154, FALSE)

V6Line(k) == log[k].kind = "PACKET" /\ log[k].category = "documentation-v6"

\* The END at e closes the first IPv6 operation for good, and no packet of the second is before it.
JavaEnds(e) ==
  /\ log[e].kind = "END" /\ log[e].of = "JAVA_UDP6"
  /\ ~\E j \in DOMAIN log : j >= e /\ log[j].kind = "BEGIN" /\ log[j].of = "JAVA_UDP6"
  /\ \A k \in 1..e : V6Line(k) => Java6 \in entered

\* The second IPv6 operation sends after the first has ended.
TunnelInv ==
  name = "testFullTunnel" =>
    /\ op <= Len(Signed) + 1 => Native6 \notin entered
    /\ op > Len(Signed) + 1 => \E e \in DOMAIN log : JavaEnds(e)

Inv == TypeOK /\ LogInv /\ Witnessed /\ LossInv /\ TunnelInv

-----------------------------------------------------------------------------
(* The scripts.                                                            *)

LEMMA Params == MaxChanges \in Nat /\ Signed \in Seq(Operations)
                /\ \A i \in DOMAIN Signed : Signed[i].category # "documentation-v6"
  BY SignedAssumption

LEMMA CaseNames ==
  Names = {"testDirectProcessRestrictions", "testFullTunnel", "testKnownGapPerAppExclude",
           "testKnownGapSplitRoute", "testExistingSocketAndRealRevocation",
           "testVpnLossAndReconnect", "testProviderReplacement", "testLockdownLoss"}
  BY DEF Names, Script

LEMMA V6Fields ==
  /\ Java6.name = "JAVA_UDP6" /\ Native6.name = "NATIVE_UDP6"
  /\ Java6.category = "documentation-v6" /\ Native6.category = "documentation-v6"
  BY DEF Java6, Native6, Operation

\* The signed operations and, last, the two over IPv6.
LEMMA FullTunnel ==
  /\ Len(Signed) \in Nat /\ Len(Script["testFullTunnel"]) = Len(Signed) + 2
  /\ DOMAIN Script["testFullTunnel"] = 1..(Len(Signed) + 2)
  /\ \A i \in 1..Len(Signed) : Script["testFullTunnel"][i] = Signed[i]
  /\ Script["testFullTunnel"][Len(Signed) + 1] = Java6
  /\ Script["testFullTunnel"][Len(Signed) + 2] = Native6
  <1> DEFINE all == Operations \cup {Java6, Native6}
             two == <<Java6, Native6>>
  <1>1. Script["testFullTunnel"] = Signed \o two
    BY DEF Script, Java6, Native6
  <1>2. two \in Seq(all) /\ Len(two) = 2 /\ two[1] = Java6 /\ two[2] = Native6
    OBVIOUS
  <1>3. Signed \in Seq(all) /\ Len(Signed) \in Nat
    BY Params
  <1> HIDE DEF two, all
  <1>4. /\ Signed \o two \in Seq(all)
        /\ Len(Signed \o two) = Len(Signed) + Len(two)
        /\ \A i \in 1..Len(Signed) + Len(two) :
             (Signed \o two)[i] = IF i <= Len(Signed) THEN Signed[i] ELSE two[i - Len(Signed)]
    BY <1>2, <1>3, ConcatProperties
  <1>5. \A i \in 1..Len(Signed) : (Signed \o two)[i] = Signed[i]
    BY <1>2, <1>3, <1>4
  <1>6. (Signed \o two)[Len(Signed) + 1] = two[1] /\ (Signed \o two)[Len(Signed) + 2] = two[2]
    BY <1>2, <1>3, <1>4
  <1>7. DOMAIN (Signed \o two) = 1..(Len(Signed) + 2)
    BY <1>2, <1>3, <1>4
  <1> QED
    BY <1>1, <1>2, <1>3, <1>4, <1>5, <1>6, <1>7

IsScript(s) == Len(s) \in Nat /\ DOMAIN s = 1..Len(s)

\* Every script is a sequence.
LEMMA ScriptType == \A n \in Names : IsScript(Script[n])
  <1>1. IsScript(Script["testDirectProcessRestrictions"])
    BY DEF Script, IsScript
  <1>2. IsScript(Script["testKnownGapPerAppExclude"])
    BY DEF Script, IsScript
  <1>3. IsScript(Script["testKnownGapSplitRoute"])
    BY DEF Script, IsScript
  <1>4. IsScript(Script["testExistingSocketAndRealRevocation"])
    BY DEF Script, IsScript
  <1>5. IsScript(Script["testVpnLossAndReconnect"])
    BY DEF Script, IsScript
  <1>6. IsScript(Script["testProviderReplacement"])
    BY DEF Script, IsScript
  <1>7. IsScript(Script["testLockdownLoss"])
    BY DEF Script, IsScript
  <1>8. IsScript(Script["testFullTunnel"])
    BY FullTunnel DEF IsScript
  <1> QED
    BY <1>1, <1>2, <1>3, <1>4, <1>5, <1>6, <1>7, <1>8, CaseNames

\* The test is at an operation of its script, whose packet is one of the case.
LEMMA CurrentIn ==
  ASSUME TypeOK, Running
  PROVE  /\ Current \in Packets /\ Current.name \in Speakers
         /\ op \in 1..Len(Script[name]) /\ Len(Script[name]) \in Nat
  <1>1. IsScript(Script[name])
    BY ScriptType DEF TypeOK
  <1>2. op \in 1..Len(Script[name]) /\ Len(Script[name]) \in Nat
    BY <1>1 DEF TypeOK, Running, IsScript
  <1>3. Current \in Packets
    BY <1>1, <1>2 DEF Current, Packets, IsScript
  <1> QED
    BY <1>2, <1>3 DEF Speakers

\* Only the two IPv6 operations of the full tunnel send to the IPv6 target.
LEMMA V6Packets ==
  ASSUME TypeOK, name = "testFullTunnel", NEW p \in entered, p.category = "documentation-v6"
  PROVE  p = Java6 \/ p = Native6
  <1>1. PICK i \in 1..(Len(Signed) + 2) : p = Script[name][i]
    <2>1. Resolver.category # "documentation-v6" /\ \A l \in Leftovers : l.category # "documentation-v6"
      BY DEF Resolver, Leftovers, Operation
    <2>2. p \in Packets /\ p # Resolver /\ p \notin Leftovers
      BY <2>1 DEF TypeOK
    <2> QED
      BY <2>2, FullTunnel DEF Packets
  <1>2. CASE i \in 1..Len(Signed)
    <2>1. i \in DOMAIN Signed /\ p = Signed[i]
      BY <1>1, <1>2, FullTunnel, Params
    <2> QED
      BY <2>1, Params
  <1> QED
    BY <1>1, <1>2, FullTunnel

-----------------------------------------------------------------------------
(* The log.                                                                *)

LEMMA LineIn ==
  /\ \A kind \in Kinds, of \in Speakers, says \in Sayings : Mark(kind, of, says) \in Lines
  /\ \A p \in Packets : PacketLine(p) \in Lines
  BY DEF Lines

LEMMA LineFields ==
  /\ \A kind, of, says : /\ Mark(kind, of, says).kind = kind
                         /\ Mark(kind, of, says).of = of
                         /\ Mark(kind, of, says).says = says
  /\ \A p : /\ PacketLine(p).kind = "PACKET"
            /\ PacketLine(p).says = "-"
            /\ PacketLine(p).category = p.category
  BY DEF Mark, PacketLine

\* The log grew by the line.
Grown(line) ==
  /\ log' \in Seq(Lines) /\ Len(log') = Len(log) + 1 /\ Len(log) \in Nat
  /\ DOMAIN log = 1..Len(log) /\ DOMAIN log' = 1..(Len(log) + 1)
  /\ log'[Len(log) + 1] = line
  /\ \A i \in 1..Len(log) : log'[i] = log[i]

LEMMA Appended ==
  ASSUME LogInv, NEW line \in Lines, log' = Append(log, line)
  PROVE  Grown(line)
  <1>1. log \in Seq(Lines) /\ Len(log) \in Nat /\ DOMAIN log = 1..Len(log)
    BY DEF LogInv
  <1>2. /\ log' \in Seq(Lines) /\ Len(log') = Len(log) + 1
        /\ \A i \in 1..Len(log) : log'[i] = log[i]
        /\ log'[Len(log) + 1] = line
    BY <1>1, AppendProperties
  <1>3. DOMAIN log' = 1..(Len(log) + 1)
    BY <1>1, <1>2
  <1> QED
    BY <1>1, <1>2, <1>3 DEF Grown

\* What a step does to the log and to the history.
LEMMA NextLog ==
  ASSUME TypeOK, LogInv, [Next]_vars
  PROVE  /\ UNCHANGED <<name, lockdown>> /\ entered \subseteq entered' /\ gone \subseteq gone'
         /\ \/ log' = log
            \/ TestBegins /\ Grown(Mark("BEGIN", Current.name, "-"))
            \/ TestEnds /\ \E says \in Results(Current.name) : Grown(Mark("END", Current.name, says))
            \/ \E p \in {"A", "B"} : Establish(p) /\ Grown(EstablishedLine(p, lockdown))
            \/ \E line \in {"revoked", "stopped"} : Close(line) /\ Grown(Mark(line, up, "-"))
            \/ Observer /\ \E p \in toTun : Grown(PacketLine(p))
  <1> USE DEF testVars, tunVars
  <1>1. UNCHANGED <<name, lockdown>> /\ entered \subseteq entered' /\ gone \subseteq gone'
    BY DEF Next, vars, TestBegins, TestSends, TestEnds, Establish, Close, Observer, Qemu,
           Instrumented, CaptureEnd, Observe
  <1>2. CASE TestBegins
    <2>1. Mark("BEGIN", Current.name, "-") \in Lines
      BY <1>2, CurrentIn, LineIn DEF TestBegins, Kinds, Sayings
    <2> QED
      BY <1>1, <1>2, <2>1, Appended DEF TestBegins
  <1>3. CASE TestEnds
    <2>1. PICK says \in Results(Current.name) : log' = Append(log, Mark("END", Current.name, says))
      BY <1>3 DEF TestEnds
    <2>2. says \in Sayings
      BY DEF Results, Sayings
    <2>3. Mark("END", Current.name, says) \in Lines
      BY <1>3, <2>2, CurrentIn, LineIn DEF TestEnds, Kinds
    <2> QED
      BY <1>1, <1>3, <2>1, <2>3, Appended
  <1>4. ASSUME NEW p \in {"A", "B"}, Establish(p) PROVE Grown(EstablishedLine(p, lockdown))
    <2>1. EstablishedLine(p, lockdown) \in Lines
      BY LineIn DEF EstablishedLine, Kinds, Sayings, Speakers
    <2> QED
      BY <1>4, <2>1, Appended DEF Establish
  <1>5. ASSUME NEW line \in {"revoked", "stopped"}, Close(line) PROVE Grown(Mark(line, up, "-"))
    <2>1. up \in {"A", "B"}
      BY <1>5 DEF Close, TypeOK
    <2>2. Mark(line, up, "-") \in Lines
      BY <2>1, LineIn DEF Kinds, Sayings, Speakers
    <2> QED
      BY <1>5, <2>2, Appended DEF Close
  <1>6. CASE Observer
    <2>1. PICK p \in toTun : log' \in {log, Append(log, PacketLine(p))}
      BY <1>6 DEF Observer
    <2>2. PacketLine(p) \in Lines
      BY LineIn DEF TypeOK
    <2> QED
      BY <1>1, <1>6, <2>1, <2>2, Appended
  <1>7. CASE TestSends \/ Qemu \/ Instrumented \/ CaptureEnd \/ Observe \/ UNCHANGED vars
    BY <1>1, <1>7 DEF TestSends, Qemu, Instrumented, CaptureEnd, Observe, vars
  <1> QED
    BY <1>1, <1>2, <1>3, <1>4, <1>5, <1>6, <1>7 DEF Next

\* Whatever is logged, the harness has read the beginning of the log and no more.
LEMMA LogStep ==
  ASSUME TypeOK, LogInv, [Next]_vars
  PROVE  LogInv' /\ \A i \in DOMAIN obs' : obs'[i] = log'[i]
  <1> USE DEF testVars, tunVars
  <1>1. name' = name /\ Lines' = Lines
    <2>1. name' = name
      BY NextLog
    <2> QED
      BY <2>1 DEF Lines, Packets, Speakers
  <1>2. log' = log \/ \E line : Grown(line)
    BY NextLog
  <1>3. log \in Seq(Lines) /\ Len(log) \in Nat /\ Len(obs) \in Nat /\ DOMAIN obs = 1..Len(obs)
        /\ Len(obs) <= Len(log)
    BY DEF LogInv
  <1>4. log' \in Seq(Lines) /\ Len(log') \in Nat /\ Len(log) <= Len(log')
        /\ \A i \in 1..Len(log) : log'[i] = log[i]
    BY <1>2, <1>3 DEF Grown
  <1>5. pc' # "test" => op' = Len(Script[name]) + 1
    <2>1. IsScript(Script[name])
      BY ScriptType DEF TypeOK
    <2> QED
      BY <2>1 DEF Next, vars, TestBegins, TestSends, TestEnds, Establish, Close, Observer, Qemu,
                  Instrumented, CaptureEnd, Observe, Running, LogInv, TypeOK, IsScript
  <1>6. obs' \in Seq(Lines) /\ Len(obs') <= Len(log') /\ \A i \in DOMAIN obs' : obs'[i] = log'[i]
    <2>1. CASE Observe
      <3>1. PICK n \in 0..Len(log) : obs' = SubSeq(log, 1, n)
        BY <2>1 DEF Observe
      <3>2. n \in Nat /\ n <= Len(log) /\ \A i \in 1..n : log[i] \in Lines
        BY <1>3, <3>1
      <3>3. /\ obs' \in Seq(Lines)
            /\ Len(obs') = IF 1 <= n THEN n - 1 + 1 ELSE 0
            /\ \A i \in 1..(n - 1 + 1) : obs'[i] = log[1 + i - 1]
        BY <3>1, <3>2, SubSeqProperties
      <3>4. Len(obs') = n /\ \A i \in 1..n : obs'[i] = log[i]
        BY <3>2, <3>3
      <3> QED
        BY <1>3, <1>4, <3>2, <3>3, <3>4
    <2>2. CASE ~Observe
      <3>1. obs' = obs
        BY <2>2 DEF Next, vars, TestBegins, TestSends, TestEnds, Establish, Close, Observer, Qemu,
                    Instrumented, CaptureEnd
      <3>2. \A i \in 1..Len(obs) : obs[i] = log[i] /\ i \in 1..Len(log)
        BY <1>3 DEF TypeOK
      <3> QED
        BY <1>3, <1>4, <3>1, <3>2 DEF LogInv
    <2> QED
      BY <2>1, <2>2
  <1> QED
    BY <1>1, <1>4, <1>5, <1>6 DEF LogInv

\* Every step keeps the types.
LEMMA TypeStep ==
  ASSUME TypeOK, LogInv, [Next]_vars
  PROVE  TypeOK'
  <1> USE Params DEF testVars, tunVars, TypeOK
  <1>1. UNCHANGED name /\ Packets' = Packets /\ \A i \in DOMAIN obs' : obs'[i] = log'[i]
    BY NextLog, LogStep DEF Packets
  <1>2. CASE TestBegins
    BY <1>1, <1>2 DEF TestBegins
  <1>3. CASE TestSends
    <2>1. Current \in Packets
      BY <1>3, CurrentIn DEF TestSends
    <2> QED
      BY <1>1, <1>3, <2>1 DEF TestSends
  <1>4. CASE TestEnds
    <2>1. op' \in 1..(Len(Script[name]) + 1)
      BY <1>4, CurrentIn DEF TestEnds
    <2> QED
      BY <1>1, <1>4, <2>1 DEF TestEnds
  <1>5. ASSUME NEW p \in {"A", "B"}, Establish(p) PROVE TypeOK'
    <2>1. changes' \in 0..MaxChanges
      BY <1>5 DEF Establish
    <2> QED
      BY <1>1, <1>5, <2>1 DEF Establish
  <1>6. ASSUME NEW line \in {"revoked", "stopped"}, Close(line) PROVE TypeOK'
    <2>1. up \in {"A", "B"} /\ changes' \in 0..MaxChanges
      BY <1>6 DEF Close
    <2>2. toTun' \subseteq toTun
      BY <1>6 DEF Close
    <2> QED
      BY <1>1, <1>6, <2>1, <2>2 DEF Close
  <1>7. CASE Observer
    BY <1>1, <1>7 DEF Observer
  <1>8. CASE Qemu
    BY <1>1, <1>8 DEF Qemu
  <1>9. CASE Instrumented
    BY <1>1, <1>9 DEF Instrumented
  <1>10. CASE CaptureEnd
    BY <1>1, <1>10 DEF CaptureEnd
  <1>11. CASE Observe
    BY <1>1, <1>11 DEF Observe
  <1>12. CASE UNCHANGED vars
    BY <1>1, <1>12 DEF vars
  <1> QED
    BY <1>2, <1>3, <1>4, <1>5, <1>6, <1>7, <1>8, <1>9, <1>10, <1>11, <1>12 DEF Next

-----------------------------------------------------------------------------
(* What a line proves.                                                     *)

\* The observer logs only what it has read from a TUN.
LEMMA WitnessedStep ==
  ASSUME TypeOK, LogInv, Witnessed, [Next]_vars
  PROVE  Witnessed'
  <1>1. entered \subseteq entered'
    BY NextLog
  <1>2. CASE log' = log
    BY <1>1, <1>2 DEF Witnessed
  <1>3. ASSUME NEW line, Grown(line), line.kind = "PACKET" => \E p \in entered : line = PacketLine(p)
        PROVE  Witnessed'
    <2>1. ASSUME NEW k \in DOMAIN log', log'[k].kind = "PACKET"
          PROVE  \E p \in entered : log'[k] = PacketLine(p)
      <3>1. k \in 1..Len(log) \/ k = Len(log) + 1
        BY <1>3 DEF Grown
      <3> QED
        BY <1>3, <2>1, <3>1 DEF Grown, Witnessed
    <2> QED
      BY <1>1, <2>1 DEF Witnessed
  <1>4. \A kind \in Kinds : \A of, says : Mark(kind, of, says).kind # "PACKET"
    BY LineFields DEF Kinds
  <1>5. CASE TestBegins /\ Grown(Mark("BEGIN", Current.name, "-"))
    BY <1>3, <1>4, <1>5 DEF Kinds
  <1>6. ASSUME NEW says, Grown(Mark("END", Current.name, says)) PROVE Witnessed'
    BY <1>3, <1>4, <1>6 DEF Kinds
  <1>7. ASSUME NEW p, Grown(EstablishedLine(p, lockdown)) PROVE Witnessed'
    BY <1>3, <1>4, <1>7 DEF Kinds, EstablishedLine
  <1>8. ASSUME NEW line \in {"revoked", "stopped"}, Grown(Mark(line, up, "-")) PROVE Witnessed'
    BY <1>3, <1>4, <1>8 DEF Kinds
  <1>9. ASSUME NEW p \in toTun, Grown(PacketLine(p)) PROVE Witnessed'
    BY <1>3, <1>9 DEF TypeOK
  <1> QED
    BY <1>2, <1>5, <1>6, <1>7, <1>8, <1>9, NextLog

\* A line about a loss is logged when a TUN has gone, and a start that reports both booleans is
\* of a VPN under lockdown.
LEMMA LossStep ==
  ASSUME TypeOK, LogInv, LossInv, [Next]_vars
  PROVE  LossInv'
  <1> USE DEF LossInv
  <1>1. UNCHANGED <<name, lockdown>> /\ gone \subseteq gone'
    BY NextLog
  <1>2. up' = "none" /\ name \notin WithoutMode => gone' # {}
    BY DEF Next, vars, testVars, tunVars, TestBegins, TestSends, TestEnds, Establish, Close,
           Observer, Qemu, Instrumented, CaptureEnd, Observe
  <1>3. CASE log' = log
    BY <1>1, <1>2, <1>3
  <1>4. ASSUME NEW line, Grown(line),
               line.kind \in {"revoked", "stopped"} => gone' # {},
               line.says = "vpn=false" /\ name = "testLockdownLoss" => gone' # {},
               line.says = "both" => lockdown
        PROVE  LossInv'
    <2>1. ASSUME NEW k \in DOMAIN log'
          PROVE  /\ log'[k].kind \in {"revoked", "stopped"} => gone' # {}
                 /\ log'[k].says = "vpn=false" /\ name = "testLockdownLoss" => gone' # {}
                 /\ log'[k].says = "both" => lockdown
      <3>1. k \in 1..Len(log) \/ k = Len(log) + 1
        BY <1>4 DEF Grown
      <3>2. CASE k \in 1..Len(log)
        BY <1>1, <1>4, <3>2 DEF Grown
      <3>3. CASE k = Len(log) + 1
        BY <1>4, <3>3 DEF Grown
      <3> QED
        BY <3>1, <3>2, <3>3
    <2> QED
      BY <1>1, <1>2, <2>1
  <1>5. CASE TestBegins /\ Grown(Mark("BEGIN", Current.name, "-"))
    BY <1>4, <1>5, LineFields
  <1>6. ASSUME TestEnds, NEW says \in Results(Current.name), Grown(Mark("END", Current.name, says))
        PROVE  LossInv'
    <2>1. says # "both"
      BY DEF Results
    <2>2. says = "vpn=false" => up = "none"
      BY DEF Results
    <2>3. name = "testLockdownLoss" => name \notin WithoutMode
      BY DEF WithoutMode
    <2> QED
      BY <1>1, <1>4, <1>6, <2>1, <2>2, <2>3, LineFields
  <1>7. ASSUME NEW p, Grown(EstablishedLine(p, lockdown)) PROVE LossInv'
    BY <1>4, <1>7, LineFields DEF EstablishedLine
  <1>8. ASSUME NEW line \in {"revoked", "stopped"}, Close(line), Grown(Mark(line, up, "-"))
        PROVE  LossInv'
    <2>1. gone' # {}
      BY <1>8 DEF Close
    <2> QED
      BY <1>4, <1>8, <2>1, LineFields
  <1>9. ASSUME NEW p, Grown(PacketLine(p)) PROVE LossInv'
    BY <1>4, <1>9, LineFields
  <1> QED
    BY <1>3, <1>5, <1>6, <1>7, <1>8, <1>9, NextLog

\* No packet of the second IPv6 operation is in the log when the first one ends.
LEMMA TunnelStep ==
  ASSUME TypeOK, LogInv, Witnessed, TunnelInv, [Next]_vars
  PROVE  TunnelInv'
  <1> SUFFICES ASSUME name = "testFullTunnel"
               PROVE  /\ op' <= Len(Signed) + 1 => Native6 \notin entered'
                      /\ op' > Len(Signed) + 1 => (\E e \in DOMAIN log : JavaEnds(e))'
    <2>1. name' = name
      BY NextLog
    <2> QED
      BY <2>1 DEF TunnelInv
  <1>1. Len(Signed) \in Nat /\ op \in Nat /\ Len(Script[name]) = Len(Signed) + 2
    BY FullTunnel DEF TypeOK
  <1>2. log \in Seq(Lines) /\ DOMAIN log = 1..Len(log) /\ Len(log) \in Nat /\ entered \subseteq entered'
    BY NextLog DEF LogInv
  \* The second operation's packet enters a TUN by its own step only.
  <1>3. op' <= Len(Signed) + 1 => Native6 \notin entered'
    <2>1. CASE TestSends
      <3>1. op' = op /\ entered' \subseteq entered \cup {Current} /\ op \in 1..(Len(Signed) + 2)
        BY <1>1, <2>1, CurrentIn DEF TestSends
      <3>2. op <= Len(Signed) + 1 => Current # Native6
        <4>1. CASE op <= Len(Signed)
          <5>1. op \in DOMAIN Signed /\ Current = Signed[op]
            BY <1>1, <3>1, <4>1, FullTunnel, Params DEF Current
          <5> QED
            BY <5>1, Params, V6Fields
        <4>2. CASE op = Len(Signed) + 1
          BY <4>2, FullTunnel, V6Fields DEF Current
        <4> QED
          BY <1>1, <3>1, <4>1, <4>2
      <3> QED
        BY <3>1, <3>2 DEF TunnelInv
    <2>2. CASE TestEnds
      BY <1>1, <2>2 DEF TestEnds, TunnelInv
    <2>3. CASE ~TestSends /\ ~TestEnds
      <3>1. op' = op /\ entered' = entered
        BY <2>3 DEF Next, vars, testVars, TestBegins, Establish, Close, Observer, Qemu,
                    Instrumented, CaptureEnd, Observe
      <3> QED
        BY <3>1 DEF TunnelInv
    <2> QED
      BY <2>1, <2>2, <2>3
  \* An end stays an end, unless the first operation began again.
  <1>4. ASSUME op > Len(Signed) + 1 PROVE (\E e \in DOMAIN log : JavaEnds(e))'
    <2>1. PICK e \in DOMAIN log : JavaEnds(e)
      BY <1>4 DEF TunnelInv
    <2>2. CASE log' = log
      BY <1>2, <2>1, <2>2 DEF JavaEnds, V6Line
    <2>3. ASSUME NEW line, Grown(line), ~(line.kind = "BEGIN" /\ line.of = "JAVA_UDP6")
          PROVE  (\E i \in DOMAIN log : JavaEnds(i))'
      <3>1. e \in DOMAIN log' /\ e \in 1..Len(log) /\ log'[e] = log[e]
        BY <1>2, <2>1, <2>3 DEF Grown
      <3>2. ~\E j \in DOMAIN log' : j >= e /\ log'[j].kind = "BEGIN" /\ log'[j].of = "JAVA_UDP6"
        <4> SUFFICES ASSUME NEW j \in DOMAIN log', j >= e, log'[j].kind = "BEGIN", log'[j].of = "JAVA_UDP6"
                     PROVE  FALSE
          OBVIOUS
        <4>1. CASE j \in 1..Len(log)
          BY <1>2, <2>1, <2>3, <4>1 DEF Grown, JavaEnds
        <4>2. CASE j = Len(log) + 1
          BY <2>3, <4>2 DEF Grown
        <4> QED
          BY <1>2, <2>3, <4>1, <4>2 DEF Grown
      <3>3. \A k \in 1..e : V6Line(k)' => Java6 \in entered'
        BY <1>2, <2>1, <2>3, <3>1 DEF Grown, JavaEnds, V6Line
      <3>4. JavaEnds(e)'
        BY <2>1, <3>1, <3>2, <3>3 DEF JavaEnds
      <3> QED
        BY <3>1, <3>4
    <2>4. ASSUME TestBegins, Grown(Mark("BEGIN", Current.name, "-"))
          PROVE  (\E i \in DOMAIN log : JavaEnds(i))'
      <3>1. op = Len(Signed) + 2
        BY <1>1, <1>4, <2>4 DEF TestBegins, Running
      <3>2. Current.name = "NATIVE_UDP6"
        BY <3>1, FullTunnel, V6Fields DEF Current
      <3> QED
        BY <2>3, <2>4, <3>2, LineFields
    <2>5. \A of, says : Mark("END", of, says).kind # "BEGIN"
      BY LineFields
    <2>6. \A p, both : EstablishedLine(p, both).kind # "BEGIN"
      BY LineFields DEF EstablishedLine
    <2>7. \A line \in {"revoked", "stopped"} : \A of, says : Mark(line, of, says).kind # "BEGIN"
      BY LineFields
    <2>8. \A p : PacketLine(p).kind # "BEGIN"
      BY LineFields
    <2> QED
      BY <2>2, <2>3, <2>4, <2>5, <2>6, <2>7, <2>8, NextLog
  \* The end itself: what is logged before it entered a TUN before the second operation.
  <1>5. ASSUME op <= Len(Signed) + 1, op' > Len(Signed) + 1
        PROVE  (\E e \in DOMAIN log : JavaEnds(e))'
    <2>1. TestEnds /\ op = Len(Signed) + 1 /\ entered' = entered
      BY <1>1, <1>5 DEF Next, vars, testVars, TestBegins, TestSends, TestEnds, Establish, Close,
                        Observer, Qemu, Instrumented, CaptureEnd, Observe
    <2>2. Current = Java6
      BY <2>1, FullTunnel DEF Current
    <2>3. PICK says : Grown(Mark("END", "JAVA_UDP6", says))
      <3>1. PICK says \in Results(Current.name) : log' = Append(log, Mark("END", Current.name, says))
        BY <2>1 DEF TestEnds
      <3>2. says \in Sayings /\ Current.name \in Speakers
        BY <2>1, <3>1, CurrentIn DEF Results, Sayings, TestEnds
      <3>3. Mark("END", Current.name, says) \in Lines
        BY <3>2, LineIn DEF Kinds
      <3> QED
        BY <2>2, <3>1, <3>3, Appended, V6Fields
    <2>4. PICK e \in Nat : e = Len(log) + 1
      BY <1>2
    <2>5. e \in DOMAIN log' /\ log'[e].kind = "END" /\ log'[e].of = "JAVA_UDP6"
      BY <2>3, <2>4, LineFields DEF Grown
    <2>6. \A j \in DOMAIN log' : j >= e => j = e
      BY <1>2, <2>3, <2>4 DEF Grown
    <2>7. ASSUME NEW k \in 1..e, V6Line(k)' PROVE Java6 \in entered'
      <3>1. k \in 1..Len(log) /\ log'[k] = log[k]
        BY <1>2, <2>3, <2>5, <2>7, <2>4 DEF Grown, V6Line
      <3>2. PICK p \in entered : log[k] = PacketLine(p)
        BY <1>2, <2>7, <3>1 DEF Witnessed, V6Line
      <3>3. p.category = "documentation-v6"
        BY <2>7, <3>1, <3>2, LineFields DEF V6Line
      <3>4. p = Java6 \/ p = Native6
        BY <3>2, <3>3, V6Packets
      <3> QED
        BY <1>5, <2>1, <3>2, <3>4 DEF TunnelInv
    <2>8. JavaEnds(e)'
      BY <2>5, <2>6, <2>7 DEF JavaEnds
    <2> QED
      BY <2>5, <2>8
  <1> QED
    BY <1>1, <1>3, <1>4, <1>5

-----------------------------------------------------------------------------
(* The theorems.                                                           *)

LEMMA InitInv == Init => Inv
  <1> SUFFICES ASSUME Init PROVE Inv
    OBVIOUS
  <1> USE Params
  <1>1. IsScript(Script[name])
    BY ScriptType DEF Init
  <1>2. log \in Seq(Lines) /\ \A k \in DOMAIN log : log[k] = EstablishedLine("A", lockdown)
    <2>1. EstablishedLine("A", lockdown) \in Lines
      BY LineIn DEF EstablishedLine, Kinds, Sayings, Speakers
    <2>2. CASE name \in WithoutMode
      <3>1. log = <<>>
        BY <2>2 DEF Init
      <3> QED
        BY <3>1
    <2>3. CASE name \notin WithoutMode
      <3>1. log = <<EstablishedLine("A", lockdown)>>
        BY <2>3 DEF Init
      <3> QED
        BY <2>1, <3>1
    <2> QED
      BY <2>2, <2>3
  <1>3. TypeOK
    <2>1. inFlight \subseteq Packets
      BY DEF Init, Packets
    <2>2. op \in 1..(Len(Script[name]) + 1)
      BY <1>1 DEF Init, IsScript
    <2>3. lockdown \in BOOLEAN
      <3>1. CASE name = "testLockdownLoss"
        BY <3>1 DEF Init
      <3>2. CASE name # "testLockdownLoss"
        BY <3>2 DEF Init
      <3> QED
        BY <3>1, <3>2
    <2>4. up \in {"none", "A", "B"} /\ changes \in 0..MaxChanges /\ \A i \in DOMAIN obs : obs[i] = log[i]
      <3>1. obs = <<>> /\ DOMAIN <<>> = {}
        BY DEF Init
      <3> QED
        BY <3>1 DEF Init
    <2> QED
      BY <2>1, <2>2, <2>3, <2>4 DEF Init, TypeOK
  <1>4. LogInv
    BY <1>2 DEF Init, LogInv
  <1>5. /\ EstablishedLine("A", lockdown).kind = "established"
        /\ EstablishedLine("A", lockdown).says # "vpn=false"
        /\ EstablishedLine("A", lockdown).says = "both" => lockdown
    BY LineFields DEF EstablishedLine
  <1>6. Witnessed
    BY <1>2, <1>5 DEF Witnessed
  <1>7. LossInv
    <2>1. up = "none" => name \in WithoutMode
      BY DEF Init
    <2> QED
      BY <1>2, <1>5, <2>1 DEF LossInv
  <1>8. TunnelInv
    BY FullTunnel DEF Init, TunnelInv
  <1> QED
    BY <1>3, <1>4, <1>6, <1>7, <1>8 DEF Inv

\* The invariant holds of the specification.
THEOREM Invariance == Spec => []Inv
  <1>1. Inv /\ [Next]_vars => Inv'
    BY TypeStep, LogStep, WitnessedStep, LossStep, TunnelStep DEF Inv
  <1> QED
    BY <1>1, InitInv, PTL DEF Spec

\* Every variable keeps its type, and every packet its origin, for any list of signed operations.
THEOREM TypeCorrect == Spec => []TypeOK
  BY Invariance, PTL DEF Inv

\* What the harness has read are lines of the log.
LEMMA ObsInLog ==
  ASSUME Inv
  PROVE  /\ DOMAIN log = 1..Len(log) /\ Len(log) \in Nat
         /\ DOMAIN obs = 1..Len(obs) /\ Len(obs) \in Nat
         /\ \A i \in DOMAIN obs : i \in DOMAIN log /\ obs[i] = log[i] /\ i \in Nat
  BY DEF Inv, LogInv, TypeOK

\* By the time of the verdict both IPv6 operations are over.
LEMMA TunnelOver ==
  ASSUME Inv, pc = "analyzed", name = "testFullTunnel"
  PROVE  \E e \in DOMAIN log : JavaEnds(e)
  <1>1. op = Len(Script["testFullTunnel"]) + 1
    BY DEF Inv, LogInv
  <1> QED
    BY <1>1, FullTunnel DEF Inv, TunnelInv

\* "Preliminary evidence" for an IPv6 operation never comes from a later operation's packet
\* (network-evidence.py:304-306).
THEOREM Ipv6IsNotLater == Spec => []Ipv6NotLater
  <1>1. ASSUME Inv, pc = "analyzed", name = "testFullTunnel",
               NEW i \in DOMAIN Script[name], Script[name][i].category = "documentation-v6",
               Ipv6(Script[name][i]) = "Preliminary evidence"
        PROVE  \E j \in 1..i : Script[name][j].category = "documentation-v6" /\ Script[name][j] \in entered
    <2> DEFINE o == Script[name][i]
               n == Len(Signed)
    <2>1. n \in Nat /\ DOMAIN Script[name] = 1..(n + 2) /\ Script[name][n + 1] = Java6
          /\ Script[name][n + 2] = Native6
      BY <1>1, FullTunnel
    <2>2. i = n + 1 \/ i = n + 2
      <3>1. CASE i \in 1..n
        <4>1. DOMAIN Signed = 1..n
          BY Params
        <4>2. o = Signed[i]
          BY <1>1, <3>1, FullTunnel
        <4> QED
          BY <1>1, <3>1, <4>1, <4>2, Params
      <3> QED
        BY <2>1, <3>1
    <2>3. PICK k \in Window(o) : obs[k].kind = "PACKET" /\ obs[k].category = "documentation-v6"
      BY <1>1 DEF Ipv6
    <2>4. k \in DOMAIN obs /\ k \in DOMAIN log /\ k \in Nat /\ V6Line(k)
      BY <1>1, <2>3, ObsInLog DEF Window, V6Line
    <2>5. PICK p \in entered : log[k] = PacketLine(p)
      BY <1>1, <2>4 DEF Inv, Witnessed, V6Line
    <2>6. p = Java6 \/ p = Native6
      BY <1>1, <2>4, <2>5, LineFields, V6Packets DEF Inv, V6Line
    <2>7. CASE i = n + 2
      BY <2>1, <2>5, <2>6, <2>7, V6Fields
    <2>8. CASE i = n + 1
      <3>1. PICK e \in DOMAIN log : JavaEnds(e)
        BY <1>1, TunnelOver
      <3>2. /\ DOMAIN log = 1..Len(log) /\ Len(log) \in Nat
            /\ DOMAIN obs = 1..Len(obs) /\ Len(obs) \in Nat /\ e \in Nat
        <4>1. /\ DOMAIN log = 1..Len(log) /\ Len(log) \in Nat
              /\ DOMAIN obs = 1..Len(obs) /\ Len(obs) \in Nat
          BY <1>1, ObsInLog
        <4>2. e \in DOMAIN log
          BY <3>1
        <4> QED
          BY <4>1, <4>2
      <3>3. o.name = "JAVA_UDP6"
        BY <2>1, <2>8, V6Fields
      <3>4. k <= e
        <4> SUFFICES ASSUME e < k PROVE FALSE
          BY <2>4, <3>2
        <4>1. e \in DOMAIN obs /\ e \in 1..k
          BY <2>4, <3>2
        <4>2. obs[e] = log[e] /\ AfterBegin(e, o)
          BY <1>1, <3>1, <3>3, <4>1, ObsInLog DEF AfterBegin, JavaEnds
        <4> QED
          BY <2>3, <3>1, <3>3, <4>1, <4>2 DEF Window, JavaEnds
      <3>5. Java6 \in entered
        BY <2>4, <3>1, <3>2, <3>4 DEF JavaEnds
      <3> QED
        BY <2>1, <2>8, <3>5, V6Fields
    <2> QED
      BY <2>2, <2>7, <2>8
  <1>2. Inv => Ipv6NotLater
    BY <1>1 DEF Ipv6NotLater
  <1> QED
    BY <1>2, Invariance, PTL

-----------------------------------------------------------------------------
(* What the capture proves: a recorded packet is the case's own or one of  *)
(* the few that look like it.                                              *)

Own(p) == \E i \in DOMAIN Script[name] : p = Script[name][i]

LEMMA Recorded ==
  ASSUME Inv
  PROVE  /\ \A p \in rows : p \in left /\ (Own(p) \/ p = Resolver \/ p \in Leftovers)
         /\ \A p \in entered : Own(p) \/ p = Resolver \/ p \in Leftovers
  BY DEF Inv, TypeOK, Packets, Own

LEMMA LeftoverFields ==
  /\ \A p \in Leftovers : /\ p.name = "leftover" /\ p.category = "host-control"
                          /\ p.protocol = "tcp" /\ (p.port = 46151 \/ (p.port = 46153 /\ p.data = FALSE))
  /\ Resolver.name = "resolver" /\ Resolver.category = "platform-dns"
  BY DEF Leftovers, Resolver, Operation

Two(s, p, q) == DOMAIN s = 1..2 /\ s[1] = p /\ s[2] = q

LEMMA OwnOfTwo ==
  ASSUME NEW p, NEW q, Two(Script[name], p, q), NEW r, Own(r)
  PROVE  r = p \/ r = q
  BY DEF Two, Own

\* A success of the old socket is believed for data that left the device (lines 317-318).
THEOREM SuccessHasData == Spec => []SuccessNeedsData
  <1>1. ASSUME Inv, Passed("testExistingSocketAndRealRevocation"),
               Says(Mark("END", "OLD_SOCKET_SEND", "success"))
        PROVE  (\E p \in left : p.name = "OLD_SOCKET_SEND") \/ LeftoverRecorded(46151)
    <2>1. PICK r \in OldSocketPhysicalData : TRUE
      BY <1>1 DEF Passed, Accepted
    <2>2. r \in rows /\ r.category = "host-control" /\ r.data
      BY <2>1 DEF OldSocketPhysicalData, Host, Rows
    <2>3. r \in left /\ (Own(r) \/ r = Resolver \/ r \in Leftovers)
      BY <1>1, <2>2, Recorded
    <2>4. CASE Own(r)
      <3> DEFINE connect == Operation("CONNECT", "host-control", "tcp", 46151, FALSE)
                 send == Operation("OLD_SOCKET_SEND", "host-control", "tcp", 46151, TRUE)
      <3>1. Two(Script["testExistingSocketAndRealRevocation"], connect, send)
        BY DEF Script, Two
      <3>2. name = "testExistingSocketAndRealRevocation"
        BY <1>1 DEF Passed
      <3>3. connect.data = FALSE /\ send.name = "OLD_SOCKET_SEND"
        BY DEF Operation
      <3> HIDE DEF connect, send
      <3>4. r = connect \/ r = send
        BY <2>4, <3>1, <3>2, OwnOfTwo
      <3> QED
        BY <2>2, <2>3, <3>3, <3>4
    <2>5. CASE r \in Leftovers
      BY <2>2, <2>5, LeftoverFields DEF LeftoverRecorded
    <2> QED
      BY <2>2, <2>3, <2>4, <2>5, LeftoverFields
  <1>2. Inv => SuccessNeedsData
    BY <1>1 DEF SuccessNeedsData
  <1> QED
    BY <1>2, Invariance, PTL

\* The two operations of the VPN-loss case, by port.
LEMMA LossPackets ==
  ASSUME name = "testVpnLossAndReconnect", NEW p, Own(p)
  PROVE  /\ p.category = "host-control" /\ p.protocol = "tcp"
         /\ (p.name = "LOSS" /\ p.port = 46151) \/ (p.name = "LOSS_OS_FALLBACK" /\ p.port = 46153)
  <1> DEFINE loss == Operation("LOSS", "host-control", "tcp", 46151, FALSE)
             fallback == Operation("LOSS_OS_FALLBACK", "host-control", "tcp", 46153, FALSE)
  <1>1. Two(Script["testVpnLossAndReconnect"], loss, fallback)
    BY DEF Script, Two
  <1>2. /\ loss.category = "host-control" /\ loss.protocol = "tcp"
        /\ loss.name = "LOSS" /\ loss.port = 46151
        /\ fallback.category = "host-control" /\ fallback.protocol = "tcp"
        /\ fallback.name = "LOSS_OS_FALLBACK" /\ fallback.port = 46153
    BY DEF Operation
  <1> HIDE DEF loss, fallback
  <1>3. p = loss \/ p = fallback
    BY <1>1, OwnOfTwo
  <1> QED
    BY <1>2, <1>3

\* The race is judged by packets of the gated attempt alone (lines 272-276, 319-325).
THEOREM RaceJudged == Spec => []RaceIsGated
  <1>1. ASSUME Inv, name = "testVpnLossAndReconnect", NEW r \in rows
        PROVE  /\ r \in left
               /\ r.category = "host-control" =>
                    \/ r.name = "LOSS" /\ r.port = 46151
                    \/ r.name = "LOSS_OS_FALLBACK" /\ r.port = 46153
                    \/ r.name = "leftover"
               /\ r.name = "LOSS" => r \in gated_race_packets
    <2>1. r \in left /\ (Own(r) \/ r = Resolver \/ r \in Leftovers)
      BY <1>1, Recorded
    <2>2. CASE Own(r)
      <3>1. /\ r.category = "host-control" /\ r.protocol = "tcp"
            /\ (r.name = "LOSS" /\ r.port = 46151) \/ (r.name = "LOSS_OS_FALLBACK" /\ r.port = 46153)
        BY <1>1, <2>2, LossPackets
      <3> QED
        BY <1>1, <2>1, <3>1 DEF gated_race_packets, Rows
    <2>3. CASE r = Resolver \/ r \in Leftovers
      BY <2>1, <2>3, LeftoverFields
    <2> QED
      BY <2>1, <2>2, <2>3
  <1>2. ASSUME Inv, name = "testVpnLossAndReconnect", Accepted
        PROVE  /\ gated_race_packets # {} =>
                    \/ \E p \in left : p.name = "LOSS"
                    \/ \E r \in rows : r.name = "leftover" /\ r.port = 46151
               /\ gated_race_packets = {} => ~\E p \in rows : p.name = "LOSS"
               /\ \/ \E p \in left : p.name = "LOSS_OS_FALLBACK"
                  \/ \E r \in rows : r.name = "leftover" /\ r.port = 46153
    <2>1. Calibration # {}
      BY <1>2 DEF Accepted
    <2>2. ASSUME gated_race_packets # {}
          PROVE  \/ \E p \in left : p.name = "LOSS"
                 \/ \E r \in rows : r.name = "leftover" /\ r.port = 46151
      <3>1. PICK r \in rows : r.category = "host-control" /\ r.port = 46151
        BY <2>2 DEF gated_race_packets, Rows
      <3>2. r \in left /\ (r.name = "LOSS" \/ r.name = "leftover")
        BY <1>1, <1>2, <3>1
      <3> QED
        BY <3>1, <3>2
    <2>3. ASSUME gated_race_packets = {}, NEW p \in rows, p.name = "LOSS" PROVE FALSE
      BY <1>1, <1>2, <2>3
    <2>4. \/ \E p \in left : p.name = "LOSS_OS_FALLBACK"
          \/ \E r \in rows : r.name = "leftover" /\ r.port = 46153
      <3>1. PICK r \in rows : r.category = "host-control" /\ r.port = 46153
        BY <2>1 DEF Calibration, Host, Rows
      <3>2. r \in left /\ (r.name = "LOSS_OS_FALLBACK" \/ r.name = "leftover")
        BY <1>1, <1>2, <3>1
      <3> QED
        BY <3>1, <3>2
    <2> QED
      BY <2>2, <2>3, <2>4
  <1>3. ASSUME Inv PROVE RaceIsGated
    BY <1>2, <1>3 DEF RaceIsGated, LeftoverRecorded, Passed, GatedRace
  <1> QED
    BY <1>3, Invariance, PTL

\* A positive control left the device, and the routed target was seen in the TUN (lines 308-314).
THEOREM ControlsReal == Spec => []ControlsLeft
  <1>1. ASSUME Inv, name = "testKnownGapPerAppExclude", Accepted
        PROVE  (\E p \in left : p.name = "PHYSICAL") \/ (\E r \in rows : r.name = "leftover")
    <2>1. Host # {}
      BY <1>1 DEF Accepted
    <2>2. PICK r \in rows : r.category = "host-control" /\ r.protocol = "tcp"
      BY <2>1 DEF Host, Rows
    <2>3. r \in left /\ (Own(r) \/ r = Resolver \/ r \in Leftovers)
      BY <1>1, <2>2, Recorded
    <2>4. CASE Own(r)
      <3> DEFINE datagram == Operation("PHYSICAL_UDP", "host-control", "udp", 46152, FALSE)
                 connection == Operation("PHYSICAL", "host-control", "tcp", 46151, FALSE)
      <3>1. Two(Script["testKnownGapPerAppExclude"], datagram, connection)
        BY DEF Script, Two
      <3>2. datagram.protocol = "udp" /\ connection.name = "PHYSICAL"
        BY DEF Operation
      <3> HIDE DEF datagram, connection
      <3>3. r = datagram \/ r = connection
        BY <1>1, <2>4, <3>1, OwnOfTwo
      <3> QED
        BY <2>2, <2>3, <3>2, <3>3
    <2>5. CASE r = Resolver \/ r \in Leftovers
      BY <2>2, <2>5, LeftoverFields
    <2> QED
      BY <2>3, <2>4, <2>5
  <1>2. ASSUME name = "testKnownGapSplitRoute", NEW p, Own(p)
        PROVE  \/ p.name = "OUTSIDE" /\ p.category = "host-control"
               \/ p.name = "ROUTED" /\ p.category = "documentation-v4"
    <2> DEFINE outside == Operation("OUTSIDE", "host-control", "tcp", 46151, FALSE)
               routed == Operation("ROUTED", "documentation-v4", "udp", 46152, FALSE)
    <2>1. Two(Script["testKnownGapSplitRoute"], outside, routed)
      BY DEF Script, Two
    <2>2. /\ outside.name = "OUTSIDE" /\ outside.category = "host-control"
          /\ routed.name = "ROUTED" /\ routed.category = "documentation-v4"
      BY DEF Operation
    <2> HIDE DEF outside, routed
    <2>3. p = outside \/ p = routed
      BY <1>2, <2>1, OwnOfTwo
    <2> QED
      BY <2>2, <2>3
  <1>3. ASSUME Inv, name = "testKnownGapSplitRoute", Accepted
        PROVE  /\ (\E p \in left : p.name = "OUTSIDE") \/ (\E r \in rows : r.name = "leftover")
               /\ \E p \in entered : p.name = "ROUTED"
    <2>1. Host # {}
      BY <1>3 DEF Accepted
    <2>2. PICK r \in rows : r.category = "host-control"
      BY <2>1 DEF Host, Rows
    <2>3. r \in left /\ (Own(r) \/ r = Resolver \/ r \in Leftovers)
      BY <1>3, <2>2, Recorded
    <2>4. (\E p \in left : p.name = "OUTSIDE") \/ (\E q \in rows : q.name = "leftover")
      BY <1>2, <1>3, <2>2, <2>3, LeftoverFields
    <2>5. PICK i \in DOMAIN obs : obs[i].kind = "PACKET" /\ obs[i].category = "documentation-v4"
      BY <1>3 DEF Accepted, Shows
    <2>6. i \in DOMAIN log /\ obs[i] = log[i]
      BY <1>3, <2>5, ObsInLog
    <2>7. PICK p \in entered : log[i] = PacketLine(p)
      BY <1>3, <2>5, <2>6 DEF Inv, Witnessed
    <2>8. p.category = "documentation-v4"
      BY <2>5, <2>6, <2>7, LineFields
    <2>9. Own(p)
      BY <1>3, <2>7, <2>8, Recorded, LeftoverFields
    <2>10. p.name = "ROUTED"
      BY <1>2, <1>3, <2>8, <2>9
    <2> QED
      BY <2>4, <2>7, <2>10
  <1>4. ASSUME Inv PROVE ControlsLeft
    BY <1>1, <1>3, <1>4 DEF ControlsLeft, Passed
  <1> QED
    BY <1>4, Invariance, PTL

\* A case about losing the VPN passes only if a TUN was lost while it ran (lines 327-332).
THEOREM LossReal == Spec => []LossIsReal
  <1>1. ASSUME Inv, name = "testProviderReplacement", Accepted PROVE gone # {}
    <2>1. PICK i \in DOMAIN obs : obs[i].kind = "revoked"
      BY <1>1 DEF Accepted, Replacement, SaysKind
    <2>2. i \in DOMAIN log /\ obs[i] = log[i]
      BY <1>1, <2>1, ObsInLog
    <2> QED
      BY <1>1, <2>1, <2>2 DEF Inv, LossInv
  <1>2. ASSUME Inv, name = "testLockdownLoss", Accepted
        PROVE  lockdown /\ gone # {} /\ ~\E r \in rows : r.name = "LOCKDOWN_LOSS"
    <2>1. Lockdown
      BY <1>2 DEF Accepted
    <2>2. PICK i \in DOMAIN obs : obs[i].says = "both"
      BY <2>1 DEF Lockdown
    <2>3. PICK j \in DOMAIN obs : obs[j] = Mark("END", "LOCKDOWN_DOWN", "vpn=false")
      BY <2>1 DEF Lockdown, Says
    <2>4. i \in DOMAIN log /\ obs[i] = log[i] /\ j \in DOMAIN log /\ obs[j] = log[j]
      BY <1>2, <2>2, <2>3, ObsInLog
    <2>5. lockdown
      BY <1>2, <2>2, <2>4 DEF Inv, LossInv
    <2>6. gone # {}
      BY <1>2, <2>3, <2>4, LineFields DEF Inv, LossInv
    <2>7. ASSUME NEW r \in rows, r.name = "LOCKDOWN_LOSS" PROVE FALSE
      <3> DEFINE down == Operation("LOCKDOWN_DOWN", "none", "none", 0, FALSE)
                 loss == Operation("LOCKDOWN_LOSS", "host-control", "tcp", 46151, FALSE)
      <3>1. Own(r)
        BY <1>2, <2>7, Recorded, LeftoverFields
      <3>2. Two(Script["testLockdownLoss"], down, loss)
        BY DEF Script, Two
      <3>3. down.category = "none" /\ loss.category = "host-control"
        BY DEF Operation
      <3> HIDE DEF down, loss
      <3>4. r = down \/ r = loss
        BY <1>2, <3>1, <3>2, OwnOfTwo
      <3>5. r \in Rows
        BY <2>7, <3>3, <3>4 DEF Rows
      <3> QED
        BY <2>1, <3>5 DEF Lockdown
    <2> QED
      BY <2>5, <2>6, <2>7
  <1>3. ASSUME Inv PROVE LossIsReal
    BY <1>1, <1>2, <1>3 DEF LossIsReal, Passed
  <1> QED
    BY <1>3, Invariance, PTL
=============================================================================
