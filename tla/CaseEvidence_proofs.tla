------------------------- MODULE CaseEvidence_proofs -------------------------
(***************************************************************************)
(* Proofs about the cases of the network evidence harness, for any number  *)
(* of cases and operations.                                                *)
(***************************************************************************)
EXTENDS CaseEvidence, Integers, TLAPS

Result == [start : Nat, end : Nat, observations : SUBSET Lines]

LEMMA OpsType == \A k \in 1..Len(Operations) : Operations[k] \in Ops
BY DEF Ops

\* Every step keeps the types.
LEMMA TypeStep == TypeOK /\ [Next]_vars => TypeOK'
<1> SUFFICES ASSUME TypeOK, [Next]_vars PROVE TypeOK'
  OBVIOUS
<1> USE CasesAssumption DEF TypeOK, TypeHarness, TypeTest, TypeFixture, TypeNet, TypeLog,
        TypeHistory, harnessVars, testVars, fixtureVars, logVars, netVars, historyVars, To, None
<1>1. CASE ResetStop
  BY <1>1 DEF ResetStop
<1>2. CASE ResetKill
  BY <1>2 DEF ResetKill
<1>3. CASE ResetClear
  BY <1>3 DEF ResetClear
<1>4. CASE StartFixture
  BY <1>4 DEF StartFixture
<1>5. CASE Poll
  BY <1>5 DEF Poll
<1>6. CASE Instrument
  <2>1. [results[case] EXCEPT !.start = size] \in Result
    BY DEF Result
  <2>2. results' \in [Cases -> Result]
    BY <1>6, <2>1 DEF Instrument, Result
  <2> QED
    <3>1. Len(Operations) \in Nat /\ op' = 1 /\ step' = "begin" /\ pc' = "measure"
      BY <1>6 DEF Instrument
    <3>2. TypeHarness'
      BY <1>6, <2>2, <3>1 DEF Instrument, Result
    <3>3. TypeTest'
      BY <3>1
    <3> QED
      BY <1>6, <3>2, <3>3 DEF Instrument
<1>7. CASE Instrumented
  BY <1>7 DEF Instrumented
<1>8. CASE CaptureEnd
  <2>1. [results[case] EXCEPT !.end = size] \in Result
    BY DEF Result
  <2>2. results' \in [Cases -> Result]
    BY <1>8, <2>1 DEF CaptureEnd, Result
  <2> QED
    BY <1>8, <2>2 DEF CaptureEnd, Result
<1>9. CASE Observe
  <2>1. [results[case] EXCEPT !.observations = log] \in Result
    BY DEF Result
  <2>2. results' \in [Cases -> Result]
    BY <1>9, <2>1 DEF Observe, Result
  <2>3. case' \in Cases
    BY <1>9 DEF Observe, Cases
  <2> QED
    BY <1>9, <2>2, <2>3 DEF Observe, Result
<1>10. CASE AdbFails
  BY <1>10 DEF AdbFails
<1>11. CASE TestLogs
  <2>1. Line(step, Operations[op], case) \in Lines
    BY <1>11, OpsType DEF TestLogs, Running, Line, Lines
  <2> QED
    BY <1>11, <2>1 DEF TestLogs, Running
<1>12. CASE TestSends
  <2>1. Packet(case, Operations[op]) \in Packets
    BY <1>12, OpsType DEF TestSends, Running, Packet, Packets
  <2> QED
    BY <1>12, <2>1 DEF TestSends, Running
<1>13. CASE Establish
  <2>1. Line("established", "none", starting) \in Lines /\ starting \in Cases
    BY <1>13 DEF Establish, Line, Lines
  <2> QED
    BY <1>13, <2>1 DEF Establish
<1>14. CASE LoseSession
  BY <1>14 DEF LoseSession
<1>15. CASE ObserverReads
  BY <1>15 DEF ObserverReads
<1>16. CASE ObserverLogs
  <2>1. \A p \in hand : Line("packet", p.op, p.from) \in Lines
    BY DEF Line, Lines, Packets
  <2> QED
    BY <1>16, <2>1 DEF ObserverLogs
<1>17. CASE LogdTakes
  BY <1>17 DEF LogdTakes
<1>18. CASE QemuBegins
  <2>1. PICK p \in inFlight :
          /\ inFlight' = inFlight \ {p}
          /\ capture' = Append(capture, [packet |-> p, during |-> Recorded])
    BY <1>18 DEF QemuBegins
  <2>2. [packet |-> p, during |-> Recorded] \in [packet : Packets, during : SUBSET Cases]
    BY DEF Recorded
  <2>3. /\ capture' \in Seq([packet : Packets, during : SUBSET Cases])
        /\ Len(capture') = Len(capture) + 1
    BY <2>1, <2>2
  <2> QED
    BY <1>18, <2>1, <2>3 DEF QemuBegins
<1>19. CASE QemuEnds
  <2> DEFINE n == Len(capture)
  <2>5. n \in Nat
    OBVIOUS
  <2>6. n >= 1
    BY <1>19, <2>5 DEF QemuEnds
  <2>1. /\ n \in Nat /\ n >= 1 /\ DOMAIN capture = 1..n
        /\ capture[n] \in [packet : Packets, during : SUBSET Cases]
    <3>1. \A S : capture \in Seq(S) => DOMAIN capture = 1..Len(capture) /\ \A k \in 1..Len(capture) : capture[k] \in S
      OBVIOUS
    <3>2. n \in 1..n
      BY <2>5, <2>6
    <3> QED
      BY <2>5, <2>6, <3>1, <3>2
  <2>2. capture' = [capture EXCEPT ![n] = [capture[n] EXCEPT !.during = @ \cup Recorded]]
    BY <1>19 DEF QemuEnds
  <2>3. [capture[n] EXCEPT !.during = @ \cup Recorded] \in [packet : Packets, during : SUBSET Cases]
    BY <2>1 DEF Recorded
  <2>4. /\ capture' \in Seq([packet : Packets, during : SUBSET Cases])
        /\ Len(capture') = Len(capture)
    BY <2>1, <2>2, <2>3
  <2>7. size' = 2 * n
    BY <1>19, <2>5 DEF QemuEnds
  <2>8. TypeNet'
    BY <1>19, <2>4, <2>5, <2>7 DEF QemuEnds
  <2> QED
    BY <1>19, <2>8 DEF QemuEnds
<1>20. CASE UNCHANGED vars
  BY <1>20 DEF vars
<1> QED
  BY <1>1, <1>2, <1>3, <1>4, <1>5, <1>6, <1>7, <1>8, <1>9, <1>10, <1>11, <1>12, <1>13, <1>14,
     <1>15, <1>16, <1>17, <1>18, <1>19, <1>20 DEF Next, Host, Test, Fixture, Qemu

-----------------------------------------------------------------------------
(* Evidence: after the reset of a case, everything on its way to the log   *)
(* stems from that case, or was overdue when the log was cleared.          *)

After == {"start", "poll", "sample", "measure", "settle", "logs"}

\* Between force-stop and the clearing of the log, nothing of the fixture is left.
Dead == pc = "clear" => starting = None /\ session = None /\ toTun = {} /\ hand = {}

OwnFixture ==
  pc \in After => /\ \A p \in toTun \cup hand : p.from = case
                 /\ starting \in {None, case} /\ session \in {None, case}

OwnLines == pc \in After => \A l \in written \cup log : l.from = case \/ l \in overdue

Own == Dead /\ OwnFixture /\ OwnLines

\* A line is true.
Witnessed(l) ==
  /\ l.kind = "packet" => Packet(l.from, l.op) \in entered
  /\ l.kind = "established" => l.from \in established

AllWitnessed ==
  /\ toTun \subseteq entered /\ hand \subseteq entered
  /\ \A l \in written \cup log : Witnessed(l)

\* The observations of a finished case are its own, and true.
Past ==
  \A c \in Cases : Finished(c) =>
    \A l \in results[c].observations :
      (l.from = c \/ l \in overdue) /\ (l.kind = "packet" => Packet(l.from, l.op) \in entered)

\* No "STATE established" outlives the start() that waits for it: there is one per start, and start()
\* returns on it.
StartHeard ==
  /\ pc \notin {"poll", "raised"} => starting = None /\ \A l \in written : l.kind # "established"
  /\ pc = "start" => ~SaysEstablished(log)
  /\ pc = "poll" =>
       /\ \A l \in written \cup log : l.kind = "established" => l = Line("established", "none", case)
       /\ starting # None => \A l \in written \cup log : l.kind # "established"
       /\ SaysEstablished(log) => \A l \in written : l.kind # "established"

LEMMA CaseNat == Cases \subseteq Nat \ {0}
BY CasesAssumption DEF Cases

\* Nothing of an earlier case survives a reset.
LEMMA OwnStep == TypeOK /\ Own /\ [Next]_vars => Own'
<1> SUFFICES ASSUME TypeOK /\ Own, [Next]_vars PROVE Own'
  OBVIOUS
<1> USE DEF Own, Dead, OwnFixture, OwnLines, After,
        harnessVars, testVars, fixtureVars, logVars, netVars, historyVars, To
<1>1. CASE ResetStop
  BY <1>1 DEF ResetStop
<1>2. CASE ResetKill
  BY <1>2 DEF ResetKill
<1>3. CASE ResetClear
  BY <1>3 DEF ResetClear
<1>4. CASE StartFixture
  BY <1>4 DEF StartFixture
<1>5. CASE Poll
  BY <1>5 DEF Poll
<1>6. CASE Instrument
  BY <1>6 DEF Instrument
<1>7. CASE Instrumented
  BY <1>7 DEF Instrumented
<1>8. CASE CaptureEnd
  BY <1>8 DEF CaptureEnd
<1>9. CASE Observe
  BY <1>9 DEF Observe
<1>10. CASE AdbFails
  BY <1>10 DEF AdbFails
<1>11. CASE TestLogs
  <2>1. Line(step, Operations[op], case).from = case
    BY DEF Line
  <2>2. pc = "measure" /\ pc' = pc /\ case' = case
    BY <1>11 DEF TestLogs, Running
  <2> QED
    BY <1>11, <2>1, <2>2 DEF TestLogs
<1>12. CASE TestSends
  <2>1. Packet(case, Operations[op]).from = case
    BY DEF Packet
  <2>2. pc = "measure" /\ pc' = pc /\ case' = case
    BY <1>12 DEF TestSends, Running
  <2>3. toTun' \subseteq toTun \cup {Packet(case, Operations[op])}
    BY <1>12 DEF TestSends
  <2> QED
    BY <1>12, <2>1, <2>2, <2>3 DEF TestSends
<1>13. CASE Establish
  <2>1. Line("established", "none", starting).from = starting
    BY DEF Line
  <2>2. pc' = pc /\ case' = case /\ starting # None
    BY <1>13 DEF Establish
  <2> QED
    BY <1>13, <2>1, <2>2 DEF Establish
<1>14. CASE LoseSession
  BY <1>14 DEF LoseSession
<1>15. CASE ObserverReads
  BY <1>15 DEF ObserverReads
<1>16. CASE ObserverLogs
  <2>1. PICK p \in hand : written' = written \cup {Line("packet", p.op, p.from)}
    BY <1>16 DEF ObserverLogs
  <2>2. Line("packet", p.op, p.from).from = p.from
    BY DEF Line
  <2> QED
    BY <1>16, <2>1, <2>2 DEF ObserverLogs
<1>17. CASE LogdTakes
  BY <1>17 DEF LogdTakes
<1>18. CASE QemuBegins
  BY <1>18 DEF QemuBegins
<1>19. CASE QemuEnds
  BY <1>19 DEF QemuEnds
<1>20. CASE UNCHANGED vars
  BY <1>20 DEF vars
<1> QED
  BY <1>1, <1>2, <1>3, <1>4, <1>5, <1>6, <1>7, <1>8, <1>9, <1>10, <1>11, <1>12, <1>13, <1>14,
     <1>15, <1>16, <1>17, <1>18, <1>19, <1>20 DEF Next, Host, Test, Fixture, Qemu

\* No step makes a line false or writes a false one.
LEMMA WitnessStep == TypeOK /\ AllWitnessed /\ [Next]_vars => AllWitnessed'
<1> SUFFICES ASSUME TypeOK /\ AllWitnessed, [Next]_vars PROVE AllWitnessed'
  OBVIOUS
<1> USE DEF AllWitnessed, Witnessed,
        harnessVars, testVars, fixtureVars, logVars, netVars, historyVars, To
<1>1. CASE ResetStop
  BY <1>1 DEF ResetStop
<1>2. CASE ResetKill
  BY <1>2 DEF ResetKill
<1>3. CASE ResetClear
  BY <1>3 DEF ResetClear
<1>4. CASE StartFixture
  BY <1>4 DEF StartFixture
<1>5. CASE Poll
  BY <1>5 DEF Poll
<1>6. CASE Instrument
  BY <1>6 DEF Instrument
<1>7. CASE Instrumented
  BY <1>7 DEF Instrumented
<1>8. CASE CaptureEnd
  BY <1>8 DEF CaptureEnd
<1>9. CASE Observe
  BY <1>9 DEF Observe
<1>10. CASE AdbFails
  BY <1>10 DEF AdbFails
<1>11. CASE TestLogs
  <2>1. Line(step, Operations[op], case).kind \notin {"packet", "established"}
    BY <1>11 DEF TestLogs, Line
  <2> QED
    BY <1>11, <2>1 DEF TestLogs
<1>12. CASE TestSends
  BY <1>12 DEF TestSends
<1>13. CASE Establish
  <2>1. /\ Line("established", "none", starting).kind = "established"
        /\ Line("established", "none", starting).from = starting
    BY DEF Line
  <2> QED
    BY <1>13, <2>1 DEF Establish
<1>14. CASE LoseSession
  BY <1>14 DEF LoseSession
<1>15. CASE ObserverReads
  BY <1>15 DEF ObserverReads
<1>16. CASE ObserverLogs
  <2>1. PICK p \in hand : written' = written \cup {Line("packet", p.op, p.from)}
    BY <1>16 DEF ObserverLogs
  <2> DEFINE l == Line("packet", p.op, p.from)
  <2>2. l.kind = "packet" /\ l.from = p.from /\ l.op = p.op
    BY DEF Line
  <2>3. Packet(p.from, p.op) = p
    BY DEF Packet, Packets, TypeOK, TypeFixture
  <2>4. Packet(l.from, l.op) \in entered
    BY <2>2, <2>3
  <2> HIDE DEF l
  <2> QED
    BY <1>16, <2>1, <2>2, <2>4 DEF ObserverLogs, l
<1>17. CASE LogdTakes
  BY <1>17 DEF LogdTakes
<1>18. CASE QemuBegins
  BY <1>18 DEF QemuBegins
<1>19. CASE QemuEnds
  BY <1>19 DEF QemuEnds
<1>20. CASE UNCHANGED vars
  BY <1>20 DEF vars
<1> QED
  BY <1>1, <1>2, <1>3, <1>4, <1>5, <1>6, <1>7, <1>8, <1>9, <1>10, <1>11, <1>12, <1>13, <1>14,
     <1>15, <1>16, <1>17, <1>18, <1>19, <1>20 DEF Next, Host, Test, Fixture, Qemu

\* A case finishes with its own observations and keeps them.
LEMMA PastStep == TypeOK /\ Own /\ AllWitnessed /\ Past /\ [Next]_vars => Past'
<1> SUFFICES ASSUME TypeOK /\ Own /\ AllWitnessed /\ Past, [Next]_vars PROVE Past'
  OBVIOUS
<1> USE DEF Past, Finished,
        harnessVars, testVars, fixtureVars, logVars, netVars, historyVars, To
<1>1. CASE ResetStop
  BY <1>1 DEF ResetStop
<1>2. CASE ResetKill
  BY <1>2 DEF ResetKill
<1>3. CASE ResetClear
  BY <1>3 DEF ResetClear
<1>4. CASE StartFixture
  BY <1>4 DEF StartFixture
<1>5. CASE Poll
  BY <1>5 DEF Poll
<1>6. CASE Instrument
  BY <1>6 DEF Instrument
<1>7. CASE Instrumented
  BY <1>7 DEF Instrumented
<1>8. CASE CaptureEnd
  BY <1>8 DEF CaptureEnd
<1>9. CASE Observe
  <2>1. /\ case \in Cases /\ case \in Nat /\ Cases \subseteq Nat
        /\ results' = [results EXCEPT ![case].observations = log]
    BY <1>9, CaseNat DEF Observe, TypeOK, TypeHarness
  <2>2. results'[case].observations = log
    BY <2>1 DEF TypeOK, TypeHarness
  <2>3. \A c \in Cases \ {case} : results'[c] = results[c]
    BY <2>1 DEF TypeOK, TypeHarness
  <2>4. \A l \in log :
          (l.from = case \/ l \in overdue) /\ (l.kind = "packet" => Packet(l.from, l.op) \in entered)
    BY <1>9 DEF Observe, Own, OwnLines, After, AllWitnessed, Witnessed
  <2>5. \A c \in Cases : Finished(c)' => c = case \/ Finished(c)
    BY <1>9, <2>1, CasesAssumption DEF Observe, Cases
  <2>6. UNCHANGED <<entered, overdue>>
    BY <1>9 DEF Observe
  <2>7. ASSUME NEW c \in Cases, Finished(c)', NEW l \in results'[c].observations
        PROVE  (l.from = c \/ l \in overdue) /\ (l.kind = "packet" => Packet(l.from, l.op) \in entered)
    <3>1. CASE c = case
      <4>1. l \in log
        BY <2>2, <2>7, <3>1
      <4> QED
        BY <2>4, <3>1, <4>1
    <3>2. CASE c # case
      BY <2>3, <2>5, <2>7, <3>2
    <3> QED
      BY <3>1, <3>2
  <2> QED
    BY <2>6, <2>7
<1>10. CASE AdbFails
  BY <1>10 DEF AdbFails
<1>11. CASE TestLogs
  BY <1>11 DEF TestLogs
<1>12. CASE TestSends
  BY <1>12 DEF TestSends
<1>13. CASE Establish
  BY <1>13 DEF Establish
<1>14. CASE LoseSession
  BY <1>14 DEF LoseSession
<1>15. CASE ObserverReads
  BY <1>15 DEF ObserverReads
<1>16. CASE ObserverLogs
  BY <1>16 DEF ObserverLogs
<1>17. CASE LogdTakes
  BY <1>17 DEF LogdTakes
<1>18. CASE QemuBegins
  BY <1>18 DEF QemuBegins
<1>19. CASE QemuEnds
  BY <1>19 DEF QemuEnds
<1>20. CASE UNCHANGED vars
  BY <1>20 DEF vars
<1> QED
  BY <1>1, <1>2, <1>3, <1>4, <1>5, <1>6, <1>7, <1>8, <1>9, <1>10, <1>11, <1>12, <1>13, <1>14,
     <1>15, <1>16, <1>17, <1>18, <1>19, <1>20 DEF Next, Host, Test, Fixture, Qemu

\* Each start() hears of its own establishment and of no other.
LEMMA StartStep == TypeOK /\ Own /\ StartHeard /\ [Next]_vars => StartHeard'
<1> SUFFICES ASSUME TypeOK /\ Own /\ StartHeard, [Next]_vars PROVE StartHeard'
  OBVIOUS
<1> USE DEF StartHeard, SaysEstablished,
        harnessVars, testVars, fixtureVars, logVars, netVars, historyVars, To
<1>1. CASE ResetStop
  BY <1>1 DEF ResetStop
<1>2. CASE ResetKill
  BY <1>2 DEF ResetKill
<1>3. CASE ResetClear
  BY <1>3 DEF ResetClear
<1>4. CASE StartFixture
  BY <1>4 DEF StartFixture
<1>5. CASE Poll
  BY <1>5 DEF Poll
<1>6. CASE Instrument
  BY <1>6 DEF Instrument
<1>7. CASE Instrumented
  BY <1>7 DEF Instrumented
<1>8. CASE CaptureEnd
  BY <1>8 DEF CaptureEnd
<1>9. CASE Observe
  BY <1>9 DEF Observe
<1>10. CASE AdbFails
  BY <1>10 DEF AdbFails
<1>11. CASE TestLogs
  <2>1. Line(step, Operations[op], case).kind # "established"
    BY <1>11 DEF TestLogs, Line
  <2>2. pc = "measure" /\ pc' = pc
    BY <1>11 DEF TestLogs, Running
  <2> QED
    BY <1>11, <2>1, <2>2 DEF TestLogs
<1>12. CASE TestSends
  BY <1>12 DEF TestSends
<1>13. CASE Establish
  <2>1. starting # None /\ pc \in {"poll", "raised"} /\ UNCHANGED <<pc, case, log>>
    BY <1>13 DEF Establish
  <2>2. pc = "poll" => starting = case
    BY <2>1 DEF Own, OwnFixture, After
  <2> QED
    BY <1>13, <2>1, <2>2 DEF Establish
<1>14. CASE LoseSession
  BY <1>14 DEF LoseSession
<1>15. CASE ObserverReads
  BY <1>15 DEF ObserverReads
<1>16. CASE ObserverLogs
  <2>1. PICK p \in hand : written' = written \cup {Line("packet", p.op, p.from)}
    BY <1>16 DEF ObserverLogs
  <2>2. Line("packet", p.op, p.from).kind # "established"
    BY DEF Line
  <2> QED
    BY <1>16, <2>1, <2>2 DEF ObserverLogs
<1>17. CASE LogdTakes
  <2>1. PICK l \in written : log' = log \cup {l} /\ written' = written \ {l}
    BY <1>17 DEF LogdTakes
  <2>2. UNCHANGED <<pc, case, starting>>
    BY <1>17 DEF LogdTakes
  <2> QED
    BY <2>1, <2>2
<1>18. CASE QemuBegins
  BY <1>18 DEF QemuBegins
<1>19. CASE QemuEnds
  BY <1>19 DEF QemuEnds
<1>20. CASE UNCHANGED vars
  BY <1>20 DEF vars
<1> QED
  BY <1>1, <1>2, <1>3, <1>4, <1>5, <1>6, <1>7, <1>8, <1>9, <1>10, <1>11, <1>12, <1>13, <1>14,
     <1>15, <1>16, <1>17, <1>18, <1>19, <1>20 DEF Next, Host, Test, Fixture, Qemu

\* start() returns on an established record of its own case only.
LEMMA MeasuredStep ==
  TypeOK /\ StartHeard /\ AllWitnessed /\ MeasuredMeansEstablished /\ [Next]_vars
    => MeasuredMeansEstablished'
<1> SUFFICES ASSUME TypeOK /\ StartHeard /\ AllWitnessed /\ MeasuredMeansEstablished, [Next]_vars
             PROVE  MeasuredMeansEstablished'
  OBVIOUS
<1> USE DEF MeasuredMeansEstablished,
        harnessVars, testVars, fixtureVars, logVars, netVars, historyVars, To
<1>1. CASE ResetStop
  BY <1>1 DEF ResetStop
<1>2. CASE ResetKill
  BY <1>2 DEF ResetKill
<1>3. CASE ResetClear
  BY <1>3 DEF ResetClear
<1>4. CASE StartFixture
  BY <1>4 DEF StartFixture
<1>5. CASE Poll
  <2>1. CASE pc' = "sample"
    <3>1. PICK l \in log : l.kind = "established"
      BY <1>5, <2>1 DEF Poll, SaysEstablished
    <3>2. l.from = case /\ l.from \in established
      BY <1>5, <3>1 DEF Poll, StartHeard, AllWitnessed, Witnessed, Line
    <3> QED
      BY <1>5, <3>2 DEF Poll
  <2> QED
    BY <1>5, <2>1 DEF Poll
<1>6. CASE Instrument
  BY <1>6 DEF Instrument
<1>7. CASE Instrumented
  BY <1>7 DEF Instrumented
<1>8. CASE CaptureEnd
  BY <1>8 DEF CaptureEnd
<1>9. CASE Observe
  BY <1>9 DEF Observe
<1>10. CASE AdbFails
  BY <1>10 DEF AdbFails
<1>11. CASE TestLogs
  BY <1>11 DEF TestLogs
<1>12. CASE TestSends
  BY <1>12 DEF TestSends
<1>13. CASE Establish
  BY <1>13 DEF Establish
<1>14. CASE LoseSession
  BY <1>14 DEF LoseSession
<1>15. CASE ObserverReads
  BY <1>15 DEF ObserverReads
<1>16. CASE ObserverLogs
  BY <1>16 DEF ObserverLogs
<1>17. CASE LogdTakes
  BY <1>17 DEF LogdTakes
<1>18. CASE QemuBegins
  BY <1>18 DEF QemuBegins
<1>19. CASE QemuEnds
  BY <1>19 DEF QemuEnds
<1>20. CASE UNCHANGED vars
  BY <1>20 DEF vars
<1> QED
  BY <1>1, <1>2, <1>3, <1>4, <1>5, <1>6, <1>7, <1>8, <1>9, <1>10, <1>11, <1>12, <1>13, <1>14,
     <1>15, <1>16, <1>17, <1>18, <1>19, <1>20 DEF Next, Host, Test, Fixture, Qemu


-----------------------------------------------------------------------------
(* Rows: the units of the capture written between the samples of a case.   *)

Sampled(c) == c < case \/ (c = case /\ pc \in {"measure", "settle", "logs", "analyzed"})
Ended(c) == c < case \/ (c = case /\ pc \in {"logs", "analyzed"})

\* Samples are in order, and none exceeds the size.
Offsets ==
  pc # "raised" =>
    \A c \in Cases :
      /\ Sampled(c) => results[c].start <= size
      /\ Ended(c) => results[c].start <= results[c].end /\ results[c].end <= size

\* Unit u is written, and was written in the interval of case c.
Inside(u, c) ==
  /\ Sampled(c) /\ u < size /\ results[c].start <= u
  /\ Ended(c) => u < results[c].end

During ==
  pc # "raised" =>
    \A c \in Cases, i \in 1..Len(capture) :
      c \in capture[i].during <=> Inside(2 * i - 2, c) \/ Inside(2 * i - 1, c)

AllWritten == pc = "analyzed" => size = 2 * Len(capture) /\ case = NCases

RowInv == Offsets /\ During /\ AllWritten

\* The capture and its samples do not change, nor which of them were taken.
Undisturbed ==
  /\ UNCHANGED <<capture, size>>
  /\ \A c \in Cases : results'[c].start = results[c].start /\ results'[c].end = results[c].end
  /\ pc' # "raised" => /\ pc # "raised"
                      /\ \A c \in Cases : Sampled(c)' = Sampled(c) /\ Ended(c)' = Ended(c)

LEMMA UndisturbedKeeps ==
  ASSUME Offsets, During, Undisturbed PROVE Offsets' /\ During'
<1>1. Offsets'
  BY DEF Offsets, Undisturbed
<1>2. During'
  <2> SUFFICES ASSUME pc' # "raised", NEW c \in Cases, NEW i \in 1..Len(capture)
               PROVE  c \in capture[i].during
                        <=> (Inside(2 * i - 2, c) \/ Inside(2 * i - 1, c))'
    BY DEF During, Undisturbed
  <2> QED
    BY DEF During, Undisturbed, Inside
<1> QED
  BY <1>1, <1>2

\* Every step but two samples and two writes of QEMU.
LEMMA UndisturbedSteps ==
  ASSUME TypeOK,
         \/ ResetStop
         \/ ResetKill
         \/ ResetClear
         \/ StartFixture
         \/ Poll
         \/ Instrumented
         \/ Observe
         \/ AdbFails
         \/ TestLogs
         \/ TestSends
         \/ Establish
         \/ LoseSession
         \/ ObserverReads
         \/ ObserverLogs
         \/ LogdTakes
         \/ UNCHANGED vars
  PROVE  Undisturbed
<1> USE CaseNat, CasesAssumption DEF Undisturbed, Sampled, Ended, TypeOK, TypeHarness,
        harnessVars, testVars, fixtureVars, logVars, netVars, historyVars, To
<1>1. CASE ResetStop
  BY <1>1 DEF ResetStop
<1>2. CASE ResetKill
  BY <1>2 DEF ResetKill
<1>3. CASE ResetClear
  BY <1>3 DEF ResetClear
<1>4. CASE StartFixture
  BY <1>4 DEF StartFixture
<1>5. CASE Poll
  BY <1>5 DEF Poll
<1>6. CASE Instrumented
  BY <1>6 DEF Instrumented
<1>7. CASE Observe
  <2>1. /\ case \in Cases /\ case \in Nat /\ Cases \subseteq Nat
        /\ results' = [results EXCEPT ![case].observations = log]
    BY <1>7 DEF Observe
  <2>2. \A c \in Cases : results'[c].start = results[c].start /\ results'[c].end = results[c].end
    BY <2>1
  <2>3. ASSUME pc' # "raised", NEW c \in Cases
        PROVE  Sampled(c)' = Sampled(c) /\ Ended(c)' = Ended(c)
    BY <1>7, <2>1, <2>3 DEF Observe
  <2> QED
    BY <1>7, <2>2, <2>3 DEF Observe
<1>8. CASE AdbFails
  BY <1>8 DEF AdbFails
<1>9. CASE TestLogs
  BY <1>9 DEF TestLogs
<1>10. CASE TestSends
  BY <1>10 DEF TestSends
<1>11. CASE Establish
  BY <1>11 DEF Establish
<1>12. CASE LoseSession
  BY <1>12 DEF LoseSession
<1>13. CASE ObserverReads
  BY <1>13 DEF ObserverReads
<1>14. CASE ObserverLogs
  BY <1>14 DEF ObserverLogs
<1>15. CASE LogdTakes
  BY <1>15 DEF LogdTakes
<1>16. CASE UNCHANGED vars
  BY <1>16 DEF vars
<1> QED
  BY <1>1, <1>2, <1>3, <1>4, <1>5, <1>6, <1>7, <1>8, <1>9, <1>10, <1>11, <1>12, <1>13, <1>14, <1>15,
     <1>16

\* The analysis starts with a complete capture and after the last case.
LEMMA AllWrittenStep == TypeOK /\ AllWritten /\ [Next]_vars => AllWritten'
<1> SUFFICES ASSUME TypeOK, AllWritten, [Next]_vars PROVE AllWritten'
  OBVIOUS
<1> USE DEF AllWritten, harnessVars, testVars, fixtureVars, logVars, netVars, historyVars, To
<1>1. CASE ResetStop
  BY <1>1 DEF ResetStop
<1>2. CASE ResetKill
  BY <1>2 DEF ResetKill
<1>3. CASE ResetClear
  BY <1>3 DEF ResetClear
<1>4. CASE StartFixture
  BY <1>4 DEF StartFixture
<1>5. CASE Poll
  BY <1>5 DEF Poll
<1>6. CASE Instrument
  BY <1>6 DEF Instrument
<1>7. CASE Instrumented
  BY <1>7 DEF Instrumented
<1>8. CASE CaptureEnd
  BY <1>8 DEF CaptureEnd
<1>9. CASE Observe
  BY <1>9, CasesAssumption DEF Observe, Cases, TypeOK, TypeHarness
<1>10. CASE AdbFails
  BY <1>10 DEF AdbFails
<1>11. CASE TestLogs
  BY <1>11 DEF TestLogs, Running
<1>12. CASE TestSends
  BY <1>12 DEF TestSends, Running
<1>13. CASE Establish
  BY <1>13 DEF Establish
<1>14. CASE LoseSession
  BY <1>14 DEF LoseSession
<1>15. CASE ObserverReads
  BY <1>15 DEF ObserverReads
<1>16. CASE ObserverLogs
  BY <1>16 DEF ObserverLogs
<1>17. CASE LogdTakes
  BY <1>17 DEF LogdTakes
<1>18. CASE QemuBegins
  BY <1>18 DEF QemuBegins
<1>19. CASE QemuEnds
  BY <1>19 DEF QemuEnds
<1>20. CASE UNCHANGED vars
  BY <1>20 DEF vars
<1> QED
  BY <1>1, <1>2, <1>3, <1>4, <1>5, <1>6, <1>7, <1>8, <1>9, <1>10, <1>11, <1>12, <1>13, <1>14, <1>15,
     <1>16, <1>17, <1>18, <1>19, <1>20
     DEF Next, Host, Test, Fixture, Qemu

\* A sample at the current size opens an interval with nothing in it yet.
LEMMA InstrumentStep == TypeOK /\ Offsets /\ During /\ Instrument => Offsets' /\ During'
<1> SUFFICES ASSUME TypeOK, Offsets, During, Instrument PROVE Offsets' /\ During'
  OBVIOUS
<1>1. /\ case \in Cases /\ case \in Nat /\ Cases \subseteq Nat /\ case' = case
      /\ pc = "sample" /\ pc' = "measure" /\ UNCHANGED <<capture, size>>
  BY CaseNat DEF Instrument, TypeOK, TypeHarness, netVars
<1>2. /\ results'[case].start = size
      /\ \A c \in Cases \ {case} : results'[c] = results[c]
  BY DEF Instrument, TypeOK, TypeHarness
<1>3. \A c \in Cases : /\ Sampled(c)' = (Sampled(c) \/ c = case)
                      /\ Ended(c)' = Ended(c)
                      /\ ~Sampled(case) /\ ~Ended(case)
  BY <1>1 DEF Sampled, Ended
<1>4. size \in Nat
  BY DEF TypeOK, TypeNet
<1>5. Offsets'
  <2> SUFFICES ASSUME NEW c \in Cases
               PROVE  /\ Sampled(c)' => results'[c].start <= size
                      /\ Ended(c)' => results'[c].start <= results'[c].end /\ results'[c].end <= size
    BY <1>1 DEF Offsets
  <2>1. CASE c = case
    BY <1>2, <1>3, <1>4, <2>1
  <2>2. CASE c # case
    BY <1>1, <1>2, <1>3, <2>2 DEF Offsets
  <2> QED
    BY <2>1, <2>2
<1>6. \A c \in Cases, u \in Int : Inside(u, c)' = Inside(u, c)
  <2> SUFFICES ASSUME NEW c \in Cases, NEW u \in Int PROVE Inside(u, c)' = Inside(u, c)
    OBVIOUS
  <2>1. CASE c = case
    BY <1>1, <1>2, <1>3, <1>4, <2>1 DEF Inside
  <2>2. CASE c # case
    <3>1. results'[c] = results[c]
      BY <1>2, <2>2
    <3>2. Sampled(c)' = Sampled(c) /\ Ended(c)' = Ended(c)
      BY <1>3, <2>2 DEF Sampled, Ended
    <3> QED
      BY <1>1, <3>1, <3>2 DEF Inside
  <2> QED
    BY <2>1, <2>2
<1>7. During'
  <2> SUFFICES ASSUME NEW c \in Cases, NEW i \in 1..Len(capture)
               PROVE  c \in capture[i].during
                        <=> (Inside(2 * i - 2, c) \/ Inside(2 * i - 1, c))'
    BY <1>1 DEF During
  <2>1. 2 * i - 2 \in Int /\ 2 * i - 1 \in Int
    OBVIOUS
  <2> QED
    BY <1>1, <1>6, <2>1 DEF During
<1> QED
  BY <1>5, <1>7

\* A sample at the current size ends an interval with everything in it.
LEMMA CaptureEndStep == TypeOK /\ Offsets /\ During /\ CaptureEnd => Offsets' /\ During'
<1> SUFFICES ASSUME TypeOK, Offsets, During, CaptureEnd PROVE Offsets' /\ During'
  OBVIOUS
<1>1. /\ case \in Cases /\ case \in Nat /\ Cases \subseteq Nat /\ case' = case
      /\ pc = "settle" /\ pc' = "logs" /\ UNCHANGED <<capture, size>>
  BY CaseNat DEF CaptureEnd, TypeOK, TypeHarness, netVars
<1>2. /\ results'[case].end = size /\ results'[case].start = results[case].start
      /\ \A c \in Cases \ {case} : results'[c] = results[c]
  BY DEF CaptureEnd, TypeOK, TypeHarness
<1>3. \A c \in Cases : /\ Sampled(c)' = Sampled(c)
                      /\ Ended(c)' = (Ended(c) \/ c = case)
                      /\ Sampled(case) /\ ~Ended(case)
  BY <1>1 DEF Sampled, Ended
<1>4. size \in Nat
  BY DEF TypeOK, TypeNet
<1>5. Offsets'
  <2>1. results[case].start <= size
    BY <1>1, <1>3 DEF Offsets
  <2> SUFFICES ASSUME NEW c \in Cases
               PROVE  /\ Sampled(c)' => results'[c].start <= size
                      /\ Ended(c)' => results'[c].start <= results'[c].end /\ results'[c].end <= size
    BY <1>1 DEF Offsets
  <2>2. CASE c = case
    BY <1>2, <1>4, <2>1, <2>2
  <2>3. CASE c # case
    BY <1>1, <1>2, <1>3, <2>3 DEF Offsets
  <2> QED
    BY <2>2, <2>3
<1>6. \A c \in Cases, u \in Int : Inside(u, c)' = Inside(u, c)
  <2> SUFFICES ASSUME NEW c \in Cases, NEW u \in Int PROVE Inside(u, c)' = Inside(u, c)
    OBVIOUS
  <2>1. CASE c = case
    BY <1>1, <1>2, <1>3, <1>4, <2>1 DEF Inside
  <2>2. CASE c # case
    BY <1>1, <1>2, <1>3, <2>2 DEF Inside
  <2> QED
    BY <2>1, <2>2
<1>7. During'
  <2> SUFFICES ASSUME NEW c \in Cases, NEW i \in 1..Len(capture)
               PROVE  c \in capture[i].during
                        <=> (Inside(2 * i - 2, c) \/ Inside(2 * i - 1, c))'
    BY <1>1 DEF During
  <2>1. 2 * i - 2 \in Int /\ 2 * i - 1 \in Int
    OBVIOUS
  <2> QED
    BY <1>1, <1>6, <2>1 DEF During
<1> QED
  BY <1>5, <1>7

\* QEMU writes one unit: it belongs to the case being recorded and to no other.
Written ==
  /\ size' = size + 1 /\ UNCHANGED <<pc, case, results>>
  /\ pc \notin {"analyzed", "raised"}

LEMMA UnitWritten ==
  ASSUME TypeOK, Offsets, Written
  PROVE  /\ Offsets'
         /\ \A c \in Cases, u \in Int :
              Inside(u, c)' <=> Inside(u, c) \/ (u = size /\ c \in Recorded)
<1>1. size \in Nat /\ case \in Nat /\ Cases \subseteq Nat
  BY CaseNat DEF TypeOK, TypeNet, TypeHarness
<1>2. \A c \in Cases : results[c].start \in Nat /\ results[c].end \in Nat
  BY DEF TypeOK, TypeHarness
<1>3. \A c \in Cases : Sampled(c)' = Sampled(c) /\ Ended(c)' = Ended(c)
  BY DEF Written, Sampled, Ended
<1>4. \A c \in Cases : c \in Recorded <=> Sampled(c) /\ ~Ended(c)
  BY <1>1 DEF Written, Sampled, Ended, Recorded
<1>5. \A c \in Cases : /\ Sampled(c) => results[c].start <= size
                       /\ Ended(c) => results[c].start <= results[c].end /\ results[c].end <= size
  BY DEF Offsets, Written
<1>6. Offsets'
  <2> SUFFICES ASSUME NEW c \in Cases
               PROVE  /\ Sampled(c) => results[c].start <= size + 1
                      /\ Ended(c) => results[c].start <= results[c].end /\ results[c].end <= size + 1
    BY <1>3 DEF Offsets, Written
  <2>1. \A x, y \in Nat : x <= y => x <= y + 1
    OBVIOUS
  <2>2. results[c].start \in Nat /\ results[c].end \in Nat
    BY <1>2
  <2> QED
    BY <1>1, <1>5, <2>1, <2>2
<1>7. ASSUME NEW c \in Cases, NEW u \in Int
      PROVE  Inside(u, c)' <=> Inside(u, c) \/ (u = size /\ c \in Recorded)
  <2>1. Inside(u, c)' <=> /\ Sampled(c) /\ u < size + 1 /\ results[c].start <= u
                          /\ Ended(c) => u < results[c].end
    BY <1>3 DEF Inside, Written
  <2>2. CASE u = size
    <3>1. results[c].start \in Nat /\ results[c].end \in Nat
      BY <1>2
    <3>2. ~Inside(u, c)
      BY <1>1, <2>2 DEF Inside
    <3>3. Inside(u, c)' <=> Sampled(c) /\ ~Ended(c)
      BY <1>1, <1>5, <2>1, <2>2, <3>1
    <3> QED
      BY <1>4, <2>2, <3>2, <3>3
  <2>3. CASE u # size
    <3>1. u < size + 1 <=> u < size
      BY <1>1, <2>3
    <3> QED
      BY <2>1, <2>3, <3>1 DEF Inside
  <2> QED
    BY <2>2, <2>3
<1> QED
  BY <1>6, <1>7

LEMMA QemuBeginsStep == TypeOK /\ Offsets /\ During /\ QemuBegins => Offsets' /\ During'
<1> SUFFICES ASSUME TypeOK, Offsets, During, QemuBegins PROVE Offsets' /\ During'
  OBVIOUS
<1> DEFINE n == Len(capture)
<1>1. Written /\ size = 2 * n
  BY DEF QemuBegins, Written, harnessVars
<1>2. /\ Offsets'
      /\ \A c \in Cases, u \in Int :
           Inside(u, c)' <=> Inside(u, c) \/ (u = size /\ c \in Recorded)
  BY <1>1, UnitWritten
<1>3. PICK p \in inFlight : capture' = Append(capture, [packet |-> p, during |-> Recorded])
  BY DEF QemuBegins
<1>4. /\ n \in Nat /\ Len(capture') = n + 1
      /\ \A i \in 1..n : capture'[i] = capture[i]
      /\ capture'[n + 1] = [packet |-> p, during |-> Recorded]
  BY <1>3 DEF TypeOK, TypeNet
<1>5. During'
  <2> SUFFICES ASSUME NEW c \in Cases, NEW i \in 1..(n + 1)
               PROVE  c \in capture'[i].during
                        <=> (Inside(2 * i - 2, c) \/ Inside(2 * i - 1, c))'
    BY <1>4 DEF During
  <2>1. 2 * i - 2 \in Int /\ 2 * i - 1 \in Int
    BY <1>4
  <2>2. /\ Inside(2 * i - 2, c)' <=> Inside(2 * i - 2, c) \/ (2 * i - 2 = size /\ c \in Recorded)
        /\ Inside(2 * i - 1, c)' <=> Inside(2 * i - 1, c) \/ (2 * i - 1 = size /\ c \in Recorded)
    BY <1>2, <2>1
  <2>3. CASE i = n + 1
    <3>1. 2 * i - 2 = size /\ 2 * i - 1 # size
      BY <1>1, <1>4, <2>3
    <3>2. ~Inside(2 * i - 2, c) /\ ~Inside(2 * i - 1, c)
      BY <1>1, <1>4, <2>3 DEF Inside
    <3>3. capture'[i].during = Recorded
      BY <1>4, <2>3
    <3> QED
      BY <2>2, <3>1, <3>2, <3>3
  <2>4. CASE i \in 1..n
    <3>1. 2 * i - 2 # size /\ 2 * i - 1 # size
      BY <1>1, <1>4, <2>4
    <3>2. c \in capture[i].during <=> Inside(2 * i - 2, c) \/ Inside(2 * i - 1, c)
      BY <1>1, <2>4 DEF During, Written
    <3> QED
      BY <1>4, <2>2, <2>4, <3>1, <3>2
  <2> QED
    BY <1>4, <2>3, <2>4
<1> QED
  BY <1>2, <1>5

LEMMA QemuEndsStep == TypeOK /\ Offsets /\ During /\ QemuEnds => Offsets' /\ During'
<1> SUFFICES ASSUME TypeOK, Offsets, During, QemuEnds PROVE Offsets' /\ During'
  OBVIOUS
<1> DEFINE n == Len(capture)
<1>1. Written /\ n \in Nat /\ size \in Nat /\ size = 2 * n - 1
  BY DEF QemuEnds, Written, harnessVars, TypeOK, TypeNet
<1>2. /\ Offsets'
      /\ \A c \in Cases, u \in Int :
           Inside(u, c)' <=> Inside(u, c) \/ (u = size /\ c \in Recorded)
  BY <1>1, UnitWritten
<1>3. n \in 1..n
  BY <1>1
<1>4. DOMAIN capture = 1..n
  BY DEF TypeOK, TypeNet
<1>5. /\ capture' = [capture EXCEPT ![n] = [capture[n] EXCEPT !.during = @ \cup Recorded]]
      /\ capture[n] \in [packet : Packets, during : SUBSET Cases]
  <2>1. \A S : capture \in Seq(S) => \A k \in 1..n : capture[k] \in S
    OBVIOUS
  <2> QED
    BY <1>3, <2>1 DEF QemuEnds, TypeOK, TypeNet
<1>6. /\ capture'[n].during = capture[n].during \cup Recorded
      /\ \A i \in 1..n : i # n => capture'[i] = capture[i]
  BY <1>3, <1>4, <1>5
<1>7. Len(capture') = n
  BY <1>5 DEF TypeOK, TypeNet
<1>8. During'
  <2> SUFFICES ASSUME NEW c \in Cases, NEW i \in 1..n
               PROVE  c \in capture'[i].during
                        <=> (Inside(2 * i - 2, c) \/ Inside(2 * i - 1, c))'
    BY <1>7 DEF During
  <2>1. 2 * i - 2 \in Int /\ 2 * i - 1 \in Int
    BY <1>1
  <2>2. /\ Inside(2 * i - 2, c)' <=> Inside(2 * i - 2, c) \/ (2 * i - 2 = size /\ c \in Recorded)
        /\ Inside(2 * i - 1, c)' <=> Inside(2 * i - 1, c) \/ (2 * i - 1 = size /\ c \in Recorded)
    BY <1>2, <2>1
  <2>3. c \in capture[i].during <=> Inside(2 * i - 2, c) \/ Inside(2 * i - 1, c)
    BY <1>1 DEF During, Written
  <2>4. CASE i = n
    <3>1. 2 * i - 2 # size /\ 2 * i - 1 = size
      BY <1>1, <2>4
    <3>2. c \in capture'[i].during <=> c \in capture[i].during \/ c \in Recorded
      BY <1>6, <2>4
    <3> QED
      BY <2>2, <2>3, <3>1, <3>2
  <2>5. CASE i # n
    <3>1. 2 * i - 2 # size /\ 2 * i - 1 # size
      BY <1>1, <2>5
    <3> QED
      BY <1>6, <2>2, <2>3, <2>5, <3>1
  <2> QED
    BY <2>4, <2>5
<1> QED
  BY <1>2, <1>8

\* Every step keeps the account of the capture.
LEMMA RowStep == TypeOK /\ RowInv /\ [Next]_vars => RowInv'
<1> SUFFICES ASSUME TypeOK, Offsets, During, AllWritten, [Next]_vars
             PROVE  Offsets' /\ During' /\ AllWritten'
  BY DEF RowInv
<1>1. AllWritten'
  BY AllWrittenStep
<1>2. CASE Instrument
  BY <1>1, <1>2, InstrumentStep
<1>3. CASE CaptureEnd
  BY <1>1, <1>3, CaptureEndStep
<1>4. CASE QemuBegins
  BY <1>1, <1>4, QemuBeginsStep
<1>5. CASE QemuEnds
  BY <1>1, <1>5, QemuEndsStep
<1>6. CASE ~(Instrument \/ CaptureEnd \/ QemuBegins \/ QemuEnds)
  <2>1. Undisturbed
    BY <1>6, UndisturbedSteps DEF Next, Host, Test, Fixture, Qemu
  <2> QED
    BY <1>1, <2>1, UndisturbedKeeps
<1> QED
  BY <1>2, <1>3, <1>4, <1>5, <1>6

-----------------------------------------------------------------------------
IInv ==
  TypeOK /\ Own /\ AllWitnessed /\ Past /\ StartHeard /\ MeasuredMeansEstablished /\ RowInv

LEMMA InitInv == Init => IInv
<1> SUFFICES ASSUME Init PROVE IInv
  OBVIOUS
<1> USE CasesAssumption
<1>1. TypeOK
  <2>1. NoResult \in [start : Nat, end : Nat, observations : SUBSET Lines]
    BY DEF NoResult
  <2>2. TypeHarness
    BY <2>1 DEF Init, TypeHarness, Cases
  <2>3. TypeTest /\ TypeFixture /\ TypeNet /\ TypeLog /\ TypeHistory
    BY DEF Init, TypeTest, TypeFixture, TypeNet, TypeLog, TypeHistory
  <2> QED
    BY <2>2, <2>3 DEF TypeOK
<1>2. Own /\ AllWitnessed
  BY DEF Init, Own, Dead, OwnFixture, OwnLines, After, AllWitnessed
<1>3. Past
  BY DEF Init, Past, Finished, Cases
<1>4. MeasuredMeansEstablished /\ StartHeard
  BY DEF Init, MeasuredMeansEstablished, StartHeard
<1>5. RowInv
  <2>1. \A c \in Cases : ~Sampled(c) /\ ~Ended(c)
    BY DEF Init, Cases, Sampled, Ended
  <2> QED
    BY <2>1 DEF Init, RowInv, Offsets, During, AllWritten
<1> QED
  BY <1>1, <1>2, <1>3, <1>4, <1>5 DEF IInv

\* The inductive invariant: types, whose lines may be underway, that lines are true and each start()
\* hears of its own establishment, and which
\* units of the capture each interval holds.
THEOREM Invariance == Spec => []IInv
<1>1. IInv /\ [Next]_vars => IInv'
  BY TypeStep, OwnStep, WitnessStep, PastStep, StartStep, MeasuredStep, RowStep DEF IInv
<1> QED
  BY InitInv, <1>1, PTL DEF Spec

\* Every variable keeps its type.
THEOREM TypeCorrect == Spec => []TypeOK
BY Invariance, PTL DEF IInv

\* TUN evidence of a case proves that a packet of this case's operation entered the TUN, unless a
\* line about such a packet was overdue when the log was cleared (reset, lines 97-101;
\* require_tun_operation, lines 135-144).
THEOREM EvidenceOwn == Spec => []EvidenceIsOwn
<1>1. IInv => EvidenceIsOwn
  <2> SUFFICES ASSUME Past, NEW c \in Cases, NEW o \in Ops, Finished(c), TunOperation(c, o),
                      \A l \in overdue \cap results[c].observations : ~(l.kind = "packet" /\ l.op = o)
               PROVE  Packet(c, o) \in entered
    BY DEF IInv, EvidenceIsOwn
  <2>1. PICK l \in results[c].observations : l.kind = "packet" /\ l.op = o
    BY DEF TunOperation
  <2> QED
    BY <2>1 DEF Past
<1> QED
  BY Invariance, <1>1, PTL

\* A case with a VPN is measured only after its own start established one (lines 91-96, 157-159).
THEOREM Measured == Spec => []MeasuredMeansEstablished
BY Invariance, PTL DEF IInv

\* A case answers for exactly the records written, in part at least, between its samples, and for
\* one incomplete at both (case_packets, lines 147-154).
THEOREM Rows == Spec => []RowsExact
<1>1. IInv => RowsExact
  <2> SUFFICES ASSUME TypeOK, Offsets, During, AllWritten, pc = "analyzed",
                      NEW c \in Cases, NEW i \in DOMAIN capture
               PROVE  Row(i, c) <=> c \in capture[i].during \/ Halved(i, c)
    BY DEF IInv, RowInv, RowsExact
  <2>1. i \in 1..Len(capture) /\ Len(capture) \in Nat
    BY DEF TypeOK, TypeNet
  <2>2. Sampled(c) /\ Ended(c)
    BY CasesAssumption DEF AllWritten, Sampled, Ended, Cases
  <2>3. /\ results[c].start \in Nat /\ results[c].end \in Nat
        /\ results[c].start <= results[c].end
    BY <2>2 DEF Offsets, TypeOK, TypeHarness
  <2>4. c \in capture[i].during <=> Inside(2 * i - 2, c) \/ Inside(2 * i - 1, c)
    BY <2>1 DEF During
  <2>5. size = 2 * Len(capture)
    BY DEF AllWritten
  <2>6. c \in capture[i].during
          <=> \/ results[c].start <= 2 * i - 2 /\ 2 * i - 2 < results[c].end
              \/ results[c].start <= 2 * i - 1 /\ 2 * i - 1 < results[c].end
    BY <2>1, <2>2, <2>4, <2>5 DEF Inside
  <2> QED
    BY <2>1, <2>3, <2>6 DEF Row, Halved
<1> QED
  BY Invariance, <1>1, PTL
-----------------------------------------------------------------------------
(* What is left to do.                                                     *)

\* Steps of the harness to the end of this case, at most.
Ahead ==
  CASE pc = "stop"    -> MaxPolls + 9
    [] pc = "kill"    -> MaxPolls + 8
    [] pc = "clear"   -> MaxPolls + 7
    [] pc = "start"   -> MaxPolls + 6
    [] pc = "poll"    -> MaxPolls + 5 - polls
    [] pc = "sample"  -> 4
    [] pc = "measure" -> 3
    [] pc = "settle"  -> 2
    [] pc = "logs"    -> 1
    [] OTHER          -> 0

\* A step of the harness is one of those or begins the next case; test, fixture, logd and QEMU
\* leave both.
HostAdvances ==
  /\ Host \/ AdbFails => case' = case + 1 \/ (case' = case /\ Ahead' < Ahead)
  /\ Test \/ Fixture \/ LogdTakes \/ Qemu => case' = case /\ Ahead' = Ahead

\* Where the harness is, this is what it has ahead.
LEMMA AheadTyped == TypeOK => Ahead \in 0..(MaxPolls + 9)
<1> SUFFICES ASSUME TypeOK PROVE Ahead \in 0..(MaxPolls + 9)
  OBVIOUS
<1>1. MaxPolls \in Nat /\ polls \in Nat /\ polls <= MaxPolls
  BY CasesAssumption DEF TypeOK, TypeHarness
<1>2. CASE pc = "poll"
  BY <1>1, <1>2 DEF Ahead
<1>3. CASE pc \in {"stop", "kill", "clear", "start"}
  <2>1. \E k \in 6..9 : Ahead = MaxPolls + k
    BY <1>3 DEF Ahead
  <2> QED
    BY <1>1, <2>1
<1>4. CASE pc \in {"sample", "measure", "settle", "logs"}
  <2>1. \E k \in 1..4 : Ahead = k
    BY <1>4 DEF Ahead
  <2> QED
    BY <1>1, <2>1
<1>5. CASE pc \in {"analyzed", "raised"}
  <2>1. Ahead = 0
    BY <1>5 DEF Ahead
  <2> QED
    BY <1>1, <2>1
<1> QED
  BY <1>2, <1>3, <1>4, <1>5 DEF TypeOK, TypeHarness

\* The harness cannot go on forever: of the at most NCases cases (TypeOK) each has at most
\* MaxPolls + 9 steps, whatever the device does (start, lines 91-96; run_case, lines 156-164).
THEOREM HostRunsOut ==
  Spec => [](case \in 1..NCases) /\ [](Ahead \in 0..(MaxPolls + 9)) /\ [][HostAdvances]_vars
<1>1. TypeOK => case \in 1..NCases
  BY DEF TypeOK, TypeHarness, Cases
<1>2. ASSUME TypeOK, Host \/ AdbFails
      PROVE  case' = case + 1 \/ (case' = case /\ Ahead' < Ahead)
  <2>1. MaxPolls \in Nat /\ polls \in Nat /\ polls <= MaxPolls /\ case \in Nat
    BY <1>2, CasesAssumption DEF TypeOK, TypeHarness, Cases
  <2>2. CASE ResetStop
    BY <2>1, <2>2 DEF ResetStop, To, Ahead
  <2>3. CASE ResetKill
    BY <2>1, <2>3 DEF ResetKill, To, Ahead
  <2>4. CASE ResetClear
    BY <2>1, <2>4 DEF ResetClear, To, Ahead
  <2>5. CASE StartFixture
    BY <2>1, <2>5 DEF StartFixture, To, Ahead
  <2>6. CASE Poll
    BY <2>1, <2>6 DEF Poll, Ahead
  <2>7. CASE Instrument
    BY <2>1, <2>7 DEF Instrument, Ahead
  <2>8. CASE Instrumented
    BY <2>1, <2>8 DEF Instrumented, To, Ahead
  <2>9. CASE CaptureEnd
    BY <2>1, <2>9 DEF CaptureEnd, Ahead
  <2>10. CASE Observe
    BY <2>1, <2>10 DEF Observe, Ahead
  <2>11. CASE AdbFails
    BY <1>2, <2>1, <2>11 DEF AdbFails, To, Ahead, TypeOK, TypeHarness
  <2> QED
    BY <1>2, <2>2, <2>3, <2>4, <2>5, <2>6, <2>7, <2>8, <2>9, <2>10, <2>11 DEF Host
<1>3. ASSUME Test \/ Fixture \/ LogdTakes \/ Qemu PROVE case' = case /\ Ahead' = Ahead
  <2>1. UNCHANGED harnessVars
    BY <1>3 DEF Test, TestLogs, TestSends, Fixture, Establish, LoseSession, ObserverReads,
                ObserverLogs,
                LogdTakes, Qemu, QemuBegins, QemuEnds
  <2> QED
    BY <2>1 DEF harnessVars, Ahead
<1>4. TypeOK /\ [Next]_vars => [HostAdvances]_vars
  BY <1>2, <1>3 DEF HostAdvances
<1> QED
  BY <1>1, <1>4, AheadTyped, TypeCorrect, PTL DEF Spec
=============================================================================
