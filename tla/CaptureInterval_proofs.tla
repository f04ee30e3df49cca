----------------------- MODULE CaptureInterval_proofs -----------------------
(***************************************************************************)
(* Proofs about capture_end_after_quiescence(), for all parameters, all    *)
(* sizes and any time lost.  The argument counts the ticks the function    *)
(* was not asleep: no more than "stalls" of them lie between a sample and  *)
(* the test that follows it (Fresh), between the two stats of a sample     *)
(* (Taken), or before the first one (Placed).  A tick is charged to one of *)
(* these only, which is why their sum is bounded by "stalls" too.          *)
(***************************************************************************)
EXTENDS CaptureInterval, TLAPS

\* The sample is taken in the order of CAPTURES, and complete when it is compared.
SampleInv ==
  /\ current \in Seq(0..MaxSize)
  /\ pc \in {"first", "sample"} => Len(current) < 2
  /\ pc \in {"begin", "compare"} => Len(current) = 2
  /\ pc \in {"test", "sleep"} => Len(current) = 0

\* The offsets are sizes the files have had, reached before stableSince but for the time lost.
PlacedInv ==
  /\ \A f \in Names : offsets[f] <= size[f] /\ grown[f][offsets[f]] <= stableSince + stalls
  /\ pc \in {"first", "begin"} => clock <= stalls

\* A size in the sample was reached by then, and not passed long before now.
TakenAt(i) ==
  /\ current[i] <= size[CAPTURES[i]]
  /\ grown[CAPTURES[i]][current[i]] <= sampledAt
  /\ size[CAPTURES[i]] > current[i] => grown[CAPTURES[i]][current[i] + 1] + stalls >= clock

TakenInv == \A i \in 1..Len(current) : TakenAt(i)

Fresh == pc # "sleep" /\ ~(pc = "sample" /\ Len(current) = 0)

\* From a sample to the next sleep only lost time passes.
FreshInv ==
  Fresh =>
    /\ clock <= sampledAt + stalls
    /\ \A f \in Names : grown[f][offsets[f]] + clock <= stableSince + sampledAt + stalls

\* What is tested was still the size when it was sampled.
LaterInv ==
  pc \in {"test", "returned"} =>
    \A f \in Names : size[f] > offsets[f] => grown[f][offsets[f] + 1] + stalls >= sampledAt

\* It returns by the rule.
ReturnInv == pc = "returned" => now = clock /\ Settled(clock)

IInv ==
  /\ TypeOK /\ DoneByDeadline /\ SampleInv
  /\ PlacedInv /\ TakenInv /\ FreshInv /\ LaterInv /\ ReturnInv

-----------------------------------------------------------------------------
(* Helpers.                                                                *)

\* The parameters are numbers.
LEMMA Params ==
  /\ MINIMUM \in Nat /\ QUIET \in Nat /\ DEADLINE \in Nat /\ INTERVAL \in Nat
  /\ MaxSize \in Nat /\ MaxStalls \in Nat
  /\ MINIMUM <= DEADLINE /\ 0 < QUIET /\ QUIET <= DEADLINE /\ INTERVAL > 0 /\ MaxSize > 0
  BY ParametersAssumption

\* What a type says of one file and one size.
TypedMeans ==
  /\ clock \in Nat /\ stalls \in Nat /\ stableSince \in Nat /\ sampledAt \in Nat /\ now \in Nat
  /\ stableSince <= clock /\ sampledAt <= clock /\ now <= clock /\ stalls <= MaxStalls
  /\ wake \in Nat /\ wake <= DEADLINE
  /\ \A f \in Names : size[f] \in 0..MaxSize /\ offsets[f] \in 0..MaxSize
  /\ \A f \in Names, n \in 0..MaxSize : grown[f][n] \in Nat /\ grown[f][n] <= clock

\* Types, entry by entry.
LEMMA Typed == TypeOK => TypedMeans
  BY Params DEF TypeOK, TypedMeans

\* An element of a sequence.
LEMMA ElementOf ==
  ASSUME NEW S, NEW s \in Seq(S), NEW i \in 1..Len(s)
  PROVE  s[i] \in S
  OBVIOUS

\* There are two captures.
LEMMA TwoNames ==
  /\ CAPTURES[1] \in Names /\ CAPTURES[2] \in Names /\ CAPTURES[1] # CAPTURES[2]
  /\ \A f \in Names : f = CAPTURES[1] \/ f = CAPTURES[2]
  BY DEF CAPTURES, Names

\* A complete sample gives each file its entry.
LEMMA SampleOf ==
  ASSUME current \in Seq(0..MaxSize), Len(current) = 2
  PROVE  /\ Sample \in [Names -> 0..MaxSize]
         /\ \A f \in Names : \E i \in 1..Len(current) : f = CAPTURES[i] /\ Sample[f] = current[i]
  <1>1. 1 \in 1..Len(current) /\ 2 \in 1..Len(current)
    OBVIOUS
  <1>2. current[1] \in 0..MaxSize /\ current[2] \in 0..MaxSize
    BY <1>1, ElementOf
  <1>3. Sample \in [Names -> 0..MaxSize]
    BY <1>2 DEF Sample
  <1>4. Sample[CAPTURES[1]] = current[1] /\ Sample[CAPTURES[2]] = current[2]
    BY TwoNames DEF Sample
  <1> QED
    BY <1>3, <1>4, TwoNames

\* A sample's entries are of the captures and are sizes.
LEMMA InSample ==
  ASSUME TypeOK, SampleInv, NEW i \in 1..Len(current)
  PROVE  CAPTURES[i] \in Names /\ current[i] \in 0..MaxSize
  <1>1. current[i] \in 0..MaxSize
    BY ElementOf DEF SampleInv
  <1>2. i = 1 \/ i = 2
    BY DEF SampleInv, TypeOK
  <1> QED
    BY <1>1, <1>2, TwoNames

\* The sleep is cut short at the deadline.
LEMMA SleepUntilBound == ASSUME NEW t \in Nat PROVE SleepUntil(t) \in 0..DEADLINE
  BY ParametersAssumption DEF SleepUntil

-----------------------------------------------------------------------------
(* Initially, and at each step.                                            *)

\* The invariant holds at the start.
LEMMA InitInv == Init => IInv
  <1> SUFFICES ASSUME Init PROVE IInv
    OBVIOUS
  <1> USE ParametersAssumption DEF Init
  <1>1. TypeOK
    BY DEF TypeOK
  <1>2. DoneByDeadline /\ SampleInv
    BY DEF DoneByDeadline, SampleInv
  <1>3. PlacedInv /\ TakenInv /\ FreshInv
    BY DEF PlacedInv, TakenInv, FreshInv
  <1>4. LaterInv /\ ReturnInv
    BY DEF LaterInv, ReturnInv
  <1> QED
    BY <1>1, <1>2, <1>3, <1>4 DEF IInv

\* QEMU appends a record: the new size is reached now, what was sampled stays.
LEMMA WriteStep == ASSUME IInv, NEW f \in Names, QemuWrites(f) PROVE IInv'
  <1> USE Params
  <1>1. TypedMeans
    BY Typed DEF IInv
  <1>2. UNCHANGED <<clock, stalls, pc, offsets, current, stableSince, now, wake, sampledAt>>
    BY DEF QemuWrites
  <1>3. /\ size[f] + 1 \in 0..MaxSize
        /\ size' = [size EXCEPT ![f] = size[f] + 1]
        /\ grown' = [grown EXCEPT ![f] = [grown[f] EXCEPT ![size[f] + 1] = clock]]
    BY <1>1 DEF QemuWrites, TypedMeans
  <1>4. TypeOK'
    <2>1. size' \in [Names -> 0..MaxSize]
      BY <1>3 DEF IInv, TypeOK
    <2>2. [grown[f] EXCEPT ![size[f] + 1] = clock] \in [0..MaxSize -> 0..clock]
      BY <1>3, <1>1 DEF IInv, TypeOK, TypedMeans
    <2>3. grown' \in [Names -> [0..MaxSize -> 0..clock]]
      BY <1>3, <2>2 DEF IInv, TypeOK
    <2> QED
      BY <1>2, <2>1, <2>3 DEF IInv, TypeOK
  <1>5. size'[f] = size[f] + 1 /\ \A g \in Names : g # f => size'[g] = size[g]
    BY <1>3 DEF IInv, TypeOK
  <1>6. /\ grown'[f] = [grown[f] EXCEPT ![size[f] + 1] = clock]
        /\ \A g \in Names : g # f => grown'[g] = grown[g]
    BY <1>3 DEF IInv, TypeOK
  <1>7. DOMAIN grown[f] = 0..MaxSize
    BY DEF IInv, TypeOK
  <1>8. /\ grown'[f][size[f] + 1] = clock
        /\ \A n \in 0..MaxSize : n # size[f] + 1 => grown'[f][n] = grown[f][n]
    BY <1>3, <1>6, <1>7
  <1>9. ASSUME NEW g \in Names, NEW n \in 0..MaxSize, n <= size[g]
        PROVE  grown'[g][n] = grown[g][n] /\ size[g] <= size'[g]
    <2>1. CASE g = f
      <3>1. n # size[f] + 1 /\ size[f] <= size[f] + 1
        BY <1>9, <1>1, <2>1 DEF TypedMeans
      <3> QED
        BY <1>5, <1>8, <2>1, <3>1
    <2>2. CASE g # f
      BY <1>5, <1>6, <1>1, <2>2 DEF TypedMeans
    <2> QED
      BY <2>1, <2>2
  <1>10. ASSUME NEW g \in Names, NEW n \in 0..MaxSize, size'[g] > n
        PROVE  (n < size[g] /\ grown'[g][n + 1] = grown[g][n + 1]) \/ grown'[g][n + 1] = clock
    <2>1. CASE n < size[g]
      BY <1>9, <1>1, <2>1 DEF TypedMeans
    <2>2. CASE n >= size[g]
      <3>1. g = f /\ n = size[f]
        BY <1>5, <1>10, <1>1, <2>2 DEF TypedMeans
      <3> QED
        BY <1>8, <3>1
    <2> QED
      BY <1>1, <2>1, <2>2 DEF TypedMeans
  <1>11. DoneByDeadline' /\ SampleInv' /\ ReturnInv'
    BY <1>2 DEF IInv, DoneByDeadline, SampleInv, ReturnInv, Settled
  <1>12. PlacedInv'
    <2>1. ASSUME NEW g \in Names
          PROVE  offsets[g] <= size'[g] /\ grown'[g][offsets[g]] <= stableSince + stalls
      <3>1. offsets[g] <= size[g] /\ grown[g][offsets[g]] <= stableSince + stalls
        BY DEF IInv, PlacedInv
      <3>2. size'[g] \in Nat /\ size[g] \in Nat /\ offsets[g] \in 0..MaxSize
        BY <1>5, <1>1 DEF TypedMeans
      <3> QED
        BY <1>9, <3>1, <3>2
    <2> QED
      BY <1>2, <2>1 DEF IInv, PlacedInv
  <1>13. TakenInv'
    <2> SUFFICES ASSUME NEW i \in 1..Len(current)
                 PROVE  /\ current[i] <= size'[CAPTURES[i]]
                        /\ grown'[CAPTURES[i]][current[i]] <= sampledAt
                        /\ size'[CAPTURES[i]] > current[i] => grown'[CAPTURES[i]][current[i] + 1] + stalls >= clock
      BY <1>2 DEF TakenInv, TakenAt
    <2>1. CAPTURES[i] \in Names /\ current[i] \in 0..MaxSize
      BY InSample DEF IInv
    <2>2. TakenAt(i)
      BY DEF IInv, TakenInv, TakenAt
    <2> DEFINE g == CAPTURES[i]
               n == current[i]
    <2>named. g \in Names
      BY <2>1
    <2>3. size'[g] \in Nat /\ size[g] \in Nat
      <3>1. \A h \in Names : size[h] \in 0..MaxSize
        BY <1>1 DEF TypedMeans
      <3>2. \A h \in Names : size'[h] \in Nat
        BY <1>5, <3>1
      <3> HIDE DEF g
      <3> QED
        BY <3>1, <3>2, <2>named
    <2>4. n <= size[g] /\ grown[g][n] <= sampledAt
      BY <2>2 DEF TakenAt
    <2>5. n <= size'[g] /\ grown'[g][n] <= sampledAt
      BY <1>9, <2>1, <2>3, <2>4
    <2>6. ASSUME size'[g] > n PROVE grown'[g][n + 1] + stalls >= clock
      <3>1. CASE n < size[g] /\ grown'[g][n + 1] = grown[g][n + 1]
        BY <2>2, <2>1, <2>3, <3>1 DEF TakenAt
      <3>2. CASE grown'[g][n + 1] = clock
        BY <1>1, <3>2 DEF TypedMeans
      <3> QED
        BY <1>10, <2>1, <2>6, <3>1, <3>2
    <2> QED
      BY <2>5, <2>6
  <1>14. FreshInv'
    BY <1>2, <1>9, <1>1 DEF IInv, FreshInv, Fresh, PlacedInv, TypedMeans
  <1>15. LaterInv'
    <2> SUFFICES ASSUME pc = "test", NEW g \in Names, size'[g] > offsets[g]
                 PROVE  grown'[g][offsets[g] + 1] + stalls >= sampledAt
      BY <1>2 DEF LaterInv, QemuWrites
    <2> QED
      BY <1>10, <1>1 DEF IInv, LaterInv, TypedMeans
  <1> QED
    BY <1>4, <1>11, <1>12, <1>13, <1>14, <1>15 DEF IInv

\* A tick, slept or lost.
LEMMA TimeStep == ASSUME IInv, TimePasses PROVE IInv'
  <1> USE Params
  <1>1. TypedMeans
    BY Typed DEF IInv
  <1>2. UNCHANGED <<size, grown, pc, offsets, current, stableSince, now, wake, sampledAt>>
    BY DEF TimePasses
  <1>3. /\ clock' = clock + 1
        /\ \/ pc = "sleep" /\ clock < wake /\ stalls' = stalls
           \/ stalls < MaxStalls /\ stalls' = stalls + 1
        /\ pc \notin {"returned", "failed"}
    BY DEF TimePasses
  <1>4. TypeOK'
    <2>1. grown \in [Names -> [0..MaxSize -> 0..(clock + 1)]]
      BY <1>1 DEF IInv, TypeOK, TypedMeans
    <2>2. {stableSince, now, sampledAt} \subseteq 0..(clock + 1)
      BY <1>1 DEF TypedMeans
    <2>3. stalls' \in 0..MaxStalls
      BY <1>3, <1>1 DEF TypedMeans
    <2> QED
      BY <1>2, <1>3, <1>1, <2>1, <2>2, <2>3 DEF IInv, TypeOK, TypedMeans
  <1>5. DoneByDeadline'
    BY <1>3, <1>1 DEF IInv, DoneByDeadline, TypedMeans
  <1>6. SampleInv' /\ ReturnInv'
    BY <1>2, <1>3 DEF IInv, SampleInv, ReturnInv
  <1>7. PlacedInv'
    BY <1>2, <1>3, <1>1 DEF IInv, PlacedInv, TypedMeans
  <1>8. TakenInv'
    <2> SUFFICES ASSUME NEW i \in 1..Len(current)
                 PROVE  /\ current[i] <= size[CAPTURES[i]]
                        /\ grown[CAPTURES[i]][current[i]] <= sampledAt
                        /\ size[CAPTURES[i]] > current[i] => grown[CAPTURES[i]][current[i] + 1] + stalls' >= clock'
      BY <1>2 DEF TakenInv, TakenAt
    <2>1. CAPTURES[i] \in Names /\ current[i] \in 0..MaxSize
      BY InSample DEF IInv
    <2>2. TakenAt(i)
      BY DEF IInv, TakenInv, TakenAt
    <2>3. stalls' = stalls + 1
      BY <1>3 DEF IInv, SampleInv
    <2>4. clock \in Nat /\ stalls \in Nat /\ stalls' = stalls + 1 /\ clock' = clock + 1
      BY <1>3, <1>1, <2>3 DEF TypedMeans
    <2>5. current[i] <= size[CAPTURES[i]] /\ grown[CAPTURES[i]][current[i]] <= sampledAt
      BY <2>2 DEF TakenAt
    <2>6. ASSUME size[CAPTURES[i]] > current[i]
          PROVE  grown[CAPTURES[i]][current[i] + 1] + stalls' >= clock'
      <3>1. grown[CAPTURES[i]][current[i] + 1] + stalls >= clock
        BY <2>2, <2>6 DEF TakenAt
      <3>2. size[CAPTURES[i]] \in 0..MaxSize
        BY <1>1, <2>1 DEF TypedMeans
      <3>3. current[i] + 1 \in 0..MaxSize
        BY <2>1, <2>6, <3>2
      <3>4. grown[CAPTURES[i]][current[i] + 1] \in Nat
        BY <1>1, <2>1, <3>3 DEF TypedMeans
      <3> QED
        BY <2>4, <3>1, <3>4
    <2> QED
      BY <2>5, <2>6
  <1>9. FreshInv'
    BY <1>2, <1>3, <1>1 DEF IInv, FreshInv, Fresh, TypedMeans
  <1>10. LaterInv'
    BY <1>2, <1>3, <1>1 DEF IInv, LaterInv, TypedMeans
  <1> QED
    BY <1>4, <1>5, <1>6, <1>7, <1>8, <1>9, <1>10 DEF IInv

\* One stat(): the size is the file's size now.
LEMMA StatStep ==
  ASSUME IInv, NEW from \in {"first", "sample"}, NEW next \in {"begin", "compare"},
         from = "first" => next = "begin", from = "sample" => next = "compare", Stat(from, next)
  PROVE  IInv'
  <1> USE Params
  <1>1. TypedMeans
    BY Typed DEF IInv
  <1>2. current \in Seq(0..MaxSize) /\ Len(current) \in {0, 1} /\ pc = from
    <2>1. current \in Seq(0..MaxSize) /\ Len(current) < 2 /\ pc = from
      BY DEF IInv, SampleInv, Stat
    <2>2. Len(current) \in Nat
      BY <2>1
    <2>3. \A n \in Nat : n < 2 => n \in {0, 1}
      OBVIOUS
    <2> QED
      BY <2>1, <2>2, <2>3
  <1>3. PICK k \in {1, 2}, f \in Names : k = Len(current) + 1 /\ f = CAPTURES[k]
    <2>1. CASE Len(current) = 0
      <3>1. Len(current) + 1 = 1
        BY <2>1
      <3> QED
        BY <3>1, TwoNames
    <2>2. CASE Len(current) = 1
      <3>1. Len(current) + 1 = 2
        BY <2>2
      <3> QED
        BY <3>1, TwoNames
    <2> QED
      BY <1>2, <2>1, <2>2
  <1>4. /\ current' = Append(current, size[f]) /\ sampledAt' = clock
        /\ UNCHANGED <<clock, stalls, size, grown, offsets, stableSince, now, wake>>
    BY <1>3 DEF Stat
  <1>5. size[f] \in 0..MaxSize
    BY <1>1 DEF TypedMeans
  <1>6. /\ current' \in Seq(0..MaxSize) /\ Len(current') = k
        /\ current'[k] = size[f]
        /\ \A i \in 1..Len(current) : current'[i] = current[i]
    BY <1>2, <1>3, <1>4, <1>5
  <1>7. pc' = IF k < 2 THEN from ELSE IF current'[1] = 0 \/ current'[2] = 0 THEN "failed" ELSE next
    BY <1>4, <1>6 DEF Stat
  <1>8. TypeOK'
    <2>1. Len(current') <= 2 /\ \A i \in DOMAIN current' : current'[i] \in 0..MaxSize
      BY <1>3, <1>6, ElementOf
    <2>2. {stableSince, now, clock} \subseteq 0..clock
      BY <1>1 DEF TypedMeans
    <2> QED
      BY <1>4, <1>7, <2>1, <2>2 DEF IInv, TypeOK
  <1>9. DoneByDeadline' /\ LaterInv' /\ ReturnInv'
    BY <1>4, <1>7 DEF IInv, DoneByDeadline, LaterInv, ReturnInv
  <1>10. SampleInv'
    BY <1>3, <1>6, <1>7 DEF SampleInv
  <1>11. PlacedInv'
    BY <1>2, <1>4, <1>7 DEF IInv, PlacedInv
  <1>12. TakenInv'
    <2> SUFFICES ASSUME NEW i \in 1..k
                 PROVE  /\ current'[i] <= size[CAPTURES[i]]
                        /\ grown[CAPTURES[i]][current'[i]] <= clock
                        /\ size[CAPTURES[i]] > current'[i]
                             => grown[CAPTURES[i]][current'[i] + 1] + stalls >= clock
      BY <1>4, <1>6 DEF TakenInv, TakenAt
    <2>1. CASE i = k
      BY <1>3, <1>5, <1>6, <1>1, <2>1 DEF TypedMeans
    <2>2. CASE i # k
      <3>1. i \in 1..Len(current) /\ current'[i] = current[i]
        BY <1>2, <1>3, <1>6, <2>2
      <3>2. CAPTURES[i] \in Names /\ current[i] \in 0..MaxSize
        BY <3>1, InSample DEF IInv
      <3>3. TakenAt(i)
        BY <3>1 DEF IInv, TakenInv, TakenAt
      <3> QED
        BY <1>1, <3>1, <3>2, <3>3 DEF TakenAt, TypedMeans
    <2> QED
      BY <2>1, <2>2
  <1>13. FreshInv'
    BY <1>4, <1>1 DEF IInv, FreshInv, PlacedInv, TypedMeans
  <1> QED
    BY <1>8, <1>9, <1>10, <1>11, <1>12, <1>13 DEF IInv

\* What Begin and Compare know of the sample they take over.
LEMMA TakenOver ==
  ASSUME IInv, pc \in {"begin", "compare"}
  PROVE  /\ Sample \in [Names -> 0..MaxSize]
         /\ \A f \in Names :
              /\ Sample[f] <= size[f]
              /\ grown[f][Sample[f]] <= sampledAt
              /\ size[f] > Sample[f] => grown[f][Sample[f] + 1] + stalls >= sampledAt
  <1>1. current \in Seq(0..MaxSize) /\ Len(current) = 2
    BY DEF IInv, SampleInv
  <1> SUFFICES ASSUME NEW f \in Names
               PROVE  /\ Sample[f] <= size[f]
                      /\ grown[f][Sample[f]] <= sampledAt
                      /\ size[f] > Sample[f] => grown[f][Sample[f] + 1] + stalls >= sampledAt
    BY <1>1, SampleOf
  <1>2. PICK i \in 1..Len(current) : f = CAPTURES[i] /\ Sample[f] = current[i]
    BY <1>1, SampleOf
  <1>3. current[i] \in 0..MaxSize
    BY <1>1, ElementOf
  <1>4. TakenAt(i)
    BY DEF IInv, TakenInv, TakenAt
  <1>5. /\ Sample[f] <= size[f] /\ grown[f][Sample[f]] <= sampledAt
        /\ size[f] > Sample[f] => grown[f][Sample[f] + 1] + stalls >= clock
    BY <1>2, <1>4 DEF TakenAt
  <1>6. TypedMeans /\ Sample[f] \in 0..MaxSize
    BY <1>2, <1>3, Typed DEF IInv
  <1>7. size[f] > Sample[f] => grown[f][Sample[f] + 1] \in Nat
    <2>1. size[f] > Sample[f] => Sample[f] + 1 \in 0..MaxSize
      BY <1>6, Params DEF TypedMeans
    <2> QED
      BY <1>6, <2>1 DEF TypedMeans
  <1> QED
    BY <1>5, <1>6, <1>7 DEF TypedMeans

\* The first sample counts as stable from the start.
LEMMA BeginStep == ASSUME IInv, Begin PROVE IInv'
  <1> USE Params DEF Begin
  <1>1. TypedMeans
    BY Typed DEF IInv
  <1>2. Len(current') = 0 /\ current' \in Seq(0..MaxSize) /\ offsets' = Sample
    OBVIOUS
  <1>3. TypeOK'
    <2>1. offsets' \in [Names -> 0..MaxSize] /\ current' = <<>>
      BY <1>2, TakenOver
    <2> QED
      BY <2>1 DEF IInv, TypeOK
  <1>4. DoneByDeadline' /\ ReturnInv' /\ SampleInv' /\ TakenInv'
    BY <1>2 DEF IInv, DoneByDeadline, ReturnInv, SampleInv, TakenInv, TakenAt
  <1>5. clock <= stalls
    BY DEF IInv, PlacedInv
  <1>6. \A f \in Names : /\ Sample[f] \in 0..MaxSize /\ Sample[f] <= size[f]
                         /\ grown[f][Sample[f]] <= sampledAt /\ grown[f][Sample[f]] \in Nat
    BY <1>1, TakenOver DEF TypedMeans
  <1>7. PlacedInv'
    BY <1>2, <1>1, <1>5, <1>6 DEF PlacedInv, TypedMeans
  <1>8. FreshInv'
    BY <1>2, <1>1, <1>5, <1>6 DEF IInv, FreshInv, Fresh, TypedMeans
  <1>9. LaterInv'
    BY <1>2, TakenOver DEF LaterInv
  <1> QED
    BY <1>3, <1>4, <1>7, <1>8, <1>9 DEF IInv

\* A sample that differs restarts the quiet interval; one that does not confirms the offsets.
LEMMA CompareStep == ASSUME IInv, Compare PROVE IInv'
  <1> USE Params
  <1>1. TypedMeans
    BY Typed DEF IInv
  <1>2. /\ Len(current') = 0 /\ current' = <<>> /\ offsets' = Sample
        /\ pc = "compare" /\ pc' = "test"
        /\ UNCHANGED <<clock, stalls, size, grown, now, wake, sampledAt>>
        /\ stableSince' = clock \/ (stableSince' = stableSince /\ offsets' = offsets)
    BY DEF Compare
  <1>3. TypeOK'
    <2>1. offsets' \in [Names -> 0..MaxSize]
      BY <1>2, TakenOver
    <2>2. {stableSince', now, sampledAt} \subseteq 0..clock
      BY <1>2, <1>1 DEF TypedMeans
    <2> QED
      <3>1. /\ clock' = clock /\ stalls' = stalls /\ size' = size /\ grown' = grown /\ wake' = wake
            /\ now' = now /\ sampledAt' = sampledAt
        BY <1>2
      <3>2. Len(current') <= 2 /\ \A i \in DOMAIN current' : current'[i] \in 0..MaxSize
        BY <1>2
      <3> QED
        BY <1>2, <2>1, <2>2, <3>1, <3>2 DEF IInv, TypeOK
  <1>4. DoneByDeadline' /\ ReturnInv' /\ SampleInv' /\ TakenInv'
    BY <1>2 DEF IInv, DoneByDeadline, ReturnInv, SampleInv, TakenInv, TakenAt
  <1>5. \A f \in Names : /\ Sample[f] \in 0..MaxSize /\ Sample[f] <= size[f]
                         /\ grown[f][Sample[f]] <= sampledAt /\ grown[f][Sample[f]] \in Nat
    BY <1>2, <1>1, TakenOver DEF TypedMeans
  <1>6. PlacedInv'
    BY <1>2, <1>1, <1>5 DEF IInv, PlacedInv, TypedMeans
  <1>7. FreshInv'
    BY <1>2, <1>1, <1>5 DEF IInv, FreshInv, Fresh, TypedMeans
  <1>8. LaterInv'
    BY <1>2, TakenOver DEF LaterInv
  <1> QED
    BY <1>3, <1>4, <1>6, <1>7, <1>8 DEF IInv

\* Return or sleep.
LEMMA TestStep == ASSUME IInv, Test PROVE IInv'
  <1> USE Params DEF Test
  <1>1. TypedMeans
    BY Typed DEF IInv
  <1>2. SleepUntil(clock) \in 0..DEADLINE
    BY <1>1, SleepUntilBound DEF TypedMeans
  <1>3. TypeOK'
    BY <1>1, <1>2 DEF IInv, TypeOK, TypedMeans
  <1>4. DoneByDeadline' /\ SampleInv'
    BY DEF IInv, DoneByDeadline, SampleInv
  <1>5. ReturnInv'
    BY DEF IInv, ReturnInv, Settled
  <1>6. TakenInv'
    BY DEF IInv, TakenInv, TakenAt
  <1>7. PlacedInv' /\ LaterInv'
    BY DEF IInv, PlacedInv, LaterInv
  <1>8. FreshInv'
    BY DEF IInv, FreshInv, Fresh
  <1> QED
    BY <1>3, <1>4, <1>5, <1>6, <1>7, <1>8 DEF IInv

\* The sleep is over.
LEMMA WakeStep == ASSUME IInv, Wake PROVE IInv'
  <1> USE DEF IInv, Wake
  <1>1. TypeOK' /\ DoneByDeadline' /\ ReturnInv' /\ SampleInv'
    BY DEF TypeOK, DoneByDeadline, ReturnInv, SampleInv
  <1>2. TakenInv'
    BY DEF TakenInv, TakenAt
  <1>3. PlacedInv' /\ FreshInv' /\ LaterInv'
    BY DEF PlacedInv, FreshInv, Fresh, LaterInv, SampleInv
  <1> QED
    BY <1>1, <1>2, <1>3

\* Nothing happens.
LEMMA StutterStep == ASSUME IInv, UNCHANGED vars PROVE IInv'
  <1> USE DEF IInv, vars
  <1>1. TypeOK' /\ DoneByDeadline' /\ SampleInv'
    BY DEF TypeOK, DoneByDeadline, SampleInv
  <1>2. ReturnInv'
    BY DEF ReturnInv, Settled
  <1>3. TakenInv'
    BY DEF TakenInv, TakenAt
  <1>4. PlacedInv' /\ FreshInv' /\ LaterInv'
    BY DEF PlacedInv, FreshInv, Fresh, LaterInv
  <1> QED
    BY <1>1, <1>2, <1>3, <1>4

\* The invariant holds in every reachable state.
LEMMA Invariance == Spec => []IInv
  <1>1. IInv /\ [Next]_vars => IInv'
    <2> SUFFICES ASSUME IInv, [Next]_vars PROVE IInv'
      OBVIOUS
    <2>1. CASE FirstStat
      BY <2>1, StatStep DEF FirstStat
    <2>2. CASE NextStat
      BY <2>2, StatStep DEF NextStat
    <2> QED
      BY <2>1, <2>2, BeginStep, TestStep, WakeStep, CompareStep, TimeStep, WriteStep, StutterStep
         DEF Next, Host
  <1> QED
    BY <1>1, InitInv, PTL DEF Spec

-----------------------------------------------------------------------------
(* The theorems.                                                           *)

\* Every variable keeps its type (lines 102-125).
THEOREM TypeCorrect == Spec => []TypeOK
  <1>1. IInv => TypeOK
    BY DEF IInv
  <1> QED
    BY <1>1, Invariance, PTL

\* An early end is at an offset both files kept for QUIET, up to the time lost
\* (capture_end_after_quiescence, lines 117-121).
THEOREM EndIsStable == Spec => []StableUpToStalls
  <1>1. IInv => StableUpToStalls
    <2> SUFFICES ASSUME IInv, Early
                 PROVE  /\ sampledAt + stalls >= MINIMUM
                        /\ \A f \in Names :
                             /\ grown[f][offsets[f]] + QUIET <= sampledAt + stalls
                             /\ size[f] > offsets[f] => grown[f][offsets[f] + 1] + stalls >= sampledAt
      BY DEF StableUpToStalls
    <2> USE ParametersAssumption DEF IInv, Early
    <2>1. clock >= MINIMUM /\ clock >= stableSince + QUIET
      BY Typed, Params DEF ReturnInv, Settled, TypedMeans
    <2>2. clock <= sampledAt + stalls
      BY DEF FreshInv, Fresh
    <2>3. \A f \in Names : grown[f][offsets[f]] + clock <= stableSince + sampledAt + stalls
      BY DEF FreshInv, Fresh
    <2>4. \A f \in Names : grown[f][offsets[f]] + QUIET <= sampledAt + stalls
      BY <2>1, <2>3, Typed, Params DEF TypedMeans
    <2>5. \A f \in Names : size[f] > offsets[f] => grown[f][offsets[f] + 1] + stalls >= sampledAt
      BY DEF LaterInv
    <2> QED
      BY <2>1, <2>2, <2>4, <2>5, Typed, Params DEF TypedMeans
  <1> QED
    BY <1>1, Invariance, PTL

\* It ends by the deadline, but for the time it was not run (line 121).
THEOREM EndsByDeadline == Spec => []DoneByDeadline
  <1>1. IInv => DoneByDeadline
    BY DEF IInv
  <1> QED
    BY <1>1, Invariance, PTL
-----------------------------------------------------------------------------
(* What is left to do.                                                     *)

\* Steps of the function to its next sleep, at most.
Ahead ==
  CASE pc = "first"   -> 9 - Len(current)
    [] pc = "begin"   -> 7
    [] pc = "sleep"   -> 6
    [] pc = "sample"  -> 5 - Len(current)
    [] pc = "compare" -> 3
    [] pc = "test"    -> 2
    [] OTHER          -> 0

\* Awake, it has slept as long as it meant to.
WakeInv == pc # "sleep" => wake <= clock

\* A step of the function is one of those, or begins a sleep that ends later than the last did;
\* QEMU and the clock leave both.
HostAdvances ==
  /\ Host => wake' > wake \/ (wake' = wake /\ Ahead' < Ahead)
  /\ (TimePasses \/ \E f \in Names : QemuWrites(f)) => wake' = wake /\ Ahead' = Ahead

\* A sleep begins before the deadline and ends after it began.
LEMMA SleepIsLater ==
  ASSUME NEW t \in Nat, ~Settled(t)
  PROVE  SleepUntil(t) > t /\ SleepUntil(t) \in Nat
  BY Params DEF Settled, SleepUntil

\* The second stat completes a sample, the first does not.
LEMMA StatAdvances ==
  ASSUME IInv, NEW from \in {"first", "sample"}, NEW next \in {"begin", "compare"},
         from = "first" => next = "begin", from = "sample" => next = "compare", Stat(from, next)
  PROVE  wake' = wake /\ Ahead' < Ahead
  <1>1. current \in Seq(0..MaxSize) /\ Len(current) \in {0, 1} /\ pc = from
    <2>1. current \in Seq(0..MaxSize) /\ Len(current) < 2 /\ pc = from
      BY DEF IInv, SampleInv, Stat
    <2>2. Len(current) \in Nat
      BY <2>1
    <2>3. \A n \in Nat : n < 2 => n \in {0, 1}
      OBVIOUS
    <2> QED
      BY <2>1, <2>2, <2>3
  <1>2. PICK f \in Names : f = CAPTURES[Len(current) + 1]
    <2>1. CASE Len(current) = 0
      BY <2>1, TwoNames
    <2>2. CASE Len(current) = 1
      <3>1. Len(current) + 1 = 2
        BY <2>2
      <3> QED
        BY <3>1, TwoNames
    <2> QED
      BY <1>1, <2>1, <2>2
  <1>3. current' = Append(current, size[f]) /\ wake' = wake
    BY <1>2 DEF Stat
  <1>4. Len(current') = Len(current) + 1
    BY <1>1, <1>3 DEF IInv, TypeOK
  <1>5. (pc' = from /\ Len(current') < 2) \/ pc' = next \/ pc' = "failed"
    BY DEF Stat
  <1>6. CASE from = "first"
    BY <1>1, <1>3, <1>4, <1>5, <1>6 DEF Ahead
  <1>7. CASE from = "sample"
    BY <1>1, <1>3, <1>4, <1>5, <1>7 DEF Ahead
  <1> QED
    BY <1>6, <1>7

\* The wait cannot go on forever: the sleeps end in 0..DEADLINE, Ahead is at most 9, and every
\* step of the function takes the one up or the other down, so that it has at most
\* 10 * (DEADLINE + 1) steps however the captures grow (lines 116-125).
THEOREM HostRunsOut ==
  Spec => [](wake \in 0..DEADLINE) /\ [](Ahead \in 0..9) /\ [][HostAdvances]_vars
  <1>1. Init => WakeInv
    BY DEF Init, WakeInv
  <1>2. ASSUME IInv, WakeInv, [Next]_vars PROVE WakeInv'
    <2> USE <1>2 DEF IInv, TypeOK, WakeInv
    <2>1. CASE FirstStat \/ NextStat
      BY <2>1 DEF FirstStat, NextStat, Stat
    <2>2. CASE Begin \/ Wake \/ Compare
      BY <2>2 DEF Begin, Wake, Compare
    <2>3. CASE Test
      BY <2>3 DEF Test
    <2>4. CASE TimePasses
      BY <2>4, Params DEF TimePasses
    <2>5. CASE \E f \in Names : QemuWrites(f)
      BY <2>5 DEF QemuWrites
    <2>6. CASE UNCHANGED vars
      BY <2>6 DEF vars
    <2> QED
      BY <1>2, <2>1, <2>2, <2>3, <2>4, <2>5, <2>6 DEF Next, Host
  <1>3. ASSUME IInv PROVE wake \in 0..DEADLINE /\ Ahead \in 0..9
    <2>1. Len(current) \in {0, 1, 2}
      <3>1. current \in Seq(0..MaxSize) /\ Len(current) <= 2
        BY <1>3 DEF IInv, TypeOK, SampleInv
      <3>2. Len(current) \in Nat
        BY <3>1
      <3>3. \A n \in Nat : n <= 2 => n \in {0, 1, 2}
        OBVIOUS
      <3> QED
        BY <3>1, <3>2, <3>3
    <2>2. Ahead \in 0..9
      BY <1>3, <2>1 DEF IInv, TypeOK, Ahead
    <2> QED
      BY <1>3, <2>2 DEF IInv, TypeOK
  <1>4. ASSUME IInv, WakeInv, Host PROVE wake' > wake \/ (wake' = wake /\ Ahead' < Ahead)
    <2>1. CASE FirstStat
      BY <1>4, <2>1, StatAdvances DEF FirstStat
    <2>2. CASE NextStat
      BY <1>4, <2>2, StatAdvances DEF NextStat
    <2>3. CASE Begin \/ Wake \/ Compare
      BY <1>4, <2>3 DEF Begin, Wake, Compare, Ahead, IInv, SampleInv
    <2>4. CASE Test
      <3>1. clock \in Nat /\ wake \in Nat /\ wake <= clock
        BY <1>4, <2>4, Params DEF Test, IInv, TypeOK, WakeInv
      <3>2. CASE Settled(clock)
        BY <2>4, <3>2 DEF Test, Ahead
      <3>3. CASE ~Settled(clock)
        BY <2>4, <3>1, <3>3, SleepIsLater DEF Test
      <3> QED
        BY <3>2, <3>3
    <2> QED
      BY <1>4, <2>1, <2>2, <2>3, <2>4 DEF Host
  <1>5. ASSUME TimePasses \/ \E f \in Names : QemuWrites(f) PROVE wake' = wake /\ Ahead' = Ahead
    <2>1. UNCHANGED <<wake, pc, current>>
      BY <1>5 DEF TimePasses, QemuWrites
    <2> QED
      BY <2>1 DEF Ahead
  <1>6. IInv /\ WakeInv /\ [Next]_vars => [HostAdvances]_vars
    BY <1>4, <1>5 DEF HostAdvances
  <1> QED
    BY <1>1, <1>2, <1>3, <1>6, Invariance, PTL DEF Spec
=============================================================================
