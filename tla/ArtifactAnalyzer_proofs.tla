----------------------- MODULE ArtifactAnalyzer_proofs -----------------------
(***************************************************************************)
(* Proofs about the artifact analyzer, for any number of splits and any    *)
(* values.  The argument: a record holds nothing but what is true of its   *)
(* artifact (RecordInv), so a difference between two records is one        *)
(* between two artifacts, and a set of complete records that passes every  *)
(* comparison is the set itself.                                           *)
(***************************************************************************)
EXTENDS ArtifactFindings, TLAPS

InputInv ==
  /\ apks \in Seq(APKs) /\ Len(apks) > 0
  /\ sdk \in {"skipped", "missing", "present", "unexecutable"}

\* What is established of an artifact is true of it.
Truthful(i) ==
  /\ \A key \in Required : records[i].keys[key] \in {None, apks[i][key]}
  /\ records[i].split \in {None, apks[i].split}

RecordInv ==
  /\ records \in Seq(Records)
  /\ \A i \in 1..Len(records) : Truthful(i)
  /\ readable \in BOOLEAN
  /\ readable => \A i \in 1..Len(records) : apks[i].file = "apk"
  /\ ~readable => \E i \in 1..Len(apks) : apks[i].file # "apk"

\* The loop visits each artifact once, in order.
ProgressInv ==
  /\ pc \in {"start", "loop", "evaluate", "exited"}
  /\ Len(records) <= Len(apks)
  /\ pc = "start" => records = <<>>
  /\ pc = "loop" => Len(records) < Len(apks) /\ sdk # "missing"
  /\ pc = "evaluate" => Len(records) = Len(apks)
  /\ pc # "exited" => status = None /\ exit = None

IInv == InputInv /\ RecordInv /\ ProgressInv /\ ExitZeroMeansGenuine /\ InvalidMeansNotGenuine

-----------------------------------------------------------------------------
(* Scanning.                                                               *)

\* A new record that is true of its artifact keeps the records true.
LEMMA AddKeeps ==
  ASSUME InputInv, RecordInv, ProgressInv, pc = "loop",
         NEW keys, NEW split, NEW isReadable \in BOOLEAN,
         [keys |-> keys, split |-> split] \in Records,
         \A key \in Required : keys[key] \in {None, Current[key]},
         split \in {None, Current.split},
         isReadable <=> Current.file = "apk",
         Add(keys, split, isReadable)
  PROVE  InputInv' /\ RecordInv' /\ ProgressInv'
  <1> DEFINE n == Len(records) + 1
             rec == [keys |-> keys, split |-> split]
  <1>1. n \in 1..Len(apks) /\ Current = apks[n] /\ Len(records) \in Nat
    BY DEF InputInv, RecordInv, ProgressInv, Current
  <1>2. records' = Append(records, rec) /\ UNCHANGED <<apks, sdk, status, exit>>
    BY DEF Add
  <1>3. records' \in Seq(Records) /\ Len(records') = n
        /\ records'[n] = rec /\ \A i \in 1..Len(records) : records'[i] = records[i]
    BY <1>2 DEF RecordInv
  <1>4. \A i \in 1..Len(records') : Truthful(i)'
    <2>1. SUFFICES ASSUME NEW i \in 1..n
                   PROVE  /\ \A key \in Required : records'[i].keys[key] \in {None, apks[i][key]}
                          /\ records'[i].split \in {None, apks[i].split}
      BY <1>2, <1>3 DEF Truthful
    <2>2. CASE i = n
      <3>1. records'[i].keys = keys /\ records'[i].split = split
        BY <1>3, <2>2
      <3> QED
        BY <1>1, <2>2, <3>1
    <2>3. CASE i \in 1..Len(records)
      BY <1>3, <2>3 DEF RecordInv, Truthful
    <2> QED
      BY <1>1, <2>2, <2>3
  <1>5. readable' = (readable /\ isReadable)
    BY DEF Add
  <1>6. readable' => \A i \in 1..n : apks[i].file = "apk"
    BY <1>1, <1>5 DEF RecordInv
  <1>7. ~readable' => \E i \in 1..Len(apks) : apks[i].file # "apk"
    BY <1>1, <1>5 DEF RecordInv
  <1>8. InputInv'
    BY <1>2 DEF InputInv
  <1>9. RecordInv'
    BY <1>2, <1>3, <1>4, <1>5, <1>6, <1>7 DEF RecordInv
  <1>10. ProgressInv'
    <2>1. pc' = IF n = Len(apks) THEN "evaluate" ELSE "loop"
      BY DEF Add
    <2>2. status' = None /\ exit' = None
      BY <1>2 DEF ProgressInv
    <2> QED
      BY <1>1, <1>2, <1>3, <2>1, <2>2 DEF ProgressInv, InputInv
  <1> QED
    BY <1>8, <1>9, <1>10

\* A function into the values of each key is one into all values.
LEMMA AllValues ==
  ASSUME NEW k, k = [key \in Required |-> k[key]],
         \A key \in Required : k[key] \in Values[key] \cup {None}
  PROVE  k \in [Required -> (UNION {Values[key] : key \in Required}) \cup {None}]
  <1>1. ASSUME NEW key \in Required
        PROVE  k[key] \in (UNION {Values[j] : j \in Required}) \cup {None}
    <2>1. CASE k[key] = None
      BY <2>1
    <2>2. CASE k[key] \in Values[key]
      BY <2>2
    <2> QED
      BY <2>1, <2>2
  <1> QED
    BY <1>1

\* What the queries that answered establish is a record.
LEMMA AnsweredRecord ==
  ASSUME InputInv, Current \in APKs, NEW answered \in SUBSET (Required \cup {"split"})
  PROVE  [keys |-> [key \in Required |-> IF key \in answered THEN Current[key] ELSE None],
          split |-> IF "split" \in answered THEN Current.split ELSE None] \in Records
  <1> DEFINE keys == [key \in Required |-> IF key \in answered THEN Current[key] ELSE None]
  <1>1. \A key \in Required : Current[key] \in Values[key]
    BY DEF APKs, Required
  <1>2. \A key \in Required : keys[key] \in Values[key] \cup {None}
    BY <1>1
  <1>3. keys \in [Required -> (UNION {Values[key] : key \in Required}) \cup {None}]
    BY <1>2, AllValues
  <1>4. (IF "split" \in answered THEN Current.split ELSE None) \in SplitStates
    BY DEF APKs, SplitStates
  <1> QED
    BY <1>2, <1>3, <1>4 DEF Records

\* Without an answer there is a record too.
LEMMA NothingRecord == [keys |-> Nothing, split |-> None] \in Records
  <1>1. Nothing \in [Required -> (UNION {Values[key] : key \in Required}) \cup {None}]
    BY AllValues DEF Nothing
  <1>2. \A key \in Required : Nothing[key] \in Values[key] \cup {None}
    BY DEF Nothing
  <1>3. None \in SplitStates
    BY DEF SplitStates
  <1> QED
    BY <1>1, <1>2, <1>3 DEF Records

-----------------------------------------------------------------------------
(* The verdict.                                                            *)

\* Every position of the input holds an APK.
LEMMA ApkType ==
  ASSUME InputInv, NEW i \in 1..Len(apks)
  PROVE  apks[i] \in APKs
  BY DEF InputInv

\* INVALID needs an artifact that is no readable APK, or a contradiction between true records.
LEMMA InvalidIsProof ==
  ASSUME InputInv, RecordInv, Len(records) = Len(apks), StructuralStatus = "INVALID"
  PROVE  ~Genuine
  <1>1. SUFFICES ASSUME Genuine PROVE FALSE
    OBVIOUS
  <1>2. DOMAIN records = 1..Len(apks) /\ DOMAIN apks = 1..Len(apks)
    BY DEF InputInv, RecordInv
  <1>3. readable
    BY <1>1, <1>2 DEF Genuine, RecordInv
  <1>4. 1 \in DOMAIN apks
    BY <1>2 DEF InputInv
  <1>5. \A i \in DOMAIN apks : Truthful(i)
    BY <1>2 DEF RecordInv
  <1>6. \A i \in DOMAIN apks : apks[i].split \in SplitNames \cup {"absent"}
    BY <1>2, ApkType DEF APKs
  <1>7. ASSUME NEW key \in Required PROVE ~Mismatches(key)
    BY <1>1, <1>2, <1>4, <1>5 DEF Genuine, Mismatches, Truthful, Splits
  <1>8. ~BaseIsSplit
    BY <1>1, <1>4, <1>5, ValuesAssumption DEF Genuine, BaseIsSplit, Truthful
  <1>9. ~SplitIsBase
    BY <1>1, <1>2, <1>5, ValuesAssumption DEF Genuine, SplitIsBase, Truthful, Splits
  <1>10. ~DuplicateSplit
    BY <1>1, <1>2, <1>5, ValuesAssumption DEF Genuine, DuplicateSplit, Truthful, Splits
  <1>11. Consistent
    BY <1>7, <1>8, <1>9, <1>10 DEF Consistent
  <1> QED
    BY <1>3, <1>11 DEF StructuralStatus

\* VALID needs complete records, which are the artifacts, and every comparison between them.
LEMMA ValidIsGenuine ==
  ASSUME InputInv, RecordInv, Len(records) = Len(apks), StructuralStatus = "VALID"
  PROVE  Genuine
  <1>1. readable /\ Consistent /\ Established
    BY DEF StructuralStatus
  <1>2. DOMAIN records = 1..Len(apks) /\ DOMAIN apks = 1..Len(apks)
    BY DEF InputInv, RecordInv
  <1>3. 1 \in DOMAIN apks
    BY <1>2 DEF InputInv
  <1>4. \A i \in DOMAIN apks : apks[i].file = "apk"
    BY <1>1, <1>2 DEF RecordInv
  <1>5. ASSUME NEW i \in DOMAIN apks
        PROVE  /\ \A key \in Required : records[i].keys[key] = apks[i][key] /\ apks[i][key] # None
               /\ records[i].split = apks[i].split /\ apks[i].split \in SplitNames \cup {"absent"}
    <2>1. Truthful(i) /\ records[i].split # None
          /\ \A key \in Required : records[i].keys[key] # None
      BY <1>1, <1>2 DEF RecordInv, Established
    <2>2. apks[i].split \in SplitNames \cup {"absent"}
      BY <1>2, ApkType DEF APKs
    <2> QED
      BY <2>1, <2>2 DEF Truthful
  <1>6. ASSUME NEW i \in DOMAIN apks, NEW key \in Required PROVE apks[i][key] = apks[1][key]
    BY <1>1, <1>2, <1>3, <1>5 DEF Consistent, Mismatches, Splits
  <1>7. \A i, j \in DOMAIN apks : \A key \in Required : apks[i][key] = apks[j][key]
    BY <1>6
  <1>8. apks[1].split = "absent"
    BY <1>1, <1>3, <1>5 DEF Consistent, BaseIsSplit
  <1>9. \A i \in DOMAIN apks \ {1} : apks[i].split # "absent"
    BY <1>1, <1>2, <1>5 DEF Consistent, SplitIsBase, Splits
  <1>10. \A i, j \in DOMAIN apks \ {1} : i # j => apks[i].split # apks[j].split
    <2>1. \A i \in DOMAIN apks \ {1} : records[i].split = apks[i].split /\ records[i].split \in SplitNames
      BY <1>5, <1>9
    <2> QED
      BY <1>1, <1>2, <2>1 DEF Consistent, DuplicateSplit, Splits
  <1> QED
    BY <1>4, <1>7, <1>8, <1>9, <1>10 DEF Genuine

-----------------------------------------------------------------------------
(* The theorems.                                                           *)

\* No run has a verdict before it starts.
LEMMA InitInv == Init => IInv
  <1> SUFFICES ASSUME Init PROVE IInv
    OBVIOUS
  <1>1. PICK n \in 1..(MaxSplits + 1) : apks \in [1..n -> APKs]
    BY DEF Init
  <1>2. InputInv
    BY <1>1, ValuesAssumption DEF Init, InputInv
  <1>3. records = <<>> /\ readable = TRUE
    BY DEF Init
  <1>4. RecordInv
    BY <1>3 DEF RecordInv
  <1>5. ProgressInv
    BY <1>2, <1>3 DEF Init, ProgressInv, InputInv
  <1>6. ExitZeroMeansGenuine /\ InvalidMeansNotGenuine
    BY ValuesAssumption DEF Init, ExitZeroMeansGenuine, InvalidMeansNotGenuine
  <1> QED
    BY <1>2, <1>4, <1>5, <1>6 DEF IInv

\* A failing exit changes neither the input nor the records.
LEMMA FailKeeps ==
  ASSUME IInv, pc # "exited", NEW code \in {1, 2}, Fail(code)
  PROVE  IInv'
  <1>1. UNCHANGED <<apks, sdk, records, readable, status>> /\ pc' = "exited" /\ exit' = code
    BY DEF Fail
  <1>2. InputInv' /\ RecordInv'
    BY <1>1 DEF IInv, InputInv, RecordInv, Truthful
  <1>3. ProgressInv'
    BY <1>1 DEF IInv, ProgressInv
  <1>4. status = None
    BY DEF IInv, ProgressInv
  <1>5. ExitZeroMeansGenuine' /\ InvalidMeansNotGenuine'
    BY <1>1, <1>4, ValuesAssumption DEF ExitZeroMeansGenuine, InvalidMeansNotGenuine
  <1> QED
    BY <1>2, <1>3, <1>5 DEF IInv

\* While the loop goes on there is no verdict to be wrong.
LEMMA NoVerdictYet ==
  ASSUME ProgressInv', pc' # "exited"
  PROVE  ExitZeroMeansGenuine' /\ InvalidMeansNotGenuine'
  BY ValuesAssumption DEF ProgressInv, ExitZeroMeansGenuine, InvalidMeansNotGenuine

\* IInv is inductive and holds of every reachable state.
THEOREM Invariance == Spec => []IInv
  <1>1. ASSUME IInv, Start PROVE IInv'
    <2>1. CASE Fail(2)
      BY <1>1, <2>1, FailKeeps DEF Start
    <2>2. CASE pc' = "loop" /\ UNCHANGED <<apks, sdk, records, readable, status, exit>>
      <3>1. InputInv' /\ RecordInv'
        BY <1>1, <2>2 DEF IInv, InputInv, RecordInv, Truthful
      <3>2. ProgressInv'
        BY <1>1, <2>2 DEF IInv, InputInv, ProgressInv, Start, Fail
      <3> QED
        BY <2>2, <3>1, <3>2, NoVerdictYet DEF IInv
    <2> QED
      BY <1>1, <2>1, <2>2 DEF Start
  <1>2. ASSUME IInv, pc = "loop", NEW keys, NEW split, NEW isReadable \in BOOLEAN,
               [keys |-> keys, split |-> split] \in Records,
               \A key \in Required : keys[key] \in {None, Current[key]},
               split \in {None, Current.split},
               isReadable <=> Current.file = "apk",
               Add(keys, split, isReadable)
        PROVE  IInv'
    <2>1. InputInv' /\ RecordInv' /\ ProgressInv'
      BY <1>2, AddKeeps DEF IInv
    <2>2. pc' # "exited"
      BY <1>2 DEF Add
    <2> QED
      BY <2>1, <2>2, NoVerdictYet DEF IInv
  <1>3. \A key \in Required : Nothing[key] = None
    BY DEF Nothing
  <1>4. ASSUME IInv, ScanFails PROVE IInv'
    <2>1. CASE Fail(1) \/ Fail(2)
      BY <1>4, <2>1, FailKeeps DEF ScanFails
    <2>2. CASE Current.file \in {"notZip", "noManifest"} /\ Add(Nothing, None, FALSE)
      BY <1>2, <1>3, <1>4, <2>2, NothingRecord DEF ScanFails
    <2> QED
      BY <1>4, <2>1, <2>2 DEF ScanFails
  <1>5. ASSUME IInv, Scan PROVE IInv'
    <2>1. pc = "loop" /\ Current.file = "apk"
      BY <1>5 DEF Scan
    <2>2. Current \in APKs
      <3>1. Len(records) + 1 \in 1..Len(apks)
        BY <1>5, <2>1 DEF IInv, InputInv, RecordInv, ProgressInv
      <3> QED
        BY <1>5, <3>1, ApkType DEF IInv, Current
    <2>3. CASE Fail(1)
      BY <1>5, <2>1, <2>3, FailKeeps
    <2>4. CASE Add(Nothing, None, TRUE)
      BY <1>2, <1>3, <1>5, <2>1, <2>4, NothingRecord
    <2>5. ASSUME NEW answered \in SUBSET (Required \cup {"split"}),
                 Add([key \in Required |-> IF key \in answered THEN Current[key] ELSE None],
                     IF "split" \in answered THEN Current.split ELSE None,
                     TRUE)
          PROVE  IInv'
      <3> DEFINE keys == [key \in Required |-> IF key \in answered THEN Current[key] ELSE None]
                 split == IF "split" \in answered THEN Current.split ELSE None
      <3>1. [keys |-> keys, split |-> split] \in Records
        BY <1>5, <2>2, AnsweredRecord DEF IInv
      <3>2. \A key \in Required : keys[key] \in {None, Current[key]}
        OBVIOUS
      <3>3. split \in {None, Current.split}
        OBVIOUS
      <3>4. Add(keys, split, TRUE)
        BY <2>5
      <3> HIDE DEF keys, split
      <3> QED
        BY <1>2, <1>5, <2>1, <3>1, <3>2, <3>3, <3>4
    <2> QED
      BY <1>5, <2>3, <2>4, <2>5 DEF Scan, IInv, InputInv, ProgressInv
  <1>6. ASSUME IInv, Evaluate PROVE IInv'
    <2>1. UNCHANGED <<apks, sdk, records, readable>> /\ pc' = "exited"
          /\ status' = StructuralStatus /\ exit' = ExitStatus(StructuralStatus)
      BY <1>6 DEF Evaluate
    <2>2. InputInv' /\ RecordInv' /\ ProgressInv'
      BY <1>6, <2>1 DEF IInv, InputInv, RecordInv, ProgressInv, Truthful
    <2>3. Len(records) = Len(apks)
      BY <1>6 DEF Evaluate, IInv, ProgressInv
    <2>4. StructuralStatus \in {"VALID", "INVALID", "UNKNOWN"}
      BY DEF StructuralStatus
    <2>5. exit' = 0 => StructuralStatus = "VALID"
      BY <2>1, <2>4 DEF ExitStatus
    <2>6. Genuine' <=> Genuine
      BY <2>1 DEF Genuine
    <2>7. ExitZeroMeansGenuine' /\ InvalidMeansNotGenuine'
      BY <1>6, <2>1, <2>3, <2>5, <2>6, ValidIsGenuine, InvalidIsProof
        DEF IInv, ExitZeroMeansGenuine, InvalidMeansNotGenuine
    <2> QED
      BY <2>2, <2>7 DEF IInv
  <1>7. ASSUME IInv, UNCHANGED vars PROVE IInv'
    BY <1>7 DEF vars, IInv, InputInv, RecordInv, Truthful, ProgressInv, ExitZeroMeansGenuine,
                InvalidMeansNotGenuine, Genuine
  <1>8. IInv /\ [Next]_vars => IInv'
    BY <1>1, <1>4, <1>5, <1>6, <1>7 DEF Next
  <1> QED
    BY <1>8, InitInv, PTL DEF Spec

\* Exit status 0 proves a genuine package set, for any set and whatever queries failed.
THEOREM ExitZeroIsProof == Spec => []ExitZeroMeansGenuine
  BY Invariance, PTL DEF IInv

\* INVALID proves that the set is not genuine.
THEOREM InvalidProof == Spec => []InvalidMeansNotGenuine
  BY Invariance, PTL DEF IInv

\* Every variable keeps its type.
THEOREM TypeCorrect == Spec => []TypeOK
  <1> DEFINE Typed == /\ \E n \in 1..(MaxSplits + 1) : apks \in [1..n -> APKs]
                      /\ status \in {"VALID", "INVALID", "UNKNOWN", None} /\ exit \in {0, 1, 2, None}
  <1>1. Init => Typed
    BY DEF Init
  <1>2. ASSUME IInv, Typed, [Next]_vars PROVE Typed'
    <2>1. ASSUME NEW code \in {1, 2}, Fail(code) PROVE Typed'
      BY <1>2, <2>1 DEF Fail
    <2>2. ASSUME NEW keys, NEW split, NEW isReadable, Add(keys, split, isReadable) PROVE Typed'
      BY <1>2, <2>2 DEF Add
    <2>3. CASE UNCHANGED <<apks, status, exit>>
      BY <1>2, <2>3
    <2>4. CASE Start
      BY <2>1, <2>3, <2>4 DEF Start
    <2>5. CASE ScanFails
      BY <2>1, <2>2, <2>5 DEF ScanFails
    <2>6. CASE Scan
      <3>1. sdk \in {"skipped", "present", "unexecutable"}
        BY <1>2, <2>6 DEF Scan, IInv, InputInv, ProgressInv
      <3> QED
        BY <2>1, <2>2, <2>6, <3>1 DEF Scan
    <2>7. CASE Evaluate
      <3>1. apks' = apks /\ status' = StructuralStatus /\ exit' = ExitStatus(StructuralStatus)
        BY <2>7 DEF Evaluate
      <3>2. StructuralStatus \in {"VALID", "INVALID", "UNKNOWN"}
        BY DEF StructuralStatus
      <3>3. ExitStatus(StructuralStatus) \in {0, 1, 2}
        BY <3>2 DEF ExitStatus
      <3> QED
        BY <1>2, <3>1, <3>2, <3>3
    <2> QED
      BY <1>2, <2>3, <2>4, <2>5, <2>6, <2>7 DEF Next, vars
  <1>3. IInv /\ Typed => TypeOK
    BY DEF TypeOK, IInv, InputInv, RecordInv, ProgressInv
  <1> QED
    BY <1>1, <1>2, <1>3, Invariance, PTL DEF Spec

-----------------------------------------------------------------------------
(* The findings.                                                           *)

\* What was scanned is an APK or has a finding, and a verdict is that of all artifacts.
VerdictInv ==
  /\ \A i \in 1..Len(records) : apks[i].file \in {"apk", "notZip", "noManifest"}
  /\ status # None => Len(records) = Len(apks) /\ status = StructuralStatus

\* The verdict is drawn from the records of the report.
LEMMA VerdictStep ==
  ASSUME IInv, VerdictInv, [Next]_vars
  PROVE  VerdictInv'
  <1> USE DEF VerdictInv
  <1>1. ASSUME pc = "loop", NEW keys, NEW split, NEW isReadable, Add(keys, split, isReadable),
               Current.file \in {"apk", "notZip", "noManifest"}
        PROVE  VerdictInv'
    <2>1. status' = None /\ apks' = apks
      BY <1>1 DEF Add, IInv, ProgressInv
    <2>2. records' = Append(records, [keys |-> keys, split |-> split]) /\ Current = apks[Len(records) + 1]
      BY <1>1 DEF Add, Current
    <2>3. Len(records') = Len(records) + 1 /\ Len(records) \in Nat
      BY <2>2 DEF IInv, RecordInv
    <2> QED
      BY <1>1, <2>1, <2>2, <2>3
  <1>2. ASSUME pc # "exited", NEW code, Fail(code) PROVE VerdictInv'
    BY <1>2 DEF Fail, IInv, ProgressInv
  <1>3. CASE Start
    <2>1. CASE UNCHANGED <<apks, records, status>>
      BY <1>3, <2>1 DEF Start, IInv, ProgressInv
    <2> QED
      BY <1>3, <2>1 DEF Start, Fail
  <1>4. CASE ScanFails
    BY <1>1, <1>2, <1>4 DEF ScanFails
  <1>5. CASE Scan
    BY <1>1, <1>2, <1>5 DEF Scan, IInv, InputInv, ProgressInv
  <1>6. CASE Evaluate
    <2>1. UNCHANGED <<apks, records, readable>> /\ status' = StructuralStatus /\ Len(records) = Len(apks)
      BY <1>6 DEF Evaluate, IInv, ProgressInv
    <2>2. StructuralStatus' = StructuralStatus
      BY <2>1 DEF StructuralStatus, Consistent, Mismatches, BaseIsSplit, SplitIsBase,
                  DuplicateSplit,
                  Established, Splits
    <2> QED
      BY <2>1, <2>2
  <1>7. CASE UNCHANGED vars
    <2>1. StructuralStatus' = StructuralStatus
      BY <1>7 DEF vars, StructuralStatus, Consistent, Mismatches, BaseIsSplit, SplitIsBase,
                  DuplicateSplit, Established, Splits
    <2> QED
      BY <1>7, <2>1 DEF vars
  <1> QED
    BY <1>3, <1>4, <1>5, <1>6, <1>7 DEF Next

\* A proven contradiction or an unreadable file has its finding, and nothing else has.
LEMMA InvalidHasFinding ==
  ASSUME IInv, VerdictInv, Len(records) = Len(apks)
  PROVE  (Findings \cap InvalidCodes # {}) <=> (~readable \/ ~Consistent)
  <1>1. DOMAIN records = 1..Len(apks)
    BY DEF IInv, RecordInv
  <1>2. (ScanFindings # {}) <=> ~readable
    BY <1>1 DEF ScanFindings, IInv, RecordInv, VerdictInv
  <1>3. ScanFindings \subseteq InvalidCodes
    BY DEF ScanFindings, InvalidCodes
  <1>4. ContradictionFindings \subseteq InvalidCodes
    BY DEF ContradictionFindings, MismatchCode, Required, InvalidCodes
  <1>5. (ContradictionFindings # {}) <=> ~Consistent
    <2>1. ASSUME NEW key \in Required, Mismatches(key) PROVE ContradictionFindings # {}
      BY <2>1 DEF ContradictionFindings
    <2>2. (BaseIsSplit \/ SplitIsBase \/ DuplicateSplit) => ContradictionFindings # {}
      BY DEF ContradictionFindings
    <2>3. Consistent => ContradictionFindings = {}
      BY DEF ContradictionFindings, Consistent
    <2> QED
      BY <2>1, <2>2, <2>3 DEF Consistent
  <1>6. UnprovenFindings \cap InvalidCodes = {}
    BY DEF UnprovenFindings, UnprovenCode, Required, InvalidCodes
  <1>7. "RUNTIME_MEDIATION_UNPROVEN" \notin InvalidCodes
    BY DEF InvalidCodes
  <1> QED
    BY <1>2, <1>3, <1>4, <1>5, <1>6, <1>7 DEF Findings

\* What is unproven has its finding, and nothing else has.
LEMMA UnknownHasFinding ==
  (Findings \cap UnknownCodes # {}) <=> ~Established
  <1>1. UnprovenFindings \subseteq UnknownCodes
    BY DEF UnprovenFindings, UnprovenCode, Required, UnknownCodes
  <1>2. ScanFindings \cap UnknownCodes = {}
    BY DEF ScanFindings, UnknownCodes
  <1>3. ContradictionFindings \cap UnknownCodes = {}
    BY DEF ContradictionFindings, MismatchCode, Required, UnknownCodes
  <1>4. "RUNTIME_MEDIATION_UNPROVEN" \notin UnknownCodes
    BY DEF UnknownCodes
  <1>5. (UnprovenFindings # {}) <=> ~Established
    <2>1. ASSUME NEW i \in DOMAIN records, NEW key \in Required, records[i].keys[key] = None
          PROVE  UnprovenFindings # {}
      BY <2>1 DEF UnprovenFindings
    <2>2. ASSUME NEW i \in DOMAIN records, records[i].split = None PROVE UnprovenFindings # {}
      BY <2>2 DEF UnprovenFindings
    <2>3. Established => UnprovenFindings = {}
      BY DEF UnprovenFindings, Established
    <2> QED
      BY <2>1, <2>2, <2>3 DEF Established
  <1> QED
    BY <1>1, <1>2, <1>3, <1>4, <1>5 DEF Findings

\* The findings of every report tell its verdict (artifact-analyzer.py:44-53 and 168-206).
THEOREM FindingsTell == Spec => []FindingsTellTheVerdict
  <1>1. Init => VerdictInv
    BY DEF Init, VerdictInv
  <1>2. IInv /\ VerdictInv /\ [Next]_vars => VerdictInv'
    BY VerdictStep
  <1>3. IInv /\ VerdictInv => FindingsTellTheVerdict
    BY InvalidHasFinding, UnknownHasFinding DEF VerdictInv, FindingsTellTheVerdict, StructuralStatus
  <1> QED
    BY <1>1, <1>2, <1>3, Invariance, PTL DEF Spec
=============================================================================
