-------------------------- MODULE ArtifactAnalyzer --------------------------
(***************************************************************************)
(* One run of artifact-analyzer.py over a base APK and its splits: what    *)
(* the files are (apks) against what the run could establish about them    *)
(* (records), the verdict it draws, and the exit status a caller sees.     *)
(* The ZIP module, apkanalyzer and apksigner are external: a query of them *)
(* answers truthfully or fails.  The files do not change during the run.   *)
(* Left out: the findings and the inventory of the report, and the version *)
(* name, which no verdict depends on.                                      *)
(***************************************************************************)
EXTENDS Naturals, Sequences

CONSTANTS
  Values,       \* per required key, the values an APK may have for it
  SplitNames,   \* manifest split names
  MaxSplits,    \* bound: --split arguments
  None          \* Python's None: not established

Required == {"package", "signer_sha256_digests", "version_code"}
SplitStates == SplitNames \cup {"absent", None}   \* None: split_identity_state "unknown"

ASSUME ValuesAssumption ==
  /\ \A key \in Required : None \notin Values[key]
  /\ None \notin SplitNames /\ "absent" \notin SplitNames
  /\ None \notin {"absent", "VALID", "INVALID", "UNKNOWN"} /\ None \notin 0..2
  /\ MaxSplits \in Nat

\* A file: unreadable raises in read_bytes, corrupt raises past the handler of the ZIP errors.
Files == {"apk", "missing", "unreadable", "notZip", "noManifest", "corrupt"}

APKs == [file : Files, package : Values["package"],
         signer_sha256_digests : Values["signer_sha256_digests"],
         version_code : Values["version_code"], split : SplitNames \cup {"absent"}]

\* What is established of an artifact.
Records == [keys : {k \in [Required -> (UNION {Values[key] : key \in Required}) \cup {None}] :
                      \A key \in Required : k[key] \in Values[key] \cup {None}},
            split : SplitStates]

VARIABLES
  apks,        \* 1: the base, then the splits in the order given
  sdk,         \* the SDK tools: skipped, missing, present or unexecutable
  pc,          \* "start", "loop", "evaluate", "exited"
  records,     \* per artifact scanned: what is established of it
  readable,    \* readable_set
  status,      \* structural_status, None before there is a report
  exit         \* exit status, None while running

vars == <<apks, sdk, pc, records, readable, status, exit>>

Nothing == [key \in Required |-> None]

Init ==
  /\ \E n \in 1..(MaxSplits + 1) : apks \in [1..n -> APKs]
  /\ sdk \in {"skipped", "missing", "present", "unexecutable"}
  /\ pc = "start"
  /\ records = <<>> /\ readable = TRUE
  /\ status = None /\ exit = None

\* FileNotFoundError and RuntimeError leave main with 2, any other exception with 1.
Fail(code) ==
  /\ pc' = "exited" /\ exit' = code
  /\ UNCHANGED <<apks, sdk, records, readable, status>>

Start ==
  /\ pc = "start"
  /\ IF apks[1].file = "missing" \/ sdk = "missing"
     THEN Fail(2)
     ELSE pc' = "loop" /\ UNCHANGED <<apks, sdk, records, readable, status, exit>>

-----------------------------------------------------------------------------
(* The loop of analyze(): scan_archive, then add_sdk_metadata.             *)

Current == apks[Len(records) + 1]

Add(keys, split, isReadable) ==
  /\ records' = Append(records, [keys |-> keys, split |-> split])
  /\ readable' = (readable /\ isReadable)
  /\ pc' = IF Len(records) + 1 = Len(apks) THEN "evaluate" ELSE "loop"
  /\ UNCHANGED <<apks, sdk, status, exit>>

ScanFails ==
  /\ pc = "loop"
  /\ CASE Current.file = "missing"                   -> Fail(2)
       [] Current.file \in {"unreadable", "corrupt"} -> Fail(1)
       [] Current.file \in {"notZip", "noManifest"}  -> Add(Nothing, None, FALSE)
       [] OTHER                                      -> FALSE

\* Each query fails on its own (RuntimeError) and leaves its field as it was.
Scan ==
  /\ pc = "loop" /\ Current.file = "apk"
  /\ CASE sdk = "skipped"      -> Add(Nothing, None, TRUE)
       [] sdk = "present"      ->
            \E answered \in SUBSET (Required \cup {"split"}) :
              Add([key \in Required |-> IF key \in answered THEN Current[key] ELSE None],
                  IF "split" \in answered THEN Current.split ELSE None,
                  TRUE)
       [] sdk = "unexecutable" -> Fail(1)

-----------------------------------------------------------------------------
(* evaluate_metadata() and structural_status().                            *)

Splits == DOMAIN records \ {1}

\* Mutant: an unproven value counts as a different one.
MismatchesUnproven(key) ==
  \E i \in Splits : records[1].keys[key] # records[i].keys[key]

Mismatches(key) ==
  \E i \in Splits :
    /\ records[1].keys[key] # None /\ records[i].keys[key] # None
    /\ records[1].keys[key] # records[i].keys[key]

BaseIsSplit == records[1].split \in SplitNames
SplitIsBase == \E i \in Splits : records[i].split = "absent"
DuplicateSplit ==
  \E i, j \in Splits : i # j /\ records[i].split \in SplitNames /\ records[i].split = records[j].split

Consistent ==
  /\ \A key \in Required : ~Mismatches(key)
  /\ ~BaseIsSplit /\ ~SplitIsBase /\ ~DuplicateSplit

\* Mutant: the split identity is not required.
EstablishedKeysOnly ==
  \A i \in DOMAIN records : \A key \in Required : records[i].keys[key] # None

Established ==
  \A i \in DOMAIN records :
    records[i].split # None /\ \A key \in Required : records[i].keys[key] # None

StructuralStatus ==
  IF ~readable \/ ~Consistent THEN "INVALID"
  ELSE IF Established THEN "VALID" ELSE "UNKNOWN"

\* Mutant: a status of its own for UNKNOWN.
ExitStatusDistinct(s) == CASE s = "VALID" -> 0 [] s = "INVALID" -> 1 [] s = "UNKNOWN" -> 3

ExitStatus(s) == CASE s = "VALID" -> 0 [] s = "INVALID" -> 1 [] s = "UNKNOWN" -> 2

Evaluate ==
  /\ pc = "evaluate"
  /\ pc' = "exited"
  /\ status' = StructuralStatus /\ exit' = ExitStatus(StructuralStatus)
  /\ UNCHANGED <<apks, sdk, records, readable>>

Next == Start \/ ScanFails \/ Scan \/ Evaluate

Spec == Init /\ [][Next]_vars

-----------------------------------------------------------------------------
(* Properties.                                                             *)

\* Every variable has its type.
TypeOK ==
  /\ \E n \in 1..(MaxSplits + 1) : apks \in [1..n -> APKs]
  /\ sdk \in {"skipped", "missing", "present", "unexecutable"}
  /\ pc \in {"start", "loop", "evaluate", "exited"}
  /\ records \in Seq(Records) /\ Len(records) <= Len(apks)
  /\ readable \in BOOLEAN
  /\ status \in {"VALID", "INVALID", "UNKNOWN", None} /\ exit \in {0, 1, 2, None}

\* The files are one package set: every one an APK, alike in the required keys, the base no
\* split and the splits told apart by their names.
Genuine ==
  /\ \A i \in DOMAIN apks : apks[i].file = "apk"
  /\ \A i, j \in DOMAIN apks : \A key \in Required : apks[i][key] = apks[j][key]
  /\ apks[1].split = "absent"
  /\ \A i \in DOMAIN apks \ {1} : apks[i].split # "absent"
  /\ \A i, j \in DOMAIN apks \ {1} : i # j => apks[i].split # apks[j].split

\* A caller that trusts exit status 0 trusts a genuine set, whichever queries failed.
ExitZeroMeansGenuine == exit = 0 => Genuine

\* INVALID is a proof: no failure of a tool makes a genuine set look contradictory.
InvalidMeansNotGenuine == status = "INVALID" => ~Genuine

\* "proven contradictions are INVALID" (phase-ii-stage-2-active-tree-cleanup.md:20-23), of any
\* two artifacts whose established keys differ.
ContradictionsAreInvalid ==
  status = "UNKNOWN" =>
    \A i, j \in DOMAIN records : \A key \in Required :
      records[i].keys[key] # None /\ records[j].keys[key] # None
        => records[i].keys[key] = records[j].keys[key]

\* "1 for INVALID, and 2 for UNKNOWN or analysis failure" (artifact-analyzer.py:6).
ExitOneMeansInvalid == exit = 1 => status = "INVALID"
=============================================================================
