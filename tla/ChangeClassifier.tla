-------------------------- MODULE ChangeClassifier --------------------------
(***************************************************************************)
(* Which CI jobs does a change run?  The "Classify changed paths" step of  *)
(* android.yml, classify-ci-changes.sh, which it calls, and the conditions *)
(* of the two jobs behind it.  A path is the class of paths that the       *)
(* script's patterns and the jobs' commands tell apart.  A changed file    *)
(* went from one class to another: the same one, unless it was renamed.    *)
(***************************************************************************)
EXTENDS Naturals

CONSTANT MaxFiles   \* bound: files in one change

ASSUME BoundAssumption == MaxFiles \in Nat

Jobs == {"baseline", "analyzer"}

\* "gradle": settings, build files and wrapper; "android": the rest of it, the network harness
\* among it; "github": workflow and script; "other": any path the script does not know.
Paths == {"docs", "artifact-analyzer", "run-artifact-fixtures", "test-apps", "app", "probe-app",
          "research-native", "gradle", "android", "github", "other"}

Files == [from : Paths, to : Paths]

VARIABLES
  change,      \* the files that differ between base and tested commit
  event, shas, \* the event; does it name two commits
  pc,          \* where the step is; it ends in "kept", "published" or "failed"
  paths,       \* what git listed and the script has not read
  flags,       \* the script's two variables
  output       \* GITHUB_OUTPUT: per job the value that counts, its last

vars == <<change, event, shas, pc, paths, flags, output>>

Nothing == [j \in Jobs |-> FALSE]

Init ==
  /\ \E n \in 0..MaxFiles : \E f \in [1..n -> Files] : change = {f[k] : k \in 1..n}
  /\ event \in {"pull_request", "push", "other"} /\ shas \in BOOLEAN
  /\ pc = "defaults"
  /\ paths = {} /\ flags = Nothing /\ output = Nothing

-----------------------------------------------------------------------------
Defaults ==
  /\ pc = "defaults"
  /\ pc' = "base"
  /\ output' = [j \in Jobs |-> TRUE]
  /\ UNCHANGED <<change, event, shas, paths, flags>>

\* "exit 0": the defaults stay.
Base ==
  /\ pc = "base"
  /\ pc' = IF event # "other" /\ shas THEN "diff" ELSE "kept"
  /\ UNCHANGED <<change, event, shas, paths, flags, output>>

\* git detects renames and lists them by their new path.
Diff ==
  /\ pc = "diff"
  /\ \/ pc' = "classify" /\ paths' = {f.to : f \in change}
     \/ pc' = "kept" /\ UNCHANGED paths
  /\ UNCHANGED <<change, event, shas, flags, output>>

\* Mutant: documentation is a path like any other.
ConcernsDocs(p) ==
  {j \in Jobs : \/ j = "baseline" /\ p # "artifact-analyzer"
                \/ j = "analyzer" /\ p \notin {"app", "probe-app", "research-native", "gradle"}}

\* The jobs a path turns on.
Concerns(p) ==
  {j \in Jobs :
     \/ j = "baseline" /\ p \notin {"docs", "artifact-analyzer"}
     \/ j = "analyzer" /\ p \notin {"docs", "app", "probe-app", "research-native", "gradle"}}

\* Mutant: each path decides anew.
ReadPathAnew(p) ==
  /\ pc = "classify" /\ p \in paths
  /\ paths' = paths \ {p}
  /\ flags' = [j \in Jobs |-> j \in Concerns(p)]
  /\ UNCHANGED <<change, event, shas, pc, output>>

ReadPath(p) ==
  /\ pc = "classify" /\ p \in paths
  /\ paths' = paths \ {p}
  /\ flags' = [j \in Jobs |-> flags[j] \/ j \in Concerns(p)]
  /\ UNCHANGED <<change, event, shas, pc, output>>

\* The script fails: "exit 0" again.
ScriptFails ==
  /\ pc = "classify"
  /\ pc' = "kept"
  /\ UNCHANGED <<change, event, shas, paths, flags, output>>

Publish ==
  /\ pc = "classify" /\ paths = {}
  /\ pc' = "published"
  /\ output' = flags
  /\ UNCHANGED <<change, event, shas, paths, flags>>

\* A command without "|| exit 0" fails (mktemp, cat), or the time is up.
StepFails ==
  /\ pc \in {"defaults", "base", "diff", "classify"}
  /\ pc' = "failed"
  /\ UNCHANGED <<change, event, shas, paths, flags, output>>

Next ==
  \/ Defaults \/ Base \/ Diff
  \/ \E p \in Paths : ReadPath(p)
  \/ ScriptFails \/ Publish \/ StepFails

Spec == Init /\ [][Next]_vars

Succeeded == pc \in {"kept", "published"}

\* needs: changes, and the job's "if".
Runs(j) == Succeeded /\ output[j]

\* What the commands of a job build, run or judge: a change of it can change the job's result.
\* (Gradle also evaluates the build files of modules a job does not build.)
Inputs(j) ==
  IF j = "baseline"
  THEN Paths \ {"docs", "artifact-analyzer", "run-artifact-fixtures", "other"}
  ELSE {"artifact-analyzer", "run-artifact-fixtures", "test-apps", "probe-app", "gradle", "github"}

-----------------------------------------------------------------------------
(* Properties.                                                             *)

\* Every variable has its type.
TypeOK ==
  /\ change \subseteq Files
  /\ event \in {"pull_request", "push", "other"} /\ shas \in BOOLEAN
  /\ pc \in {"defaults", "base", "diff", "classify", "kept", "published", "failed"}
  /\ paths \subseteq Paths
  /\ flags \in [Jobs -> BOOLEAN] /\ output \in [Jobs -> BOOLEAN]

Edited(p) == \E f \in change : f.from = p /\ f.to = p
Touched(p) == \E f \in change : p \in {f.from, f.to}

\* Of what both jobs build: the script turns on the baseline job alone, though the fixture run of
\* the analyzer job builds both with Gradle and judges the APK of the probe app.
BaselineOnly == {"probe-app", "gradle"}

\* Whatever fails (android.yml:27-32), a step that succeeds leaves on every job that builds, runs
\* or judges an edited file; except the analyzer job for probe app and Gradle files, which the
\* baseline job at least builds.
EditsRun ==
  Succeeded =>
    \A j \in Jobs : \A p \in Inputs(j) :
      Edited(p) => Runs(j) \/ (p \in BaselineOnly /\ Runs("baseline"))

\* "Documentation-only changes do not trigger Android builds" (README.md:40), if they could be
\* classified.
DocsOnlyRunNothing ==
  pc = "published" /\ (\A p \in Paths : Touched(p) => p = "docs") => \A j \in Jobs : ~Runs(j)
=============================================================================
