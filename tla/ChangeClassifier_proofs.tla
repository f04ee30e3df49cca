----------------------- MODULE ChangeClassifier_proofs -----------------------
(***************************************************************************)
(* Proofs about the change classifier, for changes of any size.            *)
(***************************************************************************)
EXTENDS ChangeClassifier, TLAPS

\* Until the script's answer is taken, the defaults stand.
DefaultsStand == pc \in {"base", "diff", "classify", "kept"} => output = [j \in Jobs |-> TRUE]

\* What was listed is still to be read, or has turned its jobs on.
Accumulated ==
  pc \in {"classify", "published"} =>
    \A f \in change : f.to \in paths \/ \A j \in Concerns(f.to) : flags[j]

\* A flag that is on has a path that turned it on.
Caused ==
  /\ \A p \in paths : \E f \in change : f.to = p
  /\ \A j \in Jobs : flags[j] => \E f \in change : j \in Concerns(f.to)

Published == pc = "published" => output = flags /\ paths = {}

Inv == TypeOK /\ DefaultsStand /\ Accumulated /\ Caused /\ Published

LEMMA ConcernsType == \A p : Concerns(p) \subseteq Jobs
BY DEF Concerns

\* The invariant holds of the specification.
THEOREM Invariance == Spec => []Inv
<1>1. Init => Inv
  <2> SUFFICES ASSUME Init PROVE Inv
    OBVIOUS
  <2>1. change \subseteq Files
    BY DEF Init
  <2>2. flags \in [Jobs -> BOOLEAN] /\ \A j \in Jobs : flags[j] = FALSE
    BY DEF Init, Nothing
  <2> QED
    BY <2>1, <2>2 DEF Init, Inv, TypeOK, DefaultsStand, Accumulated, Caused, Published, Nothing
<1>2. Inv /\ [Next]_vars => Inv'
  <2> SUFFICES ASSUME Inv, [Next]_vars PROVE Inv'
    OBVIOUS
  <2> USE DEF Inv, TypeOK
  <2>1. CASE Defaults
    BY <2>1 DEF Defaults, DefaultsStand, Accumulated, Caused, Published
  <2>2. CASE Base
    BY <2>2 DEF Base, DefaultsStand, Accumulated, Caused, Published
  <2>3. CASE Diff
    <3>1. \A f \in change : f.to \in Paths
      BY DEF Files
    <3> QED
      BY <2>3, <3>1 DEF Diff, DefaultsStand, Accumulated, Caused, Published
  <2>4. ASSUME NEW p \in Paths, ReadPath(p) PROVE Inv'
    <3> USE <2>4 DEF ReadPath
    <3>1. TypeOK'
      OBVIOUS
    <3>2. DefaultsStand' /\ Published'
      BY DEF DefaultsStand, Published
    <3>3. Accumulated'
      <4> SUFFICES ASSUME NEW f \in change, f.to \notin paths', NEW j \in Concerns(f.to)
                   PROVE  flags'[j]
        BY DEF Accumulated
      <4>1. flags'[j] = (flags[j] \/ j \in Concerns(p))
        BY ConcernsType
      <4>2. f.to = p \/ f.to \notin paths
        OBVIOUS
      <4> QED
        BY <4>1, <4>2 DEF Accumulated
    <3>4. Caused'
      BY DEF Caused
    <3> QED
      BY <3>1, <3>2, <3>3, <3>4
  <2>5. CASE ScriptFails
    BY <2>5 DEF ScriptFails, DefaultsStand, Accumulated, Caused, Published
  <2>6. CASE Publish
    BY <2>6 DEF Publish, DefaultsStand, Accumulated, Caused, Published
  <2>7. CASE StepFails
    BY <2>7 DEF StepFails, DefaultsStand, Accumulated, Caused, Published
  <2>8. CASE UNCHANGED vars
    BY <2>8 DEF vars, DefaultsStand, Accumulated, Caused, Published
  <2> QED
    BY <2>1, <2>2, <2>3, <2>4, <2>5, <2>6, <2>7, <2>8 DEF Next
<1> QED
  BY <1>1, <1>2, PTL DEF Spec

\* Every variable keeps its type, each job's output TRUE or FALSE.
THEOREM TypeCorrect == Spec => []TypeOK
  BY Invariance, PTL DEF Inv

\* Whatever fails, an edited file runs every job that builds, runs or judges it, but for probe app
\* and Gradle files, which run the baseline job.
THEOREM EditsAlwaysRun == Spec => []EditsRun
<1>1. Inv => EditsRun
  <2> SUFFICES ASSUME Inv, Succeeded, NEW j \in Jobs, NEW f \in change, j \in Concerns(f.to)
               PROVE  output[j]
    BY DEF EditsRun, Edited, Inputs, BaselineOnly, Concerns, Runs, Jobs, Paths, Inv, TypeOK
  <2>1. CASE pc = "kept"
    BY <2>1 DEF Inv, DefaultsStand
  <2>2. CASE pc = "published"
    BY <2>2 DEF Inv, Published, Accumulated
  <2> QED
    BY <2>1, <2>2 DEF Succeeded
<1> QED
  BY Invariance, <1>1, PTL

\* A classified change of documentation only runs nothing, whatever its size.
THEOREM DocsOnly == Spec => []DocsOnlyRunNothing
<1>1. Inv => DocsOnlyRunNothing
  <2> SUFFICES ASSUME Inv, pc = "published", \A p \in Paths : Touched(p) => p = "docs",
                      NEW j \in Jobs, output[j]
               PROVE  FALSE
    BY DEF DocsOnlyRunNothing, Runs
  <2>1. PICK f \in change : j \in Concerns(f.to)
    BY DEF Inv, Published, Caused
  <2>2. f.to \in Paths /\ Touched(f.to)
    BY DEF Inv, TypeOK, Files, Touched
  <2> QED
    BY <2>1, <2>2 DEF Concerns
<1> QED
  BY Invariance, <1>1, PTL
=============================================================================
