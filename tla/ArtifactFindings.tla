-------------------------- MODULE ArtifactFindings --------------------------
(***************************************************************************)
(* The findings artifact-analyzer.py reports beside the verdict, by code.  *)
(* They are written down in other places than the verdict is drawn in:     *)
(* evaluate_metadata() and scan_archive() append them, structural_status() *)
(* never looks at them.  Left out: the findings about the content of an    *)
(* archive, and those about queries and the version name, which the        *)
(* verdict does not depend on either.                                      *)
(***************************************************************************)
EXTENDS ArtifactAnalyzer

\* Mutant: the version code's entry is missing.
UnprovenCodeTwoKeys(key) ==
  CASE key = "package"               -> "ARTIFACT_PACKAGE_UNPROVEN"
    [] key = "signer_sha256_digests" -> "ARTIFACT_SIGNER_UNPROVEN"
    [] key = "version_code"          -> "ARTIFACT_VERSION_NAME_UNPROVEN"

UnprovenCode(key) ==
  CASE key = "package"               -> "ARTIFACT_PACKAGE_UNPROVEN"
    [] key = "signer_sha256_digests" -> "ARTIFACT_SIGNER_UNPROVEN"
    [] key = "version_code"          -> "ARTIFACT_VERSION_UNPROVEN"

MismatchCode(key) ==
  CASE key = "package"               -> "ARTIFACT_PACKAGE_MISMATCH"
    [] key = "signer_sha256_digests" -> "ARTIFACT_SIGNER_MISMATCH"
    [] key = "version_code"          -> "ARTIFACT_VERSION_MISMATCH"

\* What scan_archive() finds wrong with a file.
ScanFindings ==
  {"APK_PARSE_FAILED" : i \in {j \in DOMAIN records : apks[j].file = "notZip"}}
    \cup {"APK_MANIFEST_MISSING" : i \in {j \in DOMAIN records : apks[j].file = "noManifest"}}

UnprovenFindings ==
  {UnprovenCode(key) : key \in {k \in Required : \E i \in DOMAIN records : records[i].keys[k] = None}}
    \cup (IF \E i \in DOMAIN records : records[i].split = None
          THEN {"ARTIFACT_SPLIT_IDENTITY_UNPROVEN"} ELSE {})

ContradictionFindings ==
  {MismatchCode(key) : key \in {k \in Required : Mismatches(k)}}
    \cup (IF BaseIsSplit THEN {"BASE_ARTIFACT_IS_SPLIT"} ELSE {})
    \cup (IF SplitIsBase THEN {"SPLIT_ARTIFACT_HAS_NO_SPLIT_IDENTITY"} ELSE {})
    \cup (IF DuplicateSplit THEN {"DUPLICATE_SPLIT_IDENTITY"} ELSE {})

\* The report names each code once, however many artifacts it is about.
Findings == ScanFindings \cup UnprovenFindings \cup ContradictionFindings \cup {"RUNTIME_MEDIATION_UNPROVEN"}

InvalidCodes ==
  {"APK_PARSE_FAILED", "APK_MANIFEST_MISSING", "ARTIFACT_PACKAGE_MISMATCH", "ARTIFACT_SIGNER_MISMATCH",
   "ARTIFACT_VERSION_MISMATCH", "BASE_ARTIFACT_IS_SPLIT", "SPLIT_ARTIFACT_HAS_NO_SPLIT_IDENTITY",
   "DUPLICATE_SPLIT_IDENTITY"}
UnknownCodes ==
  {"ARTIFACT_PACKAGE_UNPROVEN", "ARTIFACT_SIGNER_UNPROVEN", "ARTIFACT_VERSION_UNPROVEN",
   "ARTIFACT_SPLIT_IDENTITY_UNPROVEN"}

\* The findings of a report tell its verdict, though neither is computed from the other: INVALID
\* is a finding that proves something wrong, UNKNOWN none but one that something is unproven.
FindingsTellTheVerdict ==
  status # None =>
    status = IF Findings \cap InvalidCodes # {} THEN "INVALID"
             ELSE IF Findings \cap UnknownCodes # {} THEN "UNKNOWN" ELSE "VALID"
=============================================================================
