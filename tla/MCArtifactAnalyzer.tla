------------------------ MODULE MCArtifactAnalyzer ------------------------
(***************************************************************************)
(* Values for model checking: two packages, one signer set, two versions.  *)
(***************************************************************************)
EXTENDS ArtifactFindings

MCValues == [package |-> {"p", "q"}, signer_sha256_digests |-> {"s"}, version_code |-> {"1"}]
=============================================================================
