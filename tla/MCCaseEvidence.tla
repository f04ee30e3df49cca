-------------------------- MODULE MCCaseEvidence --------------------------
(***************************************************************************)
(* One operation for model checking.                                       *)
(***************************************************************************)
EXTENDS CaseEvidence

MCOperations == <<"JAVA_TCP4">>
=============================================================================
