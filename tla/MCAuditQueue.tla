---------------------------- MODULE MCAuditQueue ----------------------------
(***************************************************************************)
(* AuditQueue with the tasks as interchangeable model values.              *)
(***************************************************************************)
EXTENDS AuditQueue, TLC

Tasks == Permutations(Task)
=============================================================================
