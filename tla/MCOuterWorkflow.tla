-------------------------- MODULE MCOuterWorkflow --------------------------
(***************************************************************************)
(* TLC instances of OuterWorkflow.                                         *)
(***************************************************************************)
EXTENDS OuterWorkflow
=============================================================================
