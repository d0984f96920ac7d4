---------------------------- MODULE MCWorkflow ----------------------------
(* TLC instances of Workflow: every graph over the steps. *)
EXTENDS Workflow

AllGraphs == [Steps -> SUBSET Steps]
===========================================================================
