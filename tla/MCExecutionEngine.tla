-------------------------- MODULE MCExecutionEngine --------------------------
(***************************************************************************)
(* Small instances of ExecutionEngine for TLC.                             *)
(***************************************************************************)
EXTENDS ExecutionEngine, TLC

Symmetry == Permutations(Executions)
=============================================================================
