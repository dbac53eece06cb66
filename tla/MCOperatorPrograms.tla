-------------------------- MODULE MCOperatorPrograms ---------------------------
(***************************************************************************)
(* Small instances of OperatorPrograms for TLC.                            *)
(***************************************************************************)
EXTENDS OperatorPrograms

CONSTANT s1

\* Both executions belong to the session, or only the first one.
MCHomes == {[e \in Executions |-> IF e = 1 THEN s1 ELSE k] : k \in {None, s1}}

\* Bound: only the watcher meets a second execution in its session.
HomesOfPrograms == home[2] = s1 => program = "watch"

MCQueries == {{1, s1}}
=============================================================================
