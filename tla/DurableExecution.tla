-------------------------- MODULE DurableExecution --------------------------
(***************************************************************************)
(* What loomd promises about an execution's durable record, whoever races  *)
(* to write it and however often the daemon dies: it is queued, it may     *)
(* run, it is closed once and for all, and a command that ran is recorded  *)
(* as cancelled only if somebody asked for it to be stopped.               *)
(***************************************************************************)
CONSTANT Executions

VARIABLES
    row,    \* the recorded state of an execution
    asked   \* executions whose supervisor was asked to stop

vars == <<row, asked>>

Terminal   == {"finished", "cancelled", "interrupted"}
Incomplete == {"queued", "running"}

Init ==
    /\ row = [e \in Executions |-> "absent"]
    /\ asked = {}

Accept(e) ==
    /\ row[e] = "absent"
    /\ row' = [row EXCEPT ![e] = "queued"]
    /\ UNCHANGED asked

Start(e) ==
    /\ row[e] = "queued"
    /\ row' = [row EXCEPT ![e] = "running"]
    /\ UNCHANGED asked

Ask(S) ==
    /\ asked' = asked \cup S
    /\ UNCHANGED row

\* Incomplete executions are closed with one state; stopping a queued one and
\* closing it may be the same step.
Close(S, state) ==
    /\ \A e \in S : row[e] \in Incomplete
    /\ state = "cancelled" =>
         \A e \in S : row[e] = "running" => e \in asked
    /\ row' = [e \in Executions |-> IF e \in S THEN state ELSE row[e]]
    /\ asked' \in {asked, asked \cup S}

Next ==
    \/ \E e \in Executions : Accept(e) \/ Start(e)
    \/ \E S \in SUBSET Executions :
        Ask(S) \/ \E state \in Terminal : Close(S, state)

Spec == Init /\ [][Next]_vars
=============================================================================
