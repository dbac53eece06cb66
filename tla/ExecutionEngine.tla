--------------------------- MODULE ExecutionEngine ---------------------------
(***************************************************************************)
(* The execution engine of loomd (executor.rs) with the durable rows it    *)
(* keeps (store.rs), the supervisor process it starts for each command     *)
(* (supervisor.rs, seen from its two pipes) and the daemon that runs,      *)
(* drains, dies and restarts around it (daemon.rs).                        *)
(*                                                                         *)
(* Every await of the engine task that another task can observe ends a     *)
(* step.  The store is one actor thread, so each store command is atomic.  *)
(* Output is left to the module OutputCapture; here a flush barrier only   *)
(* succeeds or, when storage fails, fails.                                 *)
(***************************************************************************)
EXTENDS Naturals, Sequences, FiniteSets

CONSTANTS
    Executions,     \* the executions that may ever be requested
    Cancellers,     \* clients that call cancel, once each
    MaxConcurrent,  \* settings.max_concurrent_executions
    MaxBoots,       \* bound: how often loomd is restarted
    MaxFaults       \* bound: how many store commands may fail (disk, I/O)

\* config.rs rejects max_concurrent_executions = 0.
ASSUME EngineAssumption ==
    /\ MaxConcurrent \in Nat \ {0}
    /\ MaxBoots \in Nat
    /\ MaxFaults \in Nat
    /\ Cancellers \cap {"free", "drain"} = {}

VARIABLES
    row,         \* executions.state in SQLite; "absent" before create_execution
    up,          \* loomd is running
    boots,       \* restarts so far
    faults,      \* store commands that failed so far
    drainer,     \* where drain() is; "idle" while the lifecycle is Accepting
    idleNotified,\* notify_waiters() fired since drain armed its Notified
    lock,        \* holder of the `transitions` mutex across an await
    pc,          \* where the engine task of an execution is
    verdict,     \* state the task is about to record
    received,    \* received_finished
    processes,   \* executions with a ProcessControl in `processes`
    sup,         \* the loom-supervisor process of an execution
    stopSent,    \* executions whose control pipe was given a Cancel
    events,      \* supervisor stdout: frames not yet read by the task
    cpc,         \* where a cancel() call is
    target,      \* the execution a cancel() call names
    saw,         \* the row state a cancel() call last read
    woken        \* a cancel() call's broadcast receiver holds an event

taskVars  == <<pc, verdict, received>>
supVars   == <<sup, stopSent, events>>
drainVars == <<drainer, idleNotified>>
callVars  == <<cpc, target, saw, woken>>
daemonVars == <<up, boots, faults>>
shared   == <<daemonVars, drainVars, lock>>
outside  == <<row, shared, taskVars, processes, callVars>>
vars == <<row, up, boots, faults, drainer, idleNotified, lock, pc, verdict,
          received, processes, sup, stopSent, events, cpc, target, saw, woken>>

-----------------------------------------------------------------------------

Terminal   == {"finished", "cancelled", "interrupted"}
Incomplete == {"queued", "running"}
RowStates  == {"absent"} \cup Incomplete \cup Terminal
Frames     == {"started", "torn"} \cup Terminal

TaskStates ==
    {"none", "creating", "slot", "check", "spawn", "register", "events",
     "record", "commit", "notify", "close", "reap", "failed", "failCommit",
     "failNotify", "unregister", "leave", "wake", "done", "lost"}

\* Deviation: the permit is dropped once the supervisor is registered.
HoldingTooBriefly == {"check", "spawn", "register"}

\* The task holds a permit of `slots` from acquire() until run_execution ends.
Holding == {"check", "spawn", "register", "events", "record", "commit",
            "notify", "close", "reap"}

\* Tasks counted by `active`: from fetch_add to the fetch_sub of ActiveGuard.
Counted == Holding \cup {"slot", "failed", "failCommit", "failNotify",
                         "unregister", "leave"}
Active  == {e \in Executions : pc[e] \in Counted}

\* run_execution owns control_tx from the spawn until it drops it at "close",
\* before or after it has recorded the outcome.
OwnsControl(e) ==
    \/ pc[e] \in {"register", "events", "close"}
    \/ pc[e] \in {"record", "commit", "notify"} /\ received[e]
ControlOpen(e) == e \in processes \/ OwnsControl(e)

\* It owns the read end of the supervisor's stdout until it returns.
Reading(e) == pc[e] \in {"register", "events"}

\* "lingering": the command's leader has exited and the supervisor waits for
\* its output pipes to close, deaf to its control pipe (see Supervisor).
SupervisorLive == {"booting", "alive", "cancelling", "orphaned", "lingering"}

Accepting   == up /\ drainer = "idle"
SlotsClosed == drainer \notin {"idle", "close"}

DrainStates == {"idle", "close", "cancelQueue", "signal", "arm", "check",
                "busy", "park", "abort", "stopped", "forced", "failed"}
GaveUp      == {"abort", "forced", "failed"}
Pending     == {"looking", "waiting", "checked", "parked"}
CallStates  == Pending \cup {"idle", "returned"}

TypeOK ==
    /\ row \in [Executions -> RowStates]
    /\ up \in BOOLEAN
    /\ boots \in 0 .. MaxBoots
    /\ faults \in 0 .. MaxFaults
    /\ drainer \in DrainStates
    /\ idleNotified \in BOOLEAN
    /\ lock \in {"free", "drain"} \cup Cancellers
    /\ pc \in [Executions -> TaskStates]
    /\ verdict \in [Executions -> {"none"} \cup Terminal]
    /\ received \in [Executions -> BOOLEAN]
    /\ processes \in SUBSET Executions
    /\ sup \in [Executions -> SupervisorLive \cup {"none", "exited"}]
    /\ stopSent \in SUBSET Executions
    /\ events \in [Executions -> Seq(Frames)]
    /\ cpc \in [Cancellers -> CallStates]
    /\ target \in [Cancellers -> Executions \cup {"none"}]
    /\ saw \in [Cancellers -> RowStates]
    /\ woken \in [Cancellers -> BOOLEAN]

Init ==
    /\ row = [e \in Executions |-> "absent"]
    /\ up = TRUE
    /\ boots = 0
    /\ faults = 0
    /\ drainer = "idle"
    /\ idleNotified = FALSE
    /\ lock = "free"
    /\ pc = [e \in Executions |-> "none"]
    /\ verdict = [e \in Executions |-> "none"]
    /\ received = [e \in Executions |-> FALSE]
    /\ processes = {}
    /\ sup = [e \in Executions |-> "none"]
    /\ stopSent = {}
    /\ events = [e \in Executions |-> <<>>]
    /\ cpc = [c \in Cancellers |-> "idle"]
    /\ target = [c \in Cancellers |-> "none"]
    /\ saw = [c \in Cancellers |-> "absent"]
    /\ woken = [c \in Cancellers |-> FALSE]

-----------------------------------------------------------------------------
(* Small steps shared by the handlers.                                     *)

Goto(e, state) == pc' = [pc EXCEPT ![e] = state]

\* A step of a task that changes nothing but where it is.
Jump(e, state) ==
    /\ Goto(e, state)
    /\ UNCHANGED <<row, shared, verdict, received, processes, supVars,
                   callVars>>

SetRow(e, state) == row' = [row EXCEPT ![e] = state]

\* events.send reaches every receiver subscribed at that moment.
Broadcast ==
    woken' = [c \in Cancellers |->
                woken[c] \/ cpc[c] \in Pending]

\* A store command fails; the caller sees an error and nothing is written.
StorageFails == faults < MaxFaults /\ faults' = faults + 1

\* A task that stops reading drops its end of the supervisor's stdout.
DropStdout(e) == events' = [events EXCEPT ![e] = <<>>]

-----------------------------------------------------------------------------
(* execute(): the lifecycle mutex is held from the check to the end.       *)

\* Deviation: the lifecycle is not consulted.
CreateWhileDraining(e) ==
    /\ up
    /\ row[e] = "absent"
    /\ \A other \in Executions : pc[other] # "creating"
    /\ SetRow(e, "queued")
    /\ Goto(e, "creating")
    /\ UNCHANGED <<shared, verdict, received, processes, supVars, callVars>>

\* The row is created; the task, and so `active`, does not exist yet.
CreateExecution(e) ==
    /\ Accepting
    /\ row[e] = "absent"
    /\ \A other \in Executions : pc[other] # "creating"
    /\ SetRow(e, "queued")
    /\ Goto(e, "creating")
    /\ UNCHANGED <<shared, verdict, received, processes, supVars, callVars>>

StartTask(e) ==
    /\ pc[e] = "creating"
    /\ Jump(e, "slot")

-----------------------------------------------------------------------------
(* run_execution(), one action per await that others can observe.          *)

\* A closed semaphore sends the task home; its row is left to cancel_queued.
AcquireSlot(e) ==
    /\ pc[e] = "slot"
    /\ \/ SlotsClosed /\ Jump(e, "unregister")
       \/ /\ ~SlotsClosed
          /\ Cardinality({x \in Executions : pc[x] \in Holding}) < MaxConcurrent
          /\ Jump(e, "check")

CheckQueued(e) ==
    /\ pc[e] = "check"
    /\ Jump(e, IF row[e] \in Terminal THEN "unregister" ELSE "spawn")

\* Deviation: a spawn failure is committed without an outcome.
SpawnWithoutOutcome(e) ==
    /\ pc[e] = "spawn"
    /\ \/ /\ sup' = [sup EXCEPT ![e] = "booting"]
          /\ Goto(e, "register")
       \/ Goto(e, "commit") /\ UNCHANGED sup
    /\ UNCHANGED <<row, shared, verdict, received, processes, stopSent,
                   events, callVars>>

\* Start loom-supervisor and queue its Spawn message, or fail to start it.
SpawnSupervisor(e) ==
    /\ pc[e] = "spawn"
    /\ \/ /\ sup' = [sup EXCEPT ![e] = "booting"]
          /\ Goto(e, "register")
          /\ UNCHANGED verdict
       \/ /\ verdict' = [verdict EXCEPT ![e] = "finished"]
          /\ Goto(e, "commit")
          /\ UNCHANGED sup
    /\ UNCHANGED <<row, shared, received, processes, stopSent, events,
                   callVars>>

\* Deviation: the row is not read again under the lock.
RegisterUnchecked(e) ==
    /\ pc[e] = "register"
    /\ lock = "free"
    /\ processes' = processes \cup {e}
    /\ Goto(e, "events")
    /\ UNCHANGED <<row, shared, verdict, received, supVars, callVars>>

\* Deviation: the handle is never published.
RegisterWithoutHandle(e) ==
    /\ pc[e] = "register"
    /\ lock = "free"
    /\ stopSent' = IF row[e] \in Terminal THEN stopSent \cup {e} ELSE stopSent
    /\ Goto(e, "events")
    /\ UNCHANGED <<row, shared, verdict, received, processes, sup, events,
                   callVars>>

\* Under `transitions`: a row closed meanwhile makes the task cancel its own
\* supervisor, else the handle becomes visible to cancel() and drain().
Register(e) ==
    /\ pc[e] = "register"
    /\ lock = "free"
    /\ IF row[e] \in Terminal
       THEN stopSent' = stopSent \cup {e} /\ UNCHANGED processes
       ELSE processes' = processes \cup {e} /\ UNCHANGED stopSent
    /\ Goto(e, "events")
    /\ UNCHANGED <<row, shared, verdict, received, sup, events, callVars>>

HandleStarted(e) ==
    /\ pc[e] = "events"
    /\ events[e] # <<>> /\ Head(events[e]) = "started"
    /\ lock = "free"
    /\ events' = [events EXCEPT ![e] = Tail(@)]
    /\ IF row[e] \in Terminal
       THEN stopSent' = stopSent \cup {e} /\ UNCHANGED <<row, woken>>
       ELSE SetRow(e, "running") /\ Broadcast /\ UNCHANGED stopSent
    /\ UNCHANGED <<shared, taskVars, processes, sup, cpc, target, saw>>

\* The barrier before a Finished is recorded answers, or reports a lost batch.
HandleFinished(e) ==
    /\ pc[e] = "events"
    /\ events[e] # <<>> /\ Head(events[e]) \in Terminal
    /\ events' = [events EXCEPT ![e] = Tail(@)]
    /\ \/ /\ verdict' = [verdict EXCEPT ![e] = Head(events[e])]
          /\ received' = [received EXCEPT ![e] = TRUE]
          /\ Goto(e, "record")
          /\ UNCHANGED faults
       \/ /\ StorageFails
          /\ Goto(e, "failed")
          /\ UNCHANGED <<verdict, received>>
    /\ UNCHANGED <<row, up, boots, drainVars, lock, processes, sup, stopSent,
                   callVars>>

\* A frame cut off by the supervisor's death is a decoding error.
HandleTornFrame(e) ==
    /\ pc[e] = "events"
    /\ events[e] # <<>> /\ Head(events[e]) = "torn"
    /\ events' = [events EXCEPT ![e] = Tail(@)]
    /\ Goto(e, "failed")
    /\ UNCHANGED <<row, shared, verdict, received, processes, sup, stopSent,
                   callVars>>

\* The supervisor's stdout ends without a Finished.
StreamEnds(e) ==
    /\ pc[e] = "events"
    /\ events[e] = <<>> /\ sup[e] = "exited"
    /\ Jump(e, "close")

\* get_execution before finish: a row already closed is left as it is.
RecordOutcome(e) ==
    /\ pc[e] = "record"
    /\ Jump(e, IF row[e] \notin Terminal THEN "commit"
               ELSE IF received[e] THEN "close" ELSE "unregister")

\* Deviation: finish overwrites whatever the row says.
CommitOverwrites(e) ==
    /\ pc[e] = "commit"
    /\ SetRow(e, verdict[e])
    /\ Goto(e, "notify")
    /\ UNCHANGED <<shared, verdict, received, processes, supVars, callVars>>

\* store.finish refuses a terminal row: AlreadyTerminal fails the task.
CommitOutcome(e) ==
    /\ pc[e] = "commit"
    /\ IF row[e] \in Terminal
       THEN Goto(e, "failed") /\ UNCHANGED row
       ELSE SetRow(e, verdict[e]) /\ Goto(e, "notify")
    /\ UNCHANGED <<shared, verdict, received, processes, supVars, callVars>>

\* Deviation: the Finished event is stored but not broadcast.
NotifyForgotten(e) ==
    /\ pc[e] = "notify"
    /\ Jump(e, IF received[e] THEN "close" ELSE "unregister")

NotifyOutcome(e) ==
    /\ pc[e] = "notify"
    /\ Broadcast
    /\ Goto(e, IF received[e] THEN "close" ELSE "unregister")
    /\ UNCHANGED <<row, shared, verdict, received, processes, supVars, cpc,
                   target, saw>>

\* The handle is removed and control_tx dropped; a Cancel that could not be
\* written to a dead supervisor fails the task unless Finished was read.
CloseControl(e) ==
    /\ pc[e] = "close"
    /\ processes' = processes \ {e}
    /\ \/ Goto(e, "reap")
       \/ ~received[e] /\ e \in stopSent /\ Goto(e, "failed")
    /\ UNCHANGED <<row, shared, verdict, received, supVars, callVars>>

\* Deviation: a supervisor that died without Finished is not recorded.
ReapWithoutRecord(e) ==
    /\ pc[e] = "reap"
    /\ sup[e] = "exited"
    /\ Jump(e, "unregister")

\* child.wait(); without a Finished the execution was interrupted.
ReapSupervisor(e) ==
    /\ pc[e] = "reap"
    /\ sup[e] = "exited"
    /\ \/ received[e] /\ Goto(e, "unregister") /\ UNCHANGED <<verdict, faults>>
       \/ /\ ~received[e]
          /\ verdict' = [verdict EXCEPT ![e] = "interrupted"]
          /\ Goto(e, "record")
          /\ UNCHANGED faults
       \/ /\ ~received[e] /\ StorageFails
          /\ Goto(e, "failed")
          /\ UNCHANGED verdict
    /\ UNCHANGED <<row, up, boots, drainVars, lock, received, processes,
                   supVars, callVars>>

\* Any store command of run_execution may fail the task.
StoreFails(e) ==
    /\ StorageFails
    /\ \/ pc[e] \in {"check", "register", "record", "commit"}
       \/ pc[e] = "events" /\ events[e] # <<>> /\ Head(events[e]) = "started"
    /\ pc[e] \in {"register", "events"} => lock = "free"
    /\ Goto(e, "failed")
    /\ DropStdout(e)
    /\ UNCHANGED <<row, up, boots, drainVars, lock, verdict, received,
                   processes, sup, stopSent, callVars>>

-----------------------------------------------------------------------------
(* The task wrapper in execute(), after run_execution has returned.        *)

\* An error: the permit is free again, the row may still be incomplete.
RecordFailure(e) ==
    /\ pc[e] = "failed"
    /\ \/ /\ Goto(e, IF row[e] \in Terminal THEN "unregister" ELSE "failCommit")
          /\ UNCHANGED faults
       \/ StorageFails /\ Goto(e, "unregister")
    /\ UNCHANGED <<row, up, boots, drainVars, lock, verdict, received,
                   processes, supVars, callVars>>

CommitFailure(e) ==
    /\ pc[e] = "failCommit"
    /\ \/ /\ row[e] \notin Terminal
          /\ SetRow(e, "interrupted")
          /\ Goto(e, "failNotify")
          /\ UNCHANGED faults
       \/ row[e] \in Terminal /\ Goto(e, "unregister") /\ UNCHANGED <<row,
                                                                      faults>>
       \/ StorageFails /\ Goto(e, "unregister") /\ UNCHANGED row
    /\ UNCHANGED <<up, boots, drainVars, lock, verdict, received, processes,
                   supVars, callVars>>

NotifyFailure(e) ==
    /\ pc[e] = "failNotify"
    /\ Broadcast
    /\ Goto(e, "unregister")
    /\ UNCHANGED <<row, shared, verdict, received, processes, supVars, cpc,
                   target, saw>>

\* The task ends, and with it what only it remembers.
ForgetTask(e) ==
    /\ Goto(e, "leave")
    /\ verdict' = [verdict EXCEPT ![e] = "none"]
    /\ received' = [received EXCEPT ![e] = FALSE]

Unregister(e) ==
    /\ pc[e] = "unregister"
    /\ processes' = processes \ {e}
    /\ ForgetTask(e)
    /\ UNCHANGED <<row, shared, supVars, callVars>>

\* ActiveGuard::drop: first fetch_sub, then notify_waiters.
DropActive(e) ==
    /\ pc[e] = "leave"
    /\ Jump(e, "wake")

WakeIdle(e) ==
    /\ pc[e] = "wake"
    /\ idleNotified' = TRUE
    /\ Goto(e, "done")
    /\ UNCHANGED <<row, daemonVars, drainer, lock, verdict, received,
                   processes, supVars, callVars>>

-----------------------------------------------------------------------------
(* cancel(): subscribe, then decide under `transitions`, then wait.        *)

\* The call returns, whatever its answer, and its receiver is dropped.
Return(c) ==
    /\ cpc' = [cpc EXCEPT ![c] = "returned"]
    /\ target' = [target EXCEPT ![c] = "none"]
    /\ saw' = [saw EXCEPT ![c] = "absent"]
    /\ woken' = [woken EXCEPT ![c] = FALSE]

\* The row is read under the lock; a terminal row is refused at once.
CancelBegin(c, e) ==
    /\ up /\ cpc[c] = "idle" /\ lock = "free"
    /\ row[e] # "absent"
    /\ IF row[e] \in Terminal
       THEN Return(c) /\ UNCHANGED lock
       ELSE /\ cpc' = [cpc EXCEPT ![c] = "looking"]
            /\ target' = [target EXCEPT ![c] = e]
            /\ saw' = [saw EXCEPT ![c] = row[e]]
            /\ lock' = c
            /\ UNCHANGED woken
    /\ UNCHANGED <<row, daemonVars, drainVars, taskVars, processes, supVars>>

\* A queued row is closed here and its supervisor, if any, told to stop.
CancelQueued(c) ==
    /\ cpc[c] = "looking" /\ saw[c] = "queued"
    /\ lock' = "free"
    /\ IF row[target[c]] \in Terminal
       THEN Return(c) /\ UNCHANGED <<row, stopSent>>
       ELSE /\ SetRow(target[c], "cancelled")
            /\ Broadcast
            /\ stopSent' = stopSent \cup ({target[c]} \cap processes)
            /\ cpc' = [cpc EXCEPT ![c] = "waiting"]
            /\ UNCHANGED <<target, saw>>
    /\ UNCHANGED <<daemonVars, drainVars, taskVars, processes, sup, events>>

\* Deviation: whether there still is a handle is not looked at.
CancelBlindly(c) ==
    /\ cpc[c] = "looking" /\ saw[c] = "running"
    /\ lock' = "free"
    /\ stopSent' = stopSent \cup {target[c]}
    /\ cpc' = [cpc EXCEPT ![c] = "waiting"]
    /\ UNCHANGED <<row, daemonVars, drainVars, taskVars, processes, sup,
                   events, target, saw, woken>>

\* A running row needs the supervisor's handle; without one the call fails.
CancelRunning(c) ==
    /\ cpc[c] = "looking" /\ saw[c] = "running"
    /\ lock' = "free"
    /\ IF target[c] \in processes
       THEN /\ stopSent' = stopSent \cup {target[c]}
            /\ cpc' = [cpc EXCEPT ![c] = "waiting"]
            /\ UNCHANGED <<target, saw, woken>>
       ELSE Return(c) /\ UNCHANGED stopSent
    /\ UNCHANGED <<row, daemonVars, drainVars, taskVars, processes, sup,
                   events>>

\* The wait loop reads the row, then acts on what it read.
CancelCheck(c) ==
    /\ cpc[c] = "waiting"
    /\ saw' = [saw EXCEPT ![c] = row[target[c]]]
    /\ cpc' = [cpc EXCEPT ![c] = "checked"]
    /\ UNCHANGED <<row, shared, taskVars, processes, supVars, target, woken>>

\* Deviation: the receiver is created here, after the row was read.
CancelSubscribesLate(c) ==
    /\ cpc[c] = "checked"
    /\ IF saw[c] \in Terminal
       THEN Return(c)
       ELSE /\ cpc' = [cpc EXCEPT ![c] = "parked"]
            /\ woken' = [woken EXCEPT ![c] = FALSE]
            /\ UNCHANGED <<target, saw>>
    /\ UNCHANGED <<row, shared, taskVars, processes, supVars>>

CancelPark(c) ==
    /\ cpc[c] = "checked"
    /\ IF saw[c] \in Terminal
       THEN Return(c)
       ELSE /\ cpc' = [cpc EXCEPT ![c] = "parked"]
            /\ UNCHANGED <<target, saw, woken>>
    /\ UNCHANGED <<row, shared, taskVars, processes, supVars>>

CancelWake(c) ==
    /\ cpc[c] = "parked" /\ woken[c]
    /\ cpc' = [cpc EXCEPT ![c] = "waiting"]
    /\ woken' = [woken EXCEPT ![c] = FALSE]
    /\ UNCHANGED <<row, shared, taskVars, processes, supVars, target, saw>>

CancelTimeout(c) ==
    /\ cpc[c] \in Pending \ {"looking"}
    /\ Return(c)
    /\ UNCHANGED <<row, shared, taskVars, processes, supVars>>

\* A store command of cancel() fails, or the writer of the control pipe has
\* ended with its supervisor: the call returns an error and releases the lock.
CancelFails(c) ==
    /\ \/ cpc[c] \in {"looking", "waiting"} /\ StorageFails
       \/ /\ cpc[c] = "looking" /\ saw[c] = "running" /\ UNCHANGED faults
          /\ target[c] \in processes /\ sup[target[c]] = "exited"
    /\ lock' = IF cpc[c] = "looking" THEN "free" ELSE lock
    /\ Return(c)
    /\ UNCHANGED <<row, up, boots, drainVars, taskVars, processes, supVars>>

-----------------------------------------------------------------------------
(* drain(), called once when the daemon's accept loop ends.                *)

DrainGoto(state) ==
    /\ drainer' = state
    /\ UNCHANGED <<row, daemonVars, idleNotified, lock, taskVars, processes,
                   supVars, callVars>>

\* The lifecycle mutex waits for an execute() in progress.
DrainBegin ==
    /\ Accepting
    /\ \A e \in Executions : pc[e] # "creating"
    /\ DrainGoto("close")

CloseSlots ==
    /\ drainer = "close"
    /\ DrainGoto("cancelQueue")

\* Deviation: the queue is left to the tasks.
DrainSkipsQueue ==
    /\ drainer = "cancelQueue" /\ lock = "free"
    /\ lock' = "drain"
    /\ drainer' = "signal"
    /\ UNCHANGED <<row, daemonVars, idleNotified, taskVars, processes,
                   supVars, callVars>>

DrainCancelQueued ==
    /\ drainer = "cancelQueue" /\ lock = "free"
    /\ row' = [e \in Executions |->
                 IF row[e] = "queued" THEN "cancelled" ELSE row[e]]
    /\ Broadcast
    /\ lock' = "drain"
    /\ drainer' = "signal"
    /\ UNCHANGED <<daemonVars, idleNotified, taskVars, processes, supVars,
                   cpc, target, saw>>

\* Deviation: running supervisors are not told.
DrainWithoutSignal ==
    /\ drainer = "signal"
    /\ lock' = "free"
    /\ drainer' = "arm"
    /\ UNCHANGED <<row, daemonVars, idleNotified, taskVars, processes,
                   supVars, callVars>>

DrainSignal ==
    /\ drainer = "signal"
    /\ stopSent' = stopSent \cup processes
    /\ lock' = "free"
    /\ drainer' = "arm"
    /\ UNCHANGED <<row, daemonVars, idleNotified, taskVars, processes, sup,
                   events, callVars>>

\* cancel_queued closes one row after the other: when one fails, those before
\* it stay closed, nobody hears of them, drain returns and the daemon exits.
DrainFails ==
    /\ drainer = "cancelQueue" /\ lock = "free"
    /\ StorageFails
    /\ \E S \in SUBSET {e \in Executions : row[e] = "queued"} :
         row' = [e \in Executions |-> IF e \in S THEN "cancelled" ELSE row[e]]
    /\ drainer' = "failed"
    /\ UNCHANGED <<up, boots, idleNotified, lock, taskVars, processes,
                   supVars, callVars>>

\* wait_for_idle: notified() is created before `active` is read.
DrainArm ==
    /\ drainer = "arm"
    /\ idleNotified' = FALSE
    /\ drainer' = "check"
    /\ UNCHANGED <<row, daemonVars, lock, taskVars, processes, supVars,
                   callVars>>

DrainCheck ==
    /\ drainer = "check"
    /\ DrainGoto(IF Active = {} THEN "stopped" ELSE "busy")

\* Deviation: notified() is created here, after `active` was read.
DrainArmsLate ==
    /\ drainer = "busy"
    /\ drainer' = "park"
    /\ idleNotified' = FALSE
    /\ UNCHANGED <<row, daemonVars, lock, taskVars, processes, supVars,
                   callVars>>

DrainPark ==
    /\ drainer = "busy"
    /\ DrainGoto("park")

DrainWake ==
    /\ drainer = "park" /\ idleNotified
    /\ DrainGoto("arm")

\* cancel_grace + SHUTDOWN_SETTLE_MS have passed: drop the handles, abort.
DrainTimeout ==
    /\ drainer \in {"arm", "check", "busy", "park"}
    /\ drainer' = "abort"
    /\ processes' = {}
    /\ UNCHANGED <<row, daemonVars, idleNotified, lock, taskVars, supVars,
                   callVars>>

\* An aborted task is dropped at its next await, with its permit and guard.
AbortTask(e) ==
    /\ drainer = "abort"
    /\ pc[e] \in Counted \ {"leave"}
    /\ ForgetTask(e)
    /\ DropStdout(e)
    /\ UNCHANGED <<row, shared, processes, sup, stopSent, callVars>>

\* The last second is over, or the tasks are gone.
DrainForced ==
    /\ drainer = "abort"
    /\ DrainGoto("forced")

-----------------------------------------------------------------------------
(* The daemon process: its memory is lost when it exits or is killed.      *)

LoseMemory ==
    /\ up' = FALSE
    /\ drainer' = "idle"
    /\ idleNotified' = FALSE
    /\ lock' = "free"
    /\ processes' = {}
    /\ pc' = [e \in Executions |-> IF pc[e] = "none" THEN "none" ELSE "lost"]
    /\ verdict' = [e \in Executions |-> "none"]
    /\ received' = [e \in Executions |-> FALSE]
    /\ events' = [e \in Executions |-> <<>>]
    /\ cpc' = [c \in Cancellers |->
                 IF cpc[c] = "idle" THEN "idle" ELSE "returned"]
    /\ target' = [c \in Cancellers |-> "none"]
    /\ saw' = [c \in Cancellers |-> "absent"]
    /\ woken' = [c \in Cancellers |-> FALSE]
    /\ UNCHANGED <<row, boots, faults, sup, stopSent>>

DaemonExit  == up /\ drainer \in {"stopped", "forced", "failed"} /\ LoseMemory
DaemonKilled == up /\ boots < MaxBoots /\ LoseMemory

\* Deviation: the new engine accepts before anything is reconciled.
StartUnreconciled ==
    /\ ~up /\ boots < MaxBoots
    /\ up' = TRUE
    /\ boots' = boots + 1
    /\ UNCHANGED <<row, faults, drainVars, lock, taskVars, processes, supVars,
                   callVars>>

\* Deviation: whatever did not finish is interrupted, also what was cancelled.
ReconcileCancelled ==
    /\ ~up /\ boots < MaxBoots
    /\ up' = TRUE
    /\ boots' = boots + 1
    /\ row' = [e \in Executions |->
                 IF row[e] \in {"absent", "finished"} THEN row[e]
                 ELSE "interrupted"]
    /\ UNCHANGED <<faults, drainVars, lock, taskVars, processes, supVars,
                   callVars>>

\* reconcile_incomplete runs before the new engine accepts anything.
DaemonStart ==
    /\ ~up /\ boots < MaxBoots
    /\ up' = TRUE
    /\ boots' = boots + 1
    /\ UNCHANGED faults
    /\ row' = [e \in Executions |->
                 IF row[e] \in Incomplete THEN "interrupted" ELSE row[e]]
    /\ UNCHANGED <<drainVars, lock, taskVars, processes, supVars, callVars>>

-----------------------------------------------------------------------------
(* loom-supervisor, as its two pipes show it.                              *)

\* A frame written to a pipe nobody reads is lost.
Emit(e, frame) ==
    events' = IF Reading(e)
              THEN [events EXCEPT ![e] = Append(@, frame)] ELSE events
SupBecomes(e, state) == sup' = [sup EXCEPT ![e] = state]

\* The command starts, cannot be started, or no Spawn ever arrives.
SupervisorLaunch(e) ==
    /\ sup[e] = "booting"
    /\ \/ SupBecomes(e, "alive") /\ Emit(e, "started")
       \/ SupBecomes(e, "exited") /\ Emit(e, "finished")
       \/ ~ControlOpen(e) /\ SupBecomes(e, "exited") /\ UNCHANGED events
    /\ UNCHANGED <<outside, stopSent>>

SupervisorReadsCancel(e) ==
    /\ sup[e] = "alive" /\ e \in stopSent
    /\ SupBecomes(e, "cancelling")
    /\ UNCHANGED <<outside, stopSent, events>>

\* EOF on the control pipe, or a frame written to a pipe nobody reads.
SupervisorLosesDaemon(e) ==
    /\ sup[e] \in {"alive", "cancelling"}
    /\ ~ControlOpen(e) \/ ~Reading(e)
    /\ SupBecomes(e, "orphaned")
    /\ UNCHANGED <<outside, stopSent, events>>

\* The leader exits while a process out of reach of the signals sent so far
\* still holds its output.
CommandLingers(e) ==
    /\ sup[e] \in {"alive", "cancelling", "orphaned"}
    /\ SupBecomes(e, "lingering")
    /\ UNCHANGED <<outside, stopSent, events>>

\* The command ends by itself, or its pipes could not be read, or are closed.
CommandEnds(e) ==
    /\ SupBecomes(e, "exited")
    /\ \/ /\ sup[e] = "alive"
          /\ \E outcome \in {"finished", "interrupted"} : Emit(e, outcome)
       \/ /\ sup[e] = "lingering"
          /\ \/ \E outcome \in {"finished", "interrupted"} : Emit(e, outcome)
             \/ e \in stopSent /\ Emit(e, "cancelled")
             \/ UNCHANGED events
    /\ UNCHANGED <<outside, stopSent>>

\* The command was killed; nobody is told once the daemon is gone.
CommandKilled(e) ==
    /\ SupBecomes(e, "exited")
    /\ \/ /\ sup[e] = "cancelling"
          /\ \E outcome \in {"cancelled", "interrupted"} : Emit(e, outcome)
       \/ sup[e] = "orphaned" /\ UNCHANGED events
    /\ UNCHANGED <<outside, stopSent>>

\* The supervisor itself dies, possibly in the middle of writing a frame.
SupervisorDies(e) ==
    /\ sup[e] \in SupervisorLive
    /\ SupBecomes(e, "exited")
    /\ Emit(e, "torn") \/ UNCHANGED events
    /\ UNCHANGED <<outside, stopSent>>

-----------------------------------------------------------------------------

TaskStep(e) ==
    \/ StartTask(e)      \/ AcquireSlot(e)    \/ CheckQueued(e)
    \/ SpawnSupervisor(e) \/ Register(e)      \/ HandleStarted(e)
    \/ HandleFinished(e) \/ HandleTornFrame(e) \/ StreamEnds(e)
    \/ RecordOutcome(e)  \/ CommitOutcome(e)  \/ NotifyOutcome(e)
    \/ CloseControl(e)   \/ ReapSupervisor(e) \/ RecordFailure(e)
    \/ CommitFailure(e)  \/ NotifyFailure(e)  \/ Unregister(e)
    \/ DropActive(e)     \/ WakeIdle(e)

SupervisorStep(e) ==
    \/ SupervisorLaunch(e) \/ SupervisorReadsCancel(e)
    \/ SupervisorLosesDaemon(e) \/ CommandKilled(e)

\* What the command and its processes do, and how a supervisor may die.
CommandStep(e) == CommandLingers(e) \/ CommandEnds(e) \/ SupervisorDies(e)

CallStep(c) ==
    \/ CancelQueued(c) \/ CancelRunning(c) \/ CancelCheck(c)
    \/ CancelPark(c)   \/ CancelWake(c)

DrainStep ==
    \/ CloseSlots \/ DrainCancelQueued \/ DrainSignal
    \/ DrainArm   \/ DrainCheck        \/ DrainPark \/ DrainWake \/ DrainForced

Next ==
    \/ \E e \in Executions :
        \/ CreateExecution(e) \/ TaskStep(e)    \/ StoreFails(e)
        \/ SupervisorStep(e)  \/ CommandStep(e) \/ AbortTask(e)
        \/ \E c \in Cancellers : CancelBegin(c, e)
    \/ \E c \in Cancellers : CallStep(c) \/ CancelFails(c) \/ CancelTimeout(c)
    \/ DrainBegin \/ DrainStep \/ DrainFails \/ DrainTimeout
    \/ DaemonExit \/ DaemonKilled \/ DaemonStart

Spec == Init /\ [][Next]_vars

\* The runtime polls every ready task, and a supervisor that was told to stop
\* kills its group.  Nothing obliges a command to end, a client to call, a
\* timer to fire first, a process to die or a daemon to start.
Fairness ==
    /\ \A e \in Executions : WF_vars(TaskStep(e)) /\ WF_vars(SupervisorStep(e))
    /\ \A c \in Cancellers : WF_vars(CallStep(c))
    /\ WF_vars(DrainStep)

FairSpec == Spec /\ Fairness

-----------------------------------------------------------------------------
(* Safety.                                                                 *)

\* The failure path of a task: its permit is free, its row may be open.
Failing == {"failed", "failCommit", "failNotify", "unregister"}

\* A row can be closed (by cancel, drain or a failure) at any point between
\* the spawn of its supervisor and the Started event.  Whatever the order, a
\* command whose row is closed has been told to stop, is about to be told by
\* the task or by drain, or has lost its control pipe, or will lose it because
\* the daemon, its drain having failed, exits: none runs on unnoticed.
StopReachesCommand ==
    \A e \in Executions :
        row[e] \in Terminal /\ sup[e] \in {"booting", "alive"} =>
            \/ e \in stopSent
            \/ ~ControlOpen(e)
            \/ pc[e] \in {"register"} \cup Failing
            \/ drainer = "signal" /\ e \in processes
            \/ drainer = "failed"

\* An incomplete row has a live task, or the cancel_queued that drain is about
\* to run, to close it; and a running one has its handle in `processes` (without
\* it cancel() answers with a protocol error), unless its supervisor is gone.
\* Store commands that fail, and a drain that gave up, are excepted.
HasTask(e) ==
    \/ pc[e] \in ({"creating"} \cup Counted) \ {"unregister", "leave"}
    \/ row[e] = "queued" /\ drainer = "cancelQueue"

HasHandle(e) == row[e] = "running" => e \in processes \/ sup[e] = "exited"

IncompleteHasOwner ==
    up /\ faults = 0 /\ drainer \notin GaveUp =>
        \A e \in Executions : row[e] \in Incomplete => HasTask(e) /\ HasHandle(e)

\* cancel() subscribes before it reads the row, so a call asleep on the
\* broadcast receiver of a closed execution has an event to wake it, or the
\* task that closed the row has yet to send it.
NoLostCancelWakeup ==
    \A c \in Cancellers :
        cpc[c] = "parked" /\ row[target[c]] \in Terminal =>
            \/ woken[c]
            \/ pc[target[c]] \in {"notify", "failNotify"}
            \/ drainer \in GaveUp

\* wait_for_idle creates its Notified before it reads `active`: drain never
\* sleeps on an engine that is already idle without a wake-up on its way.
NoLostIdleWakeup ==
    drainer = "park" /\ Active = {} =>
        idleNotified \/ \E e \in Executions : pc[e] = "wake"

\* Once drain has cancelled the queue (and did not fail to) nothing is queued
\* again, so nothing can be marked running either: the lifecycle, the semaphore
\* and the transitions lock together.
QueueStaysEmpty ==
    up /\ drainer \notin {"idle", "close", "cancelQueue", "failed"} =>
        \A e \in Executions : row[e] # "queued"

\* A drain that ends by itself leaves no incomplete row, and no live command
\* but those a former daemon lost control of.
CleanStop ==
    drainer = "stopped" /\ faults = 0 =>
        \A e \in Executions :
            /\ row[e] \notin Incomplete
            /\ sup[e] \in SupervisorLive => pc[e] = "lost"

\* Supervisors whose control pipe this daemon holds open never outnumber the
\* permits, although a permit is returned before the task has closed the row.
LiveWithinSlots ==
    faults = 0 =>
        Cardinality({e \in Executions :
            sup[e] \in SupervisorLive /\ ControlOpen(e)}) <= MaxConcurrent

\* The engine keeps the promise of DurableExecution.
Durable == INSTANCE DurableExecution WITH asked <- stopSent
DurableRecord == Durable!Spec

\* What the engine and the supervisor of an execution owe each other; before
\* the spawn nobody has done anything.
Contract(e) == INSTANCE SupervisorContract WITH
    state   <- IF sup[e] = "none" THEN "booting" ELSE sup[e],
    asked   <- e \in stopSent,
    frames  <- events[e],
    open    <- sup[e] = "none" \/ ControlOpen(e),
    reading <- sup[e] = "none" \/ Reading(e)

\* Whatever is cancelled, drained, aborted, lost or restarted around it, the
\* engine is to each supervisor the daemon that Supervisor was modelled with: it
\* writes no Cancel to a pipe it has dropped, drops none while it reads, and
\* reads no more after an outcome or half a frame.
KeepsContracts ==
    /\ \A e \in Executions : Contract(e)!Init
    /\ [][\A e \in Executions :
             Contract(e)!Next \/ UNCHANGED Contract(e)!vars]_vars

-----------------------------------------------------------------------------
(* Liveness, under FairSpec.                                               *)

\* A running execution whose supervisor was sent Cancel is closed in the end,
\* unless the daemon dies or its drain gives up first, or the supervisor no
\* longer listens because the command's leader is gone and its output is not.
CancelledIsClosed ==
    \A e \in Executions :
        row[e] = "running" /\ e \in stopSent
            ~> \/ row[e] \in Terminal \/ sup[e] = "lingering"
               \/ drainer \in GaveUp \/ ~up

\* drain() ends without needing its timeout (or the daemon is killed), if no
\* command lingers.
DrainEnds ==
    up /\ drainer = "close"
        ~> \/ drainer \in {"stopped", "forced"} \/ ~up
           \/ \E e \in Executions : sup[e] = "lingering"

\* cancel() returns without needing its timeout, while drain has not aborted
\* the tasks and no command lingers: no call sleeps on a closed execution.
CancelReturns ==
    \A c \in Cancellers :
        cpc[c] = "looking"
            ~> \/ cpc[c] \notin Pending
               \/ drainer \in GaveUp
               \/ \E e \in Executions : sup[e] = "lingering"

-----------------------------------------------------------------------------
(* What the documentation says of a drain.                                 *)

\* README: the suite "proves queued work cannot spawn during graceful shutdown".
QueuedNeverSpawns ==
    [][\A e \in Executions :
         drainer # "idle" /\ SupervisorLaunch(e) /\ sup'[e] = "alive"
           => row[e] # "cancelled"]_vars
=============================================================================
