------------------------ MODULE ExecutionRecordProofs ------------------------
(***************************************************************************)
(* More theorems about ExecutionEngine: its rows are the durable record of *)
(* DurableExecution, an open row has its task, a drain that ends by itself *)
(* leaves nothing behind, no more commands are under control than there    *)
(* are permits, and each task and its supervisor keep their contract.      *)
(*                                                                         *)
(*   AskedInv   a command is recorded as cancelled only if it was stopped  *)
(*   OwnerInv   an open row has its task, and a running one its handle     *)
(*   SlotsInv   the permits, and the live commands that hold one           *)
(*   LinkInv    a pipe that is not read is empty, and outcomes come last   *)
(***************************************************************************)
EXTENDS ExecutionEngineProofs, FiniteSetTheorems, SequenceTheorems

\* A supervisor says "cancelled" only when Cancel was written to its control
\* pipe, from the decision to the frame to what the task is about to record.
CancelWasAsked ==
    \A e \in Executions :
        /\ sup[e] = "cancelling" => e \in stopSent
        /\ \A i \in 1 .. Len(events[e]) :
             events[e][i] = "cancelled" => e \in stopSent
        /\ verdict[e] = "cancelled" => e \in stopSent

\* A cancel() in progress read the row it names, and rows are never deleted.
TargetExists ==
    \A c \in Cancellers : cpc[c] \in Pending => row[target[c]] # "absent"

AskedInv == StopInv /\ CancelWasAsked /\ TargetExists

\* A task that announces the outcome, or ends after a Finished, has closed its
\* row; one that reads its supervisor has one, and no Finished from it yet.
ClosedBehindTask ==
    \A e \in Executions :
        /\ pc[e] \in {"notify", "failNotify"} => row[e] \in Terminal
        /\ pc[e] \in {"close", "reap"} /\ received[e] => row[e] \in Terminal
        /\ pc[e] \in {"register", "events"} \/ row[e] = "running" =>
             sup[e] # "none"
        /\ pc[e] \in Unborn \cup {"register", "events"} => ~received[e]

OwnerInv == StopInv /\ ClosedBehindTask /\ IncompleteHasOwner

\* Without failures a task outlives its supervisor.
LiveHasTask ==
    faults = 0 /\ drainer \notin GaveUp =>
        \A e \in Executions :
            sup[e] \in SupervisorLive => pc[e] \in {"register", "events", "lost"}

\* No task is started behind drain's back, a drain that ends by itself waited
\* for all there were, and it gives up the queue only for a failure.
DrainWaited ==
    /\ drainer # "idle" => \A e \in Executions : pc[e] # "creating"
    /\ drainer = "stopped" => Active = {}
    /\ drainer = "failed" => faults # 0
    /\ \A e \in Executions : pc[e] \in {"none", "lost"} => e \notin processes

Permits == {e \in Executions : pc[e] \in Holding}
PermitsHeld == IsFiniteSet(Permits) /\ Cardinality(Permits) <= MaxConcurrent

SlotsInv == StopInv /\ LiveHasTask /\ DrainWaited /\ PermitsHeld

\* A pipe nobody reads is empty, only the last frame in one can be an outcome
\* or half a frame, and a handle is a supervisor's.
PipesKept ==
    \A e \in Executions :
        /\ events[e] # <<>> => Reading(e)
        /\ \A i \in 1 .. Len(events[e]) - 1 : events[e][i] = "started"
        /\ e \in processes => sup[e] # "none"

LinkInv == AskedInv /\ OwnerInv /\ PipesKept

\* What happens to one execution's pipes is a step of its contract.
LinkStep(e) == Contract(e)!Next \/ UNCHANGED Contract(e)!vars

-----------------------------------------------------------------------------
(* The durable record.                                                     *)

\* A task may stop its own supervisor; it takes over what the frame it read says.
LEMMA TaskAsks ==
    ASSUME TypeOK, NEW e \in Executions, TaskStep(e) \/ StoreFails(e)
    PROVE  /\ stopSent' \in {stopSent, stopSent \cup {e}}
           /\ stopSent' # stopSent => UNCHANGED row
           /\ \A x \in Executions \ {e} : verdict'[x] = verdict[x]
           /\ \/ verdict'[e] \in {verdict[e], "none", "finished", "interrupted"}
              \/ events[e] # <<>> /\ verdict'[e] = Head(events[e])
BY DEF TypeOK, TaskStep, StoreFails, StartTask, AcquireSlot, CheckQueued,
       SpawnSupervisor, Register, HandleStarted, HandleFinished, StreamEnds,
       HandleTornFrame, RecordOutcome, CommitOutcome, NotifyOutcome,
       CloseControl, ReapSupervisor, RecordFailure, CommitFailure,
       NotifyFailure, Unregister, DropActive, WakeIdle, Jump, Goto, SetRow,
       ForgetTask, DropStdout, taskVars, supVars, shared

\* A supervisor that was not told to stop does not say it was.
LEMMA SupervisorSays ==
    ASSUME TypeOK, NEW e \in Executions,
           SupervisorStep(e) \/ CommandStep(e)
    PROVE  /\ sup'[e] = "cancelling" => e \in stopSent
           /\ \/ events'[e] = events[e]
              \/ \E frame \in Frames :
                   /\ events'[e] = Append(events[e], frame)
                   /\ frame = "cancelled" =>
                        e \in stopSent \/ sup[e] = "cancelling"
BY DEF TypeOK, SupervisorStep, CommandStep, CommandLingers, CommandEnds,
       SupervisorDies, SupervisorLaunch, SupervisorReadsCancel,
       SupervisorLosesDaemon, CommandKilled, SupBecomes, Emit, outside, shared,
       Frames, Terminal

LEMMA AskedStep == AskedInv /\ [Next]_vars => CancelWasAsked'
<1> SUFFICES ASSUME AskedInv, [Next]_vars PROVE CancelWasAsked'
  OBVIOUS
<1>0. /\ StopInv /\ TypeInv /\ TypeOK /\ CancelWasAsked
      /\ UnbornTasks /\ events \in [Executions -> Seq(Frames)]
  BY DEF AskedInv, StopInv, TypeInv, TypeOK
<1>1. ASSUME UNCHANGED <<sup, events, verdict>>, stopSent \subseteq stopSent'
      PROVE  CancelWasAsked'
  BY <1>0, <1>1 DEF CancelWasAsked
<1>2. ASSUME NEW e \in Executions, TaskStep(e) \/ StoreFails(e)
      PROVE  CancelWasAsked'
  <2>1. stopSent \subseteq stopSent'
    BY <1>0, <1>2, TaskAsks
  <2>2. ASSUME NEW x \in Executions \ {e}
        PROVE  /\ sup'[x] = sup[x] /\ events'[x] = events[x]
               /\ verdict'[x] = verdict[x]
    BY <1>0, <1>2, TaskLocal, TaskAsks
  <2>3. sup'[e] = "cancelling" => e \in stopSent
    BY <1>0, <1>2, TaskSpawns DEF CancelWasAsked
  <2>4. ASSUME NEW i \in 1 .. Len(events'[e]), events'[e][i] = "cancelled"
        PROVE  e \in stopSent
    <3>1. CASE events'[e] = events[e]
      BY <1>0, <2>4, <3>1 DEF CancelWasAsked
    <3>2. CASE events'[e] = <<>>
      BY <2>4, <3>2
    <3>3. CASE events[e] # <<>> /\ events'[e] = Tail(events[e])
      <4>1. /\ Len(events'[e]) = Len(events[e]) - 1 /\ Len(events[e]) \in Nat
            /\ events'[e][i] = events[e][i + 1]
        BY <1>0, <2>4, <3>3
      <4>2. i + 1 \in 1 .. Len(events[e])
        BY <4>1
      <4> QED
        BY <1>0, <2>4, <4>1, <4>2 DEF CancelWasAsked
    <3> QED
      BY <1>0, <1>2, <3>1, <3>2, <3>3, TaskReads
  <2>5. verdict'[e] = "cancelled" => e \in stopSent
    <3>1. CASE verdict'[e] \in {verdict[e], "none", "finished", "interrupted"}
      BY <1>0, <3>1 DEF CancelWasAsked
    <3>2. CASE events[e] # <<>> /\ verdict'[e] = Head(events[e])
      <4>1. Head(events[e]) = events[e][1] /\ 1 \in 1 .. Len(events[e])
        BY <1>0, <3>2
      <4> QED
        BY <1>0, <3>2, <4>1 DEF CancelWasAsked
    <3> QED
      BY <1>0, <1>2, <3>1, <3>2, TaskAsks
  <2> QED
    BY <1>0, <2>1, <2>2, <2>3, <2>4, <2>5 DEF CancelWasAsked
<1>3. ASSUME NEW e \in Executions, CreateExecution(e) PROVE CancelWasAsked'
  BY <1>1, <1>3 DEF CreateExecution, supVars
<1>4. ASSUME NEW e \in Executions, AbortTask(e) PROVE CancelWasAsked'
  BY <1>0, <1>4 DEF AbortTask, ForgetTask, DropStdout, CancelWasAsked, TypeOK
<1>5. CASE DaemonExit \/ DaemonKilled
  BY <1>0, <1>5 DEF DaemonExit, DaemonKilled, LoseMemory, CancelWasAsked
<1>6. CASE DaemonStart
  BY <1>1, <1>6 DEF DaemonStart, supVars, taskVars
<1>7. ASSUME NEW e \in Executions, SupervisorStep(e) \/ CommandStep(e)
      PROVE  CancelWasAsked'
  <2>1. UNCHANGED <<stopSent, verdict>>
    BY <1>7, SupervisorFrame DEF outside, taskVars
  <2>2. ASSUME NEW x \in Executions \ {e}
        PROVE  sup'[x] = sup[x] /\ events'[x] = events[x]
    BY <1>0, <1>7, SupervisorLocal
  <2>3. sup'[e] = "cancelling" => e \in stopSent
    BY <1>0, <1>7, SupervisorSays
  <2>4. ASSUME NEW i \in 1 .. Len(events'[e]), events'[e][i] = "cancelled"
        PROVE  e \in stopSent
    <3>1. CASE events'[e] = events[e]
      BY <1>0, <2>4, <3>1 DEF CancelWasAsked
    <3>2. ASSUME NEW frame \in Frames, events'[e] = Append(events[e], frame),
                 frame = "cancelled" => e \in stopSent \/ sup[e] = "cancelling"
          PROVE  e \in stopSent
      <4>1. /\ Len(events'[e]) = Len(events[e]) + 1 /\ Len(events[e]) \in Nat
            /\ \A j \in 1 .. Len(events[e]) : events'[e][j] = events[e][j]
            /\ events'[e][Len(events[e]) + 1] = frame
        BY <1>0, <3>2
      <4>2. i \in 1 .. Len(events[e]) \/ i = Len(events[e]) + 1
        BY <2>4, <4>1
      <4> QED
        BY <1>0, <2>4, <3>2, <4>1, <4>2 DEF CancelWasAsked
    <3> QED
      BY <1>0, <1>7, <3>1, <3>2, SupervisorSays
  <2> QED
    BY <1>0, <2>1, <2>2, <2>3, <2>4 DEF CancelWasAsked
<1>8. CASE DrainBegin \/ DrainStep \/ DrainFails \/ DrainTimeout
  <2>1. stopSent \subseteq stopSent'
    BY <1>8
    DEF DrainBegin, DrainStep, DrainFails, DrainTimeout, CloseSlots,
        DrainCancelQueued, DrainSignal, DrainArm, DrainCheck, DrainPark,
        DrainWake, DrainForced, DrainGoto, supVars
  <2> QED
    BY <1>1, <1>8, <2>1, DrainFrame DEF taskVars
<1>9. ASSUME NEW c \in Cancellers,
             \/ CallStep(c) \/ CancelFails(c) \/ CancelTimeout(c)
             \/ \E e \in Executions : CancelBegin(c, e)
      PROVE  CancelWasAsked'
  <2>1. stopSent \subseteq stopSent'
    BY <1>9
    DEF CallStep, CancelFails, CancelTimeout, CancelBegin, CancelQueued,
        CancelRunning, CancelCheck, CancelPark, CancelWake, supVars
  <2> QED
    BY <1>1, <1>9, <2>1, CallFrame DEF taskVars
<1>10. CASE UNCHANGED vars
  BY <1>1, <1>10 DEF vars
<1> QED
  BY <1>2, <1>3, <1>4, <1>5, <1>6, <1>7, <1>8, <1>9, <1>10 DEF Next

\* No step deletes a row.
LEMMA RowsStay ==
    ASSUME StopInv, [Next]_vars, NEW x \in Executions, row[x] # "absent"
    PROVE  row'[x] # "absent"
<1>0. TypeInv /\ TypeOK /\ TargetKnown
  BY DEF StopInv, TypeInv
<1>1. CASE UNCHANGED row
  BY <1>1
<1>2. ASSUME NEW e \in Executions, TaskStep(e) \/ StoreFails(e)
      PROVE  row'[x] # "absent"
  BY <1>0, <1>2, TaskLocal, TaskBirth
<1>3. ASSUME NEW e \in Executions, CreateExecution(e) PROVE row'[x] # "absent"
  BY <1>0, <1>3 DEF CreateExecution, SetRow, TypeOK
<1>4. CASE DaemonStart
  BY <1>0, <1>4 DEF DaemonStart
<1>5. CASE DrainBegin \/ DrainStep \/ DrainFails \/ DrainTimeout
  BY <1>5, DrainFrame
<1>6. ASSUME NEW c \in Cancellers,
             \/ CallStep(c) \/ CancelFails(c) \/ CancelTimeout(c)
             \/ \E e \in Executions : CancelBegin(c, e)
      PROVE  row'[x] # "absent"
  BY <1>0, <1>6, CallFrame DEF SetRow, TypeOK
<1>7. ASSUME NEW e \in Executions,
             AbortTask(e) \/ SupervisorStep(e) \/ CommandStep(e)
      PROVE  UNCHANGED row
  BY <1>7, SupervisorFrame DEF AbortTask, outside
<1>8. CASE DaemonExit \/ DaemonKilled
  BY <1>1, <1>8 DEF DaemonExit, DaemonKilled, LoseMemory
<1> QED
  BY <1>1, <1>2, <1>3, <1>4, <1>5, <1>6, <1>7, <1>8 DEF Next, vars

\* Only CancelBegin gives a call its target.
LEMMA TargetKept ==
    ASSUME TypeInv, [Next]_vars, NEW c \in Cancellers, cpc'[c] \in Pending
    PROVE  \/ cpc[c] \in Pending /\ target'[c] = target[c]
           \/ \E e \in Executions :
                row[e] # "absent" /\ target'[c] = e
<1>0. TypeOK
  BY DEF TypeInv
<1>1. CASE UNCHANGED <<cpc, target>>
  BY <1>1
<1>2. ASSUME NEW e \in Executions, TaskStep(e) \/ StoreFails(e)
      PROVE  UNCHANGED cpc /\ target' = target
  BY <1>2
  DEF TaskStep, StoreFails, StartTask, AcquireSlot, CheckQueued, Register,
      SpawnSupervisor, HandleStarted, HandleFinished, HandleTornFrame,
      StreamEnds, RecordOutcome, CommitOutcome, NotifyOutcome, CloseControl,
      ReapSupervisor, RecordFailure, CommitFailure, NotifyFailure, Unregister,
      DropActive, WakeIdle, Jump, callVars
<1>3. CASE DaemonExit \/ DaemonKilled
  BY <1>3 DEF DaemonExit, DaemonKilled, LoseMemory, Pending
<1>4. CASE DrainBegin \/ DrainStep \/ DrainFails \/ DrainTimeout
  BY <1>4, DrainFrame
<1>5. ASSUME NEW e \in Executions,
             \/ AbortTask(e) \/ SupervisorStep(e) \/ CommandStep(e)
             \/ CreateExecution(e)
      PROVE  UNCHANGED cpc /\ target' = target
  BY <1>5, SupervisorFrame DEF AbortTask, CreateExecution, outside, callVars
<1>6. ASSUME NEW d \in Cancellers, NEW e \in Executions, CancelBegin(d, e)
      PROVE  \/ cpc[c] \in Pending /\ target'[c] = target[c]
             \/ row[e] # "absent" /\ target'[c] = e
  BY <1>0, <1>6 DEF CancelBegin, Return, TypeOK, Pending
<1>7. ASSUME NEW d \in Cancellers,
             CallStep(d) \/ CancelFails(d) \/ CancelTimeout(d)
      PROVE  cpc[c] \in Pending /\ target'[c] = target[c]
  BY <1>0, <1>7
  DEF CallStep, CancelFails, CancelTimeout, CancelQueued, CancelRunning,
      CancelCheck, CancelPark, CancelWake, Return, TypeOK, Pending
<1>8. CASE DaemonStart
  BY <1>1, <1>8 DEF DaemonStart, callVars
<1> QED
  BY <1>1, <1>2, <1>3, <1>4, <1>5, <1>6, <1>7, <1>8 DEF Next, vars

LEMMA TargetExistsStep == AskedInv /\ [Next]_vars => TargetExists'
<1> SUFFICES ASSUME AskedInv, [Next]_vars,
                    NEW c \in Cancellers, cpc'[c] \in Pending
             PROVE  row'[target'[c]] # "absent"
  BY DEF TargetExists
<1>1. StopInv /\ TypeInv /\ TargetKnown /\ TargetExists
  BY DEF AskedInv, StopInv, TypeInv
<1>2. target'[c] \in Executions /\ row[target'[c]] # "absent"
  BY <1>1, TargetKept DEF TargetKnown, TargetExists
<1> QED
  BY <1>1, <1>2, RowsStay

LEMMA AskedInvariance == Spec => []AskedInv
<1>1. Init => CancelWasAsked /\ TargetExists
  BY DEF Init, CancelWasAsked, TargetExists, Pending
<1>2. AskedInv /\ [Next]_vars /\ StopInv' => AskedInv'
  BY AskedStep, TargetExistsStep DEF AskedInv
<1>3. StopInv /\ CancelWasAsked /\ TargetExists => AskedInv
  BY DEF AskedInv
<1> QED
  BY <1>1, <1>2, <1>3, StopInvariance, PTL DEF Spec

\* Every step of the engine is one of the record, or none.
LEMMA RecordStep ==
    AskedInv /\ [Next]_vars => Durable!Next \/ UNCHANGED <<row, stopSent>>
<1> SUFFICES ASSUME AskedInv, [Next]_vars
             PROVE  Durable!Next \/ UNCHANGED <<row, stopSent>>
  OBVIOUS
<1>0. /\ StopInv /\ TypeInv /\ TypeOK /\ CancelWasAsked /\ UnbornTasks
      /\ TargetKnown /\ TargetExists /\ TransitionsHeld /\ VerdictKnown
      /\ row \in [Executions -> RowStates]
  BY DEF AskedInv, StopInv, TypeInv, TypeOK
<1> USE DEF Durable!Terminal, Durable!Incomplete, Terminal, Incomplete,
            RowStates
<1>1. ASSUME NEW S \in SUBSET Executions, UNCHANGED row,
             stopSent' \in {stopSent, stopSent \cup S}
      PROVE  Durable!Next \/ UNCHANGED <<row, stopSent>>
  BY <1>1 DEF Durable!Next, Durable!Ask
<1>2. ASSUME NEW S \in SUBSET Executions, NEW state \in Terminal,
             \A e \in S : row[e] \in Incomplete,
             state = "cancelled" =>
               \A e \in S : row[e] = "running" => e \in stopSent,
             row' = [e \in Executions |-> IF e \in S THEN state ELSE row[e]],
             stopSent' \in {stopSent, stopSent \cup S}
      PROVE  Durable!Next
  <2>1. Durable!Close(S, state)
    BY <1>2 DEF Durable!Close
  <2> QED
    BY <2>1 DEF Durable!Next
<1>3. ASSUME NEW e \in Executions, TaskStep(e) \/ StoreFails(e)
      PROVE  Durable!Next \/ UNCHANGED <<row, stopSent>>
  <2>1. CASE UNCHANGED row
    <3>1. {e} \in SUBSET Executions
      OBVIOUS
    <3>2. stopSent' \in {stopSent, stopSent \cup {e}}
      BY <1>0, <1>3, TaskAsks
    <3> QED
      BY <1>1, <2>1, <3>1, <3>2
  <2>2. CASE HandleStarted(e) /\ row' # row
    <3>1. row[e] = "queued" /\ SetRow(e, "running") /\ UNCHANGED stopSent
      <4>1. /\ pc[e] = "events" /\ row[e] \notin Terminal
            /\ SetRow(e, "running") /\ UNCHANGED stopSent
        BY <2>2 DEF HandleStarted
      <4>2. row[e] # "absent"
        BY <1>0, <4>1 DEF UnbornTasks
      <4>3. row[e] # "running"
        BY <1>0, <2>2, <4>1 DEF SetRow
      <4> QED
        BY <1>0, <4>1, <4>2, <4>3
    <3>2. Durable!Start(e)
      BY <3>1 DEF Durable!Start, SetRow
    <3> QED
      BY <3>2 DEF Durable!Next
  <2>3. CASE (CommitOutcome(e) \/ CommitFailure(e)) /\ row' # row
    <3>1. PICK state \in Terminal :
              /\ SetRow(e, state) /\ row[e] \notin Terminal
              /\ state = "cancelled" => verdict[e] = "cancelled"
      BY <1>0, <2>3 DEF CommitOutcome, CommitFailure, VerdictKnown
    <3>2. row[e] \in Incomplete
      <4>1. pc[e] # "none"
        BY <1>0, <1>3, TaskBirth
      <4> QED
        BY <1>0, <3>1, <4>1 DEF UnbornTasks
    <3>3. row' = [x \in Executions |-> IF x \in {e} THEN state ELSE row[x]]
      BY <1>0, <3>1 DEF SetRow
    <3>4. stopSent' = stopSent
      BY <2>3 DEF CommitOutcome, CommitFailure, supVars
    <3>5. state = "cancelled" => e \in stopSent
      BY <1>0, <3>1 DEF CancelWasAsked
    <3>6. /\ {e} \in SUBSET Executions
          /\ \A x \in {e} : row[x] \in Incomplete
          /\ state = "cancelled" =>
               \A x \in {e} : row[x] = "running" => x \in stopSent
          /\ stopSent' \in {stopSent, stopSent \cup {e}}
      BY <3>2, <3>4, <3>5
    <3> QED
      BY <1>2, <3>3, <3>6
  <2>4. \/ UNCHANGED row \/ HandleStarted(e)
        \/ CommitOutcome(e) \/ CommitFailure(e)
    BY <1>3
    DEF TaskStep, StoreFails, StartTask, AcquireSlot, CheckQueued, Register,
        SpawnSupervisor, HandleFinished, HandleTornFrame, StreamEnds,
        RecordOutcome, NotifyOutcome, CloseControl, ReapSupervisor,
        RecordFailure, NotifyFailure, Unregister, DropActive, WakeIdle, Jump
  <2> QED
    BY <2>1, <2>2, <2>3, <2>4
<1>4. ASSUME NEW e \in Executions, CreateExecution(e)
      PROVE  Durable!Next
  <2>1. Durable!Accept(e)
    BY <1>4 DEF CreateExecution, SetRow, supVars, Durable!Accept
  <2> QED
    BY <2>1 DEF Durable!Next
<1>5. CASE DaemonExit \/ DaemonKilled
  BY <1>5 DEF DaemonExit, DaemonKilled, LoseMemory
<1>6. CASE DaemonStart
  <2> DEFINE S == {e \in Executions : row[e] \in Incomplete}
  <2>1. /\ row' = [e \in Executions |-> IF e \in S THEN "interrupted" ELSE row[e]]
        /\ UNCHANGED stopSent
    BY <1>6 DEF DaemonStart, supVars
  <2> QED
    BY <1>2, <2>1
<1>7. ASSUME NEW e \in Executions,
             AbortTask(e) \/ SupervisorStep(e) \/ CommandStep(e)
      PROVE  UNCHANGED <<row, stopSent>>
  BY <1>7, SupervisorFrame DEF AbortTask, outside
<1>8. CASE DrainCancelQueued \/ DrainFails
  <2>1. PICK S \in SUBSET {e \in Executions : row[e] = "queued"} :
            row' = [e \in Executions |-> IF e \in S THEN "cancelled" ELSE row[e]]
    <3>1. CASE DrainFails
      BY <3>1 DEF DrainFails
    <3>2. CASE DrainCancelQueued
      <4> DEFINE Q == {e \in Executions : row[e] = "queued"}
      <4>1. row' = [e \in Executions |-> IF e \in Q THEN "cancelled" ELSE row[e]]
        BY <3>2 DEF DrainCancelQueued
      <4> QED
        BY <4>1
    <3> QED
      BY <1>8, <3>1, <3>2
  <2>2. stopSent' = stopSent
    BY <1>8 DEF DrainCancelQueued, DrainFails, supVars
  <2>3. /\ S \in SUBSET Executions
        /\ \A e \in S : row[e] \in Incomplete /\ row[e] # "running"
    OBVIOUS
  <2> QED
    BY <1>2, <2>1, <2>2, <2>3
<1>9. CASE \/ DrainBegin \/ DrainTimeout
           \/ DrainStep /\ ~DrainCancelQueued
  <2>1. UNCHANGED row /\ stopSent' \in {stopSent, stopSent \cup processes}
    BY <1>9
    DEF DrainBegin, DrainStep, DrainTimeout, CloseSlots, DrainSignal,
        DrainArm, DrainCheck, DrainPark, DrainWake, DrainForced, DrainGoto,
        supVars
  <2>2. processes \in SUBSET Executions
    BY <1>0 DEF TypeOK
  <2> QED
    BY <1>1, <2>1, <2>2
<1>10. ASSUME NEW c \in Cancellers, CancelQueued(c), row' # row
       PROVE  Durable!Next
  <2>1. /\ target[c] \in Executions /\ row[target[c]] # "absent"
        /\ row[target[c]] # "running"
    BY <1>0, <1>10
    DEF CancelQueued, TargetKnown, TargetExists, TransitionsHeld, Pending
  <2>2. /\ row[target[c]] \notin Terminal /\ SetRow(target[c], "cancelled")
        /\ stopSent' = stopSent \cup ({target[c]} \cap processes)
    BY <1>10 DEF CancelQueued
  <2>3. /\ row[target[c]] \in Incomplete
        /\ stopSent' \in {stopSent, stopSent \cup {target[c]}}
    BY <1>0, <2>1, <2>2
  <2>4. row' = [x \in Executions |->
                  IF x \in {target[c]} THEN "cancelled" ELSE row[x]]
    BY <1>0, <2>1, <2>2 DEF SetRow
  <2> QED
    BY <1>2, <2>1, <2>3, <2>4
<1>11. ASSUME NEW c \in Cancellers, UNCHANGED row,
              \/ CallStep(c) \/ CancelFails(c) \/ CancelTimeout(c)
              \/ \E e \in Executions : CancelBegin(c, e)
       PROVE  Durable!Next \/ UNCHANGED <<row, stopSent>>
  <2>1. CASE stopSent' = stopSent
    BY <1>11, <2>1
  <2>2. CASE stopSent' # stopSent
    <3>1. target[c] \in Executions /\ stopSent' = stopSent \cup {target[c]}
      BY <1>0, <1>11, <2>2
      DEF CallStep, CancelFails, CancelTimeout, CancelBegin, CancelQueued,
          CancelRunning, CancelCheck, CancelPark, CancelWake, supVars,
          TargetKnown, Pending
    <3>2. {target[c]} \in SUBSET Executions
      BY <3>1
    <3>3. stopSent' \in {stopSent, stopSent \cup {target[c]}}
      BY <3>1
    <3> QED
      BY <1>1, <1>11, <3>2, <3>3
  <2> QED
    BY <2>1, <2>2
<1>12. ASSUME NEW c \in Cancellers,
              \/ CallStep(c) \/ CancelFails(c) \/ CancelTimeout(c)
              \/ \E e \in Executions : CancelBegin(c, e)
       PROVE  UNCHANGED row \/ CancelQueued(c)
  BY <1>12
  DEF CallStep, CancelFails, CancelTimeout, CancelBegin, CancelRunning,
      CancelCheck, CancelPark, CancelWake
<1>13. CASE UNCHANGED vars
  BY <1>13 DEF vars
<1> QED
  BY <1>3, <1>4, <1>5, <1>6, <1>7, <1>8, <1>9, <1>10, <1>11, <1>12, <1>13
  DEF Next

\* Whoever races to close an execution, and however often the daemon dies, its
\* row is queued once, may run, is closed once and for all, and says "cancelled"
\* of a command that ran only if Cancel was written to its supervisor.
THEOREM RecordIsDurable == Spec => DurableRecord
<1>1. Init => Durable!Init
  BY DEF Init, Durable!Init
<1>2. AskedInv /\ [Next]_vars => [Durable!Next]_(Durable!vars)
  BY RecordStep DEF Durable!vars
<1> QED
  BY <1>1, <1>2, AskedInvariance, PTL DEF Spec, DurableRecord, Durable!Spec

-----------------------------------------------------------------------------
(* An open row has its task.                                               *)

\* What a task leaves behind: a closed row when it announces one or ends after
\* a Finished, and a supervisor once it has started one.
LEMMA TaskCloses ==
    ASSUME StopInv, ClosedBehindTask, NEW e \in Executions,
           TaskStep(e) \/ StoreFails(e)
    PROVE  /\ pc'[e] \in {"notify", "failNotify"} => row'[e] \in Terminal
           /\ pc'[e] \in {"close", "reap"} /\ received'[e] =>
                row'[e] \in Terminal
           /\ pc'[e] \in {"register", "events"} \/ row'[e] = "running" =>
                sup'[e] # "none"
           /\ pc'[e] \in Unborn \cup {"register", "events"} => ~received'[e]
           /\ \A x \in Executions \ {e} : received'[x] = received[x]
<1>0. /\ row \in [Executions -> RowStates] /\ pc \in [Executions -> TaskStates]
      /\ received \in [Executions -> BOOLEAN]
      /\ sup \in [Executions -> SupervisorLive \cup {"none", "exited"}]
      /\ verdict \in [Executions -> {"none"} \cup Terminal]
      /\ UnbornTasks
      /\ pc[e] \in {"record", "commit"} => verdict[e] \in Terminal
      /\ pc[e] \in {"notify", "failNotify"} => row[e] \in Terminal
      /\ pc[e] \in {"close", "reap"} /\ received[e] => row[e] \in Terminal
      /\ pc[e] \in {"register", "events"} \/ row[e] = "running" =>
           sup[e] # "none"
      /\ pc[e] \in Unborn \cup {"register", "events"} => ~received[e]
  BY DEF StopInv, TypeInv, TypeOK, VerdictKnown, ClosedBehindTask
<1>1. pc'[e] \in {"notify", "failNotify"} => row'[e] \in Terminal
  BY <1>0
  DEF UnbornTasks, Unborn, Terminal, RowStates, Incomplete,
      TaskStep, StoreFails, StartTask, AcquireSlot, CheckQueued,
      SpawnSupervisor, Register, HandleStarted, HandleFinished, StreamEnds,
      HandleTornFrame, RecordOutcome, CommitOutcome, NotifyOutcome,
      CloseControl, ReapSupervisor, RecordFailure, CommitFailure,
      NotifyFailure, Unregister, DropActive, WakeIdle, Jump, Goto, SetRow,
      ForgetTask, DropStdout, taskVars, supVars, shared
<1>2. pc'[e] \in {"close", "reap"} /\ received'[e] => row'[e] \in Terminal
  BY <1>0
  DEF UnbornTasks, Unborn, Terminal, RowStates, Incomplete,
      TaskStep, StoreFails, StartTask, AcquireSlot, CheckQueued,
      SpawnSupervisor, Register, HandleStarted, HandleFinished, StreamEnds,
      HandleTornFrame, RecordOutcome, CommitOutcome, NotifyOutcome,
      CloseControl, ReapSupervisor, RecordFailure, CommitFailure,
      NotifyFailure, Unregister, DropActive, WakeIdle, Jump, Goto, SetRow,
      ForgetTask, DropStdout, taskVars, supVars, shared
<1>3. pc'[e] \in {"register", "events"} => sup'[e] # "none"
  BY <1>0
  DEF UnbornTasks, Unborn, Terminal, RowStates, Incomplete,
      TaskStep, StoreFails, StartTask, AcquireSlot, CheckQueued,
      SpawnSupervisor, Register, HandleStarted, HandleFinished, StreamEnds,
      HandleTornFrame, RecordOutcome, CommitOutcome, NotifyOutcome,
      CloseControl, ReapSupervisor, RecordFailure, CommitFailure,
      NotifyFailure, Unregister, DropActive, WakeIdle, Jump, Goto, SetRow,
      ForgetTask, DropStdout, taskVars, supVars, shared
<1>4. row'[e] = "running" => sup'[e] # "none"
  BY <1>0
  DEF UnbornTasks, Unborn, Terminal, RowStates, Incomplete,
      TaskStep, StoreFails, StartTask, AcquireSlot, CheckQueued,
      SpawnSupervisor, Register, HandleStarted, HandleFinished, StreamEnds,
      HandleTornFrame, RecordOutcome, CommitOutcome, NotifyOutcome,
      CloseControl, ReapSupervisor, RecordFailure, CommitFailure,
      NotifyFailure, Unregister, DropActive, WakeIdle, Jump, Goto, SetRow,
      ForgetTask, DropStdout, taskVars, supVars, shared
<1>5. \A x \in Executions \ {e} : received'[x] = received[x]
  BY <1>0
  DEF UnbornTasks, Unborn, Terminal, RowStates, Incomplete,
      TaskStep, StoreFails, StartTask, AcquireSlot, CheckQueued,
      SpawnSupervisor, Register, HandleStarted, HandleFinished, StreamEnds,
      HandleTornFrame, RecordOutcome, CommitOutcome, NotifyOutcome,
      CloseControl, ReapSupervisor, RecordFailure, CommitFailure,
      NotifyFailure, Unregister, DropActive, WakeIdle, Jump, Goto, SetRow,
      ForgetTask, DropStdout, taskVars, supVars, shared
<1>6. pc'[e] \in Unborn \cup {"register", "events"} => ~received'[e]
  BY <1>0
  DEF UnbornTasks, Unborn, Terminal, RowStates, Incomplete,
      TaskStep, StoreFails, StartTask, AcquireSlot, CheckQueued,
      SpawnSupervisor, Register, HandleStarted, HandleFinished, StreamEnds,
      HandleTornFrame, RecordOutcome, CommitOutcome, NotifyOutcome,
      CloseControl, ReapSupervisor, RecordFailure, CommitFailure,
      NotifyFailure, Unregister, DropActive, WakeIdle, Jump, Goto, SetRow,
      ForgetTask, DropStdout, taskVars, supVars, shared
<1> QED
  BY <1>1, <1>2, <1>3, <1>4, <1>5, <1>6

LEMMA ClosedStep == OwnerInv /\ [Next]_vars => ClosedBehindTask'
<1> SUFFICES ASSUME OwnerInv, [Next]_vars PROVE ClosedBehindTask'
  OBVIOUS
<1>0. /\ StopInv /\ TypeInv /\ TypeOK /\ ClosedBehindTask /\ UnbornTasks
      /\ row \in [Executions -> RowStates]
  BY DEF OwnerInv, StopInv, TypeInv, TypeOK
<1>1. ASSUME UNCHANGED <<pc, received, sup>>,
             \A x \in Executions :
               row'[x] = row[x] \/ row'[x] \in {"cancelled", "interrupted"}
      PROVE  ClosedBehindTask'
  BY <1>0, <1>1 DEF ClosedBehindTask, Terminal
<1>2. ASSUME NEW e \in Executions, TaskStep(e) \/ StoreFails(e)
      PROVE  ClosedBehindTask'
  BY <1>0, <1>2, TaskCloses, TaskLocal DEF ClosedBehindTask
<1>3. ASSUME NEW e \in Executions, CreateExecution(e) PROVE ClosedBehindTask'
  BY <1>0, <1>3
  DEF CreateExecution, SetRow, Goto, supVars, TypeOK, ClosedBehindTask,
      UnbornTasks, Unborn
<1>4. ASSUME NEW e \in Executions, AbortTask(e) PROVE ClosedBehindTask'
  BY <1>0, <1>4 DEF AbortTask, ForgetTask, Goto, TypeOK, ClosedBehindTask
<1>5. CASE DaemonExit \/ DaemonKilled
  BY <1>0, <1>5 DEF DaemonExit, DaemonKilled, LoseMemory, ClosedBehindTask
<1>6. CASE DaemonStart
  BY <1>0, <1>1, <1>6 DEF DaemonStart, taskVars, supVars
<1>7. ASSUME NEW e \in Executions, SupervisorStep(e) \/ CommandStep(e)
      PROVE  ClosedBehindTask'
  BY <1>0, <1>7, SupervisorFrame, SupervisorLocal
  DEF outside, taskVars, ClosedBehindTask
<1>8. CASE DrainBegin \/ DrainStep \/ DrainFails \/ DrainTimeout
  <2>1. UNCHANGED <<pc, received, sup>>
        /\ \A x \in Executions : row'[x] = row[x] \/ row'[x] = "cancelled"
    BY <1>8, DrainFrame DEF taskVars
  <2> QED
    BY <1>1, <2>1
<1>9. ASSUME NEW c \in Cancellers,
             \/ CallStep(c) \/ CancelFails(c) \/ CancelTimeout(c)
             \/ \E e \in Executions : CancelBegin(c, e)
      PROVE  ClosedBehindTask'
  <2>1. UNCHANGED <<pc, received, sup>>
        /\ \A x \in Executions : row'[x] = row[x] \/ row'[x] = "cancelled"
    BY <1>0, <1>9, CallFrame DEF taskVars, SetRow
  <2> QED
    BY <1>1, <2>1
<1>10. CASE UNCHANGED vars
  BY <1>1, <1>10 DEF vars
<1> QED
  BY <1>2, <1>3, <1>4, <1>5, <1>6, <1>7, <1>8, <1>9, <1>10 DEF Next

\* A task's step counts a failure or leaves the count.
LEMMA TaskFaults ==
    ASSUME NEW e \in Executions, TaskStep(e) \/ StoreFails(e)
    PROVE  UNCHANGED faults \/ StorageFails
<1> USE DEF Jump, shared, daemonVars
<1>1. CASE \/ StartTask(e) \/ AcquireSlot(e) \/ CheckQueued(e)
           \/ SpawnSupervisor(e) \/ Register(e)
  BY <1>1, Zenon DEF StartTask, AcquireSlot, CheckQueued, SpawnSupervisor, Register
<1>2. CASE \/ HandleStarted(e) \/ HandleFinished(e) \/ HandleTornFrame(e)
           \/ StreamEnds(e) \/ RecordOutcome(e)
  BY <1>2, Zenon DEF HandleStarted, HandleFinished, HandleTornFrame, StreamEnds,
      RecordOutcome
<1>3. CASE \/ CommitOutcome(e) \/ NotifyOutcome(e) \/ CloseControl(e)
           \/ ReapSupervisor(e) \/ RecordFailure(e)
  BY <1>3, Zenon DEF CommitOutcome, NotifyOutcome, CloseControl, ReapSupervisor,
      RecordFailure
<1>4. CASE \/ CommitFailure(e) \/ NotifyFailure(e) \/ Unregister(e)
           \/ DropActive(e) \/ WakeIdle(e) \/ StoreFails(e)
  BY <1>4, Zenon DEF CommitFailure, NotifyFailure, Unregister, DropActive, WakeIdle,
      StoreFails
<1> QED
  BY <1>1, <1>2, <1>3, <1>4, Zenon DEF TaskStep

\* A task that never lost a store command ends with its row closed, unless it
\* was turned away at the semaphore by a drain that is about to close the queue;
\* a row it runs is one whose handle cancel() will find.
LEMMA TaskOwns ==
    ASSUME OwnerInv, NEW e \in Executions, TaskStep(e) \/ StoreFails(e),
           up, faults' = 0, drainer \notin GaveUp, row'[e] \in Incomplete
    PROVE  HasTask(e)' /\ HasHandle(e)'
<1>0. /\ row \in [Executions -> RowStates] /\ pc \in [Executions -> TaskStates]
      /\ received \in [Executions -> BOOLEAN]
      /\ verdict \in [Executions -> {"none"} \cup Terminal]
      /\ sup \in [Executions -> SupervisorLive \cup {"none", "exited"}]
      /\ faults \in Nat /\ UnbornTasks /\ QueueStaysEmpty
      /\ pc[e] \in {"record", "commit"} => verdict[e] \in Terminal
      /\ pc[e] \in {"record", "commit", "notify", "close"} =>
           sup[e] \in {"none", "exited"}
      /\ pc[e] = "events" /\ row[e] = "queued" => e \in processes
      /\ ClosedBehindTask
  BY EngineAssumption
  DEF OwnerInv, StopInv, TypeInv, TypeOK, VerdictKnown, QueueInv,
      RecordedAfterExit, QueuedHasHandle
<1>1. faults = 0 /\ UNCHANGED <<drainer, up>>
  <2>1. UNCHANGED faults \/ StorageFails
    BY TaskFaults, Zenon
  <2>2. faults = 0
    BY <1>0, <2>1 DEF StorageFails
  <2> QED
    BY <2>2, TaskFrame
<1>2. row[e] \in Incomplete
  <2>1. row[e] # "absent"
    BY <1>0, TaskBirth DEF UnbornTasks, OwnerInv, StopInv
  <2>2. row[e] \notin Terminal
    BY <1>0 DEF TaskStep, StoreFails, StartTask, AcquireSlot, CheckQueued,
      SpawnSupervisor, Register, HandleStarted, HandleFinished, StreamEnds,
      HandleTornFrame, RecordOutcome, CommitOutcome, NotifyOutcome,
      CloseControl, ReapSupervisor, RecordFailure, CommitFailure,
      NotifyFailure, Unregister, DropActive, WakeIdle, Jump, Goto, SetRow,
      ForgetTask, DropStdout, taskVars, supVars, shared,
        Terminal, Incomplete
  <2> QED
    BY <1>0, <2>1, <2>2 DEF RowStates
<1>3. HasTask(e) /\ HasHandle(e)
  BY <1>1, <1>2 DEF OwnerInv, IncompleteHasOwner
<1>4. HasTask(e)'
  BY <1>0, <1>1, <1>2, <1>3
  DEF HasTask, ClosedBehindTask, UnbornTasks, Unborn, QueueStaysEmpty,
      SlotsClosed, GaveUp, Counted, Holding, Terminal, Incomplete, StorageFails,
      TaskStep, StoreFails, StartTask, AcquireSlot, CheckQueued,
      SpawnSupervisor, Register, HandleStarted, HandleFinished, StreamEnds,
      HandleTornFrame, RecordOutcome, CommitOutcome, NotifyOutcome,
      CloseControl, ReapSupervisor, RecordFailure, CommitFailure,
      NotifyFailure, Unregister, DropActive, WakeIdle, Jump, Goto, SetRow,
      ForgetTask, DropStdout, taskVars, supVars, shared
<1>5. HasHandle(e)'
  BY <1>0, <1>1, <1>2, <1>3
  DEF HasTask, HasHandle, ClosedBehindTask, UnbornTasks, Unborn, Counted,
      Holding, Terminal, Incomplete, StorageFails,
      TaskStep, StoreFails, StartTask, AcquireSlot, CheckQueued,
      SpawnSupervisor, Register, HandleStarted, HandleFinished, StreamEnds,
      HandleTornFrame, RecordOutcome, CommitOutcome, NotifyOutcome,
      CloseControl, ReapSupervisor, RecordFailure, CommitFailure,
      NotifyFailure, Unregister, DropActive, WakeIdle, Jump, Goto, SetRow,
      ForgetTask, DropStdout, taskVars, supVars, shared
<1> QED
  BY <1>4, <1>5

LEMMA OwnerStep == OwnerInv /\ [Next]_vars => IncompleteHasOwner'
<1> SUFFICES ASSUME OwnerInv, [Next]_vars,
                    up', faults' = 0, drainer' \notin GaveUp,
                    NEW x \in Executions, row'[x] \in Incomplete
             PROVE  HasTask(x)' /\ HasHandle(x)'
  BY DEF IncompleteHasOwner
<1>0. /\ StopInv /\ TypeInv /\ TypeOK /\ UnbornTasks /\ QueueInv
      /\ IncompleteHasOwner /\ row \in [Executions -> RowStates]
      /\ faults \in Nat
  BY EngineAssumption DEF OwnerInv, StopInv, TypeInv, TypeOK
\* A step that leaves the tasks alone, and the queue unless it closes it.
<1>1. ASSUME up, faults = 0, drainer \notin GaveUp, UNCHANGED pc,
             row'[x] = row[x],
             x \in processes => x \in processes',
             sup[x] = "exited" => sup'[x] = "exited",
             \/ drainer' = drainer \/ drainer # "cancelQueue"
             \/ row[x] # "queued"
      PROVE  HasTask(x)' /\ HasHandle(x)'
  BY <1>0, <1>1 DEF IncompleteHasOwner, HasTask, HasHandle
<1>2. ASSUME NEW e \in Executions, TaskStep(e) \/ StoreFails(e)
      PROVE  HasTask(x)' /\ HasHandle(x)'
  <2>1. UNCHANGED <<up, drainer>>
    BY <1>2, TaskFrame
  <2>2. CASE x = e
    BY <1>2, <2>1, <2>2, TaskOwns
  <2>3. CASE x # e
    <3>1. UNCHANGED faults \/ StorageFails
      BY <1>2, TaskFaults, Zenon
    <3>2. /\ row'[x] = row[x] /\ pc'[x] = pc[x] /\ sup'[x] = sup[x]
          /\ (x \in processes' <=> x \in processes)
      BY <1>0, <1>2, <2>3, TaskLocal
    <3>3. faults = 0
      BY <1>0, <3>1 DEF StorageFails
    <3>4. HasTask(x) /\ HasHandle(x)
      BY <1>0, <2>1, <3>2, <3>3 DEF IncompleteHasOwner
    <3> QED
      BY <2>1, <3>2, <3>4 DEF HasTask, HasHandle
  <2> QED
    BY <2>2, <2>3
<1>3. ASSUME NEW e \in Executions, CreateExecution(e)
      PROVE  HasTask(x)' /\ HasHandle(x)'
  <2>1. /\ row' = [row EXCEPT ![e] = "queued"] /\ pc' = [pc EXCEPT ![e] = "creating"]
        /\ UNCHANGED <<up, faults, drainer, processes, sup>>
    BY <1>3
    DEF CreateExecution, SetRow, Goto, shared, daemonVars, drainVars, supVars
  <2>2. CASE x = e
    BY <1>0, <2>1, <2>2 DEF HasTask, HasHandle, TypeOK
  <2>3. CASE x # e
    <3>1. row'[x] = row[x] /\ pc'[x] = pc[x]
      BY <1>0, <2>1, <2>3 DEF TypeOK
    <3> QED
      BY <1>0, <2>1, <3>1 DEF IncompleteHasOwner, HasTask, HasHandle
  <2> QED
    BY <2>2, <2>3
<1>4. ASSUME NEW e \in Executions, AbortTask(e)
      PROVE  HasTask(x)' /\ HasHandle(x)'
  BY <1>4 DEF AbortTask, shared, drainVars, GaveUp
<1>5. CASE DaemonExit \/ DaemonKilled
  BY <1>5 DEF DaemonExit, DaemonKilled, LoseMemory
<1>6. CASE DaemonStart
  BY <1>0, <1>6 DEF DaemonStart, Incomplete
<1>7. ASSUME NEW e \in Executions, SupervisorStep(e) \/ CommandStep(e)
      PROVE  HasTask(x)' /\ HasHandle(x)'
  <2>1. /\ UNCHANGED <<row, up, faults, drainer, pc, processes>>
        /\ sup[x] = "exited" => sup'[x] = "exited"
    BY <1>0, <1>7, SupervisorFrame, SupervisorLocal
    DEF outside, shared, daemonVars, drainVars, taskVars, SupervisorLive
  <2> QED
    BY <1>1, <2>1
<1>8. CASE DrainBegin \/ DrainStep \/ DrainFails \/ DrainTimeout
  <2>1. /\ UNCHANGED <<up, pc, sup>> /\ drainer \notin GaveUp
        /\ row'[x] = row[x]
    BY <1>8, DrainFrame DEF taskVars, Incomplete
  <2>2. /\ UNCHANGED faults
        /\ x \in processes => x \in processes'
    BY <1>8
    DEF DrainBegin, DrainStep, DrainFails, DrainTimeout, CloseSlots,
        DrainCancelQueued, DrainSignal, DrainArm, DrainCheck, DrainPark,
        DrainWake, DrainForced, DrainGoto, daemonVars, GaveUp
  <2>3. \/ drainer' = drainer \/ drainer # "cancelQueue" \/ row[x] # "queued"
    BY <1>0, <1>8, <2>1
    DEF DrainBegin, DrainStep, DrainFails, DrainTimeout, CloseSlots,
        DrainCancelQueued, DrainSignal, DrainArm, DrainCheck, DrainPark,
        DrainWake, DrainForced, DrainGoto, GaveUp, Accepting
  <2> QED
    BY <1>1, <2>1, <2>2, <2>3
<1>9. ASSUME NEW c \in Cancellers,
             \/ CallStep(c) \/ CancelFails(c) \/ CancelTimeout(c)
             \/ \E e \in Executions : CancelBegin(c, e)
      PROVE  HasTask(x)' /\ HasHandle(x)'
  <2>1. /\ UNCHANGED <<up, drainer, pc, processes, sup>>
        /\ row'[x] = row[x] \/ row'[x] = "cancelled"
    BY <1>0, <1>9, CallFrame DEF SetRow, taskVars, drainVars
  <2>2. UNCHANGED faults \/ StorageFails
    BY <1>9
    DEF CallStep, CancelFails, CancelTimeout, CancelBegin, CancelQueued,
        CancelRunning, CancelCheck, CancelPark, CancelWake, daemonVars, shared
  <2>3. faults = 0
    BY <1>0, <2>2 DEF StorageFails
  <2> QED
    BY <1>1, <2>1, <2>3 DEF Incomplete
<1>10. CASE UNCHANGED vars
  BY <1>1, <1>10 DEF vars
<1> QED
  BY <1>2, <1>3, <1>4, <1>5, <1>6, <1>7, <1>8, <1>9, <1>10 DEF Next

LEMMA OwnerInvariance == Spec => []OwnerInv
<1>1. Init => ClosedBehindTask /\ IncompleteHasOwner
  BY DEF Init, ClosedBehindTask, IncompleteHasOwner, Incomplete
<1>2. OwnerInv /\ [Next]_vars /\ StopInv' => OwnerInv'
  BY ClosedStep, OwnerStep DEF OwnerInv
<1>3. StopInv /\ ClosedBehindTask /\ IncompleteHasOwner => OwnerInv
  BY DEF OwnerInv
<1> QED
  BY <1>1, <1>2, <1>3, StopInvariance, PTL DEF Spec

\* While no store command failed and no drain gave up, every queued or running
\* row has the task that will close it (or the cancel_queued that drain is about
\* to run), and every running one a handle for cancel() or no supervisor left.
THEOREM OpenRowsAreOwned == Spec => []IncompleteHasOwner
BY OwnerInvariance, PTL DEF OwnerInv

-----------------------------------------------------------------------------
(* Supervisors, permits and the end of a drain.                            *)

\* No step takes a failure back.
LEMMA FaultsStay == TypeOK /\ [Next]_vars /\ faults' = 0 => faults = 0
<1> SUFFICES ASSUME TypeOK, [Next]_vars, faults' = 0 PROVE faults = 0
  OBVIOUS
<1>1. UNCHANGED faults \/ StorageFails
  <2> USE DEF Jump, shared, outside, daemonVars
  <2>1. ASSUME NEW e \in Executions, TaskStep(e) \/ StoreFails(e)
        PROVE  UNCHANGED faults \/ StorageFails
    BY <2>1, TaskFaults, Zenon
  <2>2. ASSUME NEW e \in Executions, CreateExecution(e) \/ AbortTask(e)
        PROVE  UNCHANGED faults
    BY <2>2, Zenon DEF CreateExecution, AbortTask
  <2>3. ASSUME NEW e \in Executions, SupervisorStep(e) \/ CommandStep(e)
        PROVE  UNCHANGED faults
    BY <2>3, Zenon DEF SupervisorStep, CommandStep, SupervisorLaunch,
        SupervisorReadsCancel, SupervisorLosesDaemon, CommandKilled,
        CommandEnds, CommandLingers, SupervisorDies
  <2>4. ASSUME NEW c \in Cancellers, CallStep(c) \/ CancelFails(c) \/ CancelTimeout(c)
        PROVE  UNCHANGED faults \/ StorageFails
    BY <2>4, Zenon DEF CallStep, CancelFails, CancelTimeout, CancelQueued,
        CancelRunning, CancelCheck, CancelPark, CancelWake
  <2>5. ASSUME NEW c \in Cancellers, NEW e \in Executions, CancelBegin(c, e)
        PROVE  UNCHANGED faults
    BY <2>5, Zenon DEF CancelBegin
  <2>6. CASE DrainBegin \/ DrainStep \/ DrainFails \/ DrainTimeout
    BY <2>6, Zenon DEF DrainBegin, DrainStep, DrainFails, DrainTimeout,
        CloseSlots, DrainCancelQueued, DrainSignal, DrainArm, DrainCheck,
        DrainPark, DrainWake, DrainForced, DrainGoto
  <2>7. CASE DaemonExit \/ DaemonKilled \/ DaemonStart
    BY <2>7, Zenon DEF DaemonExit, DaemonKilled, DaemonStart, LoseMemory
  <2>8. CASE UNCHANGED vars
    BY <2>8, Zenon DEF vars
  <2> QED
    BY <2>1, <2>2, <2>3, <2>4, <2>5, <2>6, <2>7, <2>8, Zenon DEF Next
<1>2. faults \in Nat
  BY EngineAssumption DEF TypeOK
<1> QED
  BY <1>1, <1>2 DEF StorageFails

\* A task does not go on without its supervisor's last word, unless storage fails.
LEMMA TaskStays ==
    ASSUME StopInv, LiveHasTask, NEW e \in Executions,
           TaskStep(e) \/ StoreFails(e), faults' = 0, faults = 0,
           drainer \notin GaveUp, sup'[e] \in SupervisorLive
    PROVE  pc'[e] \in {"register", "events", "lost"}
<1>0. /\ pc \in [Executions -> TaskStates]
      /\ sup \in [Executions -> SupervisorLive \cup {"none", "exited"}]
      /\ events[e] \in Seq(Frames) /\ UnbornTasks
      /\ sup[e] \in SupervisorLive => pc[e] \in {"register", "events", "lost"}
  BY DEF StopInv, TypeInv, TypeOK, LiveHasTask
<1>1. events[e] # <<>> /\ sup[e] # "exited" => Head(events[e]) = "started"
  BY <1>0 DEF StopInv, OutcomeIsLast
<1>2. ~StorageFails
  BY DEF StorageFails
<1> QED
  BY <1>0, <1>1, <1>2
  DEF UnbornTasks, Unborn, Terminal, SupervisorLive,
      TaskStep, StoreFails, StartTask, AcquireSlot, CheckQueued,
      SpawnSupervisor, Register, HandleStarted, HandleFinished, StreamEnds,
      HandleTornFrame, RecordOutcome, CommitOutcome, NotifyOutcome,
      CloseControl, ReapSupervisor, RecordFailure, CommitFailure,
      NotifyFailure, Unregister, DropActive, WakeIdle, Jump, Goto, SetRow,
      ForgetTask, DropStdout, taskVars, supVars, shared

LEMMA LiveStep == SlotsInv /\ [Next]_vars => LiveHasTask'
<1> SUFFICES ASSUME SlotsInv, [Next]_vars, faults' = 0, drainer' \notin GaveUp,
                    NEW x \in Executions, sup'[x] \in SupervisorLive
             PROVE  pc'[x] \in {"register", "events", "lost"}
  BY DEF LiveHasTask
<1>0. /\ StopInv /\ TypeOK /\ UnbornTasks /\ LiveHasTask /\ faults = 0
      /\ pc \in [Executions -> TaskStates]
  BY FaultsStay DEF SlotsInv, StopInv, TypeInv, TypeOK
<1>1. ASSUME drainer \notin GaveUp, pc'[x] = pc[x], sup[x] \in SupervisorLive
      PROVE  pc'[x] \in {"register", "events", "lost"}
  BY <1>0, <1>1 DEF LiveHasTask
<1>2. ASSUME NEW e \in Executions, TaskStep(e) \/ StoreFails(e)
      PROVE  pc'[x] \in {"register", "events", "lost"}
  <2>1. drainer \notin GaveUp
    BY <1>2, TaskFrame
  <2> QED
    BY <1>0, <1>1, <1>2, <2>1, TaskLocal, TaskStays
<1>3. ASSUME NEW e \in Executions, CreateExecution(e)
      PROVE  pc'[x] \in {"register", "events", "lost"}
  <2>1. /\ pc[e] = "none" /\ sup' = sup /\ drainer' = drainer
        /\ \A y \in Executions \ {e} : pc'[y] = pc[y]
    BY <1>0, <1>3
    DEF CreateExecution, Goto, supVars, shared, drainVars, UnbornTasks
  <2>2. sup[e] = "none"
    BY <1>0, <2>1 DEF UnbornTasks, Unborn
  <2> QED
    BY <1>1, <2>1, <2>2 DEF SupervisorLive
<1>4. ASSUME NEW e \in Executions, AbortTask(e)
      PROVE  pc'[x] \in {"register", "events", "lost"}
  BY <1>4 DEF AbortTask, shared, drainVars, GaveUp
<1>5. CASE DaemonExit \/ DaemonKilled
  BY <1>0, <1>5
  DEF DaemonExit, DaemonKilled, LoseMemory, UnbornTasks, Unborn, SupervisorLive
<1>6. CASE DaemonStart
  BY <1>1, <1>6 DEF DaemonStart, drainVars, taskVars, supVars
<1>7. ASSUME NEW e \in Executions, SupervisorStep(e) \/ CommandStep(e)
      PROVE  pc'[x] \in {"register", "events", "lost"}
  <2>1. UNCHANGED <<drainer, pc>>
    BY <1>7, SupervisorFrame DEF outside, shared, drainVars, taskVars
  <2>2. sup[x] \in SupervisorLive
    BY <1>0, <1>7, SupervisorLocal
  <2> QED
    BY <1>1, <2>1, <2>2
<1>8. CASE DrainBegin \/ DrainStep \/ DrainFails \/ DrainTimeout
  BY <1>1, <1>8, DrainFrame DEF taskVars
<1>9. ASSUME NEW c \in Cancellers,
             \/ CallStep(c) \/ CancelFails(c) \/ CancelTimeout(c)
             \/ \E e \in Executions : CancelBegin(c, e)
      PROVE  pc'[x] \in {"register", "events", "lost"}
  BY <1>1, <1>9, CallFrame DEF taskVars, drainVars
<1>10. CASE UNCHANGED vars
  BY <1>1, <1>10 DEF vars
<1> QED
  BY <1>2, <1>3, <1>4, <1>5, <1>6, <1>7, <1>8, <1>9, <1>10 DEF Next

\* Once it was started a task is never again one that was not.
LEMMA TaskIsKnown ==
    ASSUME TypeOK, UnbornTasks, NEW e \in Executions,
           TaskStep(e) \/ StoreFails(e)
    PROVE  pc'[e] \notin {"none", "lost", "creating"}
BY DEF TypeOK, UnbornTasks, Unborn,
      TaskStep, StoreFails, StartTask, AcquireSlot, CheckQueued,
      SpawnSupervisor, Register, HandleStarted, HandleFinished, StreamEnds,
      HandleTornFrame, RecordOutcome, CommitOutcome, NotifyOutcome,
      CloseControl, ReapSupervisor, RecordFailure, CommitFailure,
      NotifyFailure, Unregister, DropActive, WakeIdle, Jump, Goto, SetRow,
      ForgetTask, DropStdout, taskVars, supVars, shared

LEMMA WaitedStep == SlotsInv /\ [Next]_vars => DrainWaited'
<1> SUFFICES ASSUME SlotsInv, [Next]_vars PROVE DrainWaited'
  OBVIOUS
<1>0. /\ StopInv /\ TypeOK /\ UnbornTasks /\ QueuedHasHandle /\ DrainWaited
      /\ pc \in [Executions -> TaskStates] /\ faults \in Nat
      /\ processes \in SUBSET Executions
  BY EngineAssumption DEF SlotsInv, StopInv, TypeInv, TypeOK
<1>1. ASSUME UNCHANGED pc, drainer' = drainer, processes' \subseteq processes,
             faults' = 0 => faults = 0
      PROVE  DrainWaited'
  BY <1>0, <1>1 DEF DrainWaited, Active
<1>2. ASSUME NEW e \in Executions, TaskStep(e) \/ StoreFails(e)
      PROVE  DrainWaited'
  <2>1. /\ drainer' = drainer /\ pc[e] \notin {"none", "lost"}
        /\ pc'[e] \notin {"none", "lost", "creating"}
    BY <1>0, <1>2, TaskFrame, TaskBirth, TaskIsKnown DEF StopInv
  <2>2. \A y \in Executions \ {e} :
            pc'[y] = pc[y] /\ (y \in processes' <=> y \in processes)
    BY <1>0, <1>2, TaskLocal
  <2>3. drainer = "stopped" => pc'[e] \notin Counted
    <3>1. drainer = "stopped" => pc[e] \notin Counted \cup {"creating"}
      BY <1>0 DEF DrainWaited, Active
    <3>2. pc[e] \notin Counted \cup {"creating"} => pc'[e] \notin Counted
      BY <1>0, <1>2
      DEF Counted, Holding,
      TaskStep, StoreFails, StartTask, AcquireSlot, CheckQueued,
      SpawnSupervisor, Register, HandleStarted, HandleFinished, StreamEnds,
      HandleTornFrame, RecordOutcome, CommitOutcome, NotifyOutcome,
      CloseControl, ReapSupervisor, RecordFailure, CommitFailure,
      NotifyFailure, Unregister, DropActive, WakeIdle, Jump, Goto, SetRow,
      ForgetTask, DropStdout, taskVars, supVars, shared
    <3> QED
      BY <3>1, <3>2
  <2>4. drainer = "failed" => faults' # 0
    BY <1>0, FaultsStay DEF DrainWaited
  <2> QED
    BY <1>0, <2>1, <2>2, <2>3, <2>4 DEF DrainWaited, Active
<1>3. ASSUME NEW e \in Executions, CreateExecution(e) PROVE DrainWaited'
  BY <1>0, <1>3
  DEF CreateExecution, Accepting, Goto, shared, drainVars, DrainWaited, Active
<1>4. ASSUME NEW e \in Executions, AbortTask(e) PROVE DrainWaited'
  BY <1>0, <1>4
  DEF AbortTask, ForgetTask, Goto, shared, drainVars, daemonVars, DrainWaited,
      Active
<1>5. CASE DaemonExit \/ DaemonKilled
  BY <1>0, <1>5 DEF DaemonExit, DaemonKilled, LoseMemory, DrainWaited, Active
<1>6. CASE DaemonStart
  BY <1>1, <1>6 DEF DaemonStart, drainVars, taskVars
<1>7. ASSUME NEW e \in Executions, SupervisorStep(e) \/ CommandStep(e)
      PROVE  DrainWaited'
  BY <1>1, <1>7, SupervisorFrame
  DEF outside, shared, drainVars, taskVars, daemonVars
<1>8. CASE DrainBegin \/ DrainStep \/ DrainFails \/ DrainTimeout
  <2>1. pc' = pc /\ processes' \subseteq processes
    BY <1>8, DrainFrame DEF taskVars
  <2>2. \A e \in Executions : pc[e] \in {"none", "lost"} => e \notin processes'
    BY <1>0, <2>1 DEF DrainWaited
  <2>3. drainer' # "idle" => \A e \in Executions : pc[e] # "creating"
    BY <1>0, <1>8
    DEF DrainBegin, DrainStep, DrainFails, DrainTimeout, CloseSlots,
        DrainCancelQueued, DrainSignal, DrainArm, DrainCheck, DrainPark,
        DrainWake, DrainForced, DrainWaited
  <2>4. drainer' = "stopped" => Active = {}
    BY <1>0, <1>8
    DEF DrainBegin, DrainStep, DrainFails, DrainTimeout, CloseSlots, DrainGoto,
        DrainCancelQueued, DrainSignal, DrainArm, DrainCheck, DrainPark,
        DrainWake, DrainForced, DrainWaited
  <2>5. drainer' = "failed" => faults' # 0
    <3>1. drainer' = "failed" => DrainFails
      BY <1>8
      DEF DrainBegin, DrainStep, DrainTimeout, CloseSlots, DrainGoto,
          DrainCancelQueued, DrainSignal, DrainArm, DrainCheck, DrainPark,
          DrainWake, DrainForced
    <3>2. DrainFails => faults' = faults + 1
      BY DEF DrainFails, StorageFails
    <3> QED
      BY <1>0, <3>1, <3>2
  <2> QED
    BY <2>1, <2>2, <2>3, <2>4, <2>5 DEF DrainWaited, Active
<1>9. ASSUME NEW c \in Cancellers,
             \/ CallStep(c) \/ CancelFails(c) \/ CancelTimeout(c)
             \/ \E e \in Executions : CancelBegin(c, e)
      PROVE  DrainWaited'
  BY <1>0, <1>1, <1>9, CallFrame, FaultsStay DEF taskVars, drainVars
<1>10. CASE UNCHANGED vars
  BY <1>1, <1>10 DEF vars
<1> QED
  BY <1>2, <1>3, <1>4, <1>5, <1>6, <1>7, <1>8, <1>9, <1>10 DEF Next

\* A task takes a permit while there is one, and takes no other.
LEMMA TaskPermit ==
    ASSUME TypeOK, NEW e \in Executions, TaskStep(e) \/ StoreFails(e)
    PROVE  \/ Permits' \subseteq Permits
           \/ /\ Cardinality(Permits) < MaxConcurrent
              /\ e \notin Permits /\ Permits' = Permits \cup {e}
<1>1. /\ pc \in [Executions -> TaskStates]
      /\ \A x \in Executions \ {e} : pc'[x] = pc[x]
  BY TaskMove DEF TypeOK
<1>2. \/ pc'[e] \in Holding => pc[e] \in Holding
      \/ /\ pc[e] = "slot" /\ pc'[e] = "check"
         /\ Cardinality({x \in Executions : pc[x] \in Holding}) < MaxConcurrent
  BY <1>1
  DEF Holding,
      TaskStep, StoreFails, StartTask, AcquireSlot, CheckQueued,
      SpawnSupervisor, Register, HandleStarted, HandleFinished, StreamEnds,
      HandleTornFrame, RecordOutcome, CommitOutcome, NotifyOutcome,
      CloseControl, ReapSupervisor, RecordFailure, CommitFailure,
      NotifyFailure, Unregister, DropActive, WakeIdle, Jump, Goto, SetRow,
      ForgetTask, DropStdout, taskVars, supVars, shared
<1>3. CASE pc'[e] \in Holding => pc[e] \in Holding
  BY <1>1, <1>3 DEF Permits
<1>4. CASE /\ pc[e] = "slot" /\ pc'[e] = "check"
           /\ Cardinality({x \in Executions : pc[x] \in Holding}) < MaxConcurrent
  <2>1. e \notin Permits /\ Permits' = Permits \cup {e}
    BY <1>1, <1>4 DEF Permits, Holding
  <2>2. Cardinality(Permits) < MaxConcurrent
    BY <1>4 DEF Permits
  <2> QED
    BY <2>1, <2>2
<1> QED
  BY <1>2, <1>3, <1>4

LEMMA PermitStep == SlotsInv /\ [Next]_vars => PermitsHeld'
<1> SUFFICES ASSUME SlotsInv, [Next]_vars PROVE PermitsHeld'
  OBVIOUS
<1>0. /\ TypeOK /\ pc \in [Executions -> TaskStates]
      /\ IsFiniteSet(Permits) /\ Cardinality(Permits) <= MaxConcurrent
      /\ Cardinality(Permits) \in Nat /\ MaxConcurrent \in Nat
  BY FS_CardinalityType, EngineAssumption
  DEF SlotsInv, StopInv, TypeInv, TypeOK, PermitsHeld
<1>1. ASSUME Permits' \subseteq Permits PROVE PermitsHeld'
  <2>1. /\ IsFiniteSet(Permits') /\ Cardinality(Permits') <= Cardinality(Permits)
    BY <1>0, <1>1, FS_Subset
  <2>2. Cardinality(Permits') \in Nat
    BY <2>1, FS_CardinalityType
  <2> QED
    BY <1>0, <2>1, <2>2 DEF PermitsHeld
<1>2. ASSUME NEW e \in Executions, TaskStep(e) \/ StoreFails(e)
      PROVE  PermitsHeld'
  <2>1. CASE /\ Cardinality(Permits) < MaxConcurrent
             /\ e \notin Permits /\ Permits' = Permits \cup {e}
    <3>1. /\ IsFiniteSet(Permits') /\ Cardinality(Permits') = Cardinality(Permits) + 1
      BY <1>0, <2>1, FS_AddElement
    <3> QED
      BY <1>0, <2>1, <3>1 DEF PermitsHeld
  <2> QED
    BY <1>0, <1>1, <1>2, <2>1, TaskPermit
<1>3. ASSUME NEW e \in Executions, CreateExecution(e) \/ AbortTask(e)
      PROVE  PermitsHeld'
  <2>1. Permits' \subseteq Permits
    BY <1>0, <1>3
    DEF CreateExecution, AbortTask, ForgetTask, Goto, Permits, Holding
  <2> QED
    BY <1>1, <2>1
<1>4. CASE DaemonExit \/ DaemonKilled
  <2>1. Permits' \subseteq Permits
    BY <1>4 DEF DaemonExit, DaemonKilled, LoseMemory, Permits, Holding
  <2> QED
    BY <1>1, <2>1
<1>5. CASE UNCHANGED pc
  BY <1>1, <1>5 DEF Permits
<1>6. ASSUME NEW e \in Executions, SupervisorStep(e) \/ CommandStep(e)
      PROVE  UNCHANGED pc
  BY <1>6, SupervisorFrame DEF outside, taskVars
<1>7. CASE DrainBegin \/ DrainStep \/ DrainFails \/ DrainTimeout \/ DaemonStart
  BY <1>5, <1>7, DrainFrame DEF taskVars, DaemonStart
<1>8. ASSUME NEW c \in Cancellers,
             \/ CallStep(c) \/ CancelFails(c) \/ CancelTimeout(c)
             \/ \E e \in Executions : CancelBegin(c, e)
      PROVE  UNCHANGED pc
  BY <1>8, CallFrame DEF taskVars
<1>9. CASE UNCHANGED vars
  BY <1>5, <1>9 DEF vars
<1> QED
  BY <1>2, <1>3, <1>4, <1>5, <1>6, <1>7, <1>8, <1>9 DEF Next

LEMMA SlotsInvariance == Spec => []SlotsInv
<1>1. Init => LiveHasTask /\ DrainWaited /\ PermitsHeld
  <2> SUFFICES ASSUME Init PROVE LiveHasTask /\ DrainWaited /\ PermitsHeld
    OBVIOUS
  <2>1. LiveHasTask /\ DrainWaited
    BY DEF Init, LiveHasTask, DrainWaited, SupervisorLive
  <2>2. Permits = {}
    BY DEF Init, Permits, Holding
  <2> QED
    BY <2>1, <2>2, FS_EmptySet, EngineAssumption DEF PermitsHeld
<1>2. SlotsInv /\ [Next]_vars /\ StopInv' => SlotsInv'
  BY LiveStep, WaitedStep, PermitStep DEF SlotsInv
<1>3. StopInv /\ LiveHasTask /\ DrainWaited /\ PermitsHeld => SlotsInv
  BY DEF SlotsInv
<1> QED
  BY <1>1, <1>2, <1>3, StopInvariance, PTL DEF Spec

\* A drain that ends without its timeout leaves no queued or running row and no
\* command that is this daemon's: wait_for_idle counts every task, and no task
\* ends before its row is closed and its supervisor reaped.
THEOREM DrainLeavesNothing == Spec => []CleanStop
<1>1. OwnerInv /\ SlotsInv => CleanStop
  <2> SUFFICES ASSUME OwnerInv, SlotsInv, drainer = "stopped", faults = 0,
                      NEW e \in Executions
               PROVE  /\ row[e] \notin Incomplete
                      /\ sup[e] \in SupervisorLive => pc[e] = "lost"
    BY DEF CleanStop
  <2>1. up /\ drainer \notin GaveUp
    BY DEF SlotsInv, StopInv, QueueInv, GaveUp
  <2>2. pc[e] \notin Counted \cup {"creating"}
    BY DEF SlotsInv, DrainWaited, Active
  <2>3. row[e] \notin Incomplete
    BY <2>1, <2>2 DEF OwnerInv, IncompleteHasOwner, HasTask
  <2>4. sup[e] \in SupervisorLive => pc[e] = "lost"
    BY <2>1, <2>2 DEF SlotsInv, LiveHasTask, Counted, Holding
  <2> QED
    BY <2>3, <2>4
<1> QED
  BY <1>1, OwnerInvariance, SlotsInvariance, PTL

\* However many executions are requested, no more supervisors than permits run
\* with their control pipe in this daemon's hands, as long as storage works: a
\* task gives its permit back only after the supervisor it held it for.
THEOREM SupervisorsFitSlots == Spec => []LiveWithinSlots
<1>1. SlotsInv => LiveWithinSlots
  <2> SUFFICES ASSUME SlotsInv, faults = 0
               PROVE  Cardinality({e \in Executions :
                         sup[e] \in SupervisorLive /\ ControlOpen(e)})
                        <= MaxConcurrent
    BY DEF LiveWithinSlots
  <2> DEFINE L == {e \in Executions : sup[e] \in SupervisorLive /\ ControlOpen(e)}
  <2>0. /\ LiveHasTask /\ DrainWaited /\ PermitsHeld /\ QueuedHasHandle
        /\ MaxConcurrent \in Nat
    BY EngineAssumption DEF SlotsInv, StopInv
  <2>1. ASSUME NEW e \in L PROVE e \in Permits
    <3>1. CASE OwnsControl(e)
      BY <3>1 DEF OwnsControl, Permits, Holding
    <3>2. CASE e \in processes
      <4>1. drainer \notin GaveUp
        <5>1. up
          BY <2>0, <3>2 DEF QueuedHasHandle
        <5> QED
          BY <2>0, <3>2, <5>1 DEF QueuedHasHandle, DrainWaited, GaveUp
      <4>2. pc[e] \in {"register", "events"}
        BY <2>0, <3>2, <4>1 DEF LiveHasTask, DrainWaited
      <4> QED
        BY <4>2 DEF Permits, Holding
    <3> QED
      BY <3>1, <3>2 DEF ControlOpen
  <2>2. L \subseteq Permits
    BY <2>1
  <2> HIDE DEF L
  <2>3. IsFiniteSet(Permits) /\ Cardinality(Permits) <= MaxConcurrent
    BY <2>0 DEF PermitsHeld
  <2>4. IsFiniteSet(L) /\ Cardinality(L) <= Cardinality(Permits)
    BY <2>2, <2>3, FS_Subset
  <2>5. Cardinality(L) \in Nat /\ Cardinality(Permits) \in Nat
    BY <2>3, <2>4, FS_CardinalityType
  <2>6. Cardinality(L) <= MaxConcurrent
    BY <2>0, <2>3, <2>4, <2>5
  <2> QED
    BY <2>6 DEF L
<1> QED
  BY <1>1, SlotsInvariance, PTL

-----------------------------------------------------------------------------
(* The two pipes of one execution.                                         *)

\* Ways in which a step of the engine is one of the contract, or none.
LEMMA Stutters ==
    ASSUME NEW e \in Executions, sup'[e] = sup[e], events'[e] = events[e],
           e \in stopSent' <=> e \in stopSent,
           \/ sup[e] = "none"
           \/ /\ ControlOpen(e)' <=> ControlOpen(e)
              /\ Reading(e)' <=> Reading(e)
    PROVE  LinkStep(e)
BY DEF LinkStep, Contract!vars

LEMMA Leaves ==
    ASSUME NEW e \in Executions, sup[e] # "none", sup'[e] = sup[e],
           e \in stopSent' <=> e \in stopSent,
           events'[e] = <<>>, ~Reading(e)', ControlOpen(e)' => ControlOpen(e)
    PROVE  LinkStep(e)
BY DEF LinkStep, Contract!Next, Contract!DaemonStep, Contract!Leave

LEMMA Asks ==
    ASSUME NEW e \in Executions, sup[e] # "none", sup'[e] = sup[e],
           e \in stopSent', events'[e] = events[e],
           ControlOpen(e), ControlOpen(e)', Reading(e)' <=> Reading(e)
    PROVE  LinkStep(e)
BY DEF LinkStep, Contract!Next, Contract!DaemonStep, Contract!AskToStop

LEMMA ReadsStarted ==
    ASSUME NEW e \in Executions, sup[e] # "none", sup'[e] = sup[e],
           e \in stopSent => e \in stopSent',
           events[e] # <<>>, Head(events[e]) = "started",
           events'[e] = Tail(events[e]),
           ControlOpen(e), ControlOpen(e)', Reading(e), Reading(e)'
    PROVE  LinkStep(e)
<1>1. Contract(e)!ReadFrame
  BY DEF Contract!ReadFrame
<1> QED
  BY <1>1 DEF LinkStep, Contract!Next, Contract!DaemonStep

\* An outcome is the only frame in its pipe when it is read.
LEMMA LoneFrame ==
    ASSUME NEW S, NEW s \in Seq(S), s # <<>>,
           \A i \in 1 .. Len(s) - 1 : s[i] = "started", Head(s) # "started"
    PROVE  Tail(s) = <<>>
<1>1. Len(s) \in Nat /\ Len(s) # 0 /\ Head(s) = s[1]
  BY EmptySeq
<1>2. ~(1 \in 1 .. Len(s) - 1)
  BY <1>1
<1>3. \A n \in Nat \ {0} : 1 \in 1 .. n - 1 \/ n = 1
  OBVIOUS
<1>4. Len(s) = 1
  BY <1>1, <1>2, <1>3, Zenon
<1>5. Tail(s) \in Seq(S) /\ Len(Tail(s)) = 0
  BY <1>1, <1>4
<1> QED
  BY <1>5, EmptySeq

LEMMA LastFrame ==
    ASSUME TypeOK, PipesKept, NEW e \in Executions,
           events[e] # <<>>, Head(events[e]) # "started"
    PROVE  Tail(events[e]) = <<>>
BY LoneFrame DEF TypeOK, PipesKept

\* Nobody can tell a dropped pipe from one that was never read.
LEMMA Withdraws ==
    ASSUME LinkInv, NEW e \in Executions, sup'[e] = sup[e],
           e \in stopSent' <=> e \in stopSent,
           events'[e] = <<>> \/ (events'[e] = events[e] /\ ~Reading(e)),
           ~Reading(e)', ControlOpen(e)' => ControlOpen(e)
    PROVE  LinkStep(e)
<1>1. /\ events[e] # <<>> => Reading(e)
      /\ Reading(e) => sup[e] # "none"
  BY DEF LinkInv, PipesKept, OwnerInv, ClosedBehindTask, Reading
<1>2. CASE sup[e] = "none"
  BY <1>1, <1>2, Stutters
<1>3. CASE sup[e] # "none"
  BY <1>1, <1>3, Leaves
<1> QED
  BY <1>2, <1>3

\* A task that does not read its supervisor, or gives up doing so, only ever
\* lets go of its pipes.
LEMMA QuietTask ==
    ASSUME LinkInv, NEW e \in Executions,
           \/ StartTask(e) \/ AcquireSlot(e) \/ CheckQueued(e) \/ StreamEnds(e)
           \/ RecordOutcome(e) \/ CommitOutcome(e) \/ NotifyOutcome(e)
           \/ CloseControl(e) \/ ReapSupervisor(e) \/ RecordFailure(e)
           \/ CommitFailure(e) \/ NotifyFailure(e) \/ Unregister(e)
           \/ DropActive(e) \/ WakeIdle(e) \/ StoreFails(e) \/ AbortTask(e)
    PROVE  LinkStep(e)
<1>0. /\ pc \in [Executions -> TaskStates] /\ received \in [Executions -> BOOLEAN]
      /\ events \in [Executions -> Seq(Frames)]
  BY DEF LinkInv, OwnerInv, StopInv, TypeInv, TypeOK
<1>1. sup'[e] = sup[e] /\ stopSent' = stopSent
  BY Zenon
  DEF StartTask, AcquireSlot, CheckQueued, StreamEnds, RecordOutcome,
      CommitOutcome, NotifyOutcome, CloseControl, ReapSupervisor,
      RecordFailure, CommitFailure, NotifyFailure, Unregister, DropActive,
      WakeIdle, StoreFails, AbortTask, Jump, supVars
<1>2. pc'[e] \notin {"register", "events"}
  BY <1>0
  DEF StartTask, AcquireSlot, CheckQueued, StreamEnds, RecordOutcome,
      CommitOutcome, NotifyOutcome, CloseControl, ReapSupervisor,
      RecordFailure, CommitFailure, NotifyFailure, Unregister, DropActive,
      WakeIdle, StoreFails, AbortTask, ForgetTask, Jump, Goto
<1>3. \/ events'[e] = <<>>
      \/ events'[e] = events[e] /\ pc[e] \notin {"register", "events"}
  BY <1>0
  DEF StartTask, AcquireSlot, CheckQueued, StreamEnds, RecordOutcome,
      CommitOutcome, NotifyOutcome, CloseControl, ReapSupervisor,
      RecordFailure, CommitFailure, NotifyFailure, Unregister, DropActive,
      WakeIdle, StoreFails, AbortTask, DropStdout, Jump, supVars
<1>4. /\ e \in processes' => e \in processes
      /\ OwnsControl(e)' => OwnsControl(e)
  BY <1>0
  DEF StartTask, AcquireSlot, CheckQueued, StreamEnds, RecordOutcome,
      CommitOutcome, NotifyOutcome, CloseControl, ReapSupervisor,
      RecordFailure, CommitFailure, NotifyFailure, Unregister, DropActive,
      WakeIdle, StoreFails, AbortTask, ForgetTask, Jump, Goto, OwnsControl, taskVars
<1> QED
  BY <1>1, <1>2, <1>3, <1>4, Withdraws DEF Reading, ControlOpen

\* A task that starts or reads its supervisor.
LEMMA BusyTask ==
    ASSUME LinkInv, NEW e \in Executions,
           \/ SpawnSupervisor(e) \/ Register(e) \/ HandleStarted(e)
           \/ HandleFinished(e) \/ HandleTornFrame(e)
    PROVE  LinkStep(e)
<1>0. /\ pc \in [Executions -> TaskStates] /\ received \in [Executions -> BOOLEAN]
      /\ events \in [Executions -> Seq(Frames)]
      /\ sup \in [Executions -> SupervisorLive \cup {"none", "exited"}]
      /\ TypeOK /\ PipesKept
      /\ pc[e] = "spawn" => sup[e] = "none"
      /\ pc[e] \in {"register", "events"} => sup[e] # "none"
  BY DEF LinkInv, OwnerInv, StopInv, TypeInv, TypeOK, UnbornTasks, Unborn,
         ClosedBehindTask
<1>1. CASE SpawnSupervisor(e)
  <2>1. pc[e] = "spawn" /\ sup[e] = "none" /\ UNCHANGED <<stopSent, events, processes>>
    BY <1>0, <1>1 DEF SpawnSupervisor
  <2>2. CASE sup'[e] = "booting" /\ pc'[e] = "register"
    BY <2>1, <2>2 DEF LinkStep, Contract!vars, ControlOpen, OwnsControl, Reading
  <2>3. CASE sup'[e] = sup[e]
    BY <2>1, <2>3, Stutters
  <2> QED
    BY <1>0, <1>1, <2>2, <2>3 DEF SpawnSupervisor, Goto
<1>2. CASE Register(e)
  <2>1. /\ pc[e] = "register" /\ pc'[e] = "events" /\ UNCHANGED <<sup, events>>
        /\ UNCHANGED stopSent \/ stopSent' = stopSent \cup {e}
    BY <1>0, <1>2 DEF Register, Goto
  <2>2. ControlOpen(e) /\ ControlOpen(e)' /\ Reading(e) /\ Reading(e)'
    BY <2>1 DEF ControlOpen, OwnsControl, Reading
  <2>3. CASE UNCHANGED stopSent
    BY <2>1, <2>2, <2>3, Stutters
  <2>4. CASE stopSent' = stopSent \cup {e}
    BY <1>0, <2>1, <2>2, <2>4, Asks
  <2> QED
    BY <2>1, <2>3, <2>4
<1>3. CASE HandleStarted(e)
  <2>1. /\ pc[e] = "events" /\ UNCHANGED <<sup, pc>> /\ stopSent \subseteq stopSent'
        /\ events[e] # <<>> /\ Head(events[e]) = "started"
        /\ events'[e] = Tail(events[e])
    BY <1>0, <1>3 DEF HandleStarted, taskVars
  <2>2. ControlOpen(e) /\ ControlOpen(e)' /\ Reading(e) /\ Reading(e)'
    BY <2>1 DEF ControlOpen, OwnsControl, Reading
  <2> QED
    BY <1>0, <2>1, <2>2, ReadsStarted
<1>4. CASE HandleFinished(e) \/ HandleTornFrame(e)
  <2>1. /\ pc[e] = "events" /\ UNCHANGED <<sup, stopSent, processes>>
        /\ events[e] # <<>> /\ Head(events[e]) # "started"
        /\ events'[e] = Tail(events[e])
    BY <1>0, <1>4 DEF HandleFinished, HandleTornFrame, Terminal
  <2>2. /\ Reading(e) /\ ControlOpen(e)
        /\ pc'[e] \in {"record", "failed"}
    BY <1>0, <1>4, <2>1
    DEF HandleFinished, HandleTornFrame, Goto, Reading, ControlOpen, OwnsControl
  <2>3. ~Reading(e)'
    BY <2>2 DEF Reading
  <2>4. events'[e] = <<>>
    BY <1>0, <2>1, LastFrame
  <2> QED
    BY <1>0, <2>1, <2>2, <2>3, <2>4, Leaves
<1> QED
  BY <1>1, <1>2, <1>3, <1>4

\* A step that touches nothing but one supervisor and what it says.
OnlySupervisor(e) ==
    /\ sup[e] # "none" /\ sup'[e] # "none"
    /\ sup' = [sup EXCEPT ![e] = sup'[e]]
    /\ events' = [events EXCEPT ![e] = events'[e]]
    /\ UNCHANGED <<outside, stopSent>>

\* Nothing else changes when a supervisor moves.
LEMMA SupervisorAlone ==
    ASSUME TypeOK, NEW e \in Executions, SupervisorStep(e) \/ CommandStep(e)
    PROVE  OnlySupervisor(e)
BY DEF SupervisorStep, CommandStep, CommandLingers, CommandEnds, SupervisorDies,
      SupervisorLaunch, SupervisorReadsCancel, SupervisorLosesDaemon, TypeOK,
      CommandKilled, SupBecomes, Emit, SupervisorLive, OnlySupervisor

LEMMA SaysFrame ==
    ASSUME TypeOK, NEW e \in Executions, OnlySupervisor(e), NEW frame
    PROVE  Contract(e)!Say(frame) <=> Emit(e, frame)
BY DEF TypeOK, OnlySupervisor, Contract!Say, Emit

LEMMA PipesStand ==
    ASSUME TypeOK, NEW e \in Executions, OnlySupervisor(e)
    PROVE  /\ ControlOpen(e)' <=> ControlOpen(e)
           /\ Reading(e)' <=> Reading(e)
           /\ UNCHANGED stopSent
BY DEF OnlySupervisor, ControlOpen, OwnsControl, Reading, outside, taskVars

\* The engine assumes of a supervisor exactly what the contract has it do: a step
\* of one execution's supervisor, or of its command, is a step of the contract's
\* supervisor, and whatever step the contract allows, this one may take.
THEOREM SameSupervisor ==
    ASSUME TypeOK, CancelWasAsked, NEW e \in Executions, OnlySupervisor(e)
    PROVE  SupervisorStep(e) \/ CommandStep(e) <=> Contract(e)!SupervisorStep
<1>0. /\ sup \in [Executions -> SupervisorLive \cup {"none", "exited"}]
      /\ events \in [Executions -> Seq(Frames)]
      /\ sup[e] # "none" /\ sup'[e] # "none"
      /\ \A state : SupBecomes(e, state) <=> sup'[e] = state
      /\ UNCHANGED events <=> events'[e] = events[e]
      /\ UNCHANGED <<outside, stopSent>>
  BY DEF TypeOK, OnlySupervisor, SupBecomes
<1>1. /\ ControlOpen(e)' <=> ControlOpen(e)
      /\ Reading(e)' <=> Reading(e)
  BY PipesStand
<1>2. \A frame : Contract(e)!Say(frame) <=> Emit(e, frame)
  BY SaysFrame
<1> HIDE DEF Emit, SupBecomes
<1>3. SupervisorLaunch(e) <=> Contract(e)!Launch
  BY <1>0, <1>1, <1>2 DEF SupervisorLaunch, Contract!Launch
<1>4. SupervisorReadsCancel(e) <=> Contract(e)!HearCancel
  BY <1>0, <1>1, <1>2 DEF SupervisorReadsCancel, Contract!HearCancel
<1>5. SupervisorLosesDaemon(e) <=> Contract(e)!LoseDaemon
  BY <1>0, <1>1, <1>2 DEF SupervisorLosesDaemon, Contract!LoseDaemon
<1>6. CommandLingers(e) <=> Contract(e)!Linger
  BY <1>0, <1>1, <1>2 DEF CommandLingers, Contract!Linger, Contract!Started
<1>7. CommandEnds(e) \/ CommandKilled(e) => Contract(e)!Report \/ Contract(e)!Vanish
  <2>1. ASSUME NEW outcome \in Contract(e)!Outcomes, Emit(e, outcome),
               sup[e] \in {"alive", "cancelling", "lingering"}, sup'[e] = "exited",
               outcome = "cancelled" => e \in stopSent /\ sup[e] # "alive",
               outcome = "finished" => sup[e] # "cancelling"
        PROVE  Contract(e)!Report
    BY <1>0, <1>1, <1>2, <2>1 DEF Contract!Report
  <2>2. ASSUME UNCHANGED events, sup[e] # "exited", sup'[e] = "exited"
        PROVE  Contract(e)!Vanish
    BY <1>0, <1>1, <2>2 DEF Contract!Vanish
  <2>3. ASSUME CommandEnds(e)
        PROVE  Contract(e)!Report \/ Contract(e)!Vanish
    BY <1>0, <2>1, <2>2, <2>3 DEF CommandEnds, Contract!Outcomes
  <2>4. ASSUME CommandKilled(e)
        PROVE  Contract(e)!Report \/ Contract(e)!Vanish
    BY <1>0, <2>1, <2>2, <2>4 DEF CommandKilled, CancelWasAsked, Contract!Outcomes
  <2> QED
    BY <2>3, <2>4
<1>8. SupervisorDies(e) <=> Contract(e)!Vanish
  BY <1>0, <1>1, <1>2 DEF SupervisorDies, Contract!Vanish, SupervisorLive
<1>9. Contract(e)!Report => CommandEnds(e) \/ CommandKilled(e)
  BY <1>0, <1>1, <1>2 DEF CommandEnds, CommandKilled, Contract!Report, Contract!Outcomes
<1> QED
  BY <1>3, <1>4, <1>5, <1>6, <1>7, <1>8, <1>9
  DEF SupervisorStep, CommandStep, Contract!SupervisorStep

\* Frames are taken from the front of a pipe and added at its end.
LEMMA FrameTaken ==
    ASSUME NEW S, NEW s \in Seq(S), s # <<>>,
           \A i \in 1 .. Len(s) - 1 : s[i] = "started"
    PROVE  \A i \in 1 .. Len(Tail(s)) - 1 : Tail(s)[i] = "started"
<1> SUFFICES ASSUME NEW i \in 1 .. Len(Tail(s)) - 1 PROVE Tail(s)[i] = "started"
  OBVIOUS
<1>1. Len(s) \in Nat \ {0}
  BY EmptySeq
<1>2. Len(Tail(s)) = Len(s) - 1
  BY <1>1
<1>3. i \in Nat /\ i \in 1 .. Len(Tail(s)) /\ i + 1 \in 1 .. Len(s) - 1
  BY <1>1, <1>2
<1>4. Tail(s)[i] = s[i + 1]
  BY <1>3
<1> QED
  BY <1>3, <1>4

LEMMA FrameAdded ==
    ASSUME NEW S, NEW s \in Seq(S), NEW frame,
           \A i \in 1 .. Len(s) : s[i] = "started"
    PROVE  \A i \in 1 .. Len(Append(s, frame)) - 1 :
             Append(s, frame)[i] = "started"
<1>1. Len(Append(s, frame)) - 1 = Len(s)
  BY LenProperties
<1> QED
  BY <1>1

\* A task that stops reading has read all there will ever be, or drops it.
LEMMA TaskStopsReading ==
    ASSUME TypeOK, NEW e \in Executions, TaskStep(e) \/ StoreFails(e),
           pc[e] \in {"register", "events"}
    PROVE  \/ pc'[e] \in {"register", "events"}
           \/ events'[e] = <<>>
           \/ /\ events[e] # <<>> /\ Head(events[e]) # "started"
              /\ events'[e] = Tail(events[e])
BY DEF TypeOK, TaskStep, StoreFails, StartTask, AcquireSlot, CheckQueued,
       SpawnSupervisor, Register, HandleStarted, HandleFinished, StreamEnds,
       HandleTornFrame, RecordOutcome, CommitOutcome, NotifyOutcome,
       CloseControl, ReapSupervisor, RecordFailure, CommitFailure,
       NotifyFailure, Unregister, DropActive, WakeIdle, Jump, Goto, SetRow,
       ForgetTask, DropStdout, taskVars, supVars, shared, Terminal

\* An exited supervisor says nothing, a live one a frame at a time.
LEMMA SupervisorWrites ==
    ASSUME TypeOK, NEW e \in Executions, SupervisorStep(e) \/ CommandStep(e)
    PROVE  /\ sup[e] # "exited"
           /\ \/ events'[e] = events[e]
              \/ Reading(e) /\ \E frame : events'[e] = Append(events[e], frame)
<1>1. sup[e] # "exited"
  BY SupervisorLocal DEF SupervisorLive
<1>2. UNCHANGED events \/ \E frame : Emit(e, frame)
  BY Zenon
  DEF SupervisorStep, CommandStep, CommandLingers, CommandEnds, SupervisorDies,
      SupervisorLaunch, SupervisorReadsCancel, SupervisorLosesDaemon,
      CommandKilled
<1>3. ASSUME NEW frame, Emit(e, frame)
      PROVE  \/ events'[e] = events[e]
             \/ Reading(e) /\ events'[e] = Append(events[e], frame)
  <2>1. CASE Reading(e)
    <3>1. events' = [events EXCEPT ![e] = Append(events[e], frame)]
      BY <1>3, <2>1, Zenon DEF Emit
    <3> QED
      BY <2>1, <3>1, Zenon DEF TypeOK
  <2>2. CASE ~Reading(e)
    BY <1>3, <2>2 DEF Emit, Reading
  <2> QED
    BY <2>1, <2>2
<1> QED
  BY <1>1, <1>2, <1>3, Zenon

\* PipesKept, one group of steps after the other.
LEMMA PipesStep == LinkInv /\ [Next]_vars => PipesKept'
<1> SUFFICES ASSUME LinkInv, [Next]_vars, NEW x \in Executions
             PROVE  /\ events'[x] # <<>> => Reading(x)'
                    /\ \A i \in 1 .. Len(events'[x]) - 1 : events'[x][i] = "started"
                    /\ x \in processes' => sup'[x] # "none"
  BY DEF PipesKept
<1>0. /\ StopInv /\ TypeOK /\ UnbornTasks /\ OutcomeIsLast /\ ClosedBehindTask
      /\ PipesKept /\ events \in [Executions -> Seq(Frames)]
      /\ pc \in [Executions -> TaskStates]
      /\ events[x] # <<>> => Reading(x)
      /\ \A i \in 1 .. Len(events[x]) - 1 : events[x][i] = "started"
      /\ x \in processes => sup[x] # "none"
  BY DEF LinkInv, OwnerInv, StopInv, TypeInv, TypeOK, PipesKept
<1>1. ASSUME \/ events'[x] = events[x] /\ pc'[x] = pc[x] /\ sup'[x] = sup[x]
             \/ events'[x] = <<>> /\ sup'[x] = sup[x],
             x \in processes' => x \in processes
      PROVE  /\ events'[x] # <<>> => Reading(x)'
             /\ \A i \in 1 .. Len(events'[x]) - 1 : events'[x][i] = "started"
             /\ x \in processes' => sup'[x] # "none"
  <2>1. CASE events'[x] = events[x] /\ pc'[x] = pc[x] /\ sup'[x] = sup[x]
    BY <1>0, <1>1, <2>1 DEF Reading
  <2>2. CASE events'[x] = <<>> /\ sup'[x] = sup[x]
    BY <1>0, <1>1, <2>2
  <2> QED
    BY <1>1, <2>1, <2>2
<1>2. ASSUME NEW e \in Executions, TaskStep(e) \/ StoreFails(e)
      PROVE  /\ events'[x] # <<>> => Reading(x)'
             /\ \A i \in 1 .. Len(events'[x]) - 1 : events'[x][i] = "started"
             /\ x \in processes' => sup'[x] # "none"
  <2>1. CASE x # e
    <3>1. /\ pc'[x] = pc[x] /\ sup'[x] = sup[x] /\ events'[x] = events[x]
          /\ x \in processes' <=> x \in processes
      BY <1>0, <1>2, <2>1, TaskLocal
    <3> QED
      BY <1>1, <3>1
  <2>2. CASE x = e
    <3>1. events'[x] # <<>> => Reading(x)'
      <4>1. CASE Reading(x)
        <5>1. pc[x] \in {"register", "events"}
          BY <4>1 DEF Reading
        <5>2. pc'[x] \in {"register", "events"} \/ events'[x] = <<>>
          BY <1>0, <1>2, <2>2, <5>1, TaskStopsReading, LastFrame
        <5> QED
          BY <5>2 DEF Reading
      <4>2. CASE ~Reading(x)
        BY <1>0, <1>2, <2>2, <4>2, TaskReads
      <4> QED
        BY <4>1, <4>2
    <3>2. \A i \in 1 .. Len(events'[x]) - 1 : events'[x][i] = "started"
      <4>1. CASE events'[x] = events[x]
        BY <1>0, <4>1
      <4>2. CASE events'[x] = <<>>
        BY <4>2
      <4>3. CASE events[x] # <<>> /\ events'[x] = Tail(events[x])
        BY <1>0, <4>3, FrameTaken
      <4> QED
        BY <1>0, <1>2, <2>2, <4>1, <4>2, <4>3, TaskReads
    <3>3. x \in processes' => sup'[x] # "none"
      <4>1. sup'[x] = sup[x] \/ sup'[x] = "booting"
        BY <1>0, <1>2, <2>2, TaskSpawns
      <4>2. x \in processes' => sup[x] # "none"
        BY <1>0, <1>2, <2>2, TaskRegisters DEF ClosedBehindTask, StopInv
      <4> QED
        BY <4>1, <4>2
    <3> QED
      BY <3>1, <3>2, <3>3
  <2> QED
    BY <2>1, <2>2
<1>3. ASSUME NEW e \in Executions, CreateExecution(e) \/ AbortTask(e)
      PROVE  /\ events'[x] # <<>> => Reading(x)'
             /\ \A i \in 1 .. Len(events'[x]) - 1 : events'[x][i] = "started"
             /\ x \in processes' => sup'[x] # "none"
  <2>1. /\ UNCHANGED <<sup, processes>>
        /\ x # e => pc'[x] = pc[x] /\ events'[x] = events[x]
    BY <1>0, <1>3
    DEF CreateExecution, AbortTask, ForgetTask, DropStdout, Goto, supVars
  <2>2. events'[e] = <<>>
    <3>1. CASE AbortTask(e)
      BY <1>0, <3>1 DEF AbortTask, DropStdout
    <3>2. CASE CreateExecution(e)
      <4>1. pc[e] = "none" /\ events' = events
        BY <1>0, <3>2 DEF CreateExecution, supVars, UnbornTasks
      <4> QED
        BY <1>0, <4>1 DEF PipesKept, Reading
    <3> QED
      BY <1>3, <3>1, <3>2
  <2> QED
    BY <1>1, <2>1, <2>2
<1>4. CASE DaemonExit \/ DaemonKilled
  BY <1>1, <1>4 DEF DaemonExit, DaemonKilled, LoseMemory
<1>5. CASE UNCHANGED <<events, pc, sup>> /\ processes' \subseteq processes
  BY <1>1, <1>5
<1>6. ASSUME NEW e \in Executions, SupervisorStep(e) \/ CommandStep(e)
      PROVE  /\ events'[x] # <<>> => Reading(x)'
             /\ \A i \in 1 .. Len(events'[x]) - 1 : events'[x][i] = "started"
             /\ x \in processes' => sup'[x] # "none"
  <2>1. UNCHANGED <<pc, processes>>
    BY <1>6, SupervisorFrame DEF outside, taskVars
  <2>2. CASE x # e
    BY <1>0, <1>1, <1>6, <2>1, <2>2, SupervisorLocal
  <2>3. CASE x = e
    <3>1. sup'[x] # "none" /\ sup[x] # "exited"
      BY <1>0, <1>6, <2>3, SupervisorLocal, SupervisorWrites
    <3>2. CASE events'[x] = events[x]
      BY <1>0, <2>1, <3>1, <3>2 DEF Reading
    <3>3. CASE Reading(x) /\ \E frame : events'[x] = Append(events[x], frame)
      <4>1. PICK frame : events'[x] = Append(events[x], frame)
        BY <3>3, Zenon
      <4>2. \A i \in 1 .. Len(events[x]) : events[x][i] = "started"
        BY <1>0, <3>1 DEF OutcomeIsLast
      <4>3. \A i \in 1 .. Len(events'[x]) - 1 : events'[x][i] = "started"
        <5>1. events[x] \in Seq(Frames)
          BY <1>0
        <5> QED
          BY <4>1, <4>2, <5>1, FrameAdded
      <4> QED
        BY <2>1, <3>1, <3>3, <4>3 DEF Reading
    <3>4. \/ events'[x] = events[x]
          \/ Reading(x) /\ \E frame : events'[x] = Append(events[x], frame)
      BY <1>0, <1>6, <2>3, SupervisorWrites
    <3> QED
      BY <3>2, <3>3, <3>4, Zenon
  <2> QED
    BY <2>2, <2>3
<1>7. CASE DrainBegin \/ DrainStep \/ DrainFails \/ DrainTimeout
  BY <1>5, <1>7, DrainFrame DEF taskVars
<1>8. ASSUME NEW c \in Cancellers,
             \/ CallStep(c) \/ CancelFails(c) \/ CancelTimeout(c)
             \/ \E e \in Executions : CancelBegin(c, e)
      PROVE  /\ events'[x] # <<>> => Reading(x)'
             /\ \A i \in 1 .. Len(events'[x]) - 1 : events'[x][i] = "started"
             /\ x \in processes' => sup'[x] # "none"
  BY <1>5, <1>8, CallFrame DEF taskVars
<1>9. CASE DaemonStart \/ UNCHANGED vars
  BY <1>5, <1>9 DEF DaemonStart, vars, taskVars, supVars
<1> QED
  BY <1>2, <1>3, <1>4, <1>6, <1>7, <1>8, <1>9 DEF Next

\* What others do may ask for a stop through the handle, or drop it.
LEMMA OthersAct ==
    ASSUME LinkInv, NEW x \in Executions,
           sup'[x] = sup[x], events'[x] = events[x], pc'[x] = pc[x],
           received'[x] = received[x], x \in processes' => x \in processes,
           x \in stopSent => x \in stopSent',
           x \in stopSent' /\ x \notin stopSent => x \in processes /\ x \in processes'
    PROVE  LinkStep(x)
<1>1. /\ x \in processes => sup[x] # "none"
      /\ Reading(x)' <=> Reading(x)
      /\ OwnsControl(x)' <=> OwnsControl(x)
  BY DEF LinkInv, PipesKept, Reading, OwnsControl
<1>2. CASE x \in stopSent' /\ x \notin stopSent
  BY <1>1, <1>2, Asks DEF ControlOpen
<1>3. CASE (x \in stopSent' <=> x \in stopSent) /\ Reading(x)
  <2>1. ControlOpen(x) /\ ControlOpen(x)'
    BY <1>1, <1>3 DEF ControlOpen, OwnsControl, Reading
  <2> QED
    BY <1>1, <1>3, <2>1, Stutters
<1>4. CASE (x \in stopSent' <=> x \in stopSent) /\ ~Reading(x)
  BY <1>1, <1>4, Withdraws DEF ControlOpen
<1> QED
  BY <1>2, <1>3, <1>4

\* cancel() and drain() write Cancel to pipes they hold a handle of.
LEMMA CallAsks ==
    ASSUME NEW c \in Cancellers,
           \/ CallStep(c) \/ CancelFails(c) \/ CancelTimeout(c)
           \/ \E e \in Executions : CancelBegin(c, e)
    PROVE  stopSent \subseteq stopSent' /\ stopSent' \subseteq stopSent \cup processes
BY DEF CallStep, CancelFails, CancelTimeout, CancelBegin, CancelQueued,
       CancelRunning, CancelCheck, CancelPark, CancelWake, supVars

LEMMA DrainAsks ==
    ASSUME DrainBegin \/ DrainStep \/ DrainFails \/ DrainTimeout
    PROVE  /\ stopSent \subseteq stopSent' /\ stopSent' \subseteq stopSent \cup processes
           /\ UNCHANGED stopSent \/ UNCHANGED processes
BY DEF DrainBegin, DrainStep, DrainFails, DrainTimeout, CloseSlots, Accepting,
       DrainCancelQueued, DrainSignal, DrainArm, DrainCheck, DrainPark, supVars,
       DrainWake, DrainForced, DrainGoto

\* Every step of the engine is one of the contract for every execution.
LEMMA LinkKept ==
    ASSUME LinkInv, [Next]_vars, NEW x \in Executions
    PROVE  LinkStep(x)
<1>0. /\ AskedInv /\ OwnerInv /\ StopInv /\ TypeOK /\ UnbornTasks /\ ClosedBehindTask
      /\ CancelWasAsked /\ PipesKept /\ pc \in [Executions -> TaskStates]
      /\ received \in [Executions -> BOOLEAN]
      /\ events \in [Executions -> Seq(Frames)]
  BY DEF LinkInv, AskedInv, OwnerInv, StopInv, TypeInv, TypeOK
<1>1. ASSUME UNCHANGED <<sup, events, pc, received>>, processes' \subseteq processes,
             stopSent \subseteq stopSent', stopSent' \subseteq stopSent \cup processes,
             UNCHANGED stopSent \/ UNCHANGED processes
      PROVE  LinkStep(x)
  BY <1>1, OthersAct
<1>2. ASSUME NEW e \in Executions, TaskStep(e) \/ StoreFails(e)
      PROVE  LinkStep(x)
  <2>1. CASE x # e
    <3>1. /\ pc'[x] = pc[x] /\ sup'[x] = sup[x] /\ events'[x] = events[x]
          /\ x \in processes' <=> x \in processes
      BY <1>0, <1>2, <2>1, TaskLocal
    <3>2. received'[x] = received[x]
      BY <1>0, <1>2, <2>1, TaskCloses
    <3>3. x \in stopSent' <=> x \in stopSent
      BY <1>0, <1>2, <2>1, TaskAsks
    <3> QED
      BY <3>1, <3>2, <3>3, OthersAct
  <2>2. CASE x = e
    <3>1. TaskStep(x) \/ StoreFails(x)
      BY <1>2, <2>2, Zenon
    <3> QED
      BY <3>1, QuietTask, BusyTask, Zenon DEF TaskStep
  <2> QED
    BY <2>1, <2>2
<1>3. ASSUME NEW e \in Executions, AbortTask(e)
      PROVE  LinkStep(x)
  <2>1. CASE x # e
    <3>1. /\ pc'[x] = pc[x] /\ received'[x] = received[x] /\ events'[x] = events[x]
          /\ UNCHANGED <<sup, stopSent, processes>>
      BY <1>0, <1>3, <2>1 DEF AbortTask, ForgetTask, DropStdout, Goto
    <3> QED
      BY <3>1, OthersAct
  <2>2. CASE x = e
    BY <1>3, <2>2, QuietTask
  <2> QED
    BY <2>1, <2>2
<1>4. ASSUME NEW e \in Executions, CreateExecution(e)
      PROVE  LinkStep(x)
  <2>1. /\ x # e => pc'[x] = pc[x]
        /\ UNCHANGED <<sup, stopSent, processes, events, received>>
        /\ sup[e] = "none"
    BY <1>0, <1>4 DEF CreateExecution, Goto, supVars, UnbornTasks, Unborn
  <2>2. CASE x # e
    BY <2>1, <2>2, OthersAct
  <2>3. CASE x = e
    BY <2>1, <2>3, Stutters
  <2> QED
    BY <2>2, <2>3
<1>5. CASE DaemonExit \/ DaemonKilled
  <2>1. LoseMemory
    BY <1>5 DEF DaemonExit, DaemonKilled
  <2>2. /\ sup' = sup /\ stopSent' = stopSent /\ events'[x] = <<>>
        /\ processes' = {} /\ pc'[x] \in {"none", "lost"}
    BY <2>1 DEF LoseMemory
  <2>3. ~Reading(x)' /\ ~ControlOpen(x)'
    BY <2>2 DEF Reading, ControlOpen, OwnsControl
  <2> QED
    BY <2>2, <2>3, Withdraws
<1>6. ASSUME NEW e \in Executions, SupervisorStep(e) \/ CommandStep(e)
      PROVE  LinkStep(x)
  <2>1. OnlySupervisor(e)
    BY <1>0, <1>6, SupervisorAlone
  <2>2. CASE x # e
    <3>1. /\ sup'[x] = sup[x] /\ events'[x] = events[x]
          /\ UNCHANGED <<pc, received, processes, stopSent>>
      BY <1>0, <1>6, <2>1, <2>2, SupervisorLocal DEF OnlySupervisor, outside, taskVars
    <3> QED
      BY <3>1, OthersAct
  <2>3. CASE x = e
    <3>1. Contract(e)!SupervisorStep
      BY <1>0, <1>6, <2>1, SameSupervisor, Zenon
    <3> QED
      BY <2>3, <3>1, Zenon DEF LinkStep, Contract!Next
  <2> QED
    BY <2>2, <2>3
<1>7. CASE DrainBegin \/ DrainStep \/ DrainFails \/ DrainTimeout
  <2>1. UNCHANGED <<sup, events, pc, received>> /\ processes' \subseteq processes
    BY <1>7, DrainFrame DEF taskVars
  <2> QED
    BY <1>1, <1>7, <2>1, DrainAsks
<1>8. ASSUME NEW c \in Cancellers,
             \/ CallStep(c) \/ CancelFails(c) \/ CancelTimeout(c)
             \/ \E e \in Executions : CancelBegin(c, e)
      PROVE  LinkStep(x)
  <2>1. UNCHANGED <<sup, events, pc, received, processes>>
    BY <1>8, CallFrame DEF taskVars
  <2> QED
    BY <1>1, <1>8, <2>1, CallAsks
<1>9. CASE DaemonStart \/ UNCHANGED vars
  BY <1>1, <1>9 DEF DaemonStart, vars, taskVars, supVars
<1> QED
  BY <1>2, <1>3, <1>4, <1>5, <1>6, <1>7, <1>8, <1>9 DEF Next

LEMMA LinkInvariance == Spec => []LinkInv
<1>1. Init => PipesKept
  BY DEF Init, PipesKept
<1>2. LinkInv /\ [Next]_vars => PipesKept'
  BY PipesStep
<1>3. AskedInv /\ OwnerInv /\ PipesKept <=> LinkInv
  BY DEF LinkInv
<1> QED
  BY <1>1, <1>2, <1>3, AskedInvariance, OwnerInvariance, PTL DEF Spec

\* Whoever cancels, drains, fails, dies or restarts, what happens between a task
\* and its supervisor is the contract: frames are read in order and none after an
\* outcome, Cancel is written only to a pipe still held, a task lets go of its
\* control pipe no earlier than of the events, and neither is taken up again.
THEOREM EngineKeepsContracts == Spec => KeepsContracts
<1>1. Init => \A e \in Executions : Contract(e)!Init
  BY DEF Init, Contract!Init
<1>2. LinkInv /\ [Next]_vars =>
        [\A e \in Executions :
             Contract(e)!Next \/ UNCHANGED Contract(e)!vars]_vars
  BY LinkKept DEF LinkStep
<1> QED
  BY <1>1, <1>2, LinkInvariance, PTL DEF Spec, KeepsContracts
=============================================================================
