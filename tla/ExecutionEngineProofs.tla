------------------------ MODULE ExecutionEngineProofs ------------------------
(***************************************************************************)
(* Theorems about ExecutionEngine, for every set of executions and calls   *)
(* and every number of slots, restarts and storage faults.                 *)
(*                                                                         *)
(* First what a step of each process can change; then four invariants,     *)
(* each with the strengthening that makes it inductive:                    *)
(*   TypeInv    TypeOK, and no task records an outcome it does not have    *)
(*   CancelInv  a sleeping cancel() has its wake-up                        *)
(*   QueueInv   nothing is queued behind drain's back                      *)
(*   StopInv    a closed execution's command is on its way to be stopped   *)
(* and GoodbyeOnItsWay, for the last task and a sleeping drain().          *)
(***************************************************************************)
EXTENDS ExecutionEngine, TLAPS

-----------------------------------------------------------------------------
(* Types.                                                                  *)

LEMMA TypeInit == Init => TypeOK
<1> SUFFICES ASSUME Init PROVE TypeOK
  OBVIOUS
<1>1. faults \in 0 .. MaxFaults /\ boots \in 0 .. MaxBoots
  BY EngineAssumption DEF Init
<1>2. events \in [Executions -> Seq(Frames)]
  BY DEF Init
<1>3. row \in [Executions -> RowStates] /\ pc \in [Executions -> TaskStates]
    /\ verdict \in [Executions -> {"none"} \cup Terminal]
    /\ sup \in [Executions -> SupervisorLive \cup {"none", "exited"}]
  BY DEF Init, RowStates, TaskStates
<1>4. drainer \in DrainStates /\ lock \in {"free", "drain"} \cup Cancellers
  BY DEF Init, DrainStates
<1>5. cpc \in [Cancellers -> CallStates] /\ saw \in [Cancellers -> RowStates]
      /\ target \in [Cancellers -> Executions \cup {"none"}]
  BY DEF Init, CallStates, RowStates
<1> QED
  BY <1>1, <1>2, <1>3, <1>4, <1>5 DEF Init, TypeOK

\* The bound on failures is respected.
LEMMA FaultCounted == TypeOK /\ StorageFails => faults' \in 0 .. MaxFaults
BY EngineAssumption DEF TypeOK, StorageFails

\* A frame taken from the pipe, and one put into it.
LEMMA FrameRead ==
    ASSUME TypeOK, NEW e \in Executions, events[e] # <<>>
    PROVE  /\ Head(events[e]) \in Frames
           /\ [events EXCEPT ![e] = Tail(@)] \in [Executions -> Seq(Frames)]
BY DEF TypeOK

LEMMA FrameSent ==
    ASSUME TypeOK, NEW e \in Executions, NEW frame \in Frames, Emit(e, frame)
    PROVE  events' \in [Executions -> Seq(Frames)]
BY DEF TypeOK, Emit

\* A task that moves is somewhere.
LEMMA Moved ==
    ASSUME TypeOK, NEW e \in Executions, NEW state \in TaskStates,
           Goto(e, state)
    PROVE  pc' \in [Executions -> TaskStates]
BY DEF TypeOK, Goto

\* A step that moves a task and nothing else keeps the types.
LEMMA JumpType ==
    ASSUME TypeOK, NEW e \in Executions, NEW state \in TaskStates,
           Jump(e, state)
    PROVE  TypeOK'
<1>1. Goto(e, state)
  BY DEF Jump
<1>2. pc' \in [Executions -> TaskStates]
  BY <1>1, Moved
<1> QED
  BY <1>2, Zenon DEF Jump, TypeOK, shared, daemonVars, drainVars, supVars, callVars

LEMMA BroadcastType ==
    TypeOK /\ Broadcast => woken' \in [Cancellers -> BOOLEAN]
BY DEF TypeOK, Broadcast

\* What a cancel() call keeps.
CallType ==
    /\ cpc \in [Cancellers -> CallStates]
    /\ target \in [Cancellers -> Executions \cup {"none"}]
    /\ saw \in [Cancellers -> RowStates]
    /\ woken \in [Cancellers -> BOOLEAN]

\* A dead daemon's variables are those of a fresh one.
LEMMA MemoryLostType == TypeOK /\ LoseMemory => TypeOK'
<1> SUFFICES ASSUME TypeOK, LoseMemory PROVE TypeOK'
  OBVIOUS
<1>1. CallType'
  BY DEF TypeOK, LoseMemory, CallType, CallStates, RowStates
<1>2. /\ pc' \in [Executions -> TaskStates]
      /\ verdict' \in [Executions -> {"none"} \cup Terminal]
      /\ received' \in [Executions -> BOOLEAN]
  BY DEF TypeOK, LoseMemory, TaskStates
<1>3. events' \in [Executions -> Seq(Frames)]
  BY DEF LoseMemory
<1>4. up' \in BOOLEAN /\ drainer' \in DrainStates /\ idleNotified' \in BOOLEAN
      /\ lock' \in {"free", "drain"} \cup Cancellers
      /\ processes' \in SUBSET Executions
  BY DEF LoseMemory, DrainStates
<1> QED
  BY <1>1, <1>2, <1>3, <1>4 DEF TypeOK, LoseMemory, CallType

\* A task about to record an outcome has one: TypeOK alone is not inductive,
\* since CommitOutcome writes the verdict into the row.
VerdictKnown ==
    \A e \in Executions :
        pc[e] \in {"record", "commit"} => verdict[e] \in Terminal

\* A pending cancel() names an execution whose row it will read again.
TargetKnown ==
    \A c \in Cancellers : cpc[c] \in Pending => target[c] \in Executions

TypeInv == TypeOK /\ VerdictKnown /\ TargetKnown

\* The names the actions write are names of states.
LEMMA Names ==
    /\ "creating" \in TaskStates /\ "slot" \in TaskStates
    /\ "check" \in TaskStates /\ "spawn" \in TaskStates
    /\ "register" \in TaskStates /\ "events" \in TaskStates
    /\ "record" \in TaskStates /\ "commit" \in TaskStates
    /\ "notify" \in TaskStates /\ "close" \in TaskStates
    /\ "reap" \in TaskStates /\ "failed" \in TaskStates
    /\ "failCommit" \in TaskStates /\ "failNotify" \in TaskStates
    /\ "unregister" \in TaskStates /\ "leave" \in TaskStates
    /\ "wake" \in TaskStates /\ "done" \in TaskStates
    /\ "absent" \in RowStates /\ "queued" \in RowStates
    /\ "running" \in RowStates /\ "finished" \in RowStates
    /\ "cancelled" \in RowStates /\ "interrupted" \in RowStates
    /\ "close" \in DrainStates /\ "cancelQueue" \in DrainStates
    /\ "signal" \in DrainStates /\ "arm" \in DrainStates
    /\ "check" \in DrainStates /\ "busy" \in DrainStates
    /\ "park" \in DrainStates /\ "abort" \in DrainStates
    /\ "stopped" \in DrainStates /\ "forced" \in DrainStates
    /\ "failed" \in DrainStates
    /\ "looking" \in CallStates /\ "waiting" \in CallStates
    /\ "checked" \in CallStates /\ "parked" \in CallStates
    /\ "returned" \in CallStates
    /\ Terminal \subseteq RowStates
    /\ "finished" \in {"none"} \cup Terminal
    /\ "interrupted" \in {"none"} \cup Terminal
    /\ "none" \in {"none"} \cup Terminal
    /\ Terminal \subseteq {"none"} \cup Terminal
    /\ "booting" \in SupervisorLive \cup {"none", "exited"}
    /\ "alive" \in SupervisorLive \cup {"none", "exited"}
    /\ "cancelling" \in SupervisorLive \cup {"none", "exited"}
    /\ "orphaned" \in SupervisorLive \cup {"none", "exited"}
    /\ "lingering" \in SupervisorLive \cup {"none", "exited"}
    /\ "exited" \in SupervisorLive \cup {"none", "exited"}
BY DEF TaskStates, RowStates, Incomplete, Terminal, DrainStates, CallStates,
       Pending, SupervisorLive

LEMMA ReturnType ==
    ASSUME TypeOK, NEW c \in Cancellers, Return(c)
    PROVE  CallType'
BY Names DEF TypeOK, Return, CallType

LEMMA TypeStep == TypeInv /\ [Next]_vars => TypeOK'
<1> SUFFICES ASSUME TypeInv, [Next]_vars PROVE TypeOK'
  OBVIOUS
<1> USE Names DEF TypeInv, TypeOK, taskVars, supVars, drainVars, callVars,
        daemonVars, shared, outside, Goto, Jump
<1>1. ASSUME NEW e \in Executions, CreateExecution(e) PROVE TypeOK'
  BY <1>1 DEF CreateExecution, SetRow
<1>2. ASSUME NEW e \in Executions, StartTask(e) PROVE TypeOK'
  <2>1. Jump(e, "slot")
    BY <1>2, Zenon DEF StartTask
  <2> QED
    BY <2>1, JumpType
<1>3. ASSUME NEW e \in Executions, AcquireSlot(e) PROVE TypeOK'
  <2>1. Jump(e, "unregister") \/ Jump(e, "check")
    BY <1>3, Zenon DEF AcquireSlot
  <2> QED
    BY <2>1, JumpType
<1>4. ASSUME NEW e \in Executions, CheckQueued(e) PROVE TypeOK'
  <2>1. pc' \in {[pc EXCEPT ![e] = "unregister"], [pc EXCEPT ![e] = "spawn"]}
    BY <1>4 DEF CheckQueued
  <2>2. pc' \in [Executions -> TaskStates]
    BY <2>1
  <2> QED
    BY <1>4, <2>2 DEF CheckQueued
<1>5. ASSUME NEW e \in Executions, SpawnSupervisor(e) PROVE TypeOK'
  <2>1. \/ /\ sup' = [sup EXCEPT ![e] = "booting"]
           /\ Goto(e, "register")
           /\ UNCHANGED verdict
        \/ /\ verdict' = [verdict EXCEPT ![e] = "finished"]
           /\ Goto(e, "commit")
           /\ UNCHANGED sup
    BY <1>5 DEF SpawnSupervisor
  <2>2. sup' \in [Executions -> SupervisorLive \cup {"none", "exited"}]
    BY <2>1
  <2>3. verdict' \in [Executions -> {"none"} \cup Terminal]
    BY <2>1
  <2>4. pc' \in [Executions -> TaskStates]
    BY <2>1, Moved
  <2> QED
    BY <1>5, <2>2, <2>3, <2>4 DEF SpawnSupervisor
<1>6. ASSUME NEW e \in Executions, Register(e) PROVE TypeOK'
  BY <1>6 DEF Register
<1>7. ASSUME NEW e \in Executions, HandleStarted(e) PROVE TypeOK'
  <2>1. events' \in [Executions -> Seq(Frames)]
    BY <1>7, FrameRead DEF HandleStarted
  <2>2. row' \in [Executions -> RowStates] /\ woken' \in [Cancellers -> BOOLEAN]
    BY <1>7, BroadcastType DEF HandleStarted, SetRow
  <2>3. stopSent' \in SUBSET Executions
    BY <1>7 DEF HandleStarted
  <2> QED
    BY <1>7, <2>1, <2>2, <2>3 DEF HandleStarted
<1>8. ASSUME NEW e \in Executions, HandleFinished(e) PROVE TypeOK'
  <2>1. faults' \in 0 .. MaxFaults
    BY <1>8, FaultCounted DEF HandleFinished
  <2>2. events' \in [Executions -> Seq(Frames)]
    BY <1>8, FrameRead DEF HandleFinished
  <2>3. CASE Goto(e, "record")
    <3>1. /\ verdict' = [verdict EXCEPT ![e] = Head(events[e])]
          /\ received' = [received EXCEPT ![e] = TRUE]
      BY <1>8, <2>3 DEF HandleFinished
    <3>2. verdict' \in [Executions -> {"none"} \cup Terminal]
      BY <1>8, <3>1 DEF HandleFinished
    <3>3. /\ received' \in [Executions -> BOOLEAN]
          /\ pc' \in [Executions -> TaskStates]
      BY <2>3, <3>1
    <3> QED
      BY <1>8, <2>1, <2>2, <3>2, <3>3 DEF HandleFinished
  <2>4. CASE Goto(e, "failed") /\ UNCHANGED <<verdict, received>>
    <3>1. pc' \in [Executions -> TaskStates]
      BY <2>4
    <3> QED
      BY <1>8, <2>1, <2>2, <2>4, <3>1 DEF HandleFinished
  <2> QED
    BY <1>8, <2>3, <2>4 DEF HandleFinished
<1>9. ASSUME NEW e \in Executions, HandleTornFrame(e) PROVE TypeOK'
  <2>1. events' \in [Executions -> Seq(Frames)]
    BY <1>9, FrameRead DEF HandleTornFrame
  <2> QED
    BY <1>9, <2>1 DEF HandleTornFrame
<1>10. ASSUME NEW e \in Executions, StreamEnds(e) PROVE TypeOK'
  BY <1>10 DEF StreamEnds
<1>11. ASSUME NEW e \in Executions, RecordOutcome(e) PROVE TypeOK'
  BY <1>11 DEF RecordOutcome
<1>12. ASSUME NEW e \in Executions, CommitOutcome(e) PROVE TypeOK'
  <2>1. row' \in [Executions -> RowStates]
    BY <1>12 DEF CommitOutcome, SetRow, VerdictKnown
  <2>2. Goto(e, "failed") \/ Goto(e, "notify")
    BY <1>12, Zenon DEF CommitOutcome
  <2>3. pc' \in [Executions -> TaskStates]
    BY <2>2, Moved
  <2>4. UNCHANGED <<shared, verdict, received, processes, supVars, callVars>>
    BY <1>12, Zenon DEF CommitOutcome
  <2> QED
    BY <2>1, <2>3, <2>4, Zenon
<1>13. ASSUME NEW e \in Executions, NotifyOutcome(e) PROVE TypeOK'
  BY <1>13 DEF NotifyOutcome, Broadcast
<1>14. ASSUME NEW e \in Executions, CloseControl(e) PROVE TypeOK'
  BY <1>14 DEF CloseControl
<1>15. ASSUME NEW e \in Executions, ReapSupervisor(e) PROVE TypeOK'
  <2>1. faults' \in 0 .. MaxFaults
    BY <1>15, FaultCounted DEF ReapSupervisor
  <2>2. \/ Goto(e, "unregister") /\ UNCHANGED verdict
        \/ Goto(e, "failed") /\ UNCHANGED verdict
        \/ /\ Goto(e, "record")
           /\ verdict' = [verdict EXCEPT ![e] = "interrupted"]
    BY <1>15 DEF ReapSupervisor
  <2>3. pc' \in [Executions -> TaskStates]
    BY <2>2, Moved
  <2>4. verdict' \in [Executions -> {"none"} \cup Terminal]
    BY <2>2
  <2> QED
    BY <1>15, <2>1, <2>3, <2>4 DEF ReapSupervisor
<1>16. ASSUME NEW e \in Executions, RecordFailure(e) PROVE TypeOK'
  <2>1. faults' \in 0 .. MaxFaults
    BY <1>16, FaultCounted DEF RecordFailure
  <2>2. Goto(e, "unregister") \/ Goto(e, "failCommit")
    BY <1>16 DEF RecordFailure
  <2>3. pc' \in [Executions -> TaskStates]
    BY <2>2, Moved
  <2>4. UNCHANGED <<row, up, boots, drainVars, lock, verdict, received, processes,
                    supVars, callVars>>
    BY <1>16, Zenon DEF RecordFailure
  <2> QED
    BY <2>1, <2>3, <2>4, Zenon
<1>17. ASSUME NEW e \in Executions, CommitFailure(e) PROVE TypeOK'
  <2>1. faults' \in 0 .. MaxFaults
    BY <1>17, FaultCounted DEF CommitFailure
  <2>2. /\ Goto(e, "failNotify") \/ Goto(e, "unregister")
        /\ UNCHANGED row \/ SetRow(e, "interrupted")
    BY <1>17 DEF CommitFailure
  <2>3. pc' \in [Executions -> TaskStates]
    BY <2>2, Moved
  <2>4. row' \in [Executions -> RowStates]
    BY <2>2 DEF SetRow
  <2> QED
    BY <1>17, <2>1, <2>3, <2>4 DEF CommitFailure
<1>18. ASSUME NEW e \in Executions, NotifyFailure(e) PROVE TypeOK'
  BY <1>18 DEF NotifyFailure, Broadcast
<1>19. ASSUME NEW e \in Executions, Unregister(e) PROVE TypeOK'
  BY <1>19 DEF Unregister, ForgetTask
<1>20. ASSUME NEW e \in Executions, DropActive(e) PROVE TypeOK'
  BY <1>20 DEF DropActive
<1>21. ASSUME NEW e \in Executions, WakeIdle(e) PROVE TypeOK'
  BY <1>21 DEF WakeIdle
<1>22. ASSUME NEW e \in Executions, StoreFails(e) PROVE TypeOK'
  <2>1. faults' \in 0 .. MaxFaults
    BY <1>22, FaultCounted DEF StoreFails
  <2>2. events' \in [Executions -> Seq(Frames)]
    BY <1>22 DEF StoreFails, DropStdout
  <2> QED
    BY <1>22, <2>1, <2>2 DEF StoreFails, DropStdout
<1>23. ASSUME NEW e \in Executions, SupervisorLaunch(e) PROVE TypeOK'
  <2>1. events' \in [Executions -> Seq(Frames)]
    BY <1>23, FrameSent DEF SupervisorLaunch, Frames
  <2> QED
    BY <1>23, <2>1 DEF SupervisorLaunch, SupBecomes
<1>24. ASSUME NEW e \in Executions, SupervisorReadsCancel(e) PROVE TypeOK'
  BY <1>24 DEF SupervisorReadsCancel, SupBecomes
<1>25. ASSUME NEW e \in Executions, SupervisorLosesDaemon(e) PROVE TypeOK'
  <2>1. sup' \in [Executions -> SupervisorLive \cup {"none", "exited"}]
    BY <1>25 DEF SupervisorLosesDaemon, SupBecomes
  <2> QED
    BY <1>25, <2>1 DEF SupervisorLosesDaemon
<1>26. ASSUME NEW e \in Executions, CommandKilled(e) PROVE TypeOK'
  <2>1. UNCHANGED events \/ \E outcome \in Frames : Emit(e, outcome)
    BY <1>26 DEF CommandKilled, Frames, Terminal
  <2>2. events' \in [Executions -> Seq(Frames)]
    BY <2>1, FrameSent
  <2> QED
    BY <1>26, <2>2 DEF CommandKilled, SupBecomes
<1>27. ASSUME NEW e \in Executions, CommandEnds(e) PROVE TypeOK'
  <2>1. UNCHANGED events \/ \E outcome \in Frames : Emit(e, outcome)
    BY <1>27 DEF CommandEnds, Frames, Terminal
  <2>2. events' \in [Executions -> Seq(Frames)]
    BY <2>1, FrameSent
  <2> QED
    BY <1>27, <2>2 DEF CommandEnds, SupBecomes
<1>28. ASSUME NEW e \in Executions, SupervisorDies(e) PROVE TypeOK'
  <2>1. events' \in [Executions -> Seq(Frames)]
    BY <1>28, FrameSent DEF SupervisorDies, Frames
  <2> QED
    BY <1>28, <2>1 DEF SupervisorDies, SupBecomes
<1>29. ASSUME NEW e \in Executions, AbortTask(e) PROVE TypeOK'
  <2>1. events' \in [Executions -> Seq(Frames)]
    BY <1>29 DEF AbortTask, DropStdout
  <2> QED
    BY <1>29, <2>1 DEF AbortTask, ForgetTask, DropStdout
<1>30. ASSUME NEW c \in Cancellers, NEW e \in Executions, CancelBegin(c, e)
       PROVE  TypeOK'
  <2>1. CallType'
    <3>1. CASE row[e] \in Terminal
      <4>1. Return(c)
        BY <1>30, <3>1 DEF CancelBegin
      <4> QED
        BY <4>1, ReturnType
    <3>2. CASE row[e] \notin Terminal
      <4>1. /\ cpc' = [cpc EXCEPT ![c] = "looking"]
            /\ target' = [target EXCEPT ![c] = e]
            /\ saw' = [saw EXCEPT ![c] = row[e]]
            /\ woken' = woken
        BY <1>30, <3>2 DEF CancelBegin
      <4>2. saw' \in [Cancellers -> RowStates]
        BY <4>1
      <4>3. cpc' \in [Cancellers -> CallStates]
        BY <4>1
      <4> QED
        BY <4>1, <4>2, <4>3 DEF CallType
    <3> QED
      BY <3>1, <3>2
  <2>2. lock' \in {"free", "drain"} \cup Cancellers
    BY <1>30 DEF CancelBegin, Return
  <2> QED
    BY <1>30, <2>1, <2>2 DEF CancelBegin, CallType
<1>31. ASSUME NEW c \in Cancellers, CancelQueued(c) PROVE TypeOK'
  <2>0. /\ row' = row \/ row' = [row EXCEPT ![target[c]] = "cancelled"]
        /\ \/ stopSent' = stopSent
           \/ stopSent' = stopSent \cup ({target[c]} \cap processes)
    BY <1>31, Zenon DEF CancelQueued, SetRow
  <2>1. row' \in [Executions -> RowStates]
    <3>1. row \in [Executions -> RowStates] /\ "cancelled" \in RowStates
      BY Zenon
    <3> QED
      BY <2>0, <3>1
  <2>3. stopSent' \in SUBSET Executions
    <3>1. stopSent \subseteq Executions /\ processes \subseteq Executions
      BY Zenon
    <3> QED
      BY <2>0, <3>1
  <2>2. CallType'
    <3>1. CASE row[target[c]] \in Terminal
      <4>1. Return(c)
        BY <1>31, <3>1 DEF CancelQueued
      <4> QED
        BY <4>1, ReturnType
    <3>2. CASE row[target[c]] \notin Terminal
      <4>1. /\ cpc' = [cpc EXCEPT ![c] = "waiting"]
            /\ Broadcast /\ UNCHANGED <<target, saw>>
        BY <1>31, <3>2 DEF CancelQueued
      <4>2. woken' \in [Cancellers -> BOOLEAN]
        BY <4>1, BroadcastType
      <4>3. cpc' \in [Cancellers -> CallStates]
        BY <4>1
      <4> QED
        BY <4>1, <4>2, <4>3 DEF CallType
    <3> QED
      BY <3>1, <3>2
  <2> QED
    BY <1>31, <2>1, <2>2, <2>3 DEF CancelQueued, CallType
<1>32. ASSUME NEW c \in Cancellers, CancelRunning(c) PROVE TypeOK'
  <2>1. stopSent' \in SUBSET Executions /\ CallType'
    <3>1. CASE target[c] \in processes
      <4>1. /\ stopSent' = stopSent \cup {target[c]}
            /\ cpc' = [cpc EXCEPT ![c] = "waiting"]
            /\ UNCHANGED <<target, saw, woken>>
        BY <1>32, <3>1 DEF CancelRunning
      <4>2. stopSent' \in SUBSET Executions
        BY <3>1, <4>1
      <4>3. cpc' \in [Cancellers -> CallStates]
        BY <4>1
      <4> QED
        BY <4>1, <4>2, <4>3 DEF CallType
    <3>2. CASE target[c] \notin processes
      <4>1. Return(c) /\ UNCHANGED stopSent
        BY <1>32, <3>2 DEF CancelRunning
      <4> QED
        BY <4>1, ReturnType
    <3> QED
      BY <3>1, <3>2
  <2>2. /\ lock' = "free"
        /\ UNCHANGED <<row, daemonVars, drainVars, taskVars, processes, sup,
                       events>>
    BY <1>32 DEF CancelRunning
  <2> QED
    BY <2>1, <2>2 DEF CallType
<1>33. ASSUME NEW c \in Cancellers, CancelCheck(c) PROVE TypeOK'
  <2>1. cpc[c] = "waiting" /\ cpc[c] \in Pending
    BY <1>33 DEF CancelCheck, Pending
  <2>2. row[target[c]] \in RowStates
    BY <2>1 DEF TargetKnown
  <2>3. /\ saw' \in [Cancellers -> RowStates]
        /\ cpc' \in [Cancellers -> CallStates]
    BY <1>33, <2>2 DEF CancelCheck
  <2> QED
    BY <1>33, <2>3 DEF CancelCheck
<1>34. ASSUME NEW c \in Cancellers, CancelPark(c) PROVE TypeOK'
  BY <1>34 DEF CancelPark, Return
<1>35. ASSUME NEW c \in Cancellers, CancelWake(c) PROVE TypeOK'
  BY <1>35 DEF CancelWake
<1>36. ASSUME NEW c \in Cancellers, CancelFails(c) PROVE TypeOK'
  <2>1. faults' \in 0 .. MaxFaults
    BY <1>36, FaultCounted DEF CancelFails
  <2> QED
    BY <1>36, <2>1 DEF CancelFails, Return
<1>37. ASSUME NEW c \in Cancellers, CancelTimeout(c) PROVE TypeOK'
  BY <1>37 DEF CancelTimeout, Return
<1>38. CASE DrainBegin
  BY <1>38 DEF DrainBegin, Accepting, DrainGoto
<1>39. CASE CloseSlots
  BY <1>39 DEF CloseSlots, DrainGoto
<1>40. CASE DrainCancelQueued
  BY <1>40 DEF DrainCancelQueued, Broadcast
<1>41. CASE DrainSignal
  BY <1>41 DEF DrainSignal
<1>42. CASE DrainArm
  BY <1>42 DEF DrainArm
<1>43. CASE DrainCheck
  BY <1>43 DEF DrainCheck, DrainGoto
<1>44. CASE DrainPark
  BY <1>44 DEF DrainPark, DrainGoto
<1>45. CASE DrainWake
  BY <1>45 DEF DrainWake, DrainGoto
<1>46. CASE DrainForced
  BY <1>46 DEF DrainForced, DrainGoto
<1>47. CASE DrainFails
  <2>1. faults' \in 0 .. MaxFaults
    BY <1>47, FaultCounted DEF DrainFails
  <2> QED
    BY <1>47, <2>1 DEF DrainFails
<1>48. CASE DrainTimeout
  BY <1>48 DEF DrainTimeout
<1>49. CASE DaemonExit
  BY <1>49, MemoryLostType DEF DaemonExit
<1>50. CASE DaemonKilled
  BY <1>50, MemoryLostType DEF DaemonKilled
<1>51. CASE DaemonStart
  <2>1. boots' \in 0 .. MaxBoots
    BY <1>51, EngineAssumption DEF DaemonStart
  <2> QED
    BY <1>51, <2>1 DEF DaemonStart
<1>52. CASE UNCHANGED vars
  BY <1>52 DEF vars
<1>53. ASSUME NEW e \in Executions, CommandLingers(e) PROVE TypeOK'
  <2>1. sup' \in [Executions -> SupervisorLive \cup {"none", "exited"}]
    BY <1>53 DEF CommandLingers, SupBecomes
  <2> QED
    BY <1>53, <2>1 DEF CommandLingers
<1> QED
  BY <1>1, <1>2, <1>3, <1>4, <1>5, <1>6, <1>7, <1>8, <1>9, <1>10, <1>11, <1>12,
     <1>13, <1>14, <1>15, <1>16, <1>17, <1>18, <1>19, <1>20, <1>21, <1>22,
     <1>23, <1>24, <1>25, <1>26, <1>27, <1>28, <1>29, <1>30, <1>31, <1>32,
     <1>33, <1>34, <1>35, <1>36, <1>37, <1>38, <1>39, <1>40, <1>41, <1>42,
     <1>43, <1>44, <1>45, <1>46, <1>47, <1>48, <1>49, <1>50, <1>51, <1>52,
     <1>53
  DEF Next, TaskStep, SupervisorStep, CommandStep, CallStep, DrainStep
-----------------------------------------------------------------------------
(* What a step of each process can change, and what it leaves alone.       *)

\* cancel() never moves a task nor drain; the only row it closes is the one it
\* names, and it broadcasts that.
LEMMA CallFrame ==
    ASSUME NEW c \in Cancellers,
           \/ CallStep(c) \/ CancelFails(c) \/ CancelTimeout(c)
           \/ \E e \in Executions : CancelBegin(c, e)
    PROVE  /\ UNCHANGED <<up, drainVars, taskVars, processes, sup, events>>
           /\ UNCHANGED row \/ (SetRow(target[c], "cancelled") /\ Broadcast)
BY DEF CallStep, CancelFails, CancelTimeout, CancelBegin, CancelQueued,
       CancelRunning, CancelCheck, CancelPark, CancelWake, daemonVars, shared,
       supVars

\* A supervisor shows itself only through its process and its pipe.
LEMMA SupervisorFrame ==
    ASSUME NEW e \in Executions,
           SupervisorStep(e) \/ CommandStep(e)
    PROVE  UNCHANGED <<outside, stopSent>>
BY DEF SupervisorStep, CommandStep, CommandLingers, CommandEnds,
       SupervisorDies, SupervisorLaunch, SupervisorReadsCancel,
       SupervisorLosesDaemon, CommandKilled

\* drain() moves neither tasks nor calls: it closes queued rows, and broadcasts
\* that or gives up.  Once it has given up it never changes its mind.
LEMMA DrainFrame ==
    ASSUME DrainBegin \/ DrainStep \/ DrainFails \/ DrainTimeout
    PROVE  /\ UNCHANGED <<up, taskVars, sup, events, cpc, target, saw>>
           /\ drainer \in GaveUp => drainer' \in GaveUp
           /\ processes' \subseteq processes
           /\ \A e \in Executions :
                row'[e] # row[e] => row[e] = "queued" /\ row'[e] = "cancelled"
           /\ \/ UNCHANGED <<row, woken>>
              \/ DrainCancelQueued /\ Broadcast
              \/ drainer' \in GaveUp /\ UNCHANGED woken
BY DEF DrainBegin, DrainStep, DrainFails, DrainTimeout, CloseSlots, Accepting,
       DrainCancelQueued, DrainSignal, DrainArm, DrainCheck, DrainPark, GaveUp,
       DrainWake, DrainForced, DrainGoto, daemonVars, supVars, callVars

\* A task leaves the calls where they are: at most it wakes them.
LEMMA TaskFrame ==
    ASSUME NEW e \in Executions, TaskStep(e) \/ StoreFails(e)
    PROVE  /\ UNCHANGED <<up, drainer, lock, cpc, target, saw>>
           /\ UNCHANGED woken \/ Broadcast
BY DEF TaskStep, StoreFails, StartTask, AcquireSlot, CheckQueued, Register,
       SpawnSupervisor, HandleStarted, HandleFinished, HandleTornFrame,
       StreamEnds, RecordOutcome, CommitOutcome, NotifyOutcome, CloseControl,
       ReapSupervisor, RecordFailure, CommitFailure, NotifyFailure, Unregister,
       DropActive, WakeIdle, Jump, taskVars, drainVars, callVars, daemonVars,
       shared

\* A task moves nobody but itself.  It is counted until it says goodbye, and
\* the goodbye is what tells drain.
LEMMA TaskMove ==
    ASSUME TypeOK, NEW e \in Executions, TaskStep(e) \/ StoreFails(e)
    PROVE  /\ \A x \in Executions \ {e} : pc'[x] = pc[x]
           /\ pc[e] \in Counted => pc'[e] \in Counted \cup {"wake"}
           /\ pc[e] \notin Counted \cup {"wake"} => pc'[e] \in Counted
           /\ pc[e] = "wake" => idleNotified'
           /\ pc[e] # "wake" => UNCHANGED idleNotified
BY DEF TypeOK, TaskStep, StoreFails, StartTask, AcquireSlot, CheckQueued,
       SpawnSupervisor, Register, HandleStarted, HandleFinished, StreamEnds,
       HandleTornFrame, RecordOutcome, CommitOutcome, NotifyOutcome,
       CloseControl, ReapSupervisor, RecordFailure, CommitFailure,
       NotifyFailure, Unregister, DropActive, WakeIdle, Jump, Goto, ForgetTask,
       Counted, Holding, taskVars, drainVars, shared

\* A task writes no row but its own, never reopens or queues it, and when it has
\* closed the row the broadcast is its next step.
LEMMA TaskRow ==
    ASSUME TypeInv, NEW e \in Executions, TaskStep(e) \/ StoreFails(e)
    PROVE  /\ \A x \in Executions \ {e} : row'[x] = row[x]
           /\ row'[e] = "queued" => row[e] = "queued"
           /\ row'[e] \in Terminal /\ row[e] \notin Terminal =>
                pc'[e] \in {"notify", "failNotify"}
           /\ pc[e] \in {"notify", "failNotify"} => Broadcast
BY DEF TypeInv, TypeOK, VerdictKnown, Terminal, TaskStep, StoreFails,
       StartTask, AcquireSlot, CheckQueued, SpawnSupervisor, Register,
       HandleStarted, HandleFinished, StreamEnds, HandleTornFrame,
       RecordOutcome, CommitOutcome, NotifyOutcome, CloseControl,
       ReapSupervisor, RecordFailure, CommitFailure, NotifyFailure, Unregister,
       DropActive, WakeIdle, Jump, Goto, SetRow, ForgetTask

\* What a task is about to record was decided on the way.
LEMMA TaskVerdict ==
    ASSUME TypeInv, NEW e \in Executions, TaskStep(e) \/ StoreFails(e)
    PROVE  VerdictKnown'
<1>1. pc'[e] \in {"record", "commit"} => verdict'[e] \in Terminal
  BY DEF TypeInv, TypeOK, VerdictKnown, Terminal, TaskStep, StoreFails,
         StartTask, AcquireSlot, CheckQueued, SpawnSupervisor, Register,
         HandleStarted, HandleFinished, StreamEnds, HandleTornFrame,
         RecordOutcome, CommitOutcome, NotifyOutcome, CloseControl,
         ReapSupervisor, RecordFailure, CommitFailure, NotifyFailure,
         Unregister, DropActive, WakeIdle, Jump, Goto, ForgetTask, taskVars
<1>2. \A x \in Executions \ {e} : pc'[x] = pc[x] /\ verdict'[x] = verdict[x]
  BY DEF TypeInv, TypeOK, TaskStep, StoreFails, StartTask, AcquireSlot,
         CheckQueued, SpawnSupervisor, Register, HandleStarted, HandleFinished,
         StreamEnds, HandleTornFrame, RecordOutcome, CommitOutcome,
         NotifyOutcome, CloseControl, ReapSupervisor, RecordFailure,
         CommitFailure, NotifyFailure, Unregister, DropActive, WakeIdle, Jump,
         Goto, ForgetTask, taskVars
<1> QED
  BY <1>1, <1>2 DEF TypeInv, VerdictKnown

-----------------------------------------------------------------------------
(* Type correctness.                                                       *)

LEMMA VerdictStep == TypeInv /\ [Next]_vars => VerdictKnown'
<1> SUFFICES ASSUME TypeInv, [Next]_vars PROVE VerdictKnown'
  OBVIOUS
<1>1. CASE UNCHANGED <<pc, verdict>>
  BY <1>1 DEF TypeInv, VerdictKnown
<1>2. ASSUME NEW e \in Executions, TaskStep(e) \/ StoreFails(e)
      PROVE  VerdictKnown'
  BY <1>2, TaskVerdict
<1>3. ASSUME NEW e \in Executions, CreateExecution(e) PROVE VerdictKnown'
  BY <1>3 DEF CreateExecution, Goto, TypeInv, TypeOK, VerdictKnown
<1>4. ASSUME NEW e \in Executions, AbortTask(e) PROVE VerdictKnown'
  BY <1>4 DEF AbortTask, ForgetTask, Goto, TypeInv, TypeOK, VerdictKnown
<1>5. CASE DaemonExit \/ DaemonKilled
  BY <1>5 DEF DaemonExit, DaemonKilled, LoseMemory, TypeInv, VerdictKnown
<1>6. CASE DaemonStart
  BY <1>1, <1>6 DEF DaemonStart, taskVars
<1>7. ASSUME NEW e \in Executions,
             SupervisorStep(e) \/ CommandStep(e)
      PROVE  VerdictKnown'
  BY <1>1, <1>7, SupervisorFrame DEF outside, taskVars
<1>8. CASE DrainBegin \/ DrainStep \/ DrainFails \/ DrainTimeout
  BY <1>1, <1>8, DrainFrame DEF taskVars
<1>9. ASSUME NEW c \in Cancellers,
             \/ CallStep(c) \/ CancelFails(c) \/ CancelTimeout(c)
             \/ \E e \in Executions : CancelBegin(c, e)
      PROVE  VerdictKnown'
  BY <1>1, <1>9, CallFrame DEF taskVars
<1> QED
  BY <1>1, <1>2, <1>3, <1>4, <1>5, <1>6, <1>7, <1>8, <1>9 DEF Next, vars

LEMMA TargetStep == TypeInv /\ [Next]_vars => TargetKnown'
<1> SUFFICES ASSUME TypeInv, [Next]_vars PROVE TargetKnown'
  OBVIOUS
<1>1. CASE UNCHANGED <<cpc, target>>
  BY <1>1 DEF TypeInv, TargetKnown
<1>2. ASSUME NEW e \in Executions, TaskStep(e) \/ StoreFails(e)
      PROVE  TargetKnown'
  BY <1>1, <1>2, TaskFrame
<1>3. ASSUME NEW e \in Executions, CreateExecution(e) \/ AbortTask(e)
      PROVE  TargetKnown'
  BY <1>1, <1>3 DEF CreateExecution, AbortTask, callVars
<1>4. CASE DaemonExit \/ DaemonKilled
  BY <1>4 DEF DaemonExit, DaemonKilled, LoseMemory, TargetKnown, Pending
<1>5. CASE DaemonStart
  BY <1>1, <1>5 DEF DaemonStart, callVars
<1>6. ASSUME NEW e \in Executions,
             SupervisorStep(e) \/ CommandStep(e)
      PROVE  TargetKnown'
  BY <1>1, <1>6, SupervisorFrame DEF outside, callVars
<1>7. CASE DrainBegin \/ DrainStep \/ DrainFails \/ DrainTimeout
  BY <1>1, <1>7, DrainFrame
<1>8. ASSUME NEW c \in Cancellers, NEW e \in Executions, CancelBegin(c, e)
      PROVE  TargetKnown'
  <2>1. \/ cpc' = [cpc EXCEPT ![c] = "returned"]
        \/ target' = [target EXCEPT ![c] = e]
    BY <1>8 DEF CancelBegin, Return
  <2>2. \A d \in Cancellers \ {c} :
          cpc'[d] = cpc[d] /\ target'[d] = target[d]
    BY <1>8 DEF CancelBegin, Return, TypeInv, TypeOK
  <2>3. cpc'[c] \in Pending => target'[c] \in Executions
    BY <2>1 DEF TypeInv, TypeOK, Pending
  <2> QED
    BY <2>2, <2>3 DEF TypeInv, TargetKnown
<1>9. ASSUME NEW c \in Cancellers,
             CallStep(c) \/ CancelFails(c) \/ CancelTimeout(c)
      PROVE  TargetKnown'
  BY <1>9
  DEF CallStep, CancelFails, CancelTimeout, CancelQueued, CancelRunning,
      CancelCheck, CancelPark, CancelWake, Return, TypeInv, TypeOK,
      TargetKnown, Pending
<1> QED
  BY <1>1, <1>2, <1>3, <1>4, <1>5, <1>6, <1>7, <1>8, <1>9 DEF Next, vars

LEMMA TypeInvariance == Spec => []TypeInv
<1>1. Init => TypeInv
  BY TypeInit DEF Init, TypeInv, VerdictKnown, TargetKnown, Pending
<1>2. TypeInv /\ [Next]_vars => TypeInv'
  BY TypeStep, VerdictStep, TargetStep DEF TypeInv
<1> QED
  BY <1>1, <1>2, PTL DEF Spec

\* However many executions, calls, slots, faults and restarts there are, every
\* variable keeps its type: in particular no row is ever given a state that
\* executions.state cannot hold.
THEOREM TypeCorrectness == Spec => []TypeOK
BY TypeInvariance, PTL DEF TypeInv

-----------------------------------------------------------------------------
(* No cancel() sleeps on a closed execution.                               *)

\* A dead daemon has no calls in flight.
NobodyIsServed == ~up => \A c \in Cancellers : cpc[c] \notin Pending

\* NoLostCancelWakeup is not inductive: the row may be closed between the read
\* that sent the call to sleep and the moment it sleeps.
WakeupOnItsWay ==
    \A c \in Cancellers :
        /\ cpc[c] = "parked" \/ (cpc[c] = "checked" /\ saw[c] \notin Terminal)
        /\ row[target[c]] \in Terminal
        => \/ woken[c]
           \/ pc[target[c]] \in {"notify", "failNotify"}
           \/ drainer \in GaveUp

CancelInv == TypeInv /\ NobodyIsServed /\ WakeupOnItsWay

LEMMA ServedStep == CancelInv /\ [Next]_vars => NobodyIsServed'
<1> SUFFICES ASSUME CancelInv, [Next]_vars PROVE NobodyIsServed'
  OBVIOUS
<1>1. CASE UNCHANGED <<up, cpc>>
  BY <1>1 DEF CancelInv, NobodyIsServed
<1>2. ASSUME NEW e \in Executions, TaskStep(e) \/ StoreFails(e)
      PROVE  NobodyIsServed'
  BY <1>1, <1>2, TaskFrame
<1>3. ASSUME NEW e \in Executions, CreateExecution(e) \/ AbortTask(e)
      PROVE  NobodyIsServed'
  BY <1>1, <1>3 DEF CreateExecution, AbortTask, callVars, shared, daemonVars
<1>4. CASE DaemonExit \/ DaemonKilled
  BY <1>4 DEF DaemonExit, DaemonKilled, LoseMemory, NobodyIsServed, Pending
<1>5. CASE DaemonStart
  BY <1>5 DEF DaemonStart, NobodyIsServed
<1>6. ASSUME NEW e \in Executions,
             SupervisorStep(e) \/ CommandStep(e)
      PROVE  NobodyIsServed'
  BY <1>1, <1>6, SupervisorFrame DEF outside, callVars, shared, daemonVars
<1>7. CASE DrainBegin \/ DrainStep \/ DrainFails \/ DrainTimeout
  BY <1>1, <1>7, DrainFrame
<1>8. ASSUME NEW c \in Cancellers, NEW e \in Executions, CancelBegin(c, e)
      PROVE  NobodyIsServed'
  BY <1>8 DEF CancelBegin, NobodyIsServed, daemonVars
<1>9. ASSUME NEW c \in Cancellers,
             CallStep(c) \/ CancelFails(c) \/ CancelTimeout(c)
      PROVE  NobodyIsServed'
  BY <1>9
  DEF CallStep, CancelFails, CancelTimeout, CancelQueued, CancelRunning,
      CancelCheck, CancelPark, CancelWake, Return, CancelInv, TypeInv, TypeOK,
      NobodyIsServed, Pending, daemonVars, shared
<1> QED
  BY <1>1, <1>2, <1>3, <1>4, <1>5, <1>6, <1>7, <1>8, <1>9 DEF Next, vars

LEMMA WakeupStep == CancelInv /\ [Next]_vars => WakeupOnItsWay'
<1> SUFFICES ASSUME CancelInv, [Next]_vars,
                    NEW k \in Cancellers,
                    \/ cpc'[k] = "parked"
                    \/ cpc'[k] = "checked" /\ saw'[k] \notin Terminal,
                    row'[target'[k]] \in Terminal
             PROVE  \/ woken'[k]
                    \/ pc'[target'[k]] \in {"notify", "failNotify"}
                    \/ drainer' \in GaveUp
  BY DEF WakeupOnItsWay
<1> DEFINE Covered == \/ woken'[k]
                      \/ pc'[target'[k]] \in {"notify", "failNotify"}
                      \/ drainer' \in GaveUp
<1>1. CASE UNCHANGED <<row, pc, drainer, cpc, target, saw, woken>>
  BY <1>1 DEF CancelInv, WakeupOnItsWay
<1>2. ASSUME Broadcast, cpc[k] \in Pending PROVE Covered
  BY <1>2 DEF Broadcast
<1>3. ASSUME NEW e \in Executions, TaskStep(e) \/ StoreFails(e) PROVE Covered
  <2>1. /\ UNCHANGED <<drainer, cpc, target, saw>>
        /\ UNCHANGED woken \/ Broadcast
    BY <1>3, TaskFrame
  <2>2. CASE Broadcast
    BY <1>2, <2>1, <2>2 DEF Pending
  <2>3. CASE UNCHANGED woken
    <3>1. target[k] \in Executions
      BY <2>1 DEF CancelInv, TypeInv, TargetKnown, Pending
    <3>2. CASE target[k] = e
      BY <1>2, <1>3, <2>1, <2>3, <3>1, <3>2, TaskRow
      DEF CancelInv, WakeupOnItsWay, Pending
    <3>3. CASE target[k] # e
      BY <1>3, <2>1, <2>3, <3>1, <3>3, TaskRow, TaskMove
      DEF CancelInv, WakeupOnItsWay, TypeInv
    <3> QED
      BY <3>2, <3>3
  <2> QED
    BY <2>1, <2>2, <2>3
<1>4. ASSUME NEW e \in Executions, CreateExecution(e) PROVE Covered
  <2>1. /\ target[k] \in Executions
        /\ UNCHANGED <<drainer, cpc, target, saw, woken>>
    BY <1>4
    DEF CreateExecution, CancelInv, TypeInv, TargetKnown, Pending, callVars,
        shared, drainVars
  <2>2. target[k] # e
    BY <1>4, <2>1
    DEF CreateExecution, SetRow, CancelInv, TypeInv, TypeOK, Terminal
  <2> QED
    BY <1>4, <2>1, <2>2
    DEF CreateExecution, SetRow, Goto, CancelInv, TypeInv, TypeOK,
        WakeupOnItsWay
<1>5. ASSUME NEW e \in Executions, AbortTask(e) PROVE Covered
  BY <1>5 DEF AbortTask, shared, drainVars, GaveUp
<1>6. CASE DaemonExit \/ DaemonKilled
  BY <1>6 DEF DaemonExit, DaemonKilled, LoseMemory
<1>7. CASE DaemonStart
  BY <1>7 DEF DaemonStart, CancelInv, NobodyIsServed, Pending, callVars
<1>8. ASSUME NEW e \in Executions,
             SupervisorStep(e) \/ CommandStep(e)
      PROVE  Covered
  BY <1>1, <1>8, SupervisorFrame
  DEF outside, callVars, shared, drainVars, taskVars
<1>9. CASE DrainBegin \/ DrainStep \/ DrainFails \/ DrainTimeout
  BY <1>2, <1>9, DrainFrame DEF CancelInv, WakeupOnItsWay, taskVars, Pending
<1>10. ASSUME NEW c \in Cancellers,
              \/ CallStep(c) \/ CancelFails(c) \/ CancelTimeout(c)
              \/ \E e \in Executions : CancelBegin(c, e)
       PROVE  Covered
  <2>1. CASE c = k
    BY <1>10, <2>1
    DEF CallStep, CancelFails, CancelTimeout, CancelBegin, Return,
        CancelQueued, CancelRunning, CancelCheck, CancelPark, CancelWake,
        CancelInv, TypeInv, TypeOK, WakeupOnItsWay, Pending, shared, drainVars,
        taskVars
  <2>2. CASE c # k
    <3>1. cpc'[k] = cpc[k] /\ target'[k] = target[k] /\ saw'[k] = saw[k]
          /\ (woken'[k] = woken[k] \/ Broadcast)
      BY <1>10, <2>2
      DEF CallStep, CancelFails, CancelTimeout, CancelBegin, Return,
          CancelQueued, CancelRunning, CancelCheck, CancelPark, CancelWake,
          CancelInv, TypeInv, TypeOK
    <3>2. CASE Broadcast
      BY <1>2, <3>1, <3>2 DEF Pending
    <3>3. CASE UNCHANGED row /\ woken'[k] = woken[k]
      BY <1>10, <3>1, <3>3, CallFrame
      DEF CancelInv, WakeupOnItsWay, drainVars, taskVars
    <3> QED
      BY <1>10, <3>1, <3>2, <3>3, CallFrame
  <2> QED
    BY <2>1, <2>2
<1> QED
  BY <1>1, <1>3, <1>4, <1>5, <1>6, <1>7, <1>8, <1>9, <1>10
  DEF Next, vars, taskVars

LEMMA CancelInvariance == Spec => []CancelInv
<1>1. Init => CancelInv
  BY TypeInit
  DEF Init, CancelInv, TypeInv, VerdictKnown, TargetKnown, Pending,
      NobodyIsServed, WakeupOnItsWay
<1>2. CancelInv /\ [Next]_vars => CancelInv'
  BY TypeStep, VerdictStep, TargetStep, ServedStep, WakeupStep
  DEF CancelInv, TypeInv
<1> QED
  BY <1>1, <1>2, PTL DEF Spec

\* Whatever closes an execution - its task, drain, another cancel() - a cancel()
\* asleep on it has its wake-up, because it subscribed before it first looked.
THEOREM CancelWakesUp == Spec => []NoLostCancelWakeup
<1>1. CancelInv => NoLostCancelWakeup
  BY DEF CancelInv, WakeupOnItsWay, NoLostCancelWakeup
<1> QED
  BY <1>1, CancelInvariance, PTL

-----------------------------------------------------------------------------
(* drain() does not sleep through the last task's goodbye.                 *)

\* The count may reach zero between the load and the sleep.
GoodbyeOnItsWay ==
    drainer \in {"busy", "park"} /\ Active = {} =>
        idleNotified \/ \E e \in Executions : pc[e] = "wake"

LEMMA GoodbyeStep ==
    TypeInv /\ GoodbyeOnItsWay /\ [Next]_vars => GoodbyeOnItsWay'
<1> SUFFICES ASSUME TypeInv, GoodbyeOnItsWay, [Next]_vars,
                    drainer' \in {"busy", "park"}, Active' = {}
             PROVE  idleNotified' \/ \E e \in Executions : pc'[e] = "wake"
  BY DEF GoodbyeOnItsWay
<1> DEFINE Told == idleNotified' \/ \E e \in Executions : pc'[e] = "wake"
<1>1. CASE UNCHANGED <<drainVars, pc>>
  BY <1>1 DEF GoodbyeOnItsWay, Active, drainVars
<1>2. ASSUME NEW e \in Executions, TaskStep(e) \/ StoreFails(e) PROVE Told
  <2>1. pc'[e] \notin Counted
    BY DEF Active
  <2>2. CASE pc[e] \in Counted
    BY <1>2, <2>1, <2>2, TaskMove DEF TypeInv
  <2>3. CASE pc[e] \notin Counted
    BY <1>2, <2>1, <2>3, TaskMove DEF TypeInv
  <2> QED
    BY <2>2, <2>3
<1>3. ASSUME NEW e \in Executions, CreateExecution(e) PROVE Told
  BY <1>3 DEF CreateExecution, Accepting, shared, drainVars
<1>4. ASSUME NEW e \in Executions, AbortTask(e) PROVE Told
  BY <1>4 DEF AbortTask, shared, drainVars
<1>5. CASE DaemonExit \/ DaemonKilled
  BY <1>5 DEF DaemonExit, DaemonKilled, LoseMemory
<1>6. CASE DaemonStart
  BY <1>1, <1>6 DEF DaemonStart, taskVars
<1>7. ASSUME NEW e \in Executions,
             SupervisorStep(e) \/ CommandStep(e)
      PROVE  Told
  BY <1>1, <1>7, SupervisorFrame DEF outside, shared, taskVars
<1>8. CASE DrainCheck
  BY <1>8 DEF DrainCheck, DrainGoto, Active, taskVars
<1>9. CASE DrainPark
  BY <1>9 DEF DrainPark, DrainGoto, Active, taskVars, GoodbyeOnItsWay
<1>10. CASE (DrainStep /\ ~DrainCheck /\ ~DrainPark) \/ DrainBegin \/ DrainFails
            \/ DrainTimeout
  BY <1>10
  DEF DrainStep, DrainBegin, DrainFails, DrainTimeout, CloseSlots,
      DrainCancelQueued, DrainSignal, DrainArm, DrainWake, DrainForced,
      DrainGoto
<1>11. ASSUME NEW c \in Cancellers,
              \/ CallStep(c) \/ CancelFails(c) \/ CancelTimeout(c)
              \/ \E e \in Executions : CancelBegin(c, e)
       PROVE  Told
  BY <1>1, <1>11, CallFrame DEF taskVars
<1> QED
  BY <1>1, <1>2, <1>3, <1>4, <1>5, <1>6, <1>7, <1>8, <1>9, <1>10, <1>11
  DEF Next, vars, drainVars

\* However the last task ends - normally, failing, aborted - a drain asleep on
\* an idle engine has been notified or is about to be.
THEOREM DrainHearsIdle == Spec => []NoLostIdleWakeup
<1>1. Init => GoodbyeOnItsWay
  BY DEF Init, GoodbyeOnItsWay
<1>2. GoodbyeOnItsWay => NoLostIdleWakeup
  BY DEF GoodbyeOnItsWay, NoLostIdleWakeup
<1> QED
  BY <1>1, <1>2, GoodbyeStep, TypeInvariance, PTL DEF Spec

-----------------------------------------------------------------------------
(* Nothing is queued behind drain's back.                                  *)

QueueInv == QueueStaysEmpty /\ (~up => drainer = "idle")

LEMMA QueueStep == TypeInv /\ QueueInv /\ [Next]_vars => QueueInv'
<1> SUFFICES ASSUME TypeInv, QueueInv, [Next]_vars PROVE QueueInv'
  OBVIOUS
<1>1. CASE UNCHANGED <<up, drainer, row>>
  BY <1>1 DEF QueueInv, QueueStaysEmpty
<1>2. ASSUME NEW e \in Executions, TaskStep(e) \/ StoreFails(e) PROVE QueueInv'
  <2>1. UNCHANGED <<up, drainer>>
    BY <1>2, TaskFrame
  <2>2. \A x \in Executions : row'[x] = "queued" => row[x] = "queued"
    BY <1>2, TaskRow
  <2> QED
    BY <2>1, <2>2 DEF QueueInv, QueueStaysEmpty
<1>3. ASSUME NEW e \in Executions, CreateExecution(e) PROVE QueueInv'
  BY <1>3
  DEF CreateExecution, Accepting, shared, drainVars, daemonVars, QueueInv,
      QueueStaysEmpty
<1>4. ASSUME NEW e \in Executions, AbortTask(e) PROVE QueueInv'
  BY <1>1, <1>4 DEF AbortTask, shared, drainVars, daemonVars
<1>5. CASE DaemonExit \/ DaemonKilled
  BY <1>5 DEF DaemonExit, DaemonKilled, LoseMemory, QueueInv, QueueStaysEmpty
<1>6. CASE DaemonStart
  BY <1>6 DEF DaemonStart, drainVars, QueueInv, QueueStaysEmpty
<1>7. ASSUME NEW e \in Executions,
             SupervisorStep(e) \/ CommandStep(e)
      PROVE  QueueInv'
  BY <1>1, <1>7, SupervisorFrame DEF outside, shared, drainVars, daemonVars
<1>8. CASE DrainCancelQueued
  BY <1>8 DEF DrainCancelQueued, QueueInv, QueueStaysEmpty, daemonVars
<1>9. CASE (DrainStep /\ ~DrainCancelQueued) \/ DrainBegin \/ DrainFails
           \/ DrainTimeout
  BY <1>9
  DEF DrainStep, DrainBegin, DrainFails, DrainTimeout, CloseSlots, DrainSignal,
      DrainArm, DrainCheck, DrainPark, DrainWake, DrainForced, DrainGoto,
      Accepting, daemonVars, QueueInv, QueueStaysEmpty
<1>10. ASSUME NEW c \in Cancellers,
              \/ CallStep(c) \/ CancelFails(c) \/ CancelTimeout(c)
              \/ \E e \in Executions : CancelBegin(c, e)
       PROVE  QueueInv'
  <2>1. \A x \in Executions : row'[x] = "queued" => row[x] = "queued"
    BY <1>10, CallFrame DEF SetRow, TypeInv, TypeOK
  <2> QED
    BY <1>10, <2>1, CallFrame DEF QueueInv, QueueStaysEmpty, drainVars
<1> QED
  BY <1>1, <1>2, <1>3, <1>4, <1>5, <1>6, <1>7, <1>8, <1>9, <1>10 DEF Next, vars

LEMMA QueueInvariance == Spec => []QueueInv
<1>1. Init => QueueInv
  BY DEF Init, QueueInv, QueueStaysEmpty
<1> QED
  BY <1>1, QueueStep, TypeInvariance, PTL DEF Spec

\* After drain has emptied the queue no execute() puts anything into it, for any
\* number of callers racing it.
THEOREM QueueClosed == Spec => []QueueStaysEmpty
BY QueueInvariance, PTL DEF QueueInv

-----------------------------------------------------------------------------
(* A closed execution's command is always on its way to be stopped.        *)

Unborn == {"none", "creating", "slot", "check", "spawn"}

\* Before its spawn a task has no supervisor, no handle and no running row.
UnbornTasks ==
    \A e \in Executions :
        /\ row[e] = "absent" => pc[e] = "none"
        /\ pc[e] \in Unborn => sup[e] = "none"
        /\ pc[e] \in Unborn \cup {"register"} =>
             row[e] # "running" /\ e \notin processes

\* A supervisor reports an outcome, or half a frame, only as it exits.
OutcomeIsLast ==
    \A e \in Executions :
        sup[e] # "exited" =>
            \A i \in 1 .. Len(events[e]) : events[e][i] = "started"

\* So a task records an outcome only when no command is left.
RecordedAfterExit ==
    \A e \in Executions :
        pc[e] \in {"record", "commit", "notify", "close"} =>
            sup[e] \in {"none", "exited"}

\* A registered task whose row is still queued can be found by cancel().
QueuedHasHandle ==
    /\ \A e \in Executions :
         pc[e] = "events" /\ row[e] = "queued" => e \in processes
    /\ up /\ drainer \in {"abort", "forced"} => processes = {}
    /\ ~up => processes = {} /\ \A e \in Executions : pc[e] \in {"none", "lost"}

\* What the transitions mutex buys: no row starts running while cancel()
\* decides what to do with it.
TransitionsHeld ==
    /\ \A c \in Cancellers :
         cpc[c] = "looking" =>
            /\ lock = c
            /\ saw[c] = "queued" => row[target[c]] # "running"
    /\ drainer = "signal" => lock = "drain"

StopInv ==
    /\ TypeInv
    /\ QueueInv
    /\ UnbornTasks
    /\ OutcomeIsLast
    /\ RecordedAfterExit
    /\ QueuedHasHandle
    /\ TransitionsHeld
    /\ StopReachesCommand

LEMMA TaskLocal ==
    ASSUME TypeOK, NEW e \in Executions, TaskStep(e) \/ StoreFails(e)
    PROVE  \A x \in Executions \ {e} :
             /\ row'[x] = row[x] /\ pc'[x] = pc[x] /\ sup'[x] = sup[x]
             /\ events'[x] = events[x]
             /\ x \in processes' <=> x \in processes
BY DEF TypeOK, TaskStep, StoreFails, StartTask, AcquireSlot, CheckQueued,
       SpawnSupervisor, Register, HandleStarted, HandleFinished, StreamEnds,
       HandleTornFrame, RecordOutcome, CommitOutcome, NotifyOutcome,
       CloseControl, ReapSupervisor, RecordFailure, CommitFailure,
       NotifyFailure, Unregister, DropActive, WakeIdle, Jump, Goto, SetRow,
       ForgetTask, DropStdout, taskVars, supVars, shared

\* A task is born once, and not running before its supervisor is registered.
LEMMA TaskBirth ==
    ASSUME TypeInv, NEW e \in Executions, TaskStep(e) \/ StoreFails(e)
    PROVE  /\ row'[e] = "absent" => row[e] = "absent"
           /\ pc[e] \notin {"none", "lost"} /\ pc'[e] # "none"
           /\ pc'[e] \in Unborn => pc[e] \in Unborn /\ sup'[e] = sup[e]
           /\ pc'[e] \in Unborn \cup {"register"} =>
                /\ pc[e] \in Unborn \cup {"register"}
                /\ row'[e] = row[e]
                /\ e \in processes' => e \in processes
BY DEF TypeInv, TypeOK, VerdictKnown, Terminal, Unborn, TaskStep, StoreFails,
       StartTask, AcquireSlot, CheckQueued, SpawnSupervisor, Register,
       HandleStarted, HandleFinished, StreamEnds, HandleTornFrame,
       RecordOutcome, CommitOutcome, NotifyOutcome, CloseControl,
       ReapSupervisor, RecordFailure, CommitFailure, NotifyFailure, Unregister,
       DropActive, WakeIdle, Jump, Goto, SetRow, ForgetTask, DropStdout,
       taskVars, supVars, shared

\* A task reads frames, or stops reading; it starts a supervisor once.
LEMMA TaskReads ==
    ASSUME TypeOK, NEW e \in Executions, TaskStep(e) \/ StoreFails(e)
    PROVE  \/ events'[e] = events[e]
           \/ events'[e] = <<>>
           \/ events[e] # <<>> /\ events'[e] = Tail(events[e])
BY DEF TypeOK, TaskStep, StoreFails, StartTask, AcquireSlot, CheckQueued,
       SpawnSupervisor, Register, HandleStarted, HandleFinished, StreamEnds,
       HandleTornFrame, RecordOutcome, CommitOutcome, NotifyOutcome,
       CloseControl, ReapSupervisor, RecordFailure, CommitFailure,
       NotifyFailure, Unregister, DropActive, WakeIdle, Jump, Goto, SetRow,
       ForgetTask, DropStdout, supVars

LEMMA TaskSpawns ==
    ASSUME TypeOK, UnbornTasks, NEW e \in Executions,
           TaskStep(e) \/ StoreFails(e)
    PROVE  \/ sup'[e] = sup[e]
           \/ sup[e] = "none" /\ sup'[e] = "booting"
BY DEF TypeOK, UnbornTasks, Unborn, TaskStep, StoreFails, StartTask,
       AcquireSlot, CheckQueued, SpawnSupervisor, Register, HandleStarted,
       HandleFinished, StreamEnds, HandleTornFrame, RecordOutcome,
       CommitOutcome, NotifyOutcome, CloseControl, ReapSupervisor,
       RecordFailure, CommitFailure, NotifyFailure, Unregister, DropActive,
       WakeIdle, Jump, Goto, SetRow, ForgetTask, DropStdout, supVars

\* A task registers its handle under the lock, where it sees the row.
LEMMA TaskHandle ==
    ASSUME TypeInv, NEW e \in Executions, TaskStep(e) \/ StoreFails(e)
    PROVE  pc'[e] = "events" /\ row'[e] = "queued" =>
                \/ e \in processes'
                \/ pc[e] = "events" /\ row[e] = "queued" /\ e \notin processes
BY DEF TypeInv, TypeOK, VerdictKnown, Terminal, TaskStep, StoreFails,
       StartTask, AcquireSlot, CheckQueued, SpawnSupervisor, Register,
       HandleStarted, HandleFinished, StreamEnds, HandleTornFrame,
       RecordOutcome, CommitOutcome, NotifyOutcome, CloseControl,
       ReapSupervisor, RecordFailure, CommitFailure, NotifyFailure, Unregister,
       DropActive, WakeIdle, Jump, Goto, SetRow, ForgetTask, DropStdout,
       taskVars, supVars, shared

LEMMA TaskRegisters ==
    ASSUME TypeInv, NEW e \in Executions, TaskStep(e) \/ StoreFails(e)
    PROVE  \/ processes' \subseteq processes
           \/ pc[e] = "register" /\ row[e] \notin Terminal
BY DEF TaskStep, StoreFails, StartTask, AcquireSlot, CheckQueued,
       SpawnSupervisor, Register, HandleStarted, HandleFinished, StreamEnds,
       HandleTornFrame, RecordOutcome, CommitOutcome, NotifyOutcome,
       CloseControl, ReapSupervisor, RecordFailure, CommitFailure,
       NotifyFailure, Unregister, DropActive, WakeIdle, Jump, Goto, SetRow,
       ForgetTask, DropStdout

LEMMA TaskRuns ==
    ASSUME TypeInv, NEW e \in Executions, TaskStep(e) \/ StoreFails(e)
    PROVE  row'[e] = "running" => row[e] = "running" \/ lock = "free"
BY DEF TypeInv, TypeOK, VerdictKnown, Terminal, TaskStep, StoreFails,
       StartTask, AcquireSlot, CheckQueued, SpawnSupervisor, Register,
       HandleStarted, HandleFinished, StreamEnds, HandleTornFrame,
       RecordOutcome, CommitOutcome, NotifyOutcome, CloseControl,
       ReapSupervisor, RecordFailure, CommitFailure, NotifyFailure, Unregister,
       DropActive, WakeIdle, Jump, Goto, SetRow, ForgetTask, DropStdout,
       taskVars

LEMMA SupervisorLocal ==
    ASSUME TypeOK, NEW e \in Executions,
           SupervisorStep(e) \/ CommandStep(e)
    PROVE  /\ sup[e] \in SupervisorLive
           /\ sup'[e] # "none"
           /\ sup'[e] \in {"booting", "alive"} => sup[e] = "booting"
           /\ \A x \in Executions \ {e} :
                sup'[x] = sup[x] /\ events'[x] = events[x]
BY DEF TypeOK, SupervisorStep, CommandStep, CommandLingers, CommandEnds,
       SupervisorDies, SupervisorLaunch, SupervisorReadsCancel,
       SupervisorLosesDaemon, CommandKilled, SupBecomes, Emit, outside, shared,
       SupervisorLive

LEMMA SupervisorEmits ==
    ASSUME TypeOK, NEW e \in Executions,
           SupervisorStep(e) \/ CommandStep(e)
    PROVE  \/ sup'[e] = "exited"
           \/ events'[e] = events[e]
           \/ events'[e] = Append(events[e], "started")
BY DEF TypeOK, SupervisorStep, CommandStep, CommandLingers, CommandEnds,
       SupervisorDies, SupervisorLaunch, SupervisorReadsCancel,
       SupervisorLosesDaemon, CommandKilled, SupBecomes, Emit, outside, shared

LEMMA UnbornStep == StopInv /\ [Next]_vars => UnbornTasks'
<1> SUFFICES ASSUME StopInv, [Next]_vars PROVE UnbornTasks'
  OBVIOUS
<1> USE DEF StopInv, TypeInv, TypeOK, UnbornTasks, Unborn, VerdictKnown,
            Terminal
<1>1. ASSUME NEW e \in Executions, TaskStep(e) \/ StoreFails(e)
      PROVE  UnbornTasks'
  <2> SUFFICES ASSUME NEW x \in Executions
               PROVE  /\ row'[x] = "absent" => pc'[x] = "none"
                      /\ pc'[x] \in Unborn => sup'[x] = "none"
                      /\ pc'[x] \in Unborn \cup {"register"} =>
                           row'[x] # "running" /\ x \notin processes'
    OBVIOUS
  <2>1. CASE x # e
    BY <1>1, <2>1, TaskLocal
  <2>2. CASE x = e
    BY <1>1, <2>2, TaskBirth
  <2> QED
    BY <2>1, <2>2
<1>2. ASSUME NEW e \in Executions, CreateExecution(e) PROVE UnbornTasks'
  BY <1>2
  DEF CreateExecution, Accepting, SetRow, Goto, supVars, taskVars, drainVars,
      daemonVars, shared, callVars
<1>3. ASSUME NEW e \in Executions, AbortTask(e) PROVE UnbornTasks'
  BY <1>3
  DEF AbortTask, ForgetTask, DropStdout, Goto, Counted, Holding, supVars,
      taskVars, drainVars, daemonVars, shared, callVars
<1>4. CASE DaemonExit \/ DaemonKilled
  BY <1>4 DEF DaemonExit, DaemonKilled, LoseMemory
<1>5. CASE DaemonStart
  BY <1>5
  DEF DaemonStart, supVars, taskVars, drainVars, daemonVars, shared, callVars
<1>6. ASSUME NEW e \in Executions,
             SupervisorStep(e) \/ CommandStep(e)
      PROVE  UnbornTasks'
  BY <1>6, SupervisorLocal, SupervisorFrame
  DEF outside, taskVars, SupervisorLive
<1>7. CASE DrainBegin \/ DrainStep \/ DrainFails \/ DrainTimeout
  BY <1>7, DrainFrame DEF DrainCancelQueued, taskVars
<1>8. ASSUME NEW c \in Cancellers,
             \/ CallStep(c) \/ CancelFails(c) \/ CancelTimeout(c)
             \/ \E e \in Executions : CancelBegin(c, e)
      PROVE  UnbornTasks'
  BY <1>8, CallFrame DEF SetRow, taskVars
<1>9. CASE UNCHANGED vars
  BY <1>9 DEF vars
<1> QED
  BY <1>1, <1>2, <1>3, <1>4, <1>5, <1>6, <1>7, <1>8, <1>9 DEF Next

LEMMA OutcomeStep == StopInv /\ [Next]_vars => OutcomeIsLast'
<1> SUFFICES ASSUME StopInv, [Next]_vars PROVE OutcomeIsLast'
  OBVIOUS
<1> USE DEF StopInv, TypeInv, TypeOK, OutcomeIsLast
<1>1. ASSUME NEW e \in Executions, TaskStep(e) \/ StoreFails(e)
      PROVE  OutcomeIsLast'
  <2> SUFFICES ASSUME NEW x \in Executions, sup'[x] # "exited",
                      NEW i \in 1 .. Len(events'[x])
               PROVE  events'[x][i] = "started"
    OBVIOUS
  <2>1. CASE x # e
    BY <1>1, <2>1, TaskLocal
  <2>2. CASE x = e
    <3>1. sup[e] # "exited" /\ events[e] \in Seq(Frames)
      BY <1>1, <2>2, TaskSpawns
    <3>2. \A j \in 1 .. Len(events[e]) : events[e][j] = "started"
      BY <3>1
    <3>3. CASE events'[e] = events[e]
      BY <2>2, <3>2, <3>3
    <3>4. CASE events'[e] = <<>>
      BY <2>2, <3>4
    <3>5. CASE events[e] # <<>> /\ events'[e] = Tail(events[e])
      <4>1. /\ Len(events'[e]) = Len(events[e]) - 1
            /\ events'[e][i] = events[e][i + 1]
        BY <2>2, <3>1, <3>5
      <4> QED
        BY <2>2, <3>1, <3>2, <4>1
    <3> QED
      BY <1>1, <3>3, <3>4, <3>5, TaskReads
  <2> QED
    BY <2>1, <2>2
<1>2. ASSUME NEW e \in Executions, CreateExecution(e) PROVE OutcomeIsLast'
  BY <1>2 DEF CreateExecution, supVars
<1>3. ASSUME NEW e \in Executions, AbortTask(e) PROVE OutcomeIsLast'
  BY <1>3
  DEF AbortTask, ForgetTask, DropStdout, Goto, Counted, Holding, supVars,
      taskVars, drainVars, daemonVars, shared, callVars
<1>4. CASE DaemonExit \/ DaemonKilled
  BY <1>4 DEF DaemonExit, DaemonKilled, LoseMemory
<1>5. CASE DaemonStart
  BY <1>5
  DEF DaemonStart, supVars, taskVars, drainVars, daemonVars, shared, callVars
<1>6. ASSUME NEW e \in Executions,
             SupervisorStep(e) \/ CommandStep(e)
      PROVE  OutcomeIsLast'
  <2> SUFFICES ASSUME NEW x \in Executions, sup'[x] # "exited",
                      NEW i \in 1 .. Len(events'[x])
               PROVE  events'[x][i] = "started"
    OBVIOUS
  <2>1. CASE x # e
    BY <1>6, <2>1, SupervisorLocal
  <2>2. CASE x = e
    <3>1. sup[e] # "exited" /\ events[e] \in Seq(Frames)
      BY <1>6, SupervisorLocal DEF SupervisorLive
    <3>2. \A j \in 1 .. Len(events[e]) : events[e][j] = "started"
      BY <3>1
    <3>3. CASE events'[e] = events[e]
      BY <2>2, <3>2, <3>3
    <3>4. CASE events'[e] = Append(events[e], "started")
      BY <2>2, <3>1, <3>2, <3>4
    <3> QED
      BY <1>6, <2>2, <3>3, <3>4, SupervisorEmits
  <2> QED
    BY <2>1, <2>2
<1>7. CASE DrainBegin \/ DrainStep \/ DrainFails \/ DrainTimeout
  BY <1>7, DrainFrame
<1>8. ASSUME NEW c \in Cancellers,
             \/ CallStep(c) \/ CancelFails(c) \/ CancelTimeout(c)
             \/ \E e \in Executions : CancelBegin(c, e)
      PROVE  OutcomeIsLast'
  BY <1>8, CallFrame
<1>9. CASE UNCHANGED vars
  BY <1>9 DEF vars
<1> QED
  BY <1>1, <1>2, <1>3, <1>4, <1>5, <1>6, <1>7, <1>8, <1>9 DEF Next

LEMMA RecordedStep == StopInv /\ [Next]_vars => RecordedAfterExit'
<1> SUFFICES ASSUME StopInv, [Next]_vars PROVE RecordedAfterExit'
  OBVIOUS
<1> USE DEF StopInv, TypeInv, TypeOK, RecordedAfterExit, OutcomeIsLast,
            UnbornTasks, Unborn, Terminal
<1>1. ASSUME NEW e \in Executions, TaskStep(e) \/ StoreFails(e)
      PROVE  RecordedAfterExit'
  BY <1>1
  DEF TaskStep, StoreFails, StartTask, AcquireSlot, CheckQueued,
      SpawnSupervisor, Register, HandleStarted, HandleFinished, StreamEnds,
      HandleTornFrame, RecordOutcome, CommitOutcome, NotifyOutcome,
      CloseControl, ReapSupervisor, RecordFailure, CommitFailure,
      NotifyFailure, Unregister, DropActive, WakeIdle, Jump, Goto, SetRow,
      ForgetTask, DropStdout, supVars, taskVars, drainVars, daemonVars, shared,
      callVars
<1>2. ASSUME NEW e \in Executions, CreateExecution(e) PROVE RecordedAfterExit'
  BY <1>2
  DEF CreateExecution, Accepting, SetRow, Goto, supVars, taskVars, drainVars,
      daemonVars, shared, callVars
<1>3. ASSUME NEW e \in Executions, AbortTask(e) PROVE RecordedAfterExit'
  BY <1>3
  DEF AbortTask, ForgetTask, DropStdout, Goto, Counted, Holding, supVars,
      taskVars, drainVars, daemonVars, shared, callVars
<1>4. CASE DaemonExit \/ DaemonKilled
  BY <1>4 DEF DaemonExit, DaemonKilled, LoseMemory
<1>5. CASE DaemonStart
  BY <1>5
  DEF DaemonStart, supVars, taskVars, drainVars, daemonVars, shared, callVars
<1>6. ASSUME NEW e \in Executions,
             SupervisorStep(e) \/ CommandStep(e)
      PROVE  RecordedAfterExit'
  BY <1>6, SupervisorFrame, SupervisorLocal
  DEF outside, shared, drainVars, taskVars, daemonVars, callVars,
      SupervisorLive
<1>7. CASE DrainBegin \/ DrainStep \/ DrainFails \/ DrainTimeout
  BY <1>7, DrainFrame DEF taskVars
<1>8. ASSUME NEW c \in Cancellers,
             \/ CallStep(c) \/ CancelFails(c) \/ CancelTimeout(c)
             \/ \E e \in Executions : CancelBegin(c, e)
      PROVE  RecordedAfterExit'
  BY <1>8, CallFrame DEF taskVars
<1>9. CASE UNCHANGED vars
  BY <1>9 DEF vars
<1> QED
  BY <1>1, <1>2, <1>3, <1>4, <1>5, <1>6, <1>7, <1>8, <1>9 DEF Next

LEMMA HandleStep == StopInv /\ [Next]_vars => QueuedHasHandle'
<1> SUFFICES ASSUME StopInv, [Next]_vars PROVE QueuedHasHandle'
  OBVIOUS
<1> USE DEF StopInv, TypeInv, TypeOK, QueuedHasHandle, QueueInv,
            QueueStaysEmpty, UnbornTasks, Unborn, Terminal, VerdictKnown
<1>1. ASSUME NEW e \in Executions, TaskStep(e) \/ StoreFails(e)
      PROVE  QueuedHasHandle'
  <2>1. UNCHANGED <<up, drainer>> /\ pc[e] \notin {"none", "lost"}
    BY <1>1, TaskFrame, TaskBirth
  <2>2. up
    BY <2>1
  <2>3. \A x \in Executions :
            pc'[x] = "events" /\ row'[x] = "queued" => x \in processes'
    <3>1. ASSUME NEW x \in Executions \ {e},
                 pc'[x] = "events", row'[x] = "queued"
          PROVE  x \in processes'
      BY <1>1, <3>1, TaskLocal
    <3> QED
      BY <1>1, <3>1, TaskHandle
  <2>4. drainer \in {"abort", "forced"} => processes' = {}
    BY <1>1, <2>2, TaskRegisters DEF RowStates, Incomplete
  <2> QED
    BY <2>1, <2>2, <2>3, <2>4
<1>2. ASSUME NEW e \in Executions, CreateExecution(e) PROVE QueuedHasHandle'
  BY <1>2
  DEF CreateExecution, Accepting, SetRow, Goto, supVars, taskVars, drainVars,
      daemonVars, shared, callVars
<1>3. ASSUME NEW e \in Executions, AbortTask(e) PROVE QueuedHasHandle'
  BY <1>3
  DEF AbortTask, ForgetTask, DropStdout, Goto, Counted, Holding, supVars,
      taskVars, drainVars, daemonVars, shared, callVars
<1>4. CASE DaemonExit \/ DaemonKilled
  BY <1>4 DEF DaemonExit, DaemonKilled, LoseMemory
<1>5. CASE DaemonStart
  BY <1>5
  DEF DaemonStart, supVars, taskVars, drainVars, daemonVars, shared, callVars
<1>6. ASSUME NEW e \in Executions,
             SupervisorStep(e) \/ CommandStep(e)
      PROVE  QueuedHasHandle'
  BY <1>6, SupervisorFrame, SupervisorLocal
  DEF outside, shared, drainVars, taskVars, daemonVars, callVars,
      SupervisorLive
<1>7. CASE DrainBegin \/ DrainStep \/ DrainFails \/ DrainTimeout
  BY <1>7
  DEF DrainBegin, DrainStep, DrainFails, DrainTimeout, CloseSlots,
      DrainCancelQueued, DrainSignal, DrainArm, DrainCheck, DrainPark,
      DrainWake, DrainForced, DrainGoto, Accepting, supVars, taskVars,
      drainVars, daemonVars, callVars
<1>8. ASSUME NEW c \in Cancellers,
             \/ CallStep(c) \/ CancelFails(c) \/ CancelTimeout(c)
             \/ \E e \in Executions : CancelBegin(c, e)
      PROVE  QueuedHasHandle'
  BY <1>8, CallFrame DEF SetRow, taskVars, drainVars
<1>9. CASE UNCHANGED vars
  BY <1>9 DEF vars
<1> QED
  BY <1>1, <1>2, <1>3, <1>4, <1>5, <1>6, <1>7, <1>8, <1>9 DEF Next

LEMMA TransitionsStep == StopInv /\ [Next]_vars => TransitionsHeld'
<1> SUFFICES ASSUME StopInv, [Next]_vars PROVE TransitionsHeld'
  OBVIOUS
<1> USE DEF StopInv, TypeInv, TypeOK, TransitionsHeld, TargetKnown, Pending
<1>1. ASSUME NEW e \in Executions, TaskStep(e) \/ StoreFails(e)
      PROVE  TransitionsHeld'
  <2>1. UNCHANGED <<drainer, lock, cpc, target, saw>>
    BY <1>1, TaskFrame
  <2>2. ASSUME NEW c \in Cancellers, cpc[c] = "looking", saw[c] = "queued"
        PROVE  row'[target[c]] # "running"
    <3>1. lock # "free" /\ target[c] \in Executions
      BY <2>2, EngineAssumption
    <3>2. CASE target[c] = e
      BY <1>1, <2>2, <3>1, <3>2, TaskRuns
    <3>3. CASE target[c] # e
      BY <1>1, <2>2, <3>1, <3>3, TaskLocal
    <3> QED
      BY <3>2, <3>3
  <2> QED
    BY <2>1, <2>2
<1>2. ASSUME NEW e \in Executions, CreateExecution(e) PROVE TransitionsHeld'
  BY <1>2
  DEF CreateExecution, Accepting, SetRow, Goto, supVars, taskVars, drainVars,
      daemonVars, shared, callVars
<1>3. ASSUME NEW e \in Executions, AbortTask(e) PROVE TransitionsHeld'
  BY <1>3
  DEF AbortTask, ForgetTask, DropStdout, Goto, Counted, Holding, supVars,
      taskVars, drainVars, daemonVars, shared, callVars
<1>4. CASE DaemonExit \/ DaemonKilled
  BY <1>4 DEF DaemonExit, DaemonKilled, LoseMemory
<1>5. CASE DaemonStart
  BY <1>5
  DEF DaemonStart, supVars, taskVars, drainVars, daemonVars, shared, callVars
<1>6. ASSUME NEW e \in Executions,
             SupervisorStep(e) \/ CommandStep(e)
      PROVE  TransitionsHeld'
  BY <1>6, SupervisorFrame, SupervisorLocal
  DEF outside, shared, drainVars, taskVars, daemonVars, callVars,
      SupervisorLive
<1>7. CASE DrainBegin \/ DrainStep \/ DrainFails \/ DrainTimeout
  BY <1>7, EngineAssumption
  DEF DrainBegin, DrainStep, DrainFails, DrainTimeout, CloseSlots,
      DrainCancelQueued, DrainSignal, DrainArm, DrainCheck, DrainPark,
      DrainWake, DrainForced, DrainGoto, Accepting, daemonVars, callVars
<1>8. ASSUME NEW c \in Cancellers,
             \/ CallStep(c) \/ CancelFails(c) \/ CancelTimeout(c)
             \/ \E e \in Executions : CancelBegin(c, e)
      PROVE  TransitionsHeld'
  BY <1>8, EngineAssumption
  DEF CallStep, CancelFails, CancelTimeout, CancelBegin, Return, CancelQueued,
      CancelRunning, CancelCheck, CancelPark, CancelWake, SetRow, drainVars,
      shared, taskVars
<1>9. CASE UNCHANGED vars
  BY <1>9 DEF vars
<1> QED
  BY <1>1, <1>2, <1>3, <1>4, <1>5, <1>6, <1>7, <1>8, <1>9 DEF Next

\* A daemon that is gone has none of its pipes.
LEMMA PipesLost ==
    ASSUME DaemonExit \/ DaemonKilled
    PROVE  \A e \in Executions : ~ControlOpen(e)'
BY DEF DaemonExit, DaemonKilled, LoseMemory, ControlOpen, OwnsControl

LEMMA StopStep == StopInv /\ [Next]_vars => StopReachesCommand'
<1> SUFFICES ASSUME StopInv, [Next]_vars PROVE StopReachesCommand'
  OBVIOUS
<1> USE DEF StopInv, TypeInv, TypeOK, StopReachesCommand, QueuedHasHandle,
            QueueInv, QueueStaysEmpty, UnbornTasks, Unborn, RecordedAfterExit,
            Terminal, ControlOpen, OwnsControl, Failing
<1>1. ASSUME NEW e \in Executions, TaskStep(e) \/ StoreFails(e)
      PROVE  StopReachesCommand'
  BY <1>1
  DEF TaskStep, StoreFails, StartTask, AcquireSlot, CheckQueued,
      SpawnSupervisor, Register, HandleStarted, HandleFinished, StreamEnds,
      HandleTornFrame, RecordOutcome, CommitOutcome, NotifyOutcome,
      CloseControl, ReapSupervisor, RecordFailure, CommitFailure,
      NotifyFailure, Unregister, DropActive, WakeIdle, Jump, Goto, SetRow,
      ForgetTask, DropStdout, supVars, taskVars, drainVars, daemonVars, shared,
      callVars
<1>2. ASSUME NEW e \in Executions, CreateExecution(e) PROVE StopReachesCommand'
  BY <1>2
  DEF CreateExecution, Accepting, SetRow, Goto, supVars, taskVars, drainVars,
      daemonVars, shared, callVars
<1>3. ASSUME NEW e \in Executions, AbortTask(e) PROVE StopReachesCommand'
  BY <1>3
  DEF AbortTask, ForgetTask, DropStdout, Goto, Counted, Holding, supVars,
      taskVars, drainVars, daemonVars, shared, callVars
<1>4. CASE DaemonExit \/ DaemonKilled
  <2>1. \A e \in Executions : ~ControlOpen(e)'
    BY <1>4, PipesLost, Zenon
  <2> QED
    BY <2>1
<1>5. CASE DaemonStart
  BY <1>5
  DEF DaemonStart, supVars, taskVars, drainVars, daemonVars, shared, callVars
<1>6. ASSUME NEW e \in Executions,
             SupervisorStep(e) \/ CommandStep(e)
      PROVE  StopReachesCommand'
  <2>1. UNCHANGED <<row, drainer, pc, processes, stopSent>>
    BY <1>6, SupervisorFrame DEF outside, shared, drainVars, taskVars
  <2>2. \A x \in Executions :
          sup'[x] \in {"booting", "alive"} => sup[x] \in {"booting", "alive"}
    BY <1>6, SupervisorLocal
  <2> QED
    BY <2>1, <2>2
<1>7. CASE DrainBegin \/ DrainStep \/ DrainFails \/ DrainTimeout
  <2>1. CASE DrainCancelQueued
    BY <2>1
    DEF DrainCancelQueued, supVars, taskVars, drainVars, daemonVars, callVars
  <2>2. CASE DrainSignal
    BY <2>2 DEF DrainSignal, supVars, taskVars, drainVars, daemonVars, callVars
  <2>3. CASE DrainFails
    BY <2>3 DEF DrainFails
  <2>4. CASE ~DrainCancelQueued /\ ~DrainSignal /\ ~DrainFails
    <3>1. /\ UNCHANGED <<row, pc, sup, stopSent>>
          /\ processes' \subseteq processes
          /\ drainer # "signal"
          /\ drainer = "failed" => drainer' = "failed"
      BY <1>7, <2>4
      DEF DrainBegin, DrainStep, DrainTimeout, CloseSlots, DrainArm,
          DrainCheck, DrainPark, DrainWake, DrainForced, DrainGoto, Accepting,
          supVars, taskVars
    <3> QED
      BY <3>1
  <2> QED
    BY <2>1, <2>2, <2>3, <2>4
<1>8. ASSUME NEW c \in Cancellers,
             \/ CallStep(c) \/ CancelFails(c) \/ CancelTimeout(c)
             \/ \E e \in Executions : CancelBegin(c, e)
      PROVE  StopReachesCommand'
  <2>1. CASE UNCHANGED row
    BY <1>8, <2>1
    DEF CallStep, CancelFails, CancelTimeout, CancelBegin, Return,
        CancelQueued, CancelRunning, CancelCheck, CancelPark, CancelWake,
        SetRow, supVars, taskVars, drainVars, daemonVars, shared
  <2>2. CASE ~UNCHANGED row
    <3>1. /\ cpc[c] = "looking" /\ saw[c] = "queued"
          /\ row[target[c]] \notin Terminal
          /\ row' = [row EXCEPT ![target[c]] = "cancelled"]
          /\ stopSent' = stopSent \cup ({target[c]} \cap processes)
          /\ UNCHANGED <<drainer, pc, processes, sup>>
      BY <1>8, <2>2
      DEF CallStep, CancelFails, CancelTimeout, CancelBegin, Return,
          CancelQueued, CancelRunning, CancelCheck, CancelPark, CancelWake,
          SetRow, supVars, taskVars, drainVars, daemonVars, shared
    <3>2. target[c] \in Executions /\ row[target[c]] \in {"absent", "queued"}
      BY <3>1 DEF TransitionsHeld, TargetKnown, Pending, RowStates, Incomplete
    <3> QED
      BY <3>1, <3>2
  <2> QED
    BY <2>1, <2>2
<1>9. CASE UNCHANGED vars
  BY <1>9 DEF vars
<1> QED
  BY <1>1, <1>2, <1>3, <1>4, <1>5, <1>6, <1>7, <1>8, <1>9 DEF Next

LEMMA StopInvariance == Spec => []StopInv
<1>1. Init => StopInv
  BY TypeInit
  DEF Init, StopInv, TypeInv, VerdictKnown, TargetKnown, Pending, QueueInv,
      QueueStaysEmpty, UnbornTasks, Unborn, OutcomeIsLast, RecordedAfterExit,
      QueuedHasHandle, TransitionsHeld, StopReachesCommand, Terminal
<1>2. StopInv /\ [Next]_vars => StopInv'
  BY TypeStep, VerdictStep, TargetStep, QueueStep, UnbornStep, OutcomeStep,
     RecordedStep, HandleStep, TransitionsStep, StopStep
  DEF StopInv, TypeInv
<1> QED
  BY <1>1, <1>2, PTL DEF Spec

\* No interleaving of cancel, drain, failure and registration leaves the command
\* of a closed execution running with nobody on the way to stop it.
THEOREM StopAlwaysReaches == Spec => []StopReachesCommand
BY StopInvariance, PTL DEF StopInv
=============================================================================
