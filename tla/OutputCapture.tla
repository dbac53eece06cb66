----------------------------- MODULE OutputCapture -----------------------------
(***************************************************************************)
(* How output becomes durable (executor.rs, store.rs): the tasks of all    *)
(* executions cut what their commands write at the capture limit and send  *)
(* it through one bounded queue to one capture writer, which stores it in  *)
(* batches; a flush barrier makes a task wait for its output before it     *)
(* records an outcome.  Rows may be closed behind a task's back (cancel    *)
(* and drain close queued rows) and pruned once they are closed.           *)
(*                                                                         *)
(* The two streams share one sequence, so a chunk is a range of bytes.     *)
(***************************************************************************)
EXTENDS Naturals, Sequences, FiniteSets

CONSTANTS
    Executions,
    Limit,       \* capture_limit_bytes
    ChunkSizes,  \* bytes in an output event
    MaxBytes,    \* bound: bytes a command writes
    QueueDepth,  \* CAPTURE_QUEUE_DEPTH
    BatchSize,   \* CAPTURE_BATCH_SIZE
    MaxFaults    \* bound: batches the database fails to write

ASSUME CaptureAssumption ==
    /\ Limit \in Nat /\ MaxBytes \in Nat /\ MaxFaults \in Nat
    /\ ChunkSizes \in SUBSET (Nat \ {0})
    /\ QueueDepth \in Nat \ {0} /\ BatchSize \in Nat \ {0}

VARIABLES
    row,     \* state of the execution's row
    log,     \* its rows in `events`, by seq
    pc,      \* where the engine task is
    wrote,   \* bytes of output the task has been given: `captured`
    cut,     \* `truncated`
    outbox,  \* records the task has yet to send
    answer,  \* what the task's barrier was answered
    queue,   \* the capture channel
    records, \* the writer's current batch, by execution
    batched, \* records.len()
    pending, \* pending_error
    fatal,   \* the daemon has been told to shut down
    faults

taskVars   == <<pc, wrote, cut, outbox>>
writerVars == <<answer, records, batched, pending, fatal>>
vars == <<row, log, taskVars, queue, writerVars, faults>>

-----------------------------------------------------------------------------

Terminal == {"finished", "cancelled", "interrupted"}

Output(from, size) == [kind |-> "output", at |-> from, len |-> size]
Mark(kind)         == [kind |-> kind, at |-> 0, len |-> 0]

\* What goes through the queue, and what is stored.
Captures == {Output(from, size) : from, size \in 0 .. MaxBytes} \cup
            {Mark("truncated")}
Events   == Captures \cup {Mark("started"), Mark("finished")}

Records == [of : Executions, event : Captures]
Barrier(e) == [of |-> e, event |-> Mark("barrier")]

TypeOK ==
    /\ row \in [Executions -> {"queued", "running", "pruned"} \cup Terminal]
    /\ log \in [Executions -> Seq(Events)]
    /\ pc \in [Executions -> {"booting", "reading", "flush", "waiting",
                              "failed", "prune", "done"}]
    /\ wrote \in [Executions -> 0 .. MaxBytes]
    /\ cut \in [Executions -> BOOLEAN]
    /\ outbox \in [Executions -> Seq(Captures)]
    /\ answer \in [Executions -> {"none", "ok", "error"}]
    /\ queue \in Seq(Records \cup {Barrier(e) : e \in Executions})
    /\ Len(queue) <= QueueDepth
    /\ records \in [Executions -> Seq(Captures)]
    /\ batched \in 0 .. BatchSize - 1
    /\ pending \in BOOLEAN /\ fatal \in BOOLEAN
    /\ faults \in 0 .. MaxFaults

Init ==
    /\ row = [e \in Executions |-> "queued"]
    /\ log = [e \in Executions |-> <<>>]
    /\ pc = [e \in Executions |-> "booting"]
    /\ wrote = [e \in Executions |-> 0]
    /\ cut = [e \in Executions |-> FALSE]
    /\ outbox = [e \in Executions |-> <<>>]
    /\ answer = [e \in Executions |-> "none"]
    /\ queue = <<>>
    /\ records = [e \in Executions |-> <<>>]
    /\ batched = 0
    /\ pending = FALSE /\ fatal = FALSE
    /\ faults = 0

Goto(e, state) == pc' = [pc EXCEPT ![e] = state]
Closed(e) == row[e] \in Terminal
Stored(e) == row[e] # "pruned"

\* store.finish: the row and its last event, in one transaction.
Finish(e, state) ==
    /\ row' = [row EXCEPT ![e] = state]
    /\ log' = [log EXCEPT ![e] = Append(@, Mark("finished"))]

-----------------------------------------------------------------------------
(* A task, from the Started event of its supervisor on.                    *)

\* A row closed meanwhile stays closed and the command, told to stop, may go
\* on writing; without a row the task fails.
HandleStarted(e) ==
    /\ pc[e] = "booting"
    /\ IF row[e] = "queued"
       THEN /\ row' = [row EXCEPT ![e] = "running"]
            /\ log' = [log EXCEPT ![e] = Append(@, Mark("started"))]
       ELSE UNCHANGED <<row, log>>
    /\ Goto(e, IF Stored(e) THEN "reading" ELSE "failed")
    /\ UNCHANGED <<wrote, cut, outbox, queue, writerVars, faults>>

\* How much of a chunk is below the limit.
Persist(previous, size) ==
    LET remaining == IF previous < Limit THEN Limit - previous ELSE 0
    IN  IF remaining < size THEN remaining ELSE size

\* Deviation: the marker overtakes the last piece of output.
CaptureMarkerFirst(e) ==
    /\ pc[e] = "reading" /\ outbox[e] = <<>>
    /\ \E size \in ChunkSizes :
        LET kept == Persist(wrote[e], size) IN
             /\ wrote[e] + size <= MaxBytes
            /\ wrote' = [wrote EXCEPT ![e] = @ + size]
            /\ cut' = [cut EXCEPT ![e] = @ \/ kept < size]
            /\ outbox' = [outbox EXCEPT ![e] =
                 (IF kept < size /\ ~cut[e]
                  THEN <<Mark("truncated")>> ELSE <<>>)
                 \o (IF kept > 0 THEN <<Output(wrote[e], kept)>> ELSE <<>>)]
    /\ UNCHANGED <<row, log, pc, queue, writerVars, faults>>

\* What fits is recorded; the first byte that does not is marked, once.
CaptureOutput(e) ==
    /\ pc[e] = "reading" /\ outbox[e] = <<>>
    /\ \E size \in ChunkSizes :
        LET kept == Persist(wrote[e], size) IN
             /\ wrote[e] + size <= MaxBytes
            /\ wrote' = [wrote EXCEPT ![e] = @ + size]
            /\ cut' = [cut EXCEPT ![e] = @ \/ kept < size]
            /\ outbox' = [outbox EXCEPT ![e] =
                 (IF kept > 0 THEN <<Output(wrote[e], kept)>> ELSE <<>>) \o
                 (IF kept < size /\ ~cut[e]
                  THEN <<Mark("truncated")>> ELSE <<>>)]
    /\ UNCHANGED <<row, log, pc, queue, writerVars, faults>>

\* Deviation: the channel is unbounded.
EnqueueWithoutRoom(message) == queue' = Append(queue, message)

\* A sender waits for room.
Enqueue(message) ==
    /\ Len(queue) < QueueDepth
    /\ queue' = Append(queue, message)

SendRecord(e) ==
    /\ pc[e] = "reading" /\ outbox[e] # <<>>
    /\ Enqueue([of |-> e, event |-> Head(outbox[e])])
    /\ outbox' = [outbox EXCEPT ![e] = Tail(@)]
    /\ UNCHANGED <<row, log, pc, wrote, cut, writerVars, faults>>

\* The supervisor's Finished, which a command that cannot be started sends at
\* once, or the end of its stream: flush before recording.
StreamEnds(e) ==
    /\ pc[e] \in {"booting", "reading"} /\ outbox[e] = <<>>
    /\ Goto(e, "flush")
    /\ UNCHANGED <<row, log, wrote, cut, outbox, queue, writerVars, faults>>

SendBarrier(e) ==
    /\ pc[e] = "flush"
    /\ Enqueue(Barrier(e))
    /\ Goto(e, "waiting")
    /\ UNCHANGED <<row, log, wrote, cut, outbox, writerVars, faults>>

\* An event that cannot be decoded, or a pipe that cannot be written, fails the
\* task without a flush.
TaskFails(e) ==
    /\ pc[e] \in {"booting", "reading"} /\ outbox[e] = <<>>
    /\ Goto(e, "failed")
    /\ UNCHANGED <<row, log, wrote, cut, outbox, queue, writerVars, faults>>

\* Deviation: the row is not read before its outcome is recorded.
RecordUnchecked(e) ==
    /\ pc[e] = "waiting" /\ answer[e] # "none"
    /\ IF answer[e] = "ok" /\ Stored(e)
       THEN Finish(e, "finished") ELSE UNCHANGED <<row, log>>
    /\ Goto(e, IF answer[e] = "ok" /\ Stored(e) THEN "prune" ELSE "failed")
    /\ UNCHANGED <<wrote, cut, outbox, queue, writerVars, faults>>

\* "finished" stands for whatever outcome the supervisor reported.
RecordOutcome(e) ==
    /\ pc[e] = "waiting" /\ answer[e] # "none"
    /\ IF answer[e] = "ok" /\ row[e] \in {"queued", "running"}
       THEN Finish(e, "finished") ELSE UNCHANGED <<row, log>>
    /\ Goto(e, IF answer[e] = "ok" /\ Stored(e) THEN "prune" ELSE "failed")
    /\ UNCHANGED <<wrote, cut, outbox, queue, writerVars, faults>>

\* The task wrapper; StorageUnavailable, the error of a barrier, is fatal.
RecordFailure(e) ==
    /\ pc[e] = "failed"
    /\ IF row[e] \in {"queued", "running"}
       THEN Finish(e, "interrupted") ELSE UNCHANGED <<row, log>>
    /\ fatal' = (fatal \/ answer[e] = "error")
    /\ Goto(e, "done")
    /\ UNCHANGED <<wrote, cut, outbox, queue, answer, records, batched,
                   pending, faults>>

\* store.prune: age and total size may make any closed row go.
Prune(e) ==
    /\ pc[e] = "prune"
    /\ \E S \in SUBSET {x \in Executions : Closed(x)} :
        /\ row' = [x \in Executions |-> IF x \in S THEN "pruned" ELSE row[x]]
        /\ log' = [x \in Executions |-> IF x \in S THEN <<>> ELSE log[x]]
    /\ Goto(e, "done")
    /\ UNCHANGED <<wrote, cut, outbox, queue, writerVars, faults>>

\* cancel() and cancel_queued close a row that is still queued.
CloseQueued(e) ==
    /\ row[e] = "queued"
    /\ Finish(e, "cancelled")
    /\ UNCHANGED <<taskVars, queue, writerVars, faults>>

-----------------------------------------------------------------------------
(* The capture writer.                                                     *)

\* A row that is gone fails every insert of its events.
AllStored(batch) == \A e \in Executions : batch[e] # <<>> => Stored(e)

\* append_capture_batch: all of it ...
Written(batch) ==
    /\ AllStored(batch)
    /\ log' = [e \in Executions |-> log[e] \o batch[e]]
    /\ UNCHANGED <<fatal, faults>>

\* ... or, when the database fails or a single row is gone, nothing.
Lost(batch) ==
    /\ \E e \in Executions : batch[e] # <<>>
    /\ IF AllStored(batch)
       THEN faults < MaxFaults /\ faults' = faults + 1
       ELSE UNCHANGED faults
    /\ fatal' = TRUE
    /\ UNCHANGED log

\* The error is kept for the next barrier, whoever sends it.
Flush(batch) ==
    \/ Written(batch) /\ UNCHANGED pending
    \/ Lost(batch) /\ pending' = TRUE

Emptied == records' = [e \in Executions |-> <<>>] /\ batched' = 0

NextIsRecord  == queue # <<>> /\ Head(queue).event.kind # "barrier"
NextIsBarrier == queue # <<>> /\ Head(queue).event.kind = "barrier"

WriterRecord ==
    /\ NextIsRecord
    /\ queue' = Tail(queue)
    /\ LET record == Head(queue)
           batch == [records EXCEPT ![record.of] = Append(@, record.event)]
       IN  IF batched + 1 >= BatchSize
           THEN Flush(batch) /\ Emptied
           ELSE /\ records' = batch /\ batched' = batched + 1
                /\ UNCHANGED <<log, pending, fatal, faults>>
    /\ UNCHANGED <<row, taskVars, answer>>

\* try_recv finds nothing more.
WriterIdle ==
    /\ queue = <<>> /\ batched > 0
    /\ Flush(records)
    /\ Emptied
    /\ UNCHANGED <<row, taskVars, queue, answer>>

\* Deviation: the barrier is answered from the batches before it.
BarrierBeforeFlush ==
    /\ NextIsBarrier
    /\ queue' = Tail(queue)
    /\ answer' = [answer EXCEPT ![Head(queue).of] =
                    IF pending THEN "error" ELSE "ok"]
    /\ pending' = FALSE
    /\ UNCHANGED <<row, log, taskVars, records, batched, fatal, faults>>

\* Deviation: a barrier is answered only if nothing was lost.
BarrierOnlyOk ==
    /\ NextIsBarrier
    /\ queue' = Tail(queue)
    /\ \/ /\ Written(records) /\ ~pending
          /\ answer' = [answer EXCEPT ![Head(queue).of] = "ok"]
       \/ pending /\ Written(records) /\ UNCHANGED answer
       \/ Lost(records) /\ UNCHANGED answer
    /\ pending' = FALSE
    /\ Emptied
    /\ UNCHANGED <<row, taskVars>>

\* The batch is flushed first; an error is taken by the barrier that meets it.
WriterBarrier ==
    /\ NextIsBarrier
    /\ queue' = Tail(queue)
    /\ \E result \in {"ok", "error"} :
        /\ \/ Written(records) /\ (result = "error") = pending
           \/ Lost(records) /\ result = "error"
        /\ answer' = [answer EXCEPT ![Head(queue).of] = result]
    /\ pending' = FALSE
    /\ Emptied
    /\ UNCHANGED <<row, taskVars>>

-----------------------------------------------------------------------------

TaskStep(e) ==
    \/ HandleStarted(e) \/ SendRecord(e) \/ SendBarrier(e)
    \/ RecordOutcome(e) \/ RecordFailure(e) \/ Prune(e)

\* What the command and the clients do.
Outside(e) ==
    CaptureOutput(e) \/ StreamEnds(e) \/ TaskFails(e) \/ CloseQueued(e)

WriterStep == WriterRecord \/ WriterIdle \/ WriterBarrier

Next == WriterStep \/ \E e \in Executions : TaskStep(e) \/ Outside(e)

Spec == Init /\ [][Next]_vars

\* The runtime polls the writer and every task that has something to do.
Fairness == WF_vars(WriterStep) /\ \A e \in Executions : WF_vars(TaskStep(e))

FairSpec == Spec /\ Fairness

-----------------------------------------------------------------------------

Position(e, kind) == {i \in 1 .. Len(log[e]) : log[e][i].kind = kind}

\* Bytes of e that are in its log.
Captured(e) == UNION {log[e][i].at .. log[e][i].at + log[e][i].len - 1 :
                        i \in Position(e, "output")}

\* Output is never reordered, repeated or kept past the limit, the marker comes
\* once and ends it, and a "started" comes before all the rest: this survives
\* lost batches, closed rows and executions that share a batch.
LogInOrder ==
    \A e \in Executions :
        /\ \A i, j \in Position(e, "output") :
             i < j => log[e][i].at + log[e][i].len <= log[e][j].at
        /\ Captured(e) \subseteq 0 .. Limit - 1
        /\ Cardinality(Position(e, "truncated")) <= 1
        /\ \A i \in Position(e, "output"), j \in Position(e, "truncated") :
             i < j
        /\ Position(e, "started") \subseteq {1}

\* All the task was given, up to the limit, and the marker if that was not all.
Complete(e) ==
    /\ Captured(e) = {b \in 0 .. Limit - 1 : b < wrote[e]}
    /\ Position(e, "truncated") # {} <=> wrote[e] > Limit

\* An outcome recorded after a barrier comes last and after all the output of
\* the command, unless a batch was lost: then the daemon was told to shut down
\* and some task's barrier was refused, if not necessarily this one's.
OutcomeIsComplete ==
    \A e \in Executions :
        row[e] = "finished" =>
            /\ Position(e, "finished") = {Len(log[e])}
            /\ \/ Complete(e)
               \/ fatal /\ \E x \in Executions \ {e} : answer[x] = "error"

\* A closed row has exactly one "finished", whoever closed it; output follows
\* it only where the row was closed without a flush.
ClosedOnce ==
    \A e \in Executions :
        /\ Cardinality(Position(e, "finished")) = IF Closed(e) THEN 1 ELSE 0
        /\ \A i \in Position(e, "finished") :
             i < Len(log[e]) => row[e] \in {"cancelled", "interrupted"}

\* However full the queue is and whatever batch is lost, a task gets rid of its
\* output and its barrier is answered.
CaptureSettles ==
    \A e \in Executions :
        outbox[e] # <<>> \/ pc[e] \in {"flush", "waiting"}
            ~> outbox[e] = <<>> /\ pc[e] \notin {"flush", "waiting"}

-----------------------------------------------------------------------------
(* What the documentation says of output.                                  *)

\* README: "Lossless stdout/stderr events with a daemon-assigned merged
\* sequence."  An execution recorded with its outcome has all its output.
LossIsReported ==
    \A e \in Executions : row[e] = "finished" => Complete(e)
=============================================================================
