------------------------------ MODULE Supervisor ------------------------------
(***************************************************************************)
(* One loom-supervisor process (supervisor.rs): the process group it       *)
(* starts, the capture tasks that read the group's output pipes, the queue *)
(* they fill, the writer that empties it into the daemon's pipe, and the   *)
(* main loop that turns Cancel, end of control and a leader's exit into    *)
(* signals and one outcome.  The daemon is seen from the two pipes.        *)
(*                                                                         *)
(* SIGTERM is not a step: a process may exit or ignore it at any time, and *)
(* all the signal does to the supervisor is to arm the grace deadline.     *)
(***************************************************************************)
EXTENDS Naturals, FiniteSets, Sequences

CONSTANTS
    Procs,          \* the command's leader and the processes it may fork
    Leader,
    Streams,        \* stdout and stderr of the command
    QueueDepth,     \* EVENT_QUEUE_DEPTH
    ControlDepth,   \* capacity of the internal channel
    WireDepth,      \* frames that fit into the pipe to the daemon
    MaxChunks,      \* bound: pieces of output the command writes to a stream
    MaxCancels,     \* bound: Cancel messages the daemon sends
    MaxReadErrors   \* bound: capture reads that fail

ASSUME SupervisorAssumption ==
    /\ Leader \in Procs
    /\ Streams \cap {"stdin", "started", "exited", "cancelled", "interrupted",
                      "spawn_error"} = {}
    /\ QueueDepth \in Nat \ {0} /\ ControlDepth \in Nat \ {0}
    /\ WireDepth \in Nat \ {0}
    /\ MaxChunks \in Nat /\ MaxCancels \in Nat /\ MaxReadErrors \in Nat

VARIABLES
    proc,       \* the command's processes
    group,      \* those in the process group of the leader
    foreign,    \* those that run as another user: killpg skips them
    fds,        \* the command's pipes a process holds open
    produced,   \* chunks written to a stream
    unread,     \* of these, still in the pipe
    capture,    \* the capture task of a stream
    stdin,      \* the stdin task: "writing" until all is written or refused
    queue,      \* the outgoing channel
    writer,     \* the task write_events
    sent,       \* frames written to the daemon's pipe, since the beginning
    taken,      \* how many of them the daemon has read
    reader,     \* the daemon's end of that pipe
    control,    \* the control pipe: Cancels not yet read, or cut off
    cancels,    \* Cancels sent so far
    listener,   \* the task read_controls
    internal,   \* the internal channel
    at,         \* where run() is
    cancelled, daemonGone, interrupted, deadline, exited   \* its locals

commandVars == <<proc, group, foreign, fds, stdin>>
outputVars  == <<produced, unread, capture>>
writerVars  == <<queue, writer, sent>>
daemonVars  == <<taken, reader, cancels>>
controlVars == <<control, listener, internal>>
localVars   == <<at, cancelled, daemonGone, interrupted, deadline, exited>>
world  == <<commandVars, daemonVars>>
inside == <<outputVars, writerVars, controlVars>>
vars   == <<world, inside, localVars>>

-----------------------------------------------------------------------------

Outcomes == {"exited", "cancelled", "interrupted", "spawn_error"}
Events   == {"started"} \cup Streams \cup Outcomes
Messages == {"cancel", "gone", "failed"}
Pipes    == Streams \cup {"stdin"}

Draining == {"join", "stdin", "report", "flush"}

TypeOK ==
    /\ proc \in [Procs -> {"unborn", "running", "doomed", "dead"}]
    /\ group \in SUBSET Procs /\ foreign \in SUBSET Procs
    /\ fds \in [Procs -> SUBSET Pipes]
    /\ stdin \in {"writing", "done"}
    /\ produced \in [Streams -> 0 .. MaxChunks]
    /\ unread \in [Streams -> 0 .. MaxChunks]
    /\ capture \in [Streams -> {"none", "reading", "sending", "failing",
                                "failed", "ended"}]
    /\ queue \in Seq(Events) /\ Len(queue) <= QueueDepth
    /\ writer \in {"running", "sendGone", "ended"}
    /\ sent \in Seq(Events)
    /\ taken \in 0 .. Len(sent)
    /\ reader \in {"reading", "idle", "gone"}
    /\ control \in Seq({"cancel", "torn", "eof"})
    /\ cancels \in 0 .. MaxCancels
    /\ listener \in {"reading", "cancel", "gone", "failed", "ended"}
    /\ internal \in Seq(Messages) /\ Len(internal) <= ControlDepth
    /\ at \in {"boot", "loop", "over"} \cup Draining
    /\ cancelled \in BOOLEAN /\ daemonGone \in BOOLEAN
    /\ interrupted \in BOOLEAN /\ deadline \in BOOLEAN /\ exited \in BOOLEAN

Init ==
    /\ proc = [p \in Procs |-> "unborn"]
    /\ group = {} /\ foreign = {}
    /\ fds = [p \in Procs |-> {}]
    /\ stdin = "done"
    /\ produced = [s \in Streams |-> 0]
    /\ unread = [s \in Streams |-> 0]
    /\ capture = [s \in Streams |-> "none"]
    /\ queue = <<>>
    /\ writer = "running"
    /\ sent = <<>>
    /\ taken = 0
    /\ reader = "reading"
    /\ control = <<>>
    /\ cancels = 0
    /\ listener = "reading"
    /\ internal = <<>>
    /\ at = "boot"
    /\ cancelled = FALSE /\ daemonGone = FALSE
    /\ interrupted = FALSE /\ deadline = FALSE /\ exited = FALSE

-----------------------------------------------------------------------------
(* What the kernel answers.                                                *)

Live == {p \in Procs : proc[p] \in {"running", "doomed"}}
Holders(pipe) == {p \in Procs : pipe \in fds[p]}

\* killpg: ESRCH for an empty group, EPERM if it holds foreign processes only.
Signalable  == group \ foreign
GroupAlive  == Signalable # {}
SignalFails == group # {} /\ Signalable = {}

KillGroup ==
    proc' = [p \in Procs |-> IF p \in Signalable THEN "doomed" ELSE proc[p]]

ControlClosed ==
    \/ listener \in {"gone", "failed", "ended"}
    \/ control # <<>> /\ control[Len(control)] \in {"eof", "torn"}

-----------------------------------------------------------------------------
(* The command.  It is external: the supervisor must cope with all of it.  *)

Running(p) == proc[p] = "running"

Fork(p, q) ==
    /\ Running(p) /\ proc[q] = "unborn"
    /\ proc' = [proc EXCEPT ![q] = "running"]
    /\ fds' = [fds EXCEPT ![q] = fds[p]]
    /\ group' = IF p \in group THEN group \cup {q} ELSE group
    /\ foreign' = IF p \in foreign THEN foreign \cup {q} ELSE foreign
    /\ UNCHANGED <<stdin, daemonVars, localVars, inside>>

Exit(p) ==
    /\ p \in Live
    /\ proc' = [proc EXCEPT ![p] = "dead"]
    /\ fds' = [fds EXCEPT ![p] = {}]
    /\ group' = group \ {p}
    /\ foreign' = foreign \ {p}
    /\ UNCHANGED <<stdin, daemonVars, localVars, inside>>

\* setsid: the process is out of the group's reach; the leader cannot.
LeaveGroup(p) ==
    /\ Running(p) /\ p \in group \ {Leader}
    /\ group' = group \ {p}
    /\ UNCHANGED <<proc, foreign, fds, stdin, daemonVars, localVars, inside>>

\* sudo: the process may no longer be signalled.
ChangeUser(p) ==
    /\ Running(p) /\ p \notin foreign
    /\ foreign' = foreign \cup {p}
    /\ UNCHANGED <<proc, group, fds, stdin, daemonVars, localVars, inside>>

ClosePipe(p, pipe) ==
    /\ Running(p) /\ pipe \in fds[p]
    /\ fds' = [fds EXCEPT ![p] = @ \ {pipe}]
    /\ UNCHANGED <<proc, group, foreign, stdin, daemonVars, localVars,
                   inside>>

Write(p, s) ==
    /\ Running(p) /\ s \in fds[p]
    /\ produced[s] < MaxChunks
    /\ produced' = [produced EXCEPT ![s] = @ + 1]
    /\ unread' = [unread EXCEPT ![s] = @ + 1]
    /\ UNCHANGED <<capture, writerVars, controlVars, localVars, world>>

\* The stdin task writes its data, or finds that nobody can read it.
StdinWritten ==
    /\ stdin = "writing" /\ at # "over"
    /\ stdin' = "done"
    /\ UNCHANGED <<proc, group, foreign, fds, daemonVars, localVars, inside>>
StdinRefused == Holders("stdin") = {} /\ StdinWritten

\* What goes on after the supervisor has exited is nobody's concern here.
CommandMoves ==
    /\ at # "over"
    /\ \/ \E p \in Procs :
          \/ Exit(p) \/ LeaveGroup(p) \/ ChangeUser(p)
          \/ \E q \in Procs : Fork(p, q)
          \/ \E pipe \in Pipes : ClosePipe(p, pipe)
          \/ \E s \in Streams : Write(p, s)
       \/ StdinWritten

-----------------------------------------------------------------------------
(* The daemon, as the supervisor's two pipes show it.  It is external: its *)
(* side of the pipes is modelled in ExecutionEngine.                       *)

ReadFrame ==
    /\ reader = "reading" /\ taken < Len(sent)
    /\ taken' = taken + 1
    /\ reader' = IF sent[taken'] \in Outcomes THEN "idle" ELSE reader
    /\ UNCHANGED <<cancels, commandVars, localVars, inside>>

SendCancel ==
    /\ cancels < MaxCancels /\ ~ControlClosed
    /\ cancels' = cancels + 1
    /\ control' = Append(control, "cancel")
    /\ UNCHANGED <<taken, reader, listener, internal, commandVars, outputVars,
                   writerVars, localVars>>

\* The task drops the pipe, with its handle for the controls or before it.
StopReading ==
    /\ reader # "gone"
    /\ reader' = "gone"
    /\ UNCHANGED <<taken, cancels, commandVars, localVars, inside>>

\* control_tx is dropped; a daemon killed while it writes leaves half a frame.
CloseControl ==
    /\ reader # "reading" /\ ~ControlClosed
    /\ \E end \in {"eof", "torn"} : control' = Append(control, end)
    /\ UNCHANGED <<listener, internal, outputVars, writerVars, localVars,
                   world>>

DaemonDies ==
    /\ reader # "gone" /\ ~ControlClosed
    /\ reader' = "gone"
    /\ \E end \in {"eof", "torn"} : control' = Append(control, end)
    /\ UNCHANGED <<taken, cancels, listener, internal, commandVars,
                   outputVars, writerVars, localVars>>

DaemonMoves ==
    /\ at # "over"
    /\ SendCancel \/ StopReading \/ CloseControl \/ DaemonDies

-----------------------------------------------------------------------------
(* read_controls and the internal channel.                                 *)

\* The first frame, the Spawn request, is read by run() itself.
ReadControl ==
    /\ at \notin {"boot", "over"}
    /\ listener = "reading" /\ control # <<>>
    /\ control' = Tail(control)
    /\ listener' = CASE Head(control) = "cancel" -> "cancel"
                     [] Head(control) = "eof"    -> "gone"
                     [] Head(control) = "torn"   -> "failed"
    /\ UNCHANGED <<internal, outputVars, writerVars, localVars, world>>

\* Deviation: the channel is unbounded.
PostWithoutRoom(message) == internal' = Append(internal, message)

\* Every sender waits for room in the channel.
Post(message) ==
    /\ Len(internal) < ControlDepth
    /\ internal' = Append(internal, message)

PostControl ==
    /\ at # "over" /\ listener \in Messages
    /\ Post(listener)
    /\ listener' = IF listener = "cancel" THEN "reading" ELSE "ended"
    /\ UNCHANGED <<control, outputVars, writerVars, localVars, world>>

-----------------------------------------------------------------------------
(* capture_stream and write_events.                                        *)

QueueEvent(event) ==
    /\ writer # "ended" /\ Len(queue) < QueueDepth
    /\ queue' = Append(queue, event)

ReadOutput(s) ==
    /\ at # "over" /\ capture[s] = "reading" /\ unread[s] > 0
    /\ unread' = [unread EXCEPT ![s] = @ - 1]
    /\ capture' = [capture EXCEPT ![s] = "sending"]
    /\ UNCHANGED <<produced, writerVars, controlVars, localVars, world>>

SendOutput(s) ==
    /\ at # "over" /\ capture[s] = "sending"
    /\ \/ QueueEvent(s) /\ capture' = [capture EXCEPT ![s] = "reading"]
       \/ /\ writer = "ended"
          /\ capture' = [capture EXCEPT ![s] = "ended"]
          /\ UNCHANGED queue
    /\ UNCHANGED <<produced, unread, writer, sent, controlVars, localVars,
                   world>>

EndOfOutput(s) ==
    /\ at # "over" /\ capture[s] = "reading"
    /\ unread[s] = 0 /\ Holders(s) = {}
    /\ capture' = [capture EXCEPT ![s] = "ended"]
    /\ UNCHANGED <<produced, unread, writerVars, controlVars, localVars,
                   world>>

ReadError(s) ==
    /\ at # "over" /\ capture[s] = "reading"
    /\ Cardinality({t \in Streams : capture[t] \in {"failing", "failed"}})
         < MaxReadErrors
    /\ capture' = [capture EXCEPT ![s] = "failing"]
    /\ UNCHANGED <<produced, unread, writerVars, controlVars, localVars,
                   world>>

PostReadError(s) ==
    /\ at # "over" /\ capture[s] = "failing"
    /\ Post("failed")
    /\ capture' = [capture EXCEPT ![s] = "failed"]
    /\ UNCHANGED <<produced, unread, writerVars, control, listener, localVars,
                   world>>

\* send() waits for room in the pipe, or fails because nobody reads it.
WriteFrame ==
    /\ at # "over" /\ writer = "running" /\ queue # <<>>
    /\ queue' = Tail(queue)
    /\ IF reader = "gone"
       THEN writer' = "sendGone" /\ UNCHANGED sent
       ELSE /\ Len(sent) - taken < WireDepth
            /\ sent' = Append(sent, Head(queue))
            /\ UNCHANGED writer
    /\ UNCHANGED <<outputVars, controlVars, localVars, world>>

PostWriterGone ==
    /\ at # "over" /\ writer = "sendGone"
    /\ Post("gone")
    /\ writer' = "ended"
    /\ UNCHANGED <<queue, sent, outputVars, control, listener, localVars,
                   world>>

-----------------------------------------------------------------------------
(* run().                                                                  *)

\* The daemon went away before it wrote the Spawn request.
NoRequest ==
    /\ at = "boot" /\ reader = "gone" /\ ControlClosed
    /\ at' = "over"
    /\ UNCHANGED <<cancelled, daemonGone, interrupted, deadline, exited,
                   world, inside>>

SpawnCommand ==
    /\ at = "boot"
    /\ proc' = [proc EXCEPT ![Leader] = "running"]
    /\ group' = {Leader}
    /\ \/ /\ fds' = [fds EXCEPT ![Leader] = Pipes]
          /\ stdin' = "writing"
       \/ /\ fds' = [fds EXCEPT ![Leader] = Streams]
          /\ UNCHANGED stdin
    /\ queue' = <<"started">>
    /\ capture' = [s \in Streams |-> "reading"]
    /\ at' = "loop"
    /\ UNCHANGED <<foreign, produced, unread, writer, sent, daemonVars,
                   controlVars, cancelled, daemonGone, interrupted, deadline,
                   exited>>

SpawnError ==
    /\ at = "boot"
    /\ queue' = <<"spawn_error">>
    /\ at' = "flush"
    /\ UNCHANGED <<outputVars, writer, sent, controlVars, cancelled,
                   daemonGone, interrupted, deadline, exited, world>>

\* Deviation: the loop ends with the leader, whatever is left of its group.
LeaderExitedAlone ==
    /\ at = "loop" /\ ~exited /\ proc[Leader] = "dead"
    /\ at' = "join"
    /\ UNCHANGED <<exited, cancelled, daemonGone, interrupted, deadline,
                   world, inside>>

\* A leader that exits under a deadline does not end the loop while its group
\* lives on.
LeaderExited ==
    /\ at = "loop" /\ ~exited /\ proc[Leader] = "dead"
    /\ IF deadline /\ GroupAlive
       THEN exited' = TRUE /\ UNCHANGED at
       ELSE at' = "join" /\ UNCHANGED exited
    /\ UNCHANGED <<cancelled, daemonGone, interrupted, deadline, world,
                   inside>>

\* Deviation: SIGTERM is all there is.
TerminateWithoutDeadline ==
    /\ cancelled' = TRUE
    /\ UNCHANGED deadline

\* The first reason to stop sends SIGTERM and arms the deadline.
Terminate ==
    /\ cancelled' = TRUE
    /\ deadline' = (cancelled => deadline)

HandleMessage ==
    /\ at = "loop" /\ internal # <<>>
    /\ internal' = Tail(internal)
    /\ LET message == Head(internal) IN
        \/ /\ message = "cancel" /\ cancelled
           /\ UNCHANGED localVars
        \/ /\ message = "cancel" /\ ~cancelled
           /\ Terminate
           /\ at' = IF SignalFails THEN "over" ELSE at
           /\ UNCHANGED <<daemonGone, interrupted, exited>>
        \/ /\ message = "gone"
           /\ Terminate
           /\ daemonGone' = TRUE
           /\ UNCHANGED <<at, interrupted, exited>>
        \/ /\ message = "failed"
           /\ Terminate
           /\ interrupted' = TRUE
           /\ UNCHANGED <<at, daemonGone, exited>>
    /\ UNCHANGED <<control, listener, outputVars, writerVars, world>>

GraceExpires ==
    /\ at = "loop" /\ deadline
    /\ KillGroup
    /\ deadline' = FALSE
    /\ exited' = FALSE
    /\ at' = IF exited THEN "join" ELSE at
    /\ UNCHANGED <<cancelled, daemonGone, interrupted, group, foreign, fds,
                   stdin, daemonVars, inside>>

Goto(state) ==
    /\ at' = state
    /\ UNCHANGED <<cancelled, daemonGone, interrupted, deadline, exited,
                   outputVars, controlVars, world>>

\* Deviation: the outcome does not wait for the capture tasks.
ReportEarly ==
    /\ at = "join"
    /\ Goto("stdin") /\ UNCHANGED writerVars

JoinCapture ==
    /\ at = "join"
    /\ \A s \in Streams : capture[s] \in {"ended", "failed"}
    /\ Goto("stdin") /\ UNCHANGED writerVars

JoinStdin ==
    /\ at = "stdin" /\ stdin = "done"
    /\ Goto(IF daemonGone THEN "over" ELSE "report") /\ UNCHANGED writerVars

\* Deviation: whatever it was stopped for, a stopped command was cancelled.
OutcomeOfStop == IF cancelled THEN "cancelled" ELSE "exited"

Outcome == IF interrupted THEN "interrupted"
           ELSE IF cancelled THEN "cancelled" ELSE "exited"

Report ==
    /\ at = "report"
    /\ \/ QueueEvent(Outcome) /\ Goto("flush")
       \/ writer = "ended" /\ Goto("over") /\ UNCHANGED queue
    /\ UNCHANGED <<writer, sent>>

\* Deviation: nobody drops the barrier's sender when the writer ends.
FlushAnsweredOnly ==
    /\ at = "flush"
    /\ queue = <<>> /\ writer = "running"
    /\ Goto("over") /\ UNCHANGED writerVars

\* The flush barrier is answered after all that was queued before it, or its
\* sender is dropped with the writer.
Flush ==
    /\ at = "flush"
    /\ \/ queue = <<>> /\ writer = "running"
       \/ writer = "ended"
    /\ Goto("over") /\ UNCHANGED writerVars

-----------------------------------------------------------------------------

RunStep ==
    \/ NoRequest   \/ SpawnCommand \/ SpawnError \/ LeaderExited
    \/ HandleMessage \/ JoinCapture \/ JoinStdin \/ Report \/ Flush

CaptureStep(s) ==
    ReadOutput(s) \/ SendOutput(s) \/ EndOfOutput(s) \/ PostReadError(s)

ListenerStep == ReadControl \/ PostControl
WriterStep   == WriteFrame \/ PostWriterGone

Next ==
    \/ CommandMoves \/ StdinRefused \/ DaemonMoves \/ ReadFrame
    \/ RunStep \/ GraceExpires \/ ListenerStep \/ WriterStep
    \/ \E s \in Streams : CaptureStep(s) \/ ReadError(s)

Spec == Init /\ [][Next]_vars

\* The supervisor's tasks and its timer run, SIGKILL works and a daemon that
\* reads the pipe goes on reading it.  The command is not obliged to anything.
Fairness ==
    /\ WF_vars(RunStep) /\ WF_vars(GraceExpires)
    /\ WF_vars(ListenerStep) /\ WF_vars(WriterStep)
    /\ \A s \in Streams : WF_vars(CaptureStep(s))
    /\ WF_vars(StdinRefused) /\ WF_vars(ReadFrame)
    /\ \A p \in Procs : WF_vars(at # "over" /\ proc[p] = "doomed" /\ Exit(p))

FairSpec == Spec /\ Fairness

-----------------------------------------------------------------------------
(* Safety.                                                                 *)

Reported == \E i \in 1 .. Len(sent) : sent[i] \in Outcomes

\* The outcome is the last thing the daemon is told, and by then it has been
\* sent every piece of output the command wrote, from every process that held
\* a stream: run() joins the capture tasks first.  Only a stream that could not
\* be read may be cut short.
OutputBeforeOutcome ==
    \A i \in 1 .. Len(sent) :
        sent[i] \in Outcomes =>
            /\ i = Len(sent)
            /\ sent[1] = "started" \/ i = 1
            /\ \A s \in Streams :
                 \/ capture[s] = "failed"
                 \/ Cardinality({k \in 1 .. i : sent[k] = s}) = produced[s]

\* Once it was told to stop, the supervisor leaves its loop, and so reports or
\* exits, only when no member of the group it may signal is left alive, except
\* members SIGKILL has been sent to: also those that outlive the leader.
EscalationIsComplete ==
    cancelled /\ at # "loop" =>
        \A p \in Signalable : proc[p] = "doomed"

-----------------------------------------------------------------------------
(* What the daemon relies on.                                              *)

\* All that was put into the queue; the writer moves it from one to the other.
Told == sent \o queue

\* What the daemon calls an outcome.
Word(outcome) ==
    IF outcome \in {"exited", "spawn_error"} THEN "finished" ELSE outcome

\* Of what was told and not read, the output apart: the first and the last.
StartFrame ==
    IF taken = 0 /\ Told # <<>> /\ Told[1] = "started"
    THEN <<"started">> ELSE <<>>

OutcomeFrame ==
    IF taken < Len(Told) /\ Told[Len(Told)] \in Outcomes
    THEN <<Word(Told[Len(Told)])>> ELSE <<>>

Frames == IF reader = "gone" THEN <<>> ELSE StartFrame \o OutcomeFrame

\* A failed read ends the loop's interest in anything but the command's end,
\* and once the outcome is in the queue there is nothing more to say.
Standing ==
    CASE at = "boot"              -> "booting"
      [] at \in {"flush", "over"} -> "exited"
      [] at = "loop" /\ ~interrupted ->
            IF daemonGone THEN "orphaned"
            ELSE IF cancelled THEN "cancelling" ELSE "alive"
      [] OTHER                    -> "lingering"

Contract == INSTANCE SupervisorContract WITH
    state   <- Standing,
    asked   <- cancels > 0,
    frames  <- Frames,
    open    <- ~ControlClosed,
    reading <- reader = "reading"

\* To the daemon it is a supervisor as ExecutionEngine has it: "started" first,
\* one outcome last, "cancelled" only if a Cancel was written, whatever the
\* command, the queues and the broken pipes do.
KeepsContract == Contract!Spec

-----------------------------------------------------------------------------
(* Liveness, under FairSpec.                                               *)

\* A process the signals do not reach: it left the group or changed its user.
Unreachable == Live \ Signalable

\* After the loop nobody receives from the internal channel: once it is full
\* the writer and the capture tasks may wait for room in it for ever.
ChannelFull == at \in Draining /\ Len(internal) = ControlDepth

\* Told to stop in its loop, the supervisor ends, unless a process it may not
\* signal holds on to the output or the stdin of the command, or more controls
\* were sent than the internal channel holds.
StopEndsSupervisor ==
    at = "loop" /\ cancelled
        ~> at = "over" \/ Unreachable # {} \/ ChannelFull

\* A supervisor that left its loop, told to stop or not, ends once nothing is
\* left of the command: no task waits for a pipe or a queue nobody serves.
PipesClosedEndsSupervisor ==
    at \in Draining /\ Live = {} ~> at = "over" \/ ChannelFull

-----------------------------------------------------------------------------
(* What the documentation says of cancellation.                            *)

\* README: "A daemon crash closes the private supervisor control pipe, which
\* sends SIGTERM and then SIGKILL to the command process group."
CrashEndsGroup ==
    at \notin {"boot", "over"} /\ ControlClosed
        ~> \A p \in Signalable : proc[p] = "doomed"
=============================================================================
