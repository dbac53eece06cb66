--------------------------- MODULE SupervisorProofs ---------------------------
(***************************************************************************)
(* Theorems about Supervisor, for any processes and streams, any capacity  *)
(* of its queue, its channel and its pipe, and any number of chunks,       *)
(* cancels and failed reads.                                               *)
(*                                                                         *)
(*   TypeInv   TypeOK; no more is unread than was written                  *)
(*   StopInv   with no deadline armed, who can be signalled has been       *)
(*   TellInv   while the writer runs, sent and queue together hold the     *)
(*             output read so far, and an outcome only at their end        *)
(*   KeepInv   every reason to stop comes from a Cancel that was sent, a   *)
(*             pipe that was closed or a read that failed                  *)
(***************************************************************************)
EXTENDS Supervisor, SequenceTheorems, FiniteSetTheorems, TLAPS

TypeInv == TypeOK /\ \A s \in Streams : unread[s] <= produced[s]

\* A process of the group is alive, and once the command was told to stop there
\* is a deadline, or SIGKILL has been sent to the group.
StopInv ==
    /\ \A p \in group : proc[p] \in {"running", "doomed"}
    /\ at = "boot" => ~cancelled
    /\ cancelled /\ ~(at = "loop" /\ deadline) =>
         \A p \in Signalable : proc[p] = "doomed"

Count(events, s) == Cardinality({k \in 1 .. Len(events) : events[k] = s})
Held(s) == IF capture[s] = "sending" THEN 1 ELSE 0

\* Nothing more will be read from the stream.
Settled(s) == capture[s] \in {"ended", "failed", "none"}

\* Events start with "started", or spawn_error is all there is.
FirstInv ==
    /\ at = "boot" => Told = <<>> /\ \A s \in Streams : capture[s] = "none"
    /\ at \notin {"boot", "over"} => Told # <<>>
    /\ Told # <<>> => Told[1] \in {"started", "spawn_error"}

\* The outcome comes last, from the last step of run(), behind the captures.
LastInv ==
    /\ \A i \in 1 .. Len(Told) :
         Told[i] \in Outcomes =>
             i = Len(Told) /\ at \in {"flush", "over"} /\ \A s \in Streams : Settled(s)
    /\ at \in {"stdin", "report", "flush"} => \A s \in Streams : Settled(s)

\* No chunk is lost or told twice, and a stream that ended is empty for good.
ChunkInv ==
    \A s \in Streams :
        /\ produced[s] = Count(Told, s) + Held(s) + unread[s]
        /\ capture[s] \in {"ended", "none"} => unread[s] = 0 /\ Holders(s) = {}

TellInv ==
    IF writer = "running" THEN FirstInv /\ LastInv /\ ChunkInv
    ELSE \A i \in 1 .. Len(sent) : sent[i] \notin Outcomes

\* What the main loop will hear was sent: no Cancel is made up on the way, and
\* only the last thing in the control pipe is its end.
HeardInv ==
    /\ \A i \in 1 .. Len(control) : i < Len(control) => control[i] = "cancel"
    /\ cancels = 0 =>
         /\ listener # "cancel"
         /\ \A i \in 1 .. Len(control) : control[i] # "cancel"
         /\ \A i \in 1 .. Len(internal) : internal[i] # "cancel"

\* The daemon is called lost only if one of its pipes is.
LostInv ==
    /\ ~ControlClosed /\ reader # "gone" =>
         \A i \in 1 .. Len(internal) : internal[i] # "gone"
    /\ writer # "running" => reader = "gone"

\* Every reason to stop but a lost daemon and a failed read is a Cancel, and a
\* lost daemon gets no report.
ReasonInv ==
    /\ interrupted \/ daemonGone => cancelled
    /\ cancelled => interrupted \/ daemonGone \/ cancels > 0
    /\ at = "report" => ~daemonGone

\* Nothing has happened before the request is read, and a daemon that has read
\* the outcome has read everything.
EndsInv ==
    /\ at = "boot" => /\ queue = <<>> /\ sent = <<>> /\ writer = "running"
                      /\ ~cancelled /\ ~daemonGone /\ ~interrupted
    /\ reader = "idle" =>
         /\ Told # <<>> /\ Told[Len(Told)] \in Outcomes
         /\ taken = Len(Told)

KeepInv == HeardInv /\ LostInv /\ ReasonInv /\ EndsInv

-----------------------------------------------------------------------------
(* Types.                                                                  *)

\* TypeOK by the groups of variables that a step changes together.
CommandType ==
    /\ proc \in [Procs -> {"unborn", "running", "doomed", "dead"}]
    /\ group \in SUBSET Procs /\ foreign \in SUBSET Procs
    /\ fds \in [Procs -> SUBSET Pipes]
    /\ stdin \in {"writing", "done"}

OutputType ==
    /\ produced \in [Streams -> 0 .. MaxChunks]
    /\ unread \in [Streams -> 0 .. MaxChunks]
    /\ capture \in [Streams -> {"none", "reading", "sending", "failing",
                                "failed", "ended"}]
    /\ \A s \in Streams : unread[s] <= produced[s]

WriterType ==
    /\ queue \in Seq(Events) /\ Len(queue) <= QueueDepth
    /\ writer \in {"running", "sendGone", "ended"}
    /\ sent \in Seq(Events)

DaemonType ==
    /\ taken \in 0 .. Len(sent)
    /\ reader \in {"reading", "idle", "gone"}
    /\ cancels \in 0 .. MaxCancels

ControlType ==
    /\ control \in Seq({"cancel", "torn", "eof"})
    /\ listener \in {"reading", "cancel", "gone", "failed", "ended"}
    /\ internal \in Seq(Messages) /\ Len(internal) <= ControlDepth

LocalType ==
    /\ at \in {"boot", "loop", "over"} \cup Draining
    /\ cancelled \in BOOLEAN /\ daemonGone \in BOOLEAN
    /\ interrupted \in BOOLEAN /\ deadline \in BOOLEAN /\ exited \in BOOLEAN

LEMMA TypeGroups ==
    TypeInv <=> CommandType /\ OutputType /\ WriterType /\ DaemonType
                  /\ ControlType /\ LocalType
BY DEF TypeInv, TypeOK, CommandType, OutputType, WriterType, DaemonType,
   ControlType, LocalType

\* The same, after a step.
LEMMA TypeGroupsNext ==
    TypeInv' <=> CommandType' /\ OutputType' /\ WriterType' /\ DaemonType'
                  /\ ControlType' /\ LocalType'
BY DEF TypeInv, TypeOK, CommandType, OutputType, WriterType, DaemonType,
   ControlType, LocalType

LEMMA CommandKept == CommandType /\ UNCHANGED commandVars => CommandType'
BY DEF CommandType, commandVars
LEMMA OutputKept == OutputType /\ UNCHANGED outputVars => OutputType'
BY DEF OutputType, outputVars
LEMMA WriterKept == WriterType /\ UNCHANGED writerVars => WriterType'
BY DEF WriterType, writerVars
LEMMA DaemonKept == DaemonType /\ UNCHANGED <<daemonVars, sent>> => DaemonType'
BY DEF DaemonType, daemonVars
LEMMA ControlKept == ControlType /\ UNCHANGED controlVars => ControlType'
BY DEF ControlType, controlVars
LEMMA LocalKept == LocalType /\ UNCHANGED localVars => LocalType'
BY DEF LocalType, localVars

LEMMA TypeInit == Init => TypeInv
<1> SUFFICES ASSUME Init PROVE TypeInv
    OBVIOUS
<1>1. CommandType /\ OutputType
    BY SupervisorAssumption DEF Init, CommandType, OutputType
<1>2. WriterType /\ DaemonType /\ ControlType
    BY SupervisorAssumption, EmptySeq
    DEF Init, WriterType, DaemonType, ControlType
<1>3. LocalType
    BY DEF Init, LocalType
<1> QED
    BY <1>1, <1>2, <1>3, TypeGroups

\* The command's own steps, and those of the tasks that serve it.
CommandStep ==
    \E p \in Procs :
       \/ Exit(p) \/ LeaveGroup(p) \/ ChangeUser(p)
       \/ \E q \in Procs : Fork(p, q)
       \/ \E pipe \in Pipes : ClosePipe(p, pipe)

LEMMA CommandTypeStep ==
    ASSUME TypeInv, CommandStep \/ StdinWritten \/ StdinRefused
    PROVE  TypeInv' /\ UNCHANGED <<daemonVars, localVars, inside>>
<1>1. CommandType' /\ UNCHANGED <<daemonVars, localVars, inside>>
    <2>1. CommandType
        BY TypeGroups
    <2>2. CASE StdinWritten \/ StdinRefused
        BY <2>1, <2>2 DEF StdinWritten, StdinRefused, CommandType
    <2>3. ASSUME NEW p \in Procs, Exit(p) \/ LeaveGroup(p) \/ ChangeUser(p)
          PROVE  CommandType' /\ UNCHANGED <<daemonVars, localVars, inside>>
        BY <2>1, <2>3 DEF Exit, LeaveGroup, ChangeUser, CommandType
    <2>4. ASSUME NEW p \in Procs, NEW q \in Procs, Fork(p, q)
          PROVE  CommandType' /\ UNCHANGED <<daemonVars, localVars, inside>>
        BY <2>1, <2>4 DEF Fork, CommandType
    <2>5. ASSUME NEW p \in Procs, NEW pipe \in Pipes, ClosePipe(p, pipe)
          PROVE  CommandType' /\ UNCHANGED <<daemonVars, localVars, inside>>
        BY <2>1, <2>5 DEF ClosePipe, CommandType
    <2> QED BY <2>2, <2>3, <2>4, <2>5 DEF CommandStep
<1> QED
    BY <1>1, TypeGroups, TypeGroupsNext, OutputKept, WriterKept, DaemonKept,
       ControlKept, LocalKept DEF inside, writerVars

LEMMA WriteTypeStep ==
    ASSUME TypeInv, NEW p \in Procs, NEW s \in Streams, Write(p, s)
    PROVE  TypeInv'
<1>1. OutputType'
    BY TypeGroups, SupervisorAssumption DEF Write, OutputType
<1>2. UNCHANGED <<commandVars, daemonVars, writerVars, controlVars, localVars>>
    BY DEF Write, world
<1> QED
    BY <1>1, <1>2, TypeGroups, TypeGroupsNext, CommandKept, WriterKept,
       DaemonKept, ControlKept, LocalKept DEF writerVars

\* The two pipes, as the daemon uses them.
LEMMA DaemonTypeStep ==
    ASSUME TypeInv, SendCancel \/ StopReading \/ CloseControl \/ DaemonDies
                      \/ ReadFrame
    PROVE  TypeInv'
<1>0. WriterType /\ DaemonType /\ ControlType /\ Len(sent) \in Nat
    BY TypeGroups, LenProperties DEF WriterType
<1>1. UNCHANGED <<commandVars, outputVars, writerVars, localVars>>
    BY DEF SendCancel, StopReading, CloseControl, DaemonDies, ReadFrame, inside,
       world
<1>2. ControlType'
    <2>1. CASE SendCancel
        BY <1>0, <2>1, AppendProperties DEF SendCancel, ControlType
    <2>2. CASE CloseControl \/ DaemonDies
        <3>1. /\ UNCHANGED <<listener, internal>>
              /\ \E end \in {"eof", "torn"} : control' = Append(control, end)
            BY <2>2 DEF CloseControl, DaemonDies
        <3> QED BY <1>0, <3>1, AppendProperties DEF ControlType
    <2>3. CASE StopReading \/ ReadFrame
        BY <1>0, <2>3, ControlKept DEF StopReading, ReadFrame, inside
    <2> QED BY <2>1, <2>2, <2>3
<1>3. DaemonType'
    <2>1. CASE SendCancel
        BY <1>0, <1>1, <2>1, SupervisorAssumption
        DEF SendCancel, DaemonType, writerVars
    <2>2. CASE StopReading \/ CloseControl \/ DaemonDies
        BY <1>0, <1>1, <2>2 DEF StopReading, CloseControl, DaemonDies,
           DaemonType, writerVars, world, daemonVars
    <2>3. CASE ReadFrame
        BY <1>0, <1>1, <2>3 DEF ReadFrame, DaemonType, writerVars
    <2> QED BY <2>1, <2>2, <2>3
<1> QED
    BY <1>1, <1>2, <1>3, TypeGroups, TypeGroupsNext, CommandKept, OutputKept,
       WriterKept, LocalKept

LEMMA PostType ==
    ASSUME ControlType, NEW message \in Messages, Post(message)
    PROVE  internal' \in Seq(Messages) /\ Len(internal') <= ControlDepth
<1>1. /\ internal \in Seq(Messages) /\ Len(internal) \in Nat
      /\ Len(internal) < ControlDepth /\ internal' = Append(internal, message)
    BY LenProperties DEF ControlType, Post
<1>2. internal' \in Seq(Messages) /\ Len(internal') = Len(internal) + 1
    BY <1>1, AppendProperties
<1> QED
    BY <1>1, <1>2, SupervisorAssumption

LEMMA ListenerTypeStep ==
    ASSUME TypeInv, ListenerStep
    PROVE  TypeInv' /\ UNCHANGED <<outputVars, writerVars, localVars, world>>
<1>0. ControlType
    BY TypeGroups
<1>1. UNCHANGED <<outputVars, writerVars, localVars, world>>
    BY DEF ListenerStep, ReadControl, PostControl
<1>2. ControlType'
    <2>1. CASE ReadControl
        <3>1. /\ Head(control) \in {"cancel", "torn", "eof"}
              /\ control' \in Seq({"cancel", "torn", "eof"})
              /\ UNCHANGED internal
            BY <1>0, <2>1, HeadTailProperties DEF ReadControl, ControlType
        <3>2. listener' \in {"cancel", "gone", "failed"}
            <4>1. CASE Head(control) = "cancel"
                BY <2>1, <4>1 DEF ReadControl
            <4>2. CASE Head(control) = "eof"
                BY <2>1, <4>2 DEF ReadControl
            <4>3. CASE Head(control) = "torn"
                BY <2>1, <4>3 DEF ReadControl
            <4> QED BY <3>1, <4>1, <4>2, <4>3
        <3> QED BY <1>0, <3>1, <3>2 DEF ControlType
    <2>2. CASE PostControl
        <3>1. internal' \in Seq(Messages) /\ Len(internal') <= ControlDepth
            BY <1>0, <2>2, PostType DEF PostControl
        <3> QED BY <1>0, <2>2, <3>1 DEF PostControl, ControlType
    <2> QED BY <2>1, <2>2 DEF ListenerStep
<1> QED
    BY <1>1, <1>2, TypeGroups, TypeGroupsNext, CommandKept, OutputKept,
       WriterKept, DaemonKept, LocalKept DEF world, writerVars

LEMMA QueueType ==
    ASSUME WriterType, NEW event \in Events, QueueEvent(event)
    PROVE  queue' \in Seq(Events) /\ Len(queue') <= QueueDepth
<1>1. /\ queue \in Seq(Events) /\ Len(queue) \in Nat
      /\ Len(queue) < QueueDepth /\ queue' = Append(queue, event)
    BY LenProperties DEF WriterType, QueueEvent
<1>2. queue' \in Seq(Events) /\ Len(queue') = Len(queue) + 1
    BY <1>1, AppendProperties
<1> QED
    BY <1>1, <1>2, SupervisorAssumption

LEMMA CaptureTypeStep ==
    ASSUME TypeInv, NEW s \in Streams, CaptureStep(s) \/ ReadError(s)
    PROVE  TypeInv' /\ UNCHANGED <<world, localVars, writer, sent, control,
                                   listener, produced>>
<1>0. OutputType /\ WriterType /\ ControlType
    BY TypeGroups
<1>1. UNCHANGED <<world, localVars, writer, sent, control, listener, produced>>
    BY DEF CaptureStep, ReadOutput, SendOutput, EndOfOutput, PostReadError,
       ReadError, writerVars, controlVars
<1>2. OutputType'
    <2>1. CASE ReadOutput(s)
        BY <1>0, <2>1, SupervisorAssumption DEF ReadOutput, OutputType
    <2>2. CASE SendOutput(s) \/ EndOfOutput(s) \/ PostReadError(s) \/ ReadError(s)
        BY <1>0, <2>2 DEF SendOutput, EndOfOutput, PostReadError, ReadError,
           OutputType
    <2> QED BY <2>1, <2>2 DEF CaptureStep
<1>3. queue' \in Seq(Events) /\ Len(queue') <= QueueDepth
    <2>1. CASE SendOutput(s)
        <3>1. CASE QueueEvent(s)
            BY <1>0, <3>1, QueueType DEF Events
        <3>2. CASE UNCHANGED queue
            BY <1>0, <3>2 DEF WriterType
        <3> QED BY <2>1, <3>1, <3>2 DEF SendOutput
    <2>2. CASE UNCHANGED queue
        BY <1>0, <2>2 DEF WriterType
    <2> QED BY <2>1, <2>2 DEF CaptureStep, ReadOutput, EndOfOutput,
               PostReadError, ReadError, writerVars
<1>4. internal' \in Seq(Messages) /\ Len(internal') <= ControlDepth
    <2>1. CASE PostReadError(s)
        BY <1>0, <2>1, PostType DEF PostReadError, Messages
    <2>2. CASE UNCHANGED internal
        BY <1>0, <2>2 DEF ControlType
    <2> QED BY <2>1, <2>2 DEF CaptureStep, ReadOutput, EndOfOutput, SendOutput,
               ReadError, controlVars
<1>5. WriterType' /\ ControlType'
    BY <1>0, <1>1, <1>3, <1>4 DEF WriterType, ControlType
<1> QED
    BY <1>1, <1>2, <1>5, TypeGroups, TypeGroupsNext, CommandKept, DaemonKept,
       LocalKept DEF world

LEMMA WriterTypeStep ==
    ASSUME TypeInv, WriterStep
    PROVE  TypeInv' /\ UNCHANGED <<world, outputVars, localVars, control, listener>>
<1>0. WriterType /\ ControlType /\ DaemonType
    BY TypeGroups
<1>1. UNCHANGED <<world, outputVars, localVars, control, listener>>
    BY DEF WriterStep, WriteFrame, PostWriterGone, controlVars
<1>2. CASE WriteFrame
    <2>1. /\ Head(queue) \in Events /\ Tail(queue) \in Seq(Events)
          /\ Len(Tail(queue)) = Len(queue) - 1 /\ Len(queue) \in Nat
        BY <1>0, <1>2, HeadTailProperties, LenProperties DEF WriteFrame, WriterType
    <2>2. /\ Append(sent, Head(queue)) \in Seq(Events)
          /\ Len(Append(sent, Head(queue))) = Len(sent) + 1 /\ Len(sent) \in Nat
        BY <1>0, <2>1, AppendProperties, LenProperties DEF WriterType
    <2>3. Len(Tail(queue)) <= QueueDepth
        BY <1>0, <2>1, SupervisorAssumption DEF WriterType
    <2>4. /\ queue' = Tail(queue)
          /\ \/ writer' = "sendGone" /\ UNCHANGED sent
             \/ sent' = Append(sent, Head(queue)) /\ UNCHANGED writer
          /\ UNCHANGED <<taken, reader, cancels, controlVars>>
        BY <1>2 DEF WriteFrame, world, daemonVars
    <2>5. WriterType'
        BY <1>0, <2>1, <2>2, <2>3, <2>4 DEF WriterType
    <2>6. taken' \in 0 .. Len(sent')
        <3>1. CASE UNCHANGED sent
            BY <1>0, <2>4, <3>1 DEF DaemonType
        <3>2. CASE sent' = Append(sent, Head(queue))
            <4>1. Len(sent') = Len(sent) + 1 /\ Len(sent) \in Nat
                BY <2>2, <3>2
            <4>2. taken' = taken /\ taken \in 0 .. Len(sent)
                BY <1>0, <2>4 DEF DaemonType
            <4> QED BY <4>1, <4>2
        <3> QED BY <2>4, <3>1, <3>2
    <2>7. DaemonType'
        BY <1>0, <2>4, <2>6 DEF DaemonType
    <2> QED BY <1>1, <2>4, <2>5, <2>7, TypeGroups, TypeGroupsNext, CommandKept,
               OutputKept, ControlKept, LocalKept DEF world
<1>3. CASE PostWriterGone
    <2>1. internal' \in Seq(Messages) /\ Len(internal') <= ControlDepth
        BY <1>0, <1>3, PostType DEF PostWriterGone, Messages
    <2>2. ControlType' /\ WriterType'
        BY <1>0, <1>3, <2>1 DEF PostWriterGone, ControlType, WriterType
    <2>3. UNCHANGED sent
        BY <1>3 DEF PostWriterGone
    <2> QED BY <1>1, <2>2, <2>3, TypeGroups, TypeGroupsNext, CommandKept,
               OutputKept, DaemonKept, LocalKept DEF world
<1> QED
    BY <1>1, <1>2, <1>3 DEF WriterStep

\* The steps of run() by what they change: first those of its locals alone.
LEMMA WaitingTypeStep ==
    ASSUME TypeInv, NoRequest \/ LeaderExited \/ JoinCapture \/ JoinStdin \/ Flush
    PROVE  TypeInv' /\ UNCHANGED <<world, inside>>
<1>1. UNCHANGED <<world, inside>>
    BY DEF NoRequest, LeaderExited, JoinCapture, JoinStdin, Flush, Goto, inside
<1>2. LocalType'
    <2>1. LocalType
        BY TypeGroups
    <2>2. CASE NoRequest
        BY <2>1, <2>2 DEF NoRequest, LocalType
    <2>3. CASE LeaderExited
        <3>1. /\ at' \in {at, "join"} /\ exited' \in {TRUE, exited}
              /\ UNCHANGED <<cancelled, daemonGone, interrupted, deadline>>
            BY <2>3 DEF LeaderExited
        <3> QED BY <2>1, <3>1 DEF LocalType, Draining
    <2>4. CASE JoinCapture \/ JoinStdin \/ Flush
        <3>1. /\ at' \in {"stdin", "over", "report"}
              /\ UNCHANGED <<cancelled, daemonGone, interrupted, deadline, exited>>
            BY <2>4 DEF JoinCapture, JoinStdin, Flush, Goto
        <3> QED BY <2>1, <3>1 DEF LocalType, Draining
    <2> QED BY <2>2, <2>3, <2>4
<1> QED
    BY <1>1, <1>2, TypeGroups, TypeGroupsNext, CommandKept, OutputKept, WriterKept,
       DaemonKept, ControlKept DEF world, inside, writerVars

LEMMA SpawnTypeStep ==
    ASSUME TypeInv, SpawnCommand \/ SpawnError PROVE TypeInv'
<1>0. CommandType /\ OutputType /\ WriterType /\ LocalType
    BY TypeGroups
<1>1. UNCHANGED <<daemonVars, controlVars, sent>>
    BY DEF SpawnCommand, SpawnError, world
<1>2. \A event \in Events :
          <<event>> \in Seq(Events) /\ Len(<<event>>) <= QueueDepth
    BY SupervisorAssumption
<1>3. CASE SpawnCommand
    <2>1. CommandType'
        BY <1>0, <1>3, SupervisorAssumption DEF SpawnCommand, CommandType, Pipes
    <2>2. WriterType'
        BY <1>0, <1>2, <1>3 DEF SpawnCommand, WriterType, Events
    <2>3. OutputType' /\ LocalType'
        BY <1>0, <1>3 DEF SpawnCommand, OutputType, LocalType
    <2> QED BY <1>1, <2>1, <2>2, <2>3, TypeGroups, TypeGroupsNext, DaemonKept,
               ControlKept
<1>4. CASE SpawnError
    <2>1. WriterType' /\ LocalType'
        BY <1>0, <1>2, <1>4 DEF SpawnError, WriterType, LocalType, Events, Outcomes,
           Draining
    <2>2. UNCHANGED <<commandVars, outputVars>>
        BY <1>4 DEF SpawnError, world
    <2> QED BY <1>1, <2>1, <2>2, TypeGroups, TypeGroupsNext, CommandKept,
               OutputKept, DaemonKept, ControlKept
<1> QED
    BY <1>3, <1>4

LEMMA HandleTypeStep ==
    ASSUME TypeInv, HandleMessage
    PROVE  TypeInv' /\ UNCHANGED <<control, listener, outputVars, writerVars, world>>
<1>0. ControlType /\ LocalType
    BY TypeGroups
<1>1. /\ UNCHANGED <<control, listener, outputVars, writerVars, world>>
      /\ internal # <<>> /\ internal' = Tail(internal)
    BY DEF HandleMessage
<1>2. ControlType'
    <2>1. /\ Tail(internal) \in Seq(Messages)
          /\ Len(Tail(internal)) = Len(internal) - 1 /\ Len(internal) \in Nat
        BY <1>0, <1>1, HeadTailProperties, LenProperties DEF ControlType
    <2>2. Len(internal') <= ControlDepth
        BY <1>0, <1>1, <2>1, SupervisorAssumption DEF ControlType
    <2> QED BY <1>0, <1>1, <2>1, <2>2 DEF ControlType
<1>3. LocalType'
    <2>1. /\ at' \in {at, "over"} /\ cancelled' \in {cancelled, TRUE}
          /\ daemonGone' \in {daemonGone, TRUE} /\ interrupted' \in {interrupted, TRUE}
          /\ UNCHANGED exited
        BY DEF HandleMessage, Terminate, localVars
    <2>2. deadline' \in BOOLEAN
        <3>1. CASE UNCHANGED localVars
            BY <1>0, <3>1 DEF LocalType, localVars
        <3>2. CASE Terminate
            BY <3>2 DEF Terminate
        <3> QED BY <3>1, <3>2 DEF HandleMessage
    <2> QED BY <1>0, <2>1, <2>2 DEF LocalType
<1> QED
    BY <1>1, <1>2, <1>3, TypeGroups, TypeGroupsNext, CommandKept, OutputKept,
       WriterKept, DaemonKept DEF world, writerVars

LEMMA GraceTypeStep ==
    ASSUME TypeInv, GraceExpires
    PROVE  TypeInv' /\ UNCHANGED <<group, foreign, fds, daemonVars, inside>>
<1>0. CommandType /\ LocalType
    BY TypeGroups
<1>1. UNCHANGED <<group, foreign, fds, stdin, daemonVars, inside>>
    BY DEF GraceExpires
<1>2. CommandType'
    BY <1>0, <1>1 DEF GraceExpires, KillGroup, CommandType
<1>3. LocalType'
    BY <1>0 DEF GraceExpires, LocalType, Draining
<1> QED
    BY <1>1, <1>2, <1>3, TypeGroups, TypeGroupsNext, OutputKept, WriterKept,
       DaemonKept, ControlKept DEF inside, writerVars

LEMMA ReportTypeStep ==
    ASSUME TypeInv, Report
    PROVE  TypeInv' /\ UNCHANGED <<world, outputVars, controlVars, writer, sent,
                                   cancelled, deadline>>
<1>0. WriterType /\ LocalType
    BY TypeGroups
<1>1. /\ UNCHANGED <<world, outputVars, controlVars, writer, sent, cancelled,
                     daemonGone, interrupted, deadline, exited>>
      /\ at' \in {"flush", "over"}
    BY DEF Report, Goto
<1>2. queue' \in Seq(Events) /\ Len(queue') <= QueueDepth
    <2>1. CASE QueueEvent(Outcome)
        BY <1>0, <2>1, QueueType DEF Outcome, Events, Outcomes
    <2>2. CASE UNCHANGED queue
        BY <1>0, <2>2 DEF WriterType
    <2> QED BY <2>1, <2>2 DEF Report
<1>3. WriterType' /\ LocalType'
    BY <1>0, <1>1, <1>2 DEF WriterType, LocalType, Draining
<1> QED
    BY <1>1, <1>3, TypeGroups, TypeGroupsNext, CommandKept, OutputKept, DaemonKept,
       ControlKept DEF world

LEMMA TypeStep == ASSUME TypeInv, [Next]_vars PROVE TypeInv'
<1>1. CASE UNCHANGED vars
    BY <1>1, TypeGroups, TypeGroupsNext, CommandKept, OutputKept, WriterKept,
       DaemonKept, ControlKept, LocalKept
    DEF vars, world, inside, writerVars
<1>2. CASE CommandMoves \/ StdinRefused
    BY <1>2, CommandTypeStep, WriteTypeStep DEF CommandMoves, CommandStep
<1>3. CASE DaemonMoves \/ ReadFrame
    BY <1>3, DaemonTypeStep DEF DaemonMoves
<1>4. CASE RunStep \/ GraceExpires
    BY <1>4, WaitingTypeStep, SpawnTypeStep, HandleTypeStep, ReportTypeStep,
       GraceTypeStep DEF RunStep
<1>5. CASE ListenerStep \/ WriterStep \/ \E s \in Streams : CaptureStep(s) \/ ReadError(s)
    BY <1>5, ListenerTypeStep, WriterTypeStep, CaptureTypeStep
<1> QED
    BY <1>1, <1>2, <1>3, <1>4, <1>5 DEF Next

LEMMA TypeInvariance == Spec => []TypeInv
<1> QED BY TypeInit, TypeStep, PTL DEF Spec

-----------------------------------------------------------------------------
(* Signals.                                                                *)

LEMMA StopInit == Init => StopInv
BY DEF Init, StopInv, Signalable

\* A step that leaves the group and the decision to stop alone.
LEMMA StopKept ==
    ASSUME StopInv,
           UNCHANGED <<proc, group, foreign, at, cancelled, deadline>>
    PROVE  StopInv'
BY DEF StopInv, Signalable

\* Who could be signalled before, or is new to the group, is only ever joined by
\* processes of a user it may not signal.
LEMMA CommandStop ==
    ASSUME TypeInv, StopInv, CommandStep
    PROVE  StopInv'
<1>1. UNCHANGED <<at, cancelled, deadline>>
    BY CommandTypeStep DEF localVars
<1>2. proc \in [Procs -> {"unborn", "running", "doomed", "dead"}]
      /\ group \in SUBSET Procs /\ foreign \in SUBSET Procs
    BY TypeGroups DEF CommandType
<1>3. ASSUME NEW p \in Procs, Exit(p) PROVE StopInv'
    <2>1. /\ group' = group \ {p} /\ foreign' = foreign \ {p}
          /\ \A q \in Procs \ {p} : proc'[q] = proc[q]
        BY <1>2, <1>3 DEF Exit
    <2> QED BY <1>1, <1>2, <2>1 DEF StopInv, Signalable
<1>4. ASSUME NEW p \in Procs, LeaveGroup(p) \/ ChangeUser(p) PROVE StopInv'
    BY <1>1, <1>4 DEF LeaveGroup, ChangeUser, StopInv, Signalable
<1>5. ASSUME NEW p \in Procs, NEW q \in Procs, Fork(p, q) PROVE StopInv'
    <2>1. /\ proc[p] = "running" /\ proc[q] = "unborn" /\ proc'[q] = "running"
          /\ \A r \in Procs \ {q} : proc'[r] = proc[r]
          /\ group' = IF p \in group THEN group \cup {q} ELSE group
          /\ foreign' = IF p \in foreign THEN foreign \cup {q} ELSE foreign
        BY <1>2, <1>5 DEF Fork, Running
    <2>2. q \notin group
        BY <2>1 DEF StopInv
    <2> QED BY <1>1, <1>2, <2>1, <2>2 DEF StopInv, Signalable
<1>6. ASSUME NEW p \in Procs, NEW pipe \in Pipes, ClosePipe(p, pipe) PROVE StopInv'
    BY <1>1, <1>6, StopKept DEF ClosePipe
<1> QED
    BY <1>3, <1>4, <1>5, <1>6 DEF CommandStep

LEMMA StopStep == ASSUME TypeInv, StopInv, [Next]_vars PROVE StopInv'
<1>0. /\ group \in SUBSET Procs
      /\ proc \in [Procs -> {"unborn", "running", "doomed", "dead"}]
    BY TypeGroups DEF CommandType
<1>1. CASE CommandStep
    BY <1>1, CommandStop
<1>2. CASE StdinWritten \/ StdinRefused \/ DaemonMoves \/ ReadFrame
             \/ (\E p \in Procs, s \in Streams : Write(p, s)) \/ UNCHANGED vars
    <2>1. UNCHANGED <<proc, group, foreign, at, cancelled, deadline>>
        BY <1>2 DEF StdinWritten, StdinRefused, DaemonMoves, ReadFrame, SendCancel,
           StopReading, CloseControl, DaemonDies, Write, vars, world, commandVars,
           localVars
    <2> QED BY <2>1, StopKept
<1>3. CASE ListenerStep \/ WriterStep \/ \E s \in Streams : CaptureStep(s) \/ ReadError(s)
    <2>1. UNCHANGED <<world, localVars>>
        BY <1>3, ListenerTypeStep, WriterTypeStep, CaptureTypeStep
    <2> QED BY <2>1, StopKept DEF world, commandVars, localVars
<1>4. CASE NoRequest
    BY <1>4 DEF NoRequest, world, commandVars, StopInv, Signalable
<1>5. CASE SpawnCommand
    BY <1>0, <1>5, SupervisorAssumption DEF SpawnCommand, StopInv, Signalable
<1>6. CASE SpawnError
    BY <1>6 DEF SpawnError, world, commandVars, StopInv, Signalable
<1>7. CASE LeaderExited
    <2>1. /\ UNCHANGED <<proc, group, foreign, cancelled, deadline>>
          /\ at = "loop" /\ at' \in {"loop", "join"}
          /\ at' = "join" => ~(deadline /\ GroupAlive)
        BY <1>7 DEF LeaderExited, world, commandVars
    <2>2. CASE at' = "loop"
        <3>1. UNCHANGED at
            BY <2>1, <2>2
        <3> QED BY <2>1, <3>1, StopKept
    <2>3. CASE at' = "join"
        <3>1. \A p \in group' : proc'[p] \in {"running", "doomed"}
            BY <2>1 DEF StopInv
        <3>2. cancelled => \A p \in Signalable : proc[p] = "doomed"
            <4>1. CASE deadline
                BY <2>1, <2>3, <4>1 DEF GroupAlive
            <4>2. CASE ~deadline
                BY <4>2 DEF StopInv
            <4> QED BY <4>1, <4>2
        <3>3. cancelled' => \A p \in Signalable' : proc'[p] = "doomed"
            BY <2>1, <3>2 DEF Signalable
        <3> QED BY <2>3, <3>1, <3>3 DEF StopInv
    <2> QED BY <2>1, <2>2, <2>3
<1>8. CASE HandleMessage
    <2>1. UNCHANGED <<proc, group, foreign>> /\ at = "loop"
        BY <1>8 DEF HandleMessage, world, commandVars
    <2>2. CASE UNCHANGED localVars
        BY <2>1, <2>2, StopKept DEF localVars
    <2>3. CASE Terminate
        <3>1. cancelled' = TRUE /\ deadline' = (cancelled => deadline)
            BY <2>3 DEF Terminate
        <3>2. at' \in {"loop", "over"} /\ (at' = "over" => Signalable = {} \/ cancelled)
            BY <1>8, <2>1 DEF HandleMessage, SignalFails, localVars
        <3>3. CASE Signalable = {}
            BY <2>1, <3>2, <3>3 DEF StopInv, Signalable
        <3>4. CASE at' = "loop"
            BY <2>1, <3>1, <3>4 DEF StopInv, Signalable
        <3>5. CASE at' = "over" /\ Signalable # {}
            BY <1>8, <2>1, <3>5 DEF HandleMessage, SignalFails, StopInv, Signalable,
               localVars
        <3> QED BY <3>2, <3>3, <3>4, <3>5
    <2> QED BY <1>8, <2>2, <2>3 DEF HandleMessage
<1>9. CASE GraceExpires
    <2>1. /\ \A p \in Signalable : proc'[p] = "doomed"
          /\ \A p \in group : proc'[p] \in {"running", "doomed"}
          /\ UNCHANGED <<group, foreign>> /\ at' # "boot"
        BY <1>0, <1>9 DEF GraceExpires, KillGroup, StopInv, Signalable
    <2> QED BY <2>1 DEF StopInv, Signalable
<1>10. CASE JoinCapture \/ JoinStdin \/ Report \/ Flush
    <2>1. /\ UNCHANGED <<proc, group, foreign, cancelled, deadline>>
          /\ at \in Draining /\ at' \notin {"boot", "loop"}
        BY <1>10 DEF JoinCapture, JoinStdin, Report, Flush, Goto, world, commandVars,
           Draining
    <2> QED BY <2>1 DEF StopInv, Signalable, Draining
<1> QED
    BY <1>1, <1>2, <1>3, <1>4, <1>5, <1>6, <1>7, <1>8, <1>9, <1>10
    DEF Next, CommandMoves, CommandStep, RunStep

-----------------------------------------------------------------------------
(* What the daemon is told.                                                *)

\* The writer's step takes an event from the queue's front to the end of sent.
LEMMA HandOver ==
    ASSUME NEW S, NEW p \in Seq(S), NEW q \in Seq(S), q # <<>>
    PROVE  Append(p, Head(q)) \o Tail(q) = p \o q
<1>1. /\ Head(q) \in S /\ Head(q) = q[1] /\ Tail(q) \in Seq(S)
      /\ Len(Tail(q)) = Len(q) - 1
      /\ \A i \in 1 .. Len(Tail(q)) : Tail(q)[i] = q[i + 1]
    BY HeadTailProperties
<1>2. Len(p) \in Nat /\ Len(q) \in Nat /\ Len(q) > 0
    BY LenProperties, EmptySeq
<1> DEFINE a == Append(p, Head(q))
           t == Tail(q)
<1>3. /\ a \in Seq(S) /\ Len(a) = Len(p) + 1 /\ a[Len(p) + 1] = q[1]
      /\ \A i \in 1 .. Len(p) : a[i] = p[i]
    BY <1>1, AppendProperties
<1>4. t \in Seq(S) /\ Len(t) = Len(q) - 1
      /\ \A i \in 1 .. Len(t) : t[i] = q[i + 1]
    BY <1>1
<1> HIDE DEF a, t
<1>5. /\ a \o t \in Seq(S) /\ Len(a \o t) = Len(a) + Len(t)
      /\ \A i \in 1 .. Len(a) + Len(t) :
           (a \o t)[i] = IF i <= Len(a) THEN a[i] ELSE t[i - Len(a)]
    BY <1>3, <1>4, ConcatProperties
<1>6. /\ p \o q \in Seq(S) /\ Len(p \o q) = Len(p) + Len(q)
      /\ \A i \in 1 .. Len(p) + Len(q) :
           (p \o q)[i] = IF i <= Len(p) THEN p[i] ELSE q[i - Len(p)]
    BY ConcatProperties
<1>7. Len(a \o t) = Len(p \o q)
    BY <1>2, <1>3, <1>4, <1>5, <1>6
<1>8. ASSUME NEW i \in 1 .. Len(p \o q) PROVE (a \o t)[i] = (p \o q)[i]
    <2>0. i \in 1 .. Len(a) + Len(t) /\ i \in 1 .. Len(p) + Len(q) /\ i \in Nat
        BY <1>2, <1>5, <1>6, <1>7, <1>8
    <2>1. CASE i <= Len(p)
        <3>1. i \in 1 .. Len(p) /\ i <= Len(a)
            BY <1>2, <1>3, <2>0, <2>1
        <3> QED BY <1>3, <1>5, <1>6, <2>0, <2>1, <3>1
    <2>2. CASE i = Len(p) + 1
        <3>1. i <= Len(a) /\ ~(i <= Len(p)) /\ i - Len(p) = 1
            BY <1>2, <1>3, <2>2
        <3> QED BY <1>3, <1>5, <1>6, <2>0, <2>2, <3>1
    <2>3. CASE i > Len(p) + 1
        <3>1. /\ ~(i <= Len(a)) /\ ~(i <= Len(p))
              /\ i - Len(a) \in 1 .. Len(t)
              /\ (i - Len(a)) + 1 = i - Len(p)
            BY <1>2, <1>3, <1>4, <2>0, <2>3
        <3>2. t[i - Len(a)] = q[i - Len(p)]
            BY <1>4, <3>1
        <3> QED BY <1>5, <1>6, <2>0, <3>1, <3>2
    <2> QED BY <1>2, <2>0, <2>1, <2>2, <2>3
<1>9. a \o t = p \o q
    BY <1>5, <1>6, <1>7, <1>8, SeqEqual
<1> QED
    BY <1>9 DEF a, t

\* One more event, and how often each stream is told of then.
LEMMA ConcatAppend ==
    ASSUME NEW S, NEW p \in Seq(S), NEW q \in Seq(S), NEW x \in S
    PROVE  p \o Append(q, x) = Append(p \o q, x)
<1>1. p \o q \in Seq(S) /\ <<x>> \in Seq(S)
    BY ConcatProperties
<1>2. Append(q, x) = q \o <<x>> /\ Append(p \o q, x) = (p \o q) \o <<x>>
    BY <1>1, AppendIsConcat
<1> QED
    BY <1>1, <1>2, ConcatAssociative

LEMMA CountAppend ==
    ASSUME NEW S, NEW events \in Seq(S), NEW x \in S, NEW s
    PROVE  /\ Count(events, s) \in Nat
           /\ Count(Append(events, x), s) =
                Count(events, s) + (IF x = s THEN 1 ELSE 0)
<1> DEFINE n == Len(events)
           old == {k \in 1 .. n : events[k] = s}
           longer == Append(events, x)
           new == {k \in 1 .. Len(longer) : longer[k] = s}
<1>1. n \in Nat
    BY LenProperties
<1>2. Len(longer) = n + 1 /\ longer[n + 1] = x
      /\ \A k \in 1 .. n : longer[k] = events[k]
    BY AppendProperties
<1> HIDE DEF n, longer
<1>3. IsFiniteSet(1 .. n) /\ old \in SUBSET (1 .. n)
    <2>1. 1 \in Int /\ n \in Int
        BY <1>1
    <2> QED BY <2>1, FS_Interval
<1>4. IsFiniteSet(old)
    BY <1>3, FS_Subset
<1>5. Cardinality(old) \in Nat
    BY <1>4, FS_CardinalityType
<1>6. n + 1 \notin old
    BY <1>1
<1>7. CASE x = s
    <2>1. new = old \cup {n + 1}
        BY <1>1, <1>2, <1>7
    <2> HIDE DEF new, old
    <2>2. Cardinality(old \cup {n + 1}) = Cardinality(old) + 1
        BY <1>4, <1>6, FS_AddElement
    <2> QED BY <1>5, <1>7, <2>1, <2>2 DEF Count, new, old, longer, n
<1>8. CASE x # s
    <2>1. new = old
        BY <1>1, <1>2, <1>8
    <2> HIDE DEF new, old
    <2>2. Cardinality(new) = Cardinality(old) + 0
        BY <1>5, <2>1
    <2> QED BY <1>5, <1>8, <2>2 DEF Count, new, old, longer, n
<1> QED
    BY <1>7, <1>8

\* The facts about types that the steps below rest on.
LEMMA TellTypes ==
    ASSUME TypeInv
    PROVE  /\ sent \in Seq(Events) /\ queue \in Seq(Events) /\ Told \in Seq(Events)
           /\ Len(sent) \in Nat /\ Len(queue) \in Nat
           /\ Len(Told) = Len(sent) + Len(queue)
           /\ \A i \in 1 .. Len(sent) : Told[i] = sent[i]
           /\ \A s \in Streams : Count(Told, s) \in Nat /\ unread[s] \in Nat
                                   /\ produced[s] \in Nat /\ Held(s) \in {0, 1}
<1>1. /\ sent \in Seq(Events) /\ queue \in Seq(Events)
      /\ produced \in [Streams -> 0 .. MaxChunks]
      /\ unread \in [Streams -> 0 .. MaxChunks]
    BY TypeGroups DEF WriterType, OutputType
<1>2. Len(sent) \in Nat /\ Len(queue) \in Nat
    BY <1>1, LenProperties
<1>3. /\ Told \in Seq(Events) /\ Len(Told) = Len(sent) + Len(queue)
      /\ \A i \in 1 .. Len(sent) + Len(queue) :
           Told[i] = IF i <= Len(sent) THEN sent[i] ELSE queue[i - Len(sent)]
    BY <1>1, ConcatProperties DEF Told
<1>4. \A i \in 1 .. Len(sent) : Told[i] = sent[i]
    BY <1>2, <1>3
<1>5. \A s \in Streams : Count(Told, s) \in Nat
    <2>1. "started" \in Events
        BY DEF Events
    <2>2. \A s : Count(Told, s) \in Nat
        BY <1>3, <2>1, CountAppend, Zenon
    <2> QED BY <2>2
<1>6. \A s \in Streams : unread[s] \in Nat /\ produced[s] \in Nat
    BY <1>1, SupervisorAssumption
<1>7. \A s \in Streams : Held(s) \in {0, 1}
    BY DEF Held
<1> QED
    BY <1>1, <1>2, <1>3, <1>4, <1>5, <1>6, <1>7

LEMMA TellInit == Init => TellInv
<1> SUFFICES ASSUME Init PROVE TellInv
    OBVIOUS
<1>1. Told = <<>> /\ Told \in Seq(Events) /\ Len(Told) = 0
    BY EmptySeq, ConcatEmptySeq DEF Init, Told
<1>2. \A s \in Streams : Count(Told, s) = 0
    <2>1. {k \in 1 .. 0 : Told[k] = 1} = {} /\ 1 .. 0 = {}
        OBVIOUS
    <2>2. \A s \in Streams : {k \in 1 .. Len(Told) : Told[k] = s} = {}
        BY <1>1, <2>1
    <2> QED BY <2>2, FS_EmptySet DEF Count
<1>3. FirstInv /\ LastInv
    BY <1>1 DEF Init, FirstInv, LastInv
<1>4. ChunkInv
    BY <1>2 DEF Init, ChunkInv, Held, Holders
<1> QED
    BY <1>3, <1>4 DEF Init, TellInv

\* A step of run() that tells nothing: it leaves boot or moves on behind it, and
\* past "join" only when the captures are done.
LEMMA TellMoves ==
    ASSUME TellInv,
           UNCHANGED <<fds, produced, unread, capture, queue, writer, sent>>,
           UNCHANGED at \/
             /\ at' # "boot" /\ (at = "boot" => at' = "over")
             /\ at = "over" => at' = "over"
             /\ at = "flush" => at' = "over"
             /\ at' \in {"stdin", "report", "flush"} =>
                  \A s \in Streams : Settled(s)
    PROVE  TellInv'
<1>1. /\ Told' = Told /\ \A s \in Streams : Settled(s)' = Settled(s)
      /\ \A s \in Streams : Held(s)' = Held(s) /\ Holders(s)' = Holders(s)
      /\ \A s \in Streams : Count(Told, s)' = Count(Told, s)
    BY DEF Told, Settled, Held, Holders, Count
<1>2. CASE writer # "running"
    BY <1>2 DEF TellInv
<1>3. CASE writer = "running"
    <2>1. FirstInv /\ LastInv /\ ChunkInv
        BY <1>3 DEF TellInv
    <2>2. ChunkInv'
        BY <1>1, <2>1 DEF ChunkInv
    <2>3. FirstInv'
        BY <1>1, <2>1 DEF FirstInv
    <2>4. LastInv'
        BY <1>1, <2>1 DEF LastInv
    <2> QED BY <1>3, <2>2, <2>3, <2>4 DEF TellInv
<1> QED
    BY <1>2, <1>3

\* A pipe all ends of which are closed stays closed: it is only inherited.
LEMMA TellCommand ==
    ASSUME TypeInv, TellInv, CommandStep
    PROVE  TellInv'
<1>1. UNCHANGED <<produced, unread, capture, queue, writer, sent, at>>
    BY CommandTypeStep DEF localVars, inside, outputVars, writerVars
<1>2. ASSUME NEW s \in Streams, Holders(s) = {} PROVE Holders(s)' = {}
    <2>1. fds \in [Procs -> SUBSET Pipes] /\ \A p \in Procs : s \notin fds[p]
        BY <1>2, TypeGroups DEF CommandType, Holders
    <2>2. \A p \in Procs : s \notin fds'[p]
        BY <2>1 DEF CommandStep, Exit, LeaveGroup, ChangeUser, Fork, ClosePipe
    <2> QED BY <2>2 DEF Holders
<1>3. /\ Told' = Told /\ \A s \in Streams : Settled(s)' = Settled(s)
      /\ \A s \in Streams : Held(s)' = Held(s)
      /\ \A s \in Streams : Count(Told, s)' = Count(Told, s)
    BY <1>1 DEF Told, Settled, Held, Count
<1>4. CASE writer # "running"
    BY <1>1, <1>4 DEF TellInv
<1>5. CASE writer = "running"
    <2>1. FirstInv /\ LastInv /\ ChunkInv
        BY <1>5 DEF TellInv
    <2>2. ChunkInv'
        BY <1>1, <1>2, <1>3, <2>1 DEF ChunkInv
    <2>3. FirstInv' /\ LastInv'
        BY <1>1, <1>3, <2>1 DEF FirstInv, LastInv
    <2> QED BY <1>1, <1>5, <2>2, <2>3 DEF TellInv
<1> QED
    BY <1>4, <1>5

LEMMA TellWrite ==
    ASSUME TypeInv, TellInv, NEW p \in Procs, NEW s \in Streams, Write(p, s)
    PROVE  TellInv'
<1>0. /\ UNCHANGED <<fds, capture, queue, writer, sent, at>>
      /\ produced' = [produced EXCEPT ![s] = @ + 1]
      /\ unread' = [unread EXCEPT ![s] = @ + 1] /\ p \in Holders(s)
    BY DEF Write, world, commandVars, writerVars, localVars, Holders
<1>1. /\ Told' = Told /\ \A t \in Streams : Settled(t)' = Settled(t)
      /\ \A t \in Streams : Held(t)' = Held(t) /\ Holders(t)' = Holders(t)
      /\ \A t \in Streams : Count(Told, t)' = Count(Told, t)
    BY <1>0 DEF Told, Settled, Held, Count, Holders
<1>2. CASE writer # "running"
    BY <1>0, <1>2 DEF TellInv
<1>3. CASE writer = "running"
    <2>1. FirstInv /\ LastInv /\ ChunkInv
        BY <1>3 DEF TellInv
    <2>2. ASSUME NEW t \in Streams
          PROVE  /\ produced'[t] = Count(Told, t) + Held(t) + unread'[t]
                 /\ capture[t] \in {"ended", "none"} =>
                      unread'[t] = 0 /\ Holders(t) = {}
        <3>1. /\ produced \in [Streams -> 0 .. MaxChunks]
              /\ unread \in [Streams -> 0 .. MaxChunks]
            BY TypeGroups DEF OutputType
        <3>2. CASE t = s
            <4>1. produced'[t] = produced[t] + 1 /\ unread'[t] = unread[t] + 1
                BY <1>0, <3>1, <3>2
            <4>2. capture[t] \notin {"ended", "none"}
                BY <1>0, <2>1, <3>2 DEF ChunkInv
            <4>3. produced[t] = Count(Told, t) + Held(t) + unread[t]
                BY <2>1 DEF ChunkInv
            <4>4. /\ Count(Told, t) \in Nat /\ Held(t) \in {0, 1}
                  /\ unread[t] \in Nat
                BY TellTypes
            <4> QED BY <4>1, <4>2, <4>3, <4>4
        <3>3. CASE t # s
            <4>1. produced'[t] = produced[t] /\ unread'[t] = unread[t]
                BY <1>0, <3>1, <3>3
            <4> QED BY <2>1, <4>1 DEF ChunkInv
        <3> QED BY <3>2, <3>3
    <2>3. ChunkInv'
        BY <1>0, <1>1, <2>2 DEF ChunkInv
    <2>4. FirstInv' /\ LastInv'
        BY <1>0, <1>1, <2>1 DEF FirstInv, LastInv
    <2> QED BY <1>0, <1>3, <2>3, <2>4 DEF TellInv
<1> QED
    BY <1>2, <1>3

\* One chunk goes from the pipe into the task's hands and from there into the
\* queue; a stream ends only when nobody is left to write to it.
LEMMA TellCapture ==
    ASSUME TypeInv, TellInv, NEW s \in Streams,
           CaptureStep(s) \/ ReadError(s)
    PROVE  TellInv'
<1>0. /\ UNCHANGED <<fds, writer, sent, produced, at>> /\ at # "over"
      /\ Told \in Seq(Events) /\ Told' = sent \o queue'
    <2>1. UNCHANGED <<world, localVars, writer, sent, produced>>
        BY CaptureTypeStep
    <2>2. at # "over"
        BY DEF CaptureStep, ReadOutput, SendOutput, EndOfOutput, PostReadError,
           ReadError
    <2> QED BY <2>1, <2>2, TellTypes DEF world, commandVars, localVars, Told
<1>1. CASE writer # "running"
    BY <1>0, <1>1 DEF TellInv
<1>2. CASE writer = "running"
    <2>1. FirstInv /\ LastInv /\ ChunkInv
        BY <1>2 DEF TellInv
    <2>2. /\ capture \in [Streams -> {"none", "reading", "sending", "failing",
                                      "failed", "ended"}]
          /\ unread \in [Streams -> 0 .. MaxChunks]
        BY TypeGroups DEF OutputType
    <2>3. ~Settled(s) /\ \E v : capture' = [capture EXCEPT ![s] = v]
        BY <1>2 DEF CaptureStep, ReadOutput, SendOutput, EndOfOutput,
           PostReadError, ReadError, Settled
    <2>4. /\ at \notin {"boot", "stdin", "report", "flush"}
          /\ \A i \in 1 .. Len(Told) : Told[i] \notin Outcomes
        BY <2>1, <2>3 DEF FirstInv, LastInv, Settled
    <2>5. \A t \in Streams \ {s} : capture'[t] = capture[t]
        BY <2>2, <2>3
    <2>6. \A t \in Streams : Holders(t)' = Holders(t)
        BY <1>0 DEF Holders
    <2>7. /\ Count(Told, s) \in Nat /\ Held(s) \in {0, 1}
          /\ unread[s] \in Nat /\ produced[s] \in Nat
        BY TellTypes
    <2>8. /\ produced[s] = Count(Told, s) + Held(s) + unread[s]
          /\ \A t \in Streams \ {s} :
               /\ produced[t] = Count(Told, t) + Held(t) + unread[t]
               /\ capture[t] \in {"ended", "none"} =>
                    unread[t] = 0 /\ Holders(t) = {}
        BY <2>1 DEF ChunkInv
    <2>9. CASE SendOutput(s)
        <3>1. /\ queue' = Append(queue, s) /\ capture[s] = "sending"
              /\ capture'[s] = "reading" /\ unread' = unread
            BY <1>2, <2>2, <2>9 DEF SendOutput, QueueEvent
        <3>2. Told' = Append(Told, s)
            BY <1>0, <3>1, TellTypes, ConcatAppend DEF Told, Events
        <3>3. /\ Told' \in Seq(Events) /\ Len(Told') = Len(Told) + 1
              /\ Len(Told) \in Nat /\ Told'[Len(Told) + 1] = s
              /\ \A i \in 1 .. Len(Told) : Told'[i] = Told[i]
            BY <1>0, <3>2, AppendProperties, LenProperties DEF Events
        <3>4. s \notin Outcomes
            BY SupervisorAssumption DEF Outcomes
        <3>5. LastInv'
            <4>1. \A i \in 1 .. Len(Told') : Told'[i] \notin Outcomes
                BY <2>4, <3>3, <3>4
            <4> QED BY <1>0, <2>4, <4>1 DEF LastInv
        <3>6. FirstInv'
            <4>1. Told # <<>> /\ Told' # <<>> /\ Told[1] \in {"started", "spawn_error"}
                BY <1>0, <2>1, <2>4, <3>2 DEF FirstInv
            <4>2. Len(Told) # 0
                BY <1>0, <4>1, EmptySeq
            <4>3. 1 \in 1 .. Len(Told)
                BY <3>3, <4>2
            <4>4. Told'[1] = Told[1]
                BY <3>3, <4>3
            <4> QED BY <1>0, <2>4, <4>1, <4>4 DEF FirstInv
        <3>7. /\ Count(Told', s) = Count(Told, s) + 1
              /\ \A t \in Streams \ {s} : Count(Told', t) = Count(Told, t) + 0
            BY <1>0, <3>2, CountAppend DEF Events
        <3>8. Held(s) = 1 /\ Held(s)' = 0
            BY <3>1 DEF Held
        <3>9. produced'[s] = Count(Told', s) + Held(s)' + unread'[s]
            BY <1>0, <2>7, <2>8, <3>1, <3>7, <3>8
        <3>10. ASSUME NEW t \in Streams \ {s}
               PROVE  /\ produced'[t] = Count(Told', t) + Held(t)' + unread'[t]
                      /\ capture'[t] \in {"ended", "none"} =>
                           unread'[t] = 0 /\ Holders(t)' = {}
            <4>1. Count(Told', t) = Count(Told, t) /\ Held(t)' = Held(t)
                BY <2>5, <3>7, TellTypes DEF Held
            <4> QED BY <1>0, <2>5, <2>6, <2>8, <3>1, <4>1
        <3>11. ChunkInv'
            BY <3>1, <3>9, <3>10 DEF ChunkInv, Count
        <3> QED BY <1>0, <1>2, <3>5, <3>6, <3>11 DEF TellInv
    <2>10. CASE ~SendOutput(s)
        <3>1. queue' = queue /\ Told' = Told
            BY <1>0, <2>10 DEF CaptureStep, ReadOutput, EndOfOutput, PostReadError,
               ReadError, writerVars, Told
        <3>2. FirstInv' /\ LastInv'
            BY <1>0, <2>1, <2>4, <3>1 DEF FirstInv, LastInv
        <3>3. \A t \in Streams \ {s} : unread'[t] = unread[t]
            BY <2>2, <2>10 DEF CaptureStep, ReadOutput, EndOfOutput, PostReadError,
               ReadError
        <3>4. \A t \in Streams \ {s} :
                /\ produced'[t] = Count(Told', t) + Held(t)' + unread'[t]
                /\ capture'[t] \in {"ended", "none"} =>
                     unread'[t] = 0 /\ Holders(t)' = {}
            BY <1>0, <2>5, <2>6, <2>8, <3>1, <3>3 DEF Held
        <3>5. /\ produced'[s] = Count(Told', s) + Held(s)' + unread'[s]
              /\ capture'[s] \in {"ended", "none"} =>
                   unread'[s] = 0 /\ Holders(s)' = {}
            <4>1. CASE ReadOutput(s)
                <5>1. /\ capture[s] = "reading" /\ capture'[s] = "sending"
                      /\ unread'[s] = unread[s] - 1 /\ unread[s] > 0
                    BY <2>2, <4>1 DEF ReadOutput
                <5>2. Held(s) = 0 /\ Held(s)' = 1
                    BY <5>1 DEF Held
                <5>3. produced'[s] = Count(Told', s) + Held(s)' + unread'[s]
                    <6>1. produced'[s] = Count(Told', s) + 0 + unread[s]
                        BY <1>0, <2>8, <3>1, <5>2
                    <6>2. unread'[s] = unread[s] - 1 /\ unread[s] \in Nat
                          /\ Count(Told', s) \in Nat
                        BY <2>7, <3>1, <5>1
                    <6> QED BY <5>2, <6>1, <6>2
                <5>4. capture'[s] \notin {"ended", "none"}
                    BY <5>1
                <5> QED BY <5>3, <5>4
            <4>2. CASE EndOfOutput(s)
                <5>1. /\ capture[s] = "reading" /\ capture'[s] = "ended"
                      /\ unread' = unread /\ unread[s] = 0 /\ Holders(s) = {}
                    BY <2>2, <4>2 DEF EndOfOutput
                <5>2. Held(s)' = Held(s)
                    BY <5>1 DEF Held
                <5> QED BY <1>0, <2>6, <2>8, <3>1, <5>1, <5>2
            <4>3. CASE PostReadError(s) \/ ReadError(s)
                <5>1. /\ capture[s] \in {"reading", "failing"}
                      /\ capture'[s] \in {"failing", "failed"} /\ unread' = unread
                    BY <2>2, <4>3 DEF PostReadError, ReadError
                <5>2. Held(s)' = Held(s)
                    BY <5>1 DEF Held
                <5> QED BY <1>0, <2>8, <3>1, <5>1, <5>2
            <4> QED BY <2>10, <4>1, <4>2, <4>3 DEF CaptureStep
        <3>6. ChunkInv'
            BY <3>1, <3>4, <3>5 DEF ChunkInv, Count
        <3> QED BY <1>0, <1>2, <3>2, <3>6 DEF TellInv
    <2> QED BY <2>9, <2>10
<1> QED
    BY <1>1, <1>2

\* A frame that is handed over is told all the same; if the daemon is gone the
\* queue was not empty, so the outcome has not been sent.
LEMMA TellWriter ==
    ASSUME TypeInv, TellInv, WriterStep
    PROVE  TellInv'
<1>1. UNCHANGED <<fds, produced, unread, capture, at>>
    BY WriterTypeStep DEF world, commandVars, outputVars, localVars
<1>2. CASE PostWriterGone
    BY <1>2 DEF PostWriterGone, TellInv
<1>3. CASE WriteFrame /\ reader = "gone"
    <2>1. /\ writer = "running" /\ writer' # "running" /\ sent' = sent
          /\ queue # <<>>
        BY <1>3 DEF WriteFrame
    <2>2. LastInv
        BY <2>1 DEF TellInv
    <2>3. Len(queue) # 0
        BY <2>1, TellTypes, EmptySeq
    <2>4. \A i \in 1 .. Len(sent) : i \in 1 .. Len(Told) /\ i # Len(Told)
        BY <2>3, TellTypes
    <2>5. \A i \in 1 .. Len(sent) : sent[i] \notin Outcomes
        BY <2>2, <2>4, TellTypes DEF LastInv
    <2> QED BY <2>1, <2>5 DEF TellInv
<1>4. CASE WriteFrame /\ reader # "gone"
    <2>1. /\ queue # <<>> /\ queue' = Tail(queue)
          /\ sent' = Append(sent, Head(queue)) /\ writer' = writer
        BY <1>4 DEF WriteFrame
    <2>2. Told' = Told
        BY <2>1, TellTypes, HandOver DEF Told
    <2>3. /\ \A s \in Streams : Settled(s)' = Settled(s)
          /\ \A s \in Streams : Held(s)' = Held(s) /\ Holders(s)' = Holders(s)
          /\ \A s \in Streams : Count(Told, s)' = Count(Told, s)
        BY <1>1, <2>2 DEF Settled, Held, Holders, Count
    <2>4. writer = "running" /\ FirstInv /\ LastInv /\ ChunkInv
        BY <1>4 DEF WriteFrame, TellInv
    <2>5. FirstInv' /\ LastInv' /\ ChunkInv'
        BY <1>1, <2>2, <2>3, <2>4 DEF FirstInv, LastInv, ChunkInv
    <2> QED BY <2>1, <2>4, <2>5 DEF TellInv
<1> QED
    BY <1>2, <1>3, <1>4 DEF WriterStep

\* The first event, and with a command that could not be started the last.
LEMMA TellSpawn ==
    ASSUME TypeInv, TellInv, SpawnCommand \/ SpawnError
    PROVE  TellInv'
<1>0. /\ at = "boot" /\ UNCHANGED <<produced, unread, writer, sent>>
      /\ at' \in {"loop", "flush"}
    BY DEF SpawnCommand, SpawnError, outputVars
<1>1. CASE writer # "running"
    BY <1>0, <1>1 DEF TellInv
<1>2. CASE writer = "running"
    <2>1. /\ Told = <<>> /\ \A s \in Streams : capture[s] = "none"
          /\ ChunkInv
        BY <1>0, <1>2 DEF TellInv, FirstInv
    <2>2. Len(sent) = 0 /\ Len(Told) = 0 /\ sent = <<>>
        <3>1. Len(Told) = 0
            BY <2>1, EmptySeq
        <3>2. Len(sent) = 0
            BY <3>1, TellTypes
        <3> QED BY <3>1, <3>2, TellTypes, EmptySeq
    <2>3. PICK x \in {"started", "spawn_error"} :
              /\ queue' = <<x>>
              /\ x = "started" => at' = "loop"
              /\ x = "spawn_error" => at' = "flush" /\ UNCHANGED <<capture, fds>>
        BY DEF SpawnCommand, SpawnError, outputVars, world, commandVars
    <2>4. x \in Events
        BY DEF Events, Outcomes
    <2>5. Told' = Append(Told, x)
        <3>1. Told' = <<>> \o <<x>> /\ <<x>> \in Seq(Events)
            BY <1>0, <2>2, <2>3, <2>4 DEF Told
        <3>2. Told' = <<x>>
            BY <3>1, ConcatEmptySeq
        <3> QED BY <2>1, <3>2
    <2>6. /\ Told' \in Seq(Events) /\ Len(Told') = 1 /\ Told'[1] = x
        BY <2>2, <2>4, <2>5, TellTypes, AppendProperties
    <2>7. Told' # <<>>
        BY <2>6, EmptySeq
    <2>8. FirstInv'
        BY <1>0, <2>3, <2>6, <2>7 DEF FirstInv
    <2>9. LastInv'
        <3>1. CASE x = "started"
            BY <1>0, <2>3, <2>6, <3>1 DEF LastInv, Outcomes
        <3>2. CASE x = "spawn_error"
            <4>1. at' = "flush" /\ \A s \in Streams : Settled(s)'
                BY <2>1, <2>3, <3>2 DEF Settled
            <4> QED BY <2>6, <4>1 DEF LastInv
        <3> QED BY <2>3, <3>1, <3>2
    <2>10. ASSUME NEW s \in Streams
           PROVE  /\ produced'[s] = Count(Told', s) + Held(s)' + unread'[s]
                  /\ capture'[s] \in {"ended", "none"} =>
                       unread'[s] = 0 /\ Holders(s)' = {}
        <3>1. x # s
            BY <2>3, SupervisorAssumption
        <3>2. Count(Told', s) = Count(Told, s) + 0
            BY <2>4, <2>5, <3>1, TellTypes, CountAppend
        <3>3. capture'[s] \in {"reading", "none"}
            BY <2>1 DEF SpawnCommand, SpawnError, outputVars
        <3>4. Held(s) = 0 /\ Held(s)' = 0
            BY <2>1, <3>3 DEF Held
        <3>5. produced[s] = Count(Told, s) + Held(s) + unread[s]
            BY <2>1 DEF ChunkInv
        <3>6. produced'[s] = Count(Told', s) + Held(s)' + unread'[s]
            BY <1>0, <3>2, <3>4, <3>5, TellTypes
        <3>7. CASE capture'[s] = "none"
            <4>1. UNCHANGED fds
                BY <3>7 DEF SpawnCommand, SpawnError, world, commandVars
            <4>2. Holders(s)' = {} /\ unread'[s] = 0
                BY <1>0, <2>1, <4>1 DEF ChunkInv, Holders
            <4> QED BY <3>6, <4>2
        <3>8. CASE capture'[s] = "reading"
            BY <3>6, <3>8
        <3> QED BY <3>3, <3>7, <3>8
    <2>11. ChunkInv'
        BY <2>10 DEF ChunkInv, Count
    <2> QED BY <1>0, <1>2, <2>8, <2>9, <2>11 DEF TellInv
<1> QED
    BY <1>1, <1>2

\* The outcome is queued behind all that was told, with the captures done.
LEMMA TellReport ==
    ASSUME TypeInv, TellInv, Report
    PROVE  TellInv'
<1>0. /\ UNCHANGED <<fds, produced, unread, capture, writer, sent>>
      /\ at = "report" /\ at' \in {"flush", "over"}
    BY DEF Report, Goto, world, commandVars, outputVars
<1>1. CASE writer # "running"
    BY <1>0, <1>1 DEF TellInv
<1>2. CASE writer = "running"
    <2>1. FirstInv /\ LastInv /\ ChunkInv
        BY <1>2 DEF TellInv
    <2>2. queue' = Append(queue, Outcome) /\ at' = "flush"
        BY <1>2 DEF Report, QueueEvent, Goto
    <2>3. Outcome \in Events /\ Outcome \notin Streams
        BY SupervisorAssumption DEF Outcome, Events, Outcomes
    <2> HIDE DEF Outcome
    <2>4. Told' = Append(Told, Outcome)
        BY <1>0, <2>2, <2>3, TellTypes, ConcatAppend DEF Told
    <2>5. /\ Told' \in Seq(Events) /\ Len(Told') = Len(Told) + 1
          /\ Len(Told) \in Nat /\ Told'[Len(Told) + 1] = Outcome
          /\ \A i \in 1 .. Len(Told) : Told'[i] = Told[i]
        BY <2>3, <2>4, TellTypes, AppendProperties, LenProperties
    <2>6. /\ \A i \in 1 .. Len(Told) : Told[i] \notin Outcomes
          /\ \A s \in Streams : Settled(s)
        BY <1>0, <2>1 DEF LastInv
    <2>7. \A s \in Streams : Settled(s)'
        BY <1>0, <2>6 DEF Settled
    <2>8. LastInv'
        <3>1. ASSUME NEW i \in 1 .. Len(Told'), Told'[i] \in Outcomes
              PROVE  i = Len(Told')
            BY <2>5, <2>6, <3>1
        <3> QED BY <2>2, <2>7, <3>1 DEF LastInv
    <2>9. FirstInv'
        <3>1. Told # <<>> /\ Told[1] \in {"started", "spawn_error"}
            BY <1>0, <2>1 DEF FirstInv
        <3>2. Len(Told) # 0
            BY <3>1, TellTypes, EmptySeq
        <3>3. 1 \in 1 .. Len(Told)
            BY <2>5, <3>2
        <3>4. Told'[1] = Told[1]
            BY <2>5, <3>3
        <3>5. Told' # <<>>
            BY <2>5, EmptySeq
        <3> QED BY <2>2, <3>1, <3>4, <3>5 DEF FirstInv
    <2>10. ASSUME NEW s \in Streams
           PROVE  Count(Told', s) = Count(Told, s)
        <3>1. Count(Told', s) = Count(Told, s) + 0
            BY <2>3, <2>4, TellTypes, CountAppend
        <3> QED BY <3>1, TellTypes
    <2>11. ChunkInv'
        <3>1. \A s \in Streams : Held(s)' = Held(s) /\ Holders(s)' = Holders(s)
            BY <1>0 DEF Held, Holders
        <3>2. \A s \in Streams : Count(Told, s)' = Count(Told, s)
            BY <2>10 DEF Count
        <3> QED BY <1>0, <2>1, <3>1, <3>2 DEF ChunkInv
    <2> QED BY <1>0, <1>2, <2>8, <2>9, <2>11 DEF TellInv
<1> QED
    BY <1>1, <1>2

LEMMA TellStep == ASSUME TypeInv, TellInv, [Next]_vars PROVE TellInv'
<1>1. CASE CommandStep
    BY <1>1, TellCommand
<1>2. CASE \E p \in Procs, s \in Streams : Write(p, s)
    BY <1>2, TellWrite
<1>3. CASE StdinWritten \/ StdinRefused \/ DaemonMoves \/ ReadFrame \/ ListenerStep
             \/ UNCHANGED vars
    <2>1. UNCHANGED <<fds, produced, unread, capture, queue, writer, sent, at>>
        BY <1>3 DEF StdinWritten, StdinRefused, DaemonMoves, ReadFrame, SendCancel,
           StopReading, CloseControl, DaemonDies, ListenerStep, ReadControl,
           PostControl, vars, world, inside, commandVars, outputVars, writerVars,
           localVars
    <2> QED BY <2>1, TellMoves
<1>4. CASE WriterStep
    BY <1>4, TellWriter
<1>5. CASE \E s \in Streams : CaptureStep(s) \/ ReadError(s)
    BY <1>5, TellCapture
<1>6. CASE SpawnCommand \/ SpawnError
    BY <1>6, TellSpawn
<1>7. CASE Report
    BY <1>7, TellReport
<1>8. CASE NoRequest \/ LeaderExited \/ HandleMessage \/ GraceExpires
    <2>1. UNCHANGED <<fds, produced, unread, capture, queue, writer, sent>>
        BY <1>8 DEF NoRequest, LeaderExited, HandleMessage, GraceExpires,
           world, inside, commandVars, outputVars, writerVars
    <2>2. \/ at = "boot" /\ at' = "over"
          \/ at = "loop" /\ at' \in {"loop", "join", "over"}
        BY <1>8 DEF NoRequest, LeaderExited, HandleMessage, GraceExpires, localVars
    <2> QED BY <2>1, <2>2, TellMoves
<1>9. CASE JoinCapture \/ JoinStdin \/ Flush
    <2>1. UNCHANGED <<fds, produced, unread, capture, queue, writer, sent>>
        BY <1>9 DEF JoinCapture, JoinStdin, Flush, Goto, world, commandVars,
           outputVars, writerVars
    <2>2. CASE JoinCapture
        <3>1. at = "join" /\ at' = "stdin" /\ \A s \in Streams : Settled(s)
            BY <2>2 DEF JoinCapture, Goto, Settled
        <3> QED BY <2>1, <3>1, TellMoves
    <2>3. CASE JoinStdin
        <3>1. at = "stdin" /\ at' \in {"over", "report"}
            BY <2>3 DEF JoinStdin, Goto
        <3>2. CASE writer # "running"
            BY <2>1, <3>2 DEF TellInv
        <3>3. CASE writer = "running"
            <4>1. \A s \in Streams : Settled(s)
                BY <3>1, <3>3 DEF TellInv, LastInv
            <4> QED BY <2>1, <3>1, <4>1, TellMoves
        <3> QED BY <3>2, <3>3
    <2>4. CASE Flush
        <3>1. at = "flush" /\ at' = "over"
            BY <2>4 DEF Flush, Goto
        <3> QED BY <2>1, <3>1, TellMoves
    <2> QED BY <1>9, <2>2, <2>3, <2>4
<1> QED
    BY <1>1, <1>2, <1>3, <1>4, <1>5, <1>6, <1>7, <1>8, <1>9
    DEF Next, CommandMoves, CommandStep, RunStep

\* An outcome among the frames sent is all that was told, and what the streams
\* wrote has then been counted.
LEMMA TellImplies == ASSUME TypeInv, TellInv PROVE OutputBeforeOutcome
<1> SUFFICES ASSUME NEW i \in 1 .. Len(sent), sent[i] \in Outcomes
             PROVE  /\ i = Len(sent)
                    /\ sent[1] = "started" \/ i = 1
                    /\ \A s \in Streams :
                         \/ capture[s] = "failed"
                         \/ Cardinality({k \in 1 .. i : sent[k] = s}) = produced[s]
    BY DEF OutputBeforeOutcome
<1>1. writer = "running" /\ FirstInv /\ LastInv /\ ChunkInv
    BY DEF TellInv
<1>2. i \in 1 .. Len(Told) /\ Told[i] = sent[i]
    BY TellTypes
<1>3. i = Len(Told) /\ \A s \in Streams : Settled(s)
    BY <1>1, <1>2 DEF LastInv
<1>4. i = Len(sent) /\ Len(sent) = Len(Told)
    BY <1>3, TellTypes
<1>5. sent[1] = "started" \/ i = 1
    <2>1. 1 \in 1 .. Len(sent) /\ Told[1] = sent[1] /\ 1 \in 1 .. Len(Told)
        BY <1>4, TellTypes
    <2>2. Told # <<>>
        BY <1>2, <1>4, EmptySeq
    <2>3. sent[1] \in {"started", "spawn_error"}
        BY <1>1, <2>1, <2>2 DEF FirstInv
    <2>4. sent[1] = "spawn_error" => 1 = Len(Told)
        BY <1>1, <2>1 DEF LastInv, Outcomes
    <2> QED BY <1>3, <2>3, <2>4
<1>6. ASSUME NEW s \in Streams, capture[s] # "failed"
      PROVE  Cardinality({k \in 1 .. i : sent[k] = s}) = produced[s]
    <2>1. unread[s] = 0 /\ Held(s) = 0
        BY <1>1, <1>3, <1>6 DEF Settled, ChunkInv, Held
    <2>2. produced[s] = Count(Told, s) + Held(s) + unread[s]
        BY <1>1 DEF ChunkInv
    <2>3. produced[s] = Count(Told, s)
        BY <2>1, <2>2, TellTypes
    <2>4. {k \in 1 .. i : sent[k] = s} = {k \in 1 .. Len(Told) : Told[k] = s}
        BY <1>3, <1>4, TellTypes
    <2> QED BY <2>3, <2>4 DEF Count
<1> QED
    BY <1>4, <1>5, <1>6

-----------------------------------------------------------------------------
(* What the main loop hears.                                               *)

\* What a sequence does not hold before a step on it, it does not hold after.
LEMMA NoneAppended ==
    ASSUME NEW S, NEW q \in Seq(S), NEW x \in S, NEW y, x # y,
           \A i \in 1 .. Len(q) : q[i] # y
    PROVE  \A i \in 1 .. Len(Append(q, x)) : Append(q, x)[i] # y
<1>1. Len(q) \in Nat
    BY LenProperties
<1>2. /\ Len(Append(q, x)) = Len(q) + 1 /\ Append(q, x)[Len(q) + 1] = x
      /\ \A i \in 1 .. Len(q) : Append(q, x)[i] = q[i]
    BY AppendProperties
<1>3. \A i \in 1 .. Len(q) + 1 : i \in 1 .. Len(q) \/ i = Len(q) + 1
    BY <1>1
<1> QED BY <1>2, <1>3

LEMMA NoneInTail ==
    ASSUME NEW S, NEW q \in Seq(S), q # <<>>, NEW y,
           \A i \in 1 .. Len(q) : q[i] # y
    PROVE  /\ Head(q) # y
           /\ \A i \in 1 .. Len(Tail(q)) : Tail(q)[i] # y
<1>1. /\ Head(q) = q[1] /\ Len(Tail(q)) = Len(q) - 1
      /\ \A i \in 1 .. Len(Tail(q)) : Tail(q)[i] = q[i + 1]
    BY HeadTailProperties
<1>2. Len(q) \in Nat /\ Len(q) # 0
    BY LenProperties, EmptySeq
<1>3. \A i \in 1 .. Len(q) - 1 : i + 1 \in 1 .. Len(q)
    BY <1>2
<1>4. 1 \in 1 .. Len(q)
    BY <1>2
<1> QED BY <1>1, <1>3, <1>4

-----------------------------------------------------------------------------
(* Steps by what they leave alone.                                         *)

\* A step that changes nothing the daemon or the main loop could see.
LEMMA SilentStep ==
    ASSUME TypeInv, CommandMoves \/ StdinRefused \/ UNCHANGED vars
    PROVE  UNCHANGED <<daemonVars, writerVars, controlVars, at, cancelled,
                       daemonGone, interrupted>>
<1>1. CASE CommandStep \/ StdinWritten \/ StdinRefused
    BY <1>1, CommandTypeStep, Zenon DEF inside, localVars
<1>2. ASSUME NEW p \in Procs, NEW s \in Streams, Write(p, s)
      PROVE  UNCHANGED <<daemonVars, writerVars, controlVars, at, cancelled,
                         daemonGone, interrupted>>
    BY <1>2, Zenon DEF Write, world, localVars
<1>3. CASE UNCHANGED vars
    BY <1>3, Zenon DEF vars, world, inside, localVars
<1> QED
    BY <1>1, <1>2, <1>3 DEF CommandMoves, CommandStep

\* What a step of a capture task puts into the queue or the internal channel.
LEMMA CaptureSays ==
    ASSUME TypeInv, NEW s \in Streams, CaptureStep(s) \/ ReadError(s)
    PROVE  /\ UNCHANGED <<daemonVars, writer, sent, control, listener, at,
                          cancelled, daemonGone, interrupted>>
           /\ \/ UNCHANGED <<queue, internal>>
              \/ /\ queue' = Append(queue, s) /\ UNCHANGED internal
                 /\ capture[s] = "sending" /\ writer # "ended"
              \/ internal' = Append(internal, "failed") /\ UNCHANGED queue
<1>1. UNCHANGED <<daemonVars, writer, sent, control, listener, at, cancelled,
                  daemonGone, interrupted>>
    BY CaptureTypeStep, Zenon DEF world, localVars
<1>2. CASE SendOutput(s)
    BY <1>1, <1>2 DEF SendOutput, QueueEvent, controlVars
<1>3. CASE PostReadError(s)
    BY <1>1, <1>3 DEF PostReadError, Post, writerVars
<1>4. CASE ReadOutput(s) \/ EndOfOutput(s) \/ ReadError(s)
    BY <1>1, <1>4 DEF ReadOutput, EndOfOutput, ReadError, writerVars, controlVars
<1> QED
    BY <1>1, <1>2, <1>3, <1>4 DEF CaptureStep

\* A step of the supervisor or of its command; the others are the daemon's.
OwnStep ==
    \/ CommandMoves \/ StdinRefused \/ UNCHANGED vars
    \/ \E s \in Streams : CaptureStep(s) \/ ReadError(s)
    \/ ListenerStep \/ WriterStep \/ RunStep \/ GraceExpires

LEMMA OwnSteps == [Next]_vars <=> OwnStep \/ DaemonMoves \/ ReadFrame
BY DEF Next, OwnStep

\* The end of the control pipe is noticed, but only the daemon makes it.
LEMMA ClosedKept ==
    ASSUME TypeInv, HeardInv, OwnStep
    PROVE  ControlClosed' <=> ControlClosed
<1>0. /\ control \in Seq({"cancel", "torn", "eof"})
      /\ listener \in {"reading", "cancel", "gone", "failed", "ended"}
      /\ Len(control) \in Nat
    BY TypeGroups, LenProperties DEF ControlType
<1>1. CASE UNCHANGED <<control, listener>>
    BY <1>1 DEF ControlClosed
<1>4. CASE ReadControl
    <2>1. /\ listener = "reading" /\ control # <<>> /\ control' = Tail(control)
          /\ listener' = CASE Head(control) = "cancel" -> "cancel"
                           [] Head(control) = "eof"    -> "gone"
                           [] Head(control) = "torn"   -> "failed"
        BY <1>4 DEF ReadControl
    <2>2. /\ Head(control) = control[1] /\ Head(control) \in {"cancel", "torn", "eof"}
          /\ Tail(control) \in Seq({"cancel", "torn", "eof"})
          /\ Len(Tail(control)) = Len(control) - 1
          /\ \A i \in 1 .. Len(Tail(control)) : Tail(control)[i] = control[i + 1]
        BY <1>0, <2>1, HeadTailProperties
    <2>3. Len(control) # 0
        BY <1>0, <2>1, EmptySeq
    <2>4. CASE Len(control) = 1
        <3>1. Len(Tail(control)) = 0
            BY <2>2, <2>4
        <3>2. control' = <<>>
            BY <2>1, <2>2, <3>1, EmptySeq
        <3>3. ControlClosed <=> control[1] \in {"eof", "torn"}
            BY <2>1, <2>4 DEF ControlClosed
        <3>4. ControlClosed' <=> listener' \in {"gone", "failed", "ended"}
            BY <3>2 DEF ControlClosed
        <3>5. listener' \in {"gone", "failed", "ended"} <=> control[1] \in {"eof", "torn"}
            <4>1. CASE Head(control) = "cancel"
                BY <2>1, <2>2, <4>1
            <4>2. CASE Head(control) = "eof"
                BY <2>1, <2>2, <4>2
            <4>3. CASE Head(control) = "torn"
                BY <2>1, <2>2, <4>3
            <4> QED BY <2>2, <4>1, <4>2, <4>3
        <3> QED BY <3>3, <3>4, <3>5
    <2>5. CASE Len(control) # 1
        <3>1. /\ Len(Tail(control)) \in 1 .. Len(Tail(control))
              /\ Len(Tail(control)) + 1 = Len(control)
              /\ 1 \in 1 .. Len(control) /\ 1 < Len(control)
              /\ Len(Tail(control)) # 0
            BY <1>0, <2>2, <2>3, <2>5
        <3>2. control'[Len(control')] = control[Len(control)] /\ control' # <<>>
            BY <2>1, <2>2, <3>1, EmptySeq
        <3>3. control[1] = "cancel"
            BY <3>1 DEF HeardInv
        <3>4. listener' = "cancel"
            BY <2>1, <2>2, <3>3
        <3> QED BY <2>1, <3>2, <3>4 DEF ControlClosed
    <2> QED BY <2>4, <2>5
<1>5. CASE PostControl
    BY <1>5 DEF PostControl, ControlClosed, Messages
<1>6. CASE CommandMoves \/ StdinRefused \/ UNCHANGED vars
    BY <1>1, <1>6, SilentStep, Zenon DEF controlVars
<1>7. ASSUME NEW s \in Streams, CaptureStep(s) \/ ReadError(s)
      PROVE  UNCHANGED <<control, listener>>
    BY <1>7, CaptureSays, Zenon
<1>8. CASE WriterStep
    BY <1>1, <1>8, WriterTypeStep, Zenon
<1>9. CASE RunStep \/ GraceExpires
    <2>1. UNCHANGED <<control, listener>>
        BY <1>9 DEF RunStep, GraceExpires, NoRequest, SpawnCommand, SpawnError,
           LeaderExited, HandleMessage, JoinCapture, JoinStdin, Report, Flush,
           Goto, inside, controlVars
    <2> QED BY <1>1, <2>1
<1> QED
    BY <1>1, <1>4, <1>5, <1>6, <1>7, <1>8, <1>9 DEF OwnStep, ListenerStep

LEMMA ClosedStep ==
    ASSUME TypeInv, HeardInv, [Next]_vars
    PROVE  ControlClosed => ControlClosed'
<1>1. CASE SendCancel \/ CloseControl \/ DaemonDies
    BY <1>1 DEF SendCancel, CloseControl, DaemonDies
<1>2. CASE StopReading \/ ReadFrame
    <2>1. UNCHANGED <<control, listener>>
        BY <1>2, Zenon DEF StopReading, ReadFrame, inside, controlVars
    <2> QED BY <2>1 DEF ControlClosed
<1> QED
    BY <1>1, <1>2, OwnSteps, ClosedKept DEF DaemonMoves

-----------------------------------------------------------------------------
(* KeepInv holds.                                                          *)

LEMMA KeepInit == Init => KeepInv
<1> SUFFICES ASSUME Init PROVE KeepInv
    OBVIOUS
<1>1. Len(control) = 0 /\ Len(internal) = 0
    BY EmptySeq DEF Init
<1>2. HeardInv
    BY <1>1 DEF Init, HeardInv
<1>3. LostInv
    BY <1>1 DEF Init, LostInv
<1>4. ReasonInv /\ EndsInv
    BY DEF Init, ReasonInv, EndsInv
<1> QED
    BY <1>2, <1>3, <1>4 DEF KeepInv

\* Steps of the pipes by what they do to the two channels of messages.
LEMMA MessageSteps ==
    ASSUME TypeInv, [Next]_vars
    PROVE  \/ UNCHANGED <<control, listener, internal>>
           \/ SendCancel \/ CloseControl \/ DaemonDies \/ ReadControl
           \/ PostControl \/ HandleMessage
           \/ /\ \E message \in {"failed", "gone"} :
                   /\ internal' = Append(internal, message)
                   /\ message = "gone" => writer # "running"
              /\ UNCHANGED <<control, listener, cancels, reader>>
<1>1. CASE CommandMoves \/ StdinRefused \/ UNCHANGED vars
    BY <1>1, SilentStep, Zenon DEF controlVars
<1>2. ASSUME NEW s \in Streams, CaptureStep(s) \/ ReadError(s)
      PROVE  \/ UNCHANGED <<control, listener, internal>>
             \/ /\ internal' = Append(internal, "failed")
                /\ UNCHANGED <<control, listener, cancels, reader>>
    BY <1>2, CaptureSays, Zenon DEF daemonVars
<1>3. CASE WriteFrame
    BY <1>3 DEF WriteFrame, controlVars
<1>4. CASE PostWriterGone
    BY <1>4 DEF PostWriterGone, Post, world, daemonVars
<1>5. CASE RunStep \/ GraceExpires
    BY <1>5 DEF RunStep, GraceExpires, NoRequest, SpawnCommand, SpawnError,
       LeaderExited, JoinCapture, JoinStdin, Report, Flush, Goto, inside,
       controlVars
<1>6. CASE StopReading \/ ReadFrame
    BY <1>6, Zenon DEF StopReading, ReadFrame, inside, controlVars
<1> QED
    BY <1>1, <1>2, <1>3, <1>4, <1>5, <1>6
    DEF Next, DaemonMoves, ListenerStep, WriterStep

\* The supervisor's steps leave the daemon's side of the pipes alone.
LEMMA DaemonLeft ==
    ASSUME TypeInv, OwnStep PROVE UNCHANGED daemonVars
<1>1. CASE CommandMoves \/ StdinRefused \/ UNCHANGED vars
    BY <1>1, SilentStep, Zenon
<1>2. ASSUME NEW s \in Streams, CaptureStep(s) \/ ReadError(s)
      PROVE  UNCHANGED daemonVars
    BY <1>2, CaptureSays, Zenon
<1>3. CASE ListenerStep \/ WriterStep
    BY <1>3, ListenerTypeStep, WriterTypeStep, Zenon DEF world
<1>4. CASE RunStep \/ GraceExpires
    BY <1>4 DEF RunStep, GraceExpires, NoRequest, SpawnCommand, SpawnError,
       LeaderExited, HandleMessage, JoinCapture, JoinStdin, Report, Flush, Goto,
       world
<1> QED
    BY <1>1, <1>2, <1>3, <1>4 DEF OwnStep

LEMMA CancelsStep ==
    ASSUME TypeInv, [Next]_vars
    PROVE  UNCHANGED cancels \/ (SendCancel /\ cancels' = cancels + 1)
<1>1. CASE OwnStep
    BY <1>1, DaemonLeft, Zenon DEF daemonVars
<1>2. CASE DaemonMoves \/ ReadFrame
    BY <1>2 DEF DaemonMoves, SendCancel, StopReading, CloseControl, DaemonDies,
       ReadFrame, world, daemonVars
<1> QED
    BY <1>1, <1>2, OwnSteps

LEMMA HeardStep ==
    ASSUME TypeInv, HeardInv, [Next]_vars PROVE HeardInv'
<1>0. /\ control \in Seq({"cancel", "torn", "eof"}) /\ Len(control) \in Nat
      /\ listener \in {"reading", "cancel", "gone", "failed", "ended"}
      /\ internal \in Seq(Messages) /\ cancels \in Nat
    BY TypeGroups, LenProperties, SupervisorAssumption DEF ControlType, DaemonType
<1>1. cancels' = 0 => cancels = 0 /\ UNCHANGED cancels
    BY <1>0, CancelsStep
<1>2. ~ControlClosed => \A i \in 1 .. Len(control) : control[i] = "cancel"
    <2>1. ASSUME ~ControlClosed, NEW i \in 1 .. Len(control) PROVE control[i] = "cancel"
        <3>1. CASE i < Len(control)
            BY <3>1 DEF HeardInv
        <3>2. CASE i = Len(control)
            <4>1. control # <<>> /\ control[i] \in {"cancel", "torn", "eof"}
                BY <1>0, <3>2, EmptySeq, ElementOfSeq
            <4> QED BY <2>1, <3>2, <4>1 DEF ControlClosed
        <3> QED BY <1>0, <3>1, <3>2
    <2> QED BY <2>1
<1>3. CASE UNCHANGED <<control, listener, internal>>
    BY <1>1, <1>3 DEF HeardInv
<1>4. ASSUME NEW x \in {"cancel", "torn", "eof"}, ~ControlClosed,
             control' = Append(control, x), UNCHANGED <<listener, internal>>,
             cancels' = 0 => x # "cancel"
      PROVE  HeardInv'
    <2>1. /\ Len(control') = Len(control) + 1 /\ control'[Len(control) + 1] = x
          /\ \A i \in 1 .. Len(control) : control'[i] = control[i]
        BY <1>0, <1>4, AppendProperties
    <2>2. \A i \in 1 .. Len(control') : i < Len(control') => control'[i] = "cancel"
        <3>1. \A i \in 1 .. Len(control') : i < Len(control') => i \in 1 .. Len(control)
            BY <1>0, <2>1
        <3> QED BY <1>2, <1>4, <2>1, <3>1
    <2>3. cancels' = 0 => \A i \in 1 .. Len(control') : control'[i] # "cancel"
        <3>1. CASE cancels' = 0
            <4>1. x # "cancel" /\ \A i \in 1 .. Len(control) : control[i] # "cancel"
                BY <1>1, <1>4, <3>1 DEF HeardInv
            <4>2. \A i \in 1 .. Len(Append(control, x)) : Append(control, x)[i] # "cancel"
                BY <1>0, <4>1, NoneAppended
            <4> QED BY <1>4, <4>2
        <3> QED BY <3>1
    <2> QED BY <1>1, <1>4, <2>2, <2>3 DEF HeardInv
<1>5. CASE SendCancel
    <2>1. cancels' = cancels + 1 /\ ~ControlClosed
          /\ control' = Append(control, "cancel") /\ UNCHANGED <<listener, internal>>
        BY <1>5 DEF SendCancel
    <2>2. cancels' # 0
        BY <1>0, <2>1
    <2> QED BY <1>4, <2>1, <2>2
<1>6. CASE CloseControl \/ DaemonDies
    <2>1. PICK end \in {"eof", "torn"} : control' = Append(control, end)
        BY <1>6 DEF CloseControl, DaemonDies
    <2>2. ~ControlClosed /\ UNCHANGED <<listener, internal>>
        BY <1>6 DEF CloseControl, DaemonDies
    <2> QED BY <1>4, <2>1, <2>2
<1>7. CASE ReadControl
    <2>1. /\ control # <<>> /\ control' = Tail(control) /\ UNCHANGED internal
          /\ Head(control) \in {"cancel", "torn", "eof"}
        BY <1>0, <1>7, HeadTailProperties DEF ReadControl
    <2>2. listener' = "cancel" => Head(control) = "cancel"
        <3>1. CASE Head(control) = "eof"
            BY <1>7, <3>1 DEF ReadControl
        <3>2. CASE Head(control) = "torn"
            BY <1>7, <3>2 DEF ReadControl
        <3> QED BY <2>1, <3>1, <3>2
    <2>3. /\ Len(Tail(control)) = Len(control) - 1
          /\ \A i \in 1 .. Len(Tail(control)) : Tail(control)[i] = control[i + 1]
        BY <1>0, <2>1, HeadTailProperties
    <2>4. \A i \in 1 .. Len(control') : i < Len(control') => control'[i] = "cancel"
        <3>1. \A i \in 1 .. Len(Tail(control)) : i < Len(Tail(control)) =>
                   i + 1 \in 1 .. Len(control) /\ i + 1 < Len(control)
            BY <1>0, <2>3
        <3> QED BY <2>1, <2>3, <3>1 DEF HeardInv
    <2>5. cancels' = 0 => /\ Head(control) # "cancel"
                          /\ \A i \in 1 .. Len(control') : control'[i] # "cancel"
        <3>1. CASE cancels' = 0
            <4>1. \A i \in 1 .. Len(control) : control[i] # "cancel"
                BY <1>1, <3>1 DEF HeardInv
            <4>2. /\ Head(control) # "cancel"
                  /\ \A i \in 1 .. Len(Tail(control)) : Tail(control)[i] # "cancel"
                BY <1>0, <2>1, <4>1, NoneInTail
            <4> QED BY <2>1, <4>2
        <3> QED BY <3>1
    <2> QED BY <1>1, <2>1, <2>2, <2>4, <2>5 DEF HeardInv
<1>8. ASSUME NEW x \in Messages, internal' = Append(internal, x), UNCHANGED control,
             listener' # "cancel" \/ UNCHANGED listener,
             cancels' = 0 => x # "cancel"
      PROVE  HeardInv'
    <2>1. cancels' = 0 => \A i \in 1 .. Len(internal') : internal'[i] # "cancel"
        <3>1. CASE cancels' = 0
            <4>1. x # "cancel" /\ \A i \in 1 .. Len(internal) : internal[i] # "cancel"
                BY <1>1, <1>8, <3>1 DEF HeardInv
            <4>2. \A i \in 1 .. Len(Append(internal, x)) : Append(internal, x)[i] # "cancel"
                BY <1>0, <4>1, NoneAppended
            <4> QED BY <1>8, <4>2
        <3> QED BY <3>1
    <2> QED BY <1>1, <1>8, <2>1 DEF HeardInv
<1>9. CASE PostControl
    <2>1. /\ listener \in Messages /\ internal' = Append(internal, listener)
          /\ UNCHANGED control /\ listener' # "cancel"
        BY <1>9 DEF PostControl, Post
    <2>2. cancels' = 0 => listener # "cancel"
        BY <1>1 DEF HeardInv
    <2> QED BY <1>8, <2>1, <2>2
<1>10. ASSUME NEW x \in {"failed", "gone"}, internal' = Append(internal, x),
              UNCHANGED <<control, listener>>
       PROVE  HeardInv'
    BY <1>8, <1>10 DEF Messages
<1>11. CASE HandleMessage
    <2>1. /\ internal # <<>> /\ internal' = Tail(internal)
          /\ UNCHANGED <<control, listener>>
        BY <1>11 DEF HandleMessage
    <2>2. cancels' = 0 => \A i \in 1 .. Len(internal') : internal'[i] # "cancel"
        <3>1. CASE cancels' = 0
            <4>1. \A i \in 1 .. Len(internal) : internal[i] # "cancel"
                BY <1>1, <3>1 DEF HeardInv
            <4>2. \A i \in 1 .. Len(Tail(internal)) : Tail(internal)[i] # "cancel"
                BY <1>0, <2>1, <4>1, NoneInTail
            <4> QED BY <2>1, <4>2
        <3> QED BY <3>1
    <2> QED BY <1>1, <2>1, <2>2 DEF HeardInv
<1> QED
    BY <1>3, <1>5, <1>6, <1>7, <1>9, <1>10, <1>11, MessageSteps

\* The reader and the writer each change for the worse only.
LEMMA EndsOfPipe ==
    ASSUME TypeInv, [Next]_vars
    PROVE  /\ UNCHANGED <<reader, taken>> \/ ReadFrame
                \/ (UNCHANGED taken /\ (StopReading \/ DaemonDies))
           /\ reader = "gone" => reader' = "gone"
           /\ UNCHANGED writer \/ (writer = "running" /\ reader = "gone")
                \/ (writer = "sendGone" /\ writer' = "ended")
<1>1. CASE CommandMoves \/ StdinRefused \/ UNCHANGED vars
    BY <1>1, SilentStep, Zenon DEF daemonVars, writerVars
<1>2. ASSUME NEW s \in Streams, CaptureStep(s) \/ ReadError(s)
      PROVE  UNCHANGED <<reader, taken, writer>>
    BY <1>2, CaptureSays, Zenon DEF daemonVars
<1>3. CASE ListenerStep
    BY <1>3, ListenerTypeStep, Zenon DEF world, daemonVars, writerVars
<1>4. CASE WriterStep
    BY <1>4 DEF WriterStep, WriteFrame, PostWriterGone, world, daemonVars
<1>5. CASE RunStep \/ GraceExpires
    BY <1>5 DEF RunStep, GraceExpires, NoRequest, SpawnCommand, SpawnError,
       LeaderExited, HandleMessage, JoinCapture, JoinStdin, Report, Flush, Goto,
       inside, writerVars, world, daemonVars
<1>6. CASE ReadFrame
    BY <1>6 DEF ReadFrame, inside, writerVars
<1>7. CASE SendCancel \/ StopReading \/ CloseControl \/ DaemonDies
    BY <1>7 DEF SendCancel, StopReading, CloseControl, DaemonDies,
       inside, writerVars, world, daemonVars
<1> QED
    BY <1>1, <1>2, <1>3, <1>4, <1>5, <1>6, <1>7 DEF Next, DaemonMoves

LEMMA LostStep ==
    ASSUME TypeInv, HeardInv, LostInv, [Next]_vars PROVE LostInv'
<1>1. writer' # "running" => reader' = "gone"
    BY EndsOfPipe DEF LostInv
<1>2. CASE ControlClosed' \/ reader' = "gone"
    BY <1>1, <1>2 DEF LostInv
<1>3. CASE ~(ControlClosed' \/ reader' = "gone")
    <2>1. /\ ~ControlClosed /\ writer = "running"
          /\ \A i \in 1 .. Len(internal) : internal[i] # "gone"
        BY <1>3, EndsOfPipe, ClosedStep DEF LostInv
    <2>2. internal \in Seq(Messages)
        BY TypeGroups DEF ControlType
    <2>3. \A x \in Messages \ {"gone"} : internal' = Append(internal, x) =>
             \A i \in 1 .. Len(internal') : internal'[i] # "gone"
        BY <2>1, <2>2, NoneAppended
    <2>4. \A i \in 1 .. Len(internal') : internal'[i] # "gone"
        <3>1. CASE UNCHANGED internal
            BY <2>1, <3>1
        <3>2. CASE SendCancel \/ CloseControl \/ DaemonDies \/ ReadControl
            <4>1. UNCHANGED internal
                BY <3>2 DEF SendCancel, CloseControl, DaemonDies, ReadControl
            <4> QED BY <3>1, <4>1
        <3>3. CASE PostControl
            <4>1. listener \in Messages /\ internal' = Append(internal, listener)
                BY <3>3 DEF PostControl, Post
            <4>2. listener # "gone"
                BY <2>1 DEF ControlClosed
            <4> QED BY <2>3, <4>1, <4>2
        <3>4. CASE HandleMessage
            <4>1. internal # <<>> /\ internal' = Tail(internal)
                BY <3>4 DEF HandleMessage
            <4> QED BY <2>1, <2>2, <4>1, NoneInTail
        <3>5. ASSUME NEW x \in {"failed", "gone"}, internal' = Append(internal, x),
                     x = "gone" => writer # "running"
              PROVE  \A i \in 1 .. Len(internal') : internal'[i] # "gone"
            BY <2>1, <2>3, <3>5 DEF Messages
        <3> QED BY <3>1, <3>2, <3>3, <3>4, <3>5, MessageSteps
    <2> QED BY <1>1, <2>4 DEF LostInv
<1> QED
    BY <1>2, <1>3

\* Steps that leave the locals and the place of the main loop alone.
LEMMA LocalSteps ==
    ASSUME TypeInv, [Next]_vars
    PROVE  RunStep \/ GraceExpires
             \/ UNCHANGED <<at, cancelled, daemonGone, interrupted>>
<1>1. CASE CommandMoves \/ StdinRefused \/ UNCHANGED vars
    BY <1>1, SilentStep, Zenon
<1>2. ASSUME NEW s \in Streams, CaptureStep(s) \/ ReadError(s)
      PROVE  UNCHANGED <<at, cancelled, daemonGone, interrupted>>
    BY <1>2, CaptureSays, Zenon
<1>3. CASE ListenerStep \/ WriterStep
    BY <1>3, ListenerTypeStep, WriterTypeStep, Zenon DEF localVars
<1>4. CASE DaemonMoves \/ ReadFrame
    BY <1>4, Zenon DEF DaemonMoves, SendCancel, StopReading, CloseControl,
       DaemonDies, ReadFrame, localVars
<1> QED
    BY <1>1, <1>2, <1>3, <1>4 DEF Next

LEMMA ReasonStep ==
    ASSUME TypeInv, HeardInv, ReasonInv, [Next]_vars PROVE ReasonInv'
<1>0. /\ cancels \in Nat /\ internal \in Seq(Messages)
      /\ cancelled \in BOOLEAN /\ daemonGone \in BOOLEAN /\ interrupted \in BOOLEAN
    BY TypeGroups, SupervisorAssumption DEF DaemonType, ControlType, LocalType
<1>1. cancels > 0 => cancels' > 0
    BY <1>0, CancelsStep
<1>2. CASE UNCHANGED <<at, cancelled, daemonGone, interrupted>>
    BY <1>1, <1>2 DEF ReasonInv
<1>3. CASE HandleMessage
    <2>1. /\ internal # <<>> /\ Head(internal) \in Messages /\ at = "loop"
          /\ at' # "report"
        BY <1>0, <1>3, HeadTailProperties DEF HandleMessage, localVars
    <2>2. Head(internal) = "cancel" => cancels > 0
        <3>1. CASE cancels = 0
            <4>1. \A i \in 1 .. Len(internal) : internal[i] # "cancel"
                BY <3>1 DEF HeardInv
            <4>2. Head(internal) # "cancel"
                BY <1>0, <2>1, <4>1, NoneInTail
            <4> QED BY <4>2
        <3> QED BY <1>0, <3>1
    <2>3. CASE UNCHANGED localVars
        BY <1>1, <1>2, <2>3 DEF localVars
    <2>4. CASE Head(internal) = "cancel" /\ Terminate
                 /\ UNCHANGED <<daemonGone, interrupted>>
        BY <1>1, <2>1, <2>2, <2>4 DEF ReasonInv, Terminate
    <2>5. CASE Terminate /\ (daemonGone' = TRUE \/ interrupted' = TRUE)
        BY <2>1, <2>5 DEF ReasonInv, Terminate
    <2> QED BY <1>3, <2>3, <2>4, <2>5 DEF HandleMessage
<1>4. CASE (RunStep \/ GraceExpires) /\ ~HandleMessage
    <2>1. /\ UNCHANGED <<cancelled, daemonGone, interrupted>>
          /\ at' = "report" => at = "report" \/ ~daemonGone
        BY <1>4 DEF RunStep, GraceExpires, NoRequest, SpawnCommand, SpawnError,
           LeaderExited, JoinCapture, JoinStdin, Report, Flush, Goto
    <2> QED BY <1>1, <2>1 DEF ReasonInv
<1> QED
    BY <1>2, <1>3, <1>4, LocalSteps

\* What a step adds to what is told, as long as someone could read it.
LEMMA ToldStep ==
    ASSUME TypeInv, TellInv, LostInv, EndsInv, [Next]_vars, reader # "gone"
    PROVE  \/ Told' = Told
           \/ SpawnCommand /\ Told = <<>> /\ Told' = <<"started">>
           \/ SpawnError /\ Told = <<>> /\ Told' = <<"spawn_error">>
           \/ /\ \/ \E s \in Streams : CaptureStep(s) /\ Told' = Append(Told, s)
                 \/ Report /\ Told' = Append(Told, Outcome)
              /\ Told # <<>>
              /\ \A i \in 1 .. Len(Told) : Told[i] \notin Outcomes
<1>0. /\ writer = "running" /\ FirstInv /\ LastInv
      /\ sent \in Seq(Events) /\ queue \in Seq(Events)
    BY TellTypes DEF LostInv, TellInv
<1>1. CASE UNCHANGED <<queue, sent>>
    BY <1>1, Zenon DEF Told
<1>2. CASE CommandMoves \/ StdinRefused \/ UNCHANGED vars
    BY <1>1, <1>2, SilentStep, Zenon DEF writerVars
<1>3. ASSUME NEW s \in Streams, CaptureStep(s) \/ ReadError(s)
      PROVE  \/ UNCHANGED <<queue, sent>>
             \/ /\ CaptureStep(s) /\ Told' = Append(Told, s)
                /\ Told # <<>>
                /\ \A i \in 1 .. Len(Told) : Told[i] \notin Outcomes
    <2>1. CASE UNCHANGED queue
        BY <1>3, <2>1, CaptureSays, Zenon
    <2>2. CASE /\ queue' = Append(queue, s) /\ UNCHANGED internal
               /\ capture[s] = "sending"
        <3>1. UNCHANGED sent
            BY <1>3, CaptureSays, Zenon
        <3>2. Told' = Append(Told, s)
            BY <1>0, <2>2, <3>1, ConcatAppend DEF Told, Events
        <3>3. ~Settled(s) /\ capture[s] # "none"
            BY <2>2 DEF Settled
        <3>4. \A i \in 1 .. Len(Told) : Told[i] \notin Outcomes
            BY <1>0, <3>3 DEF LastInv
        <3>5. at # "over"
            BY <1>3 DEF CaptureStep, ReadOutput, SendOutput, EndOfOutput,
               PostReadError, ReadError
        <3>6. Told # <<>>
            BY <1>0, <3>3, <3>5 DEF FirstInv
        <3>7. CaptureStep(s)
            <4>1. CASE ReadError(s)
                BY <2>2, <4>1 DEF ReadError
            <4> QED BY <1>3, <4>1
        <3> QED BY <3>2, <3>4, <3>6, <3>7
    <2>3. CASE UNCHANGED <<queue, internal>>
        BY <2>1, <2>3
    <2> QED BY <1>3, <2>1, <2>2, <2>3, CaptureSays, Zenon
<1>4. CASE WriteFrame
    <2>1. /\ queue # <<>> /\ queue' = Tail(queue)
          /\ sent' = Append(sent, Head(queue))
        BY <1>4 DEF WriteFrame
    <2>2. Append(sent, Head(queue)) \o Tail(queue) = sent \o queue
        BY <1>0, <2>1, HandOver
    <2> QED BY <2>1, <2>2 DEF Told
<1>5. CASE PostWriterGone
    BY <1>0, <1>5 DEF PostWriterGone
<1>6. CASE SpawnCommand \/ SpawnError
    <2>1. /\ queue = <<>> /\ sent = <<>> /\ UNCHANGED sent
          /\ \/ SpawnCommand /\ queue' = <<"started">>
             \/ SpawnError /\ queue' = <<"spawn_error">>
        BY <1>6 DEF SpawnCommand, SpawnError, EndsInv
    <2>2. "started" \in Events /\ "spawn_error" \in Events
        BY DEF Events, Outcomes
    <2>3. /\ <<>> \o <<"started">> = <<"started">>
          /\ <<>> \o <<"spawn_error">> = <<"spawn_error">>
        BY ConcatEmptySeq, <2>2
    <2>4. Told = <<>>
        BY <2>1, ConcatEmptySeq, EmptySeq DEF Told
    <2> QED BY <2>1, <2>3, <2>4 DEF Told
<1>7. CASE Report
    <2>1. CASE UNCHANGED queue
        BY <1>1, <1>7, <2>1, ReportTypeStep, Zenon
    <2>2. CASE queue' = Append(queue, Outcome)
        <3>1. UNCHANGED sent /\ at = "report" /\ Outcome \in Events
            BY <1>7 DEF Report, Outcome, Events, Outcomes
        <3>2. Told' = Append(Told, Outcome)
            BY <1>0, <2>2, <3>1, ConcatAppend DEF Told
        <3>3. Told # <<>> /\ \A i \in 1 .. Len(Told) : Told[i] \notin Outcomes
            BY <1>0, <3>1 DEF FirstInv, LastInv
        <3> QED BY <1>7, <3>2, <3>3
    <2> QED BY <1>7, <2>1, <2>2 DEF Report, QueueEvent
<1>8. CASE NoRequest \/ LeaderExited \/ HandleMessage \/ JoinCapture \/ JoinStdin
             \/ Flush \/ GraceExpires \/ ListenerStep
    <2>1. UNCHANGED <<queue, sent>>
        BY <1>8, WaitingTypeStep, HandleTypeStep, GraceTypeStep, ListenerTypeStep,
           Zenon DEF inside, writerVars
    <2> QED BY <1>1, <2>1
<1>9. CASE DaemonMoves \/ ReadFrame
    <2>1. UNCHANGED <<queue, sent>>
        BY <1>9, Zenon DEF DaemonMoves, SendCancel, StopReading, CloseControl,
           DaemonDies, ReadFrame, inside, writerVars
    <2> QED BY <1>1, <2>1
<1> QED
    BY <1>1, <1>2, <1>3, <1>4, <1>5, <1>6, <1>7, <1>8, <1>9
    DEF Next, RunStep, WriterStep

LEMMA EndsStep ==
    ASSUME TypeInv, TellInv, LostInv, EndsInv, [Next]_vars PROVE EndsInv'
<1>1. ASSUME at' = "boot"
      PROVE  /\ queue' = <<>> /\ sent' = <<>> /\ writer' = "running"
             /\ ~cancelled' /\ ~daemonGone' /\ ~interrupted'
    <2>1. ~RunStep /\ ~GraceExpires
        BY <1>1 DEF RunStep, GraceExpires, NoRequest, SpawnCommand, SpawnError,
           LeaderExited, HandleMessage, localVars, JoinCapture, JoinStdin, Report,
           Flush, Goto
    <2>2. UNCHANGED <<at, cancelled, daemonGone, interrupted>> /\ at = "boot"
        BY <1>1, <2>1, LocalSteps
    <2>3. /\ queue = <<>> /\ sent = <<>> /\ writer = "running"
          /\ ~cancelled /\ ~daemonGone /\ ~interrupted
        BY <2>2 DEF EndsInv
    <2>4. UNCHANGED writerVars
        <3>1. CASE CommandMoves \/ StdinRefused \/ UNCHANGED vars
            BY <3>1, SilentStep, Zenon
        <3>2. ASSUME NEW s \in Streams, CaptureStep(s) \/ ReadError(s) PROVE FALSE
            <4>1. capture[s] = "none"
                BY <2>2, <2>3 DEF TellInv, FirstInv
            <4> QED BY <3>2, <4>1 DEF CaptureStep, ReadOutput, SendOutput,
                       EndOfOutput, PostReadError, ReadError
        <3>3. ~WriterStep
            BY <2>3 DEF WriterStep, WriteFrame, PostWriterGone
        <3>4. CASE ListenerStep
            BY <3>4, ListenerTypeStep, Zenon
        <3>5. CASE DaemonMoves \/ ReadFrame
            BY <3>5, Zenon DEF DaemonMoves, SendCancel, StopReading, CloseControl,
               DaemonDies, ReadFrame, inside
        <3> QED BY <2>1, <3>1, <3>2, <3>3, <3>4, <3>5 DEF Next
    <2> QED BY <2>2, <2>3, <2>4 DEF writerVars
<1>2. ASSUME reader' = "idle"
      PROVE  /\ Told' # <<>> /\ Told'[Len(Told')] \in Outcomes
             /\ taken' = Len(Told')
    <2>1. reader # "gone"
        BY <1>2, EndsOfPipe
    <2>2. CASE ReadFrame
        <3>1. /\ taken' = taken + 1 /\ taken < Len(sent)
              /\ sent[taken + 1] \in Outcomes /\ UNCHANGED <<sent, queue>>
            BY <1>2, <2>2, Zenon DEF ReadFrame, inside, writerVars
        <3>2. taken \in Nat
            <4>1. taken \in 0 .. Len(sent)
                BY TypeGroups DEF DaemonType
            <4> QED BY <4>1
        <3>3. taken + 1 \in 1 .. Len(sent)
            BY <3>1, <3>2, TellTypes
        <3>4. taken + 1 \in 1 .. Len(Told) /\ Told[taken + 1] = sent[taken + 1]
            BY <3>3, TellTypes
        <3>5. taken + 1 = Len(Told)
            BY <2>1, <3>1, <3>4 DEF LostInv, TellInv, LastInv
        <3>6. Told' = Told
            BY <3>1 DEF Told
        <3>7. Told # <<>>
            BY <3>2, <3>5, EmptySeq
        <3> QED BY <3>1, <3>4, <3>5, <3>6, <3>7
    <2>3. CASE UNCHANGED <<reader, taken>>
        <3>1. /\ Told # <<>> /\ Told[Len(Told)] \in Outcomes /\ taken = Len(Told)
            BY <1>2, <2>3 DEF EndsInv
        <3>2. Len(Told) \in Nat /\ Len(Told) # 0
            BY <3>1, TellTypes, EmptySeq, LenProperties
        <3>3. Len(Told) \in 1 .. Len(Told)
            BY <3>2
        <3>4. Told' = Told
            BY <2>1, <3>1, <3>3, ToldStep
        <3> QED BY <2>3, <3>1, <3>4
    <2>4. CASE StopReading \/ DaemonDies
        BY <1>2, <2>4 DEF StopReading, DaemonDies
    <2> QED BY <2>2, <2>3, <2>4, EndsOfPipe
<1> QED
    BY <1>1, <1>2 DEF EndsInv

LEMMA KeepStep ==
    ASSUME TypeInv, TellInv, KeepInv, [Next]_vars PROVE KeepInv'
BY HeardStep, LostStep, ReasonStep, EndsStep DEF KeepInv

LEMMA KeepInvariance == Spec => [](TypeInv /\ TellInv /\ KeepInv)
<1>1. Init => TypeInv /\ TellInv /\ KeepInv
    BY TypeInit, TellInit, KeepInit
<1>2. TypeInv /\ TellInv /\ KeepInv /\ [Next]_vars => (TypeInv /\ TellInv /\ KeepInv)'
    BY TypeStep, TellStep, KeepStep
<1> QED BY <1>1, <1>2, PTL DEF Spec

-----------------------------------------------------------------------------
(* Every step is a step of the contract, or the daemon cannot tell.        *)

\* The frames of a supervisor that is not ignored.
LEMMA FrameTypes ==
    ASSUME TypeInv
    PROVE  /\ Len(Told) \in Nat /\ taken \in Nat /\ taken <= Len(Told)
           /\ Told # <<>> => Len(Told) \in 1 .. Len(Told) /\ 1 \in 1 .. Len(Told)
           /\ StartFrame \in {<<>>, <<"started">>}
           /\ \A w : StartFrame \o <<>> = StartFrame /\ StartFrame \o <<w>> = Append(StartFrame, w)
           /\ \A w : <<>> \o <<w>> = <<w>>
<1>1. /\ Told \in Seq(Events) /\ Len(sent) \in Nat /\ Len(queue) \in Nat
      /\ Len(Told) = Len(sent) + Len(queue)
    BY TellTypes
<1>2. taken \in 0 .. Len(sent)
    BY TypeGroups DEF DaemonType
<1>3. Told # <<>> => Len(Told) # 0
    BY <1>1, EmptySeq
<1>4. StartFrame \in {<<>>, <<"started">>}
    BY DEF StartFrame
<1>5. ASSUME NEW w
      PROVE  /\ StartFrame \o <<>> = StartFrame /\ StartFrame \o <<w>> = Append(StartFrame, w)
             /\ <<>> \o <<w>> = <<w>>
    <2> DEFINE S == {w, "started"}
    <2>1. StartFrame \in Seq(S) /\ <<>> \in Seq(S) /\ <<w>> \in Seq(S) /\ w \in S
        <3>1. <<>> \in Seq(S) /\ <<"started">> \in Seq(S) /\ <<w>> \in Seq(S)
            BY EmptySeq
        <3> QED BY <1>4, <3>1
    <2> HIDE DEF S
    <2> QED BY <2>1, ConcatEmptySeq, AppendIsConcat
<1> QED
    BY <1>1, <1>2, <1>3, <1>4, <1>5

\* What is said: Contract!Say, of a step that leaves the reader alone.
Says(frame) ==
    Frames' = IF reader = "reading" THEN Append(Frames, frame) ELSE Frames

\* A step that leaves the reader alone and tells nothing, or a piece of output.
LEMMA SaysNothing ==
    ASSUME TypeInv, TellInv, LostInv, EndsInv, [Next]_vars, UNCHANGED <<reader, taken>>,
           ~SpawnCommand, ~SpawnError, ~Report
    PROVE  Frames' = Frames
<1>1. CASE reader = "gone"
    BY <1>1 DEF Frames
<1>2. CASE Told' = Told
    BY <1>2, Zenon DEF Frames, StartFrame, OutcomeFrame
<1>3. ASSUME reader # "gone", NEW s \in Streams, Told' = Append(Told, s), Told # <<>>,
             \A i \in 1 .. Len(Told) : Told[i] \notin Outcomes
      PROVE  Frames' = Frames
    <2>1. /\ Len(Told) \in Nat /\ Len(Told) \in 1 .. Len(Told) /\ 1 \in 1 .. Len(Told)
          /\ Told \in Seq(Events)
        BY <1>3, FrameTypes, TellTypes
    <2>2. /\ Len(Told') = Len(Told) + 1 /\ Told'[Len(Told) + 1] = s
          /\ Told'[1] = Told[1]
        BY <1>3, <2>1, AppendProperties DEF Events
    <2>3. Told' # <<>> /\ s \notin Outcomes
        BY <2>1, <2>2, EmptySeq, SupervisorAssumption DEF Outcomes
    <2>4. StartFrame' = StartFrame
        BY <1>3, <2>2, <2>3 DEF StartFrame
    <2>5. OutcomeFrame = <<>> /\ OutcomeFrame' = <<>>
        BY <1>3, <2>1, <2>2, <2>3 DEF OutcomeFrame
    <2> QED BY <2>4, <2>5 DEF Frames
<1> QED
    BY <1>1, <1>2, <1>3, ToldStep

LEMMA SaysStarted ==
    ASSUME TypeInv, TellInv, LostInv, EndsInv, [Next]_vars, UNCHANGED <<reader, taken>>,
           SpawnCommand \/ SpawnError
    PROVE  /\ SpawnCommand => Says("started")
           /\ SpawnError => Says("finished")
<1>1. CASE reader = "gone"
    BY <1>1 DEF Frames, Says
<1>2. CASE reader # "gone"
    <2>1. at = "boot" /\ queue = <<>> /\ sent = <<>>
        BY DEF SpawnCommand, SpawnError, EndsInv
    <2>2. Told = <<>> /\ taken = 0 /\ Len(sent) = 0
        <3>1. Len(sent) = 0 /\ taken \in 0 .. Len(sent)
            BY <2>1, TypeGroups, EmptySeq DEF DaemonType
        <3>2. Told = <<>>
            BY <2>1, ConcatEmptySeq, EmptySeq DEF Told
        <3> QED BY <3>1, <3>2
    <2>3. reader = "reading"
        BY <1>2, <2>2, TypeGroups DEF EndsInv, DaemonType
    <2>4. Frames = <<>>
        <3>1. StartFrame = <<>> /\ OutcomeFrame = <<>>
            BY <2>2, EmptySeq DEF StartFrame, OutcomeFrame
        <3>2. StartFrame \o <<>> = StartFrame
            BY FrameTypes
        <3> QED BY <1>2, <3>1, <3>2 DEF Frames
    <2>5. SpawnCommand => Told' = <<"started">>
        <3>1. SpawnCommand => queue' = <<"started">> /\ sent' = <<>>
            BY <2>1 DEF SpawnCommand
        <3> QED BY <3>1, FrameTypes DEF Told
    <2>6. SpawnError => Told' = <<"spawn_error">>
        <3>1. SpawnError => queue' = <<"spawn_error">> /\ sent' = <<>>
            BY <2>1 DEF SpawnError
        <3> QED BY <3>1, FrameTypes DEF Told
    <2>7. /\ <<"started">> # <<>> /\ Len(<<"started">>) = 1 /\ <<"started">>[1] = "started"
          /\ Len(<<"spawn_error">>) = 1 /\ <<"spawn_error">>[1] = "spawn_error"
        OBVIOUS
    <2>8. CASE SpawnCommand
        <3>1. StartFrame' = <<"started">>
            BY <2>2, <2>5, <2>7, <2>8 DEF StartFrame
        <3>2. OutcomeFrame' = <<>>
            BY <2>5, <2>7, <2>8 DEF OutcomeFrame, Outcomes
        <3>3. Frames' = <<"started">>
            BY <1>2, <3>1, <3>2 DEF Frames
        <3>4. SpawnError => <<"started">> = <<"spawn_error">>
            BY <2>5, <2>6, <2>8
        <3> QED BY <2>3, <2>4, <2>7, <3>3, <3>4 DEF Says
    <2>9. CASE SpawnError
        <3>1. StartFrame' = <<>>
            BY <2>6, <2>7, <2>9 DEF StartFrame
        <3>2. OutcomeFrame' = <<"finished">>
            BY <2>2, <2>6, <2>7, <2>9 DEF OutcomeFrame, Outcomes, Word
        <3>3. Frames' = <<"finished">>
            BY <1>2, <3>1, <3>2 DEF Frames
        <3>4. SpawnCommand => <<"started">> = <<"spawn_error">>
            BY <2>5, <2>6, <2>9
        <3> QED BY <2>3, <2>4, <2>7, <3>3, <3>4 DEF Says
    <2> QED BY <2>8, <2>9
<1> QED
    BY <1>1, <1>2

LEMMA SaysOutcome ==
    ASSUME TypeInv, TellInv, LostInv, EndsInv, [Next]_vars, UNCHANGED <<reader, taken>>,
           Report
    PROVE  Says(Word(Outcome))
<1>1. CASE reader = "gone"
    BY <1>1 DEF Frames, Says
<1>2. CASE reader # "gone"
    <2>1. at = "report"
        BY DEF Report
    <2>2. /\ writer = "running" /\ LastInv /\ FirstInv
        BY <1>2 DEF LostInv, TellInv
    <2>3. /\ Told # <<>> /\ \A i \in 1 .. Len(Told) : Told[i] \notin Outcomes
        BY <2>1, <2>2 DEF FirstInv, LastInv
    <2>4. queue' = Append(queue, Outcome) /\ UNCHANGED sent /\ Outcome \in Outcomes
        BY <2>2 DEF Report, QueueEvent, Outcome, Outcomes
    <2>5. Told' = Append(Told, Outcome) /\ Told \in Seq(Events) /\ Outcome \in Events
        BY <2>4, TellTypes, ConcatAppend DEF Told, Events
    <2>6. /\ Len(Told) \in Nat /\ Len(Told) \in 1 .. Len(Told) /\ 1 \in 1 .. Len(Told)
          /\ taken \in Nat /\ taken <= Len(Told)
        BY <2>3, FrameTypes
    <2>7. /\ Len(Told') = Len(Told) + 1 /\ Told'[Len(Told) + 1] = Outcome
          /\ Told'[1] = Told[1]
        BY <2>5, <2>6, AppendProperties
    <2>8. Told' # <<>> /\ taken < Len(Told')
        BY <2>6, <2>7, EmptySeq
    <2>9. StartFrame' = StartFrame
        BY <2>3, <2>7, <2>8 DEF StartFrame
    <2>10. OutcomeFrame = <<>>
        BY <2>3, <2>6 DEF OutcomeFrame
    <2>11. OutcomeFrame' = <<Word(Outcome)>>
        BY <2>4, <2>7, <2>8 DEF OutcomeFrame, Word
    <2>12. reader = "reading"
        BY <1>2, <2>3, <2>6, TypeGroups DEF EndsInv, DaemonType
    <2>13. Frames = StartFrame /\ Frames' = Append(StartFrame, Word(Outcome))
        BY <1>2, <2>9, <2>10, <2>11, FrameTypes DEF Frames
    <2> QED BY <2>12, <2>13 DEF Says
<1> QED
    BY <1>1, <1>2

LEMMA ContractInit == Init => Contract!Init
<1> SUFFICES ASSUME Init PROVE Contract!Init
    OBVIOUS
<1>1. Standing = "booting"
    BY DEF Init, Standing
<1>2. (cancels > 0) = FALSE /\ (reader = "reading") = TRUE
    BY DEF Init
<1>3. (~ControlClosed) = TRUE
    BY DEF Init, ControlClosed
<1>4. Frames = <<>>
    <2>1. Told = <<>>
        BY ConcatEmptySeq, EmptySeq DEF Init, Told
    <2>2. StartFrame = <<>> /\ OutcomeFrame = <<>>
        BY <2>1, EmptySeq DEF Init, StartFrame, OutcomeFrame
    <2>3. <<>> \o <<>> = <<>>
        BY ConcatEmptySeq, EmptySeq
    <2> QED BY <2>2, <2>3 DEF Frames
<1> QED
    BY <1>1, <1>2, <1>3, <1>4 DEF Contract!Init

LEMMA PipesLeft ==
    ASSUME TypeInv, HeardInv, OwnStep
    PROVE  /\ UNCHANGED <<reader, taken>>
           /\ (~ControlClosed)' = ~ControlClosed
           /\ (cancels > 0)' = (cancels > 0)
           /\ (reader = "reading")' = (reader = "reading")
<1>1. UNCHANGED <<reader, taken, cancels>>
    BY DaemonLeft, Zenon DEF daemonVars
<1>2. ControlClosed' <=> ControlClosed
    BY ClosedKept
<1> QED
    BY <1>1, <1>2

ContractStep == [Contract!Next]_(Contract!vars)

\* What the daemon cannot see.
LEMMA SeenByNobody ==
    ASSUME TypeInv, TellInv, KeepInv, OwnStep, ~RunStep, ~GraceExpires
    PROVE  ContractStep
<1>1. [Next]_vars
    BY OwnSteps
<1>2. UNCHANGED <<at, cancelled, daemonGone, interrupted>>
    BY <1>1, LocalSteps
<1>3. Standing' = Standing
    BY <1>2, Zenon DEF Standing
<1>4. ~SpawnCommand /\ ~SpawnError /\ ~Report
    BY DEF RunStep
<1>5. Frames' = Frames
    BY <1>1, <1>4, PipesLeft, SaysNothing DEF KeepInv
<1> QED
    BY <1>3, <1>5, PipesLeft, Zenon DEF ContractStep, Contract!vars, KeepInv

\* The steps of the contract in which the supervisor says nothing.
LEMMA SilentMove ==
    ASSUME TypeInv, HeardInv, OwnStep, Frames' = Frames,
           \/ Standing' = Standing
           \/ Standing \in {"alive", "cancelling", "orphaned"} /\ Standing' = "lingering"
           \/ Standing # "exited" /\ Standing' = "exited"
           \/ Standing = "alive" /\ cancels > 0 /\ Standing' = "cancelling"
           \/ /\ Standing \in {"alive", "cancelling"} /\ Standing' = "orphaned"
              /\ ControlClosed \/ reader # "reading"
    PROVE  ContractStep
<1> USE PipesLeft
<1>1. CASE Standing' = Standing
    BY <1>1, Zenon DEF ContractStep, Contract!vars
<1>2. CASE Standing \in {"alive", "cancelling", "orphaned"} /\ Standing' = "lingering"
    <2>1. Contract!Linger
        BY <1>2 DEF Contract!Linger, Contract!Started
    <2> QED BY <2>1 DEF ContractStep, Contract!Next, Contract!SupervisorStep
<1>3. CASE Standing # "exited" /\ Standing' = "exited"
    <2>1. Contract!Vanish
        BY <1>3 DEF Contract!Vanish
    <2> QED BY <2>1 DEF ContractStep, Contract!Next, Contract!SupervisorStep
<1>4. CASE Standing = "alive" /\ cancels > 0 /\ Standing' = "cancelling"
    <2>1. Contract!HearCancel
        BY <1>4 DEF Contract!HearCancel
    <2> QED BY <2>1 DEF ContractStep, Contract!Next, Contract!SupervisorStep
<1>5. CASE /\ Standing \in {"alive", "cancelling"} /\ Standing' = "orphaned"
           /\ ControlClosed \/ reader # "reading"
    <2>1. Contract!LoseDaemon
        BY <1>5 DEF Contract!LoseDaemon
    <2> QED BY <2>1 DEF ContractStep, Contract!Next, Contract!SupervisorStep
<1> QED
    BY <1>1, <1>2, <1>3, <1>4, <1>5

\* Where run() is, for the daemon.
LEMMA Standings ==
    /\ at = "boot" => Standing = "booting"
    /\ at \in {"flush", "over"} => Standing = "exited"
    /\ at = "loop" /\ interrupted => Standing = "lingering"
    /\ at = "loop" /\ ~interrupted =>
         Standing = IF daemonGone THEN "orphaned"
                    ELSE IF cancelled THEN "cancelling" ELSE "alive"
    /\ at \in {"join", "stdin", "report"} => Standing = "lingering"
<1>1. CASE at = "boot"
    BY <1>1 DEF Standing
<1>2. CASE at \in {"flush", "over"}
    BY <1>2 DEF Standing
<1>3. CASE at = "loop"
    BY <1>3 DEF Standing
<1>4. CASE at \in {"join", "stdin", "report"}
    BY <1>4 DEF Standing
<1> QED
    BY <1>1, <1>2, <1>3, <1>4

\* The same, after a step.
LEMMA StandingsNext ==
    /\ at' = "boot" => Standing' = "booting"
    /\ at' \in {"flush", "over"} => Standing' = "exited"
    /\ at' = "loop" /\ interrupted' => Standing' = "lingering"
    /\ at' = "loop" /\ ~interrupted' =>
         Standing' = IF daemonGone' THEN "orphaned"
                     ELSE IF cancelled' THEN "cancelling" ELSE "alive"
    /\ at' \in {"join", "stdin", "report"} => Standing' = "lingering"
<1>1. CASE at' = "boot"
    BY <1>1 DEF Standing
<1>2. CASE at' \in {"flush", "over"}
    BY <1>2 DEF Standing
<1>3. CASE at' = "loop"
    BY <1>3 DEF Standing
<1>4. CASE at' \in {"join", "stdin", "report"}
    BY <1>4 DEF Standing
<1> QED
    BY <1>1, <1>2, <1>3, <1>4

\* run() says what it started, hears, leaves its loop and reports.
LEMMA RunKeeps ==
    ASSUME TypeInv, TellInv, KeepInv, RunStep \/ GraceExpires
    PROVE  ContractStep
<1>0. /\ HeardInv /\ LostInv /\ ReasonInv /\ EndsInv
      /\ OwnStep /\ [Next]_vars
    BY DEF KeepInv, OwnStep, Next
<1>1. UNCHANGED <<reader, taken>>
    BY <1>0, PipesLeft
<1>2. ~SpawnCommand /\ ~SpawnError /\ ~Report => Frames' = Frames
    BY <1>0, <1>1, SaysNothing
<1>3. CASE SpawnCommand \/ SpawnError
    <2>1. /\ Standing = "booting"
          /\ SpawnCommand => Standing' = "alive"
          /\ SpawnError => Standing' = "exited"
        <3>1. /\ at = "boot" /\ ~cancelled /\ ~daemonGone /\ ~interrupted
              /\ UNCHANGED <<cancelled, daemonGone, interrupted>>
              /\ SpawnCommand => at' = "loop"
              /\ SpawnError => at' = "flush"
            BY <1>0, <1>3 DEF SpawnCommand, SpawnError, EndsInv
        <3> QED BY <3>1, Standings, StandingsNext
    <2>2. /\ SpawnCommand => Says("started")
          /\ SpawnError => Says("finished")
        BY <1>0, <1>1, <1>3, SaysStarted
    <2>3. Contract!Launch
        BY <1>0, <1>3, <2>1, <2>2, PipesLeft DEF Contract!Launch, Contract!Say, Says
    <2> QED BY <2>3 DEF ContractStep, Contract!Next, Contract!SupervisorStep
<1>4. CASE Report
    <2>1. Standing = "lingering" /\ Standing' = "exited"
        <3>1. at = "report" /\ at' \in {"flush", "over"}
            BY <1>4 DEF Report, Goto
        <3> QED BY <3>1, Standings, StandingsNext
    <2>2. Says(Word(Outcome))
        BY <1>0, <1>1, <1>4, SaysOutcome
    <2>3. /\ Word(Outcome) \in Contract!Outcomes
          /\ Word(Outcome) = "cancelled" => cancels > 0
        <3>1. ~daemonGone
            BY <1>0, <1>4 DEF Report, ReasonInv
        <3> QED BY <1>0, <3>1 DEF Word, Outcome, Contract!Outcomes, ReasonInv
    <2>4. Contract!Report
        <3>1. \E outcome \in Contract!Outcomes :
                  /\ outcome = "cancelled" => (cancels > 0) /\ Standing # "alive"
                  /\ outcome = "finished" => Standing # "cancelling"
                  /\ Says(outcome)
            BY <2>1, <2>2, <2>3
        <3> QED BY <1>0, <2>1, <3>1, PipesLeft DEF Contract!Report, Contract!Say, Says
    <2> QED BY <2>4 DEF ContractStep, Contract!Next, Contract!SupervisorStep
<1>5. CASE NoRequest /\ Frames' = Frames
    <2>1. Standing = "booting" /\ Standing' = "exited"
        BY <1>5, Standings, StandingsNext DEF NoRequest
    <2> QED BY <1>0, <1>5, <2>1, SilentMove
<1>6. CASE (LeaderExited \/ GraceExpires) /\ Frames' = Frames
    <2>1. /\ at = "loop" /\ at' \in {"loop", "join"}
          /\ UNCHANGED <<cancelled, daemonGone, interrupted>>
        BY <1>6 DEF LeaderExited, GraceExpires
    <2>2. \/ Standing' = Standing
          \/ Standing' = "lingering" /\ Standing \in {"alive", "cancelling", "orphaned"}
        BY <2>1, Standings, StandingsNext
    <2> QED BY <1>0, <1>6, <2>2, SilentMove
<1>7. CASE (JoinCapture \/ JoinStdin) /\ Frames' = Frames
    <2>1. at \in {"join", "stdin"} /\ at' \in {"stdin", "report", "over"}
        BY <1>7 DEF JoinCapture, JoinStdin, Goto
    <2>2. Standing = "lingering" /\ Standing' \in {"lingering", "exited"}
        BY <2>1, Standings, StandingsNext
    <2> QED BY <1>0, <1>7, <2>2, SilentMove
<1>8. CASE Flush /\ Frames' = Frames
    <2>1. Standing = "exited" /\ Standing' = "exited"
        BY <1>8, Standings, StandingsNext DEF Flush, Goto
    <2> QED BY <1>0, <1>8, <2>1, SilentMove
<1>9. CASE HandleMessage /\ Frames' = Frames
    <2>1. /\ at = "loop" /\ internal # <<>>
          /\ internal \in Seq(Messages)
        BY <1>9, TypeGroups DEF HandleMessage, ControlType
    <2>2. Head(internal) = "cancel" => cancels > 0
        <3>1. CASE cancels = 0
            <4>1. \A i \in 1 .. Len(internal) : internal[i] # "cancel"
                BY <1>0, <3>1 DEF HeardInv
            <4> QED BY <2>1, <4>1, NoneInTail
        <3>2. CASE cancels # 0
            BY <3>2, TypeGroups, SupervisorAssumption DEF DaemonType
        <3> QED BY <3>1, <3>2
    <2>3. Head(internal) = "gone" => ControlClosed \/ reader # "reading"
        <3>1. CASE ~ControlClosed /\ reader # "gone"
            <4>1. \A i \in 1 .. Len(internal) : internal[i] # "gone"
                BY <1>0, <3>1 DEF LostInv
            <4> QED BY <2>1, <4>1, NoneInTail
        <3> QED BY <3>1
    <2>4. CASE UNCHANGED localVars
        <3>1. UNCHANGED <<at, cancelled, daemonGone, interrupted>>
            BY <2>4, Zenon DEF localVars
        <3>2. Standing' = Standing
            BY <3>1, Zenon DEF Standing
        <3> QED BY <1>0, <1>9, <3>2, SilentMove
    <2>5. CASE /\ Head(internal) = "cancel" /\ ~cancelled /\ Terminate
               /\ at' \in {at, "over"} /\ UNCHANGED <<daemonGone, interrupted>>
        <3>1. ~interrupted /\ ~daemonGone
            BY <1>0, <2>5 DEF ReasonInv
        <3>2. cancelled' = TRUE
            BY <2>5 DEF Terminate
        <3>3. Standing = "alive" /\ Standing' \in {"cancelling", "exited"}
            BY <2>1, <2>5, <3>1, <3>2, Standings, StandingsNext
        <3> QED BY <1>0, <1>9, <2>2, <2>5, <3>3, SilentMove
    <2>6. CASE /\ Head(internal) = "gone" /\ daemonGone' = TRUE
               /\ UNCHANGED <<at, interrupted>>
        <3>1. \/ Standing' = Standing
              \/ Standing \in {"alive", "cancelling"} /\ Standing' = "orphaned"
            BY <2>1, <2>6, Standings, StandingsNext
        <3> QED BY <1>0, <1>9, <2>3, <2>6, <3>1, SilentMove
    <2>7. CASE interrupted' = TRUE /\ UNCHANGED at
        <3>1. \/ Standing' = Standing
              \/ /\ Standing \in {"alive", "cancelling", "orphaned"}
                 /\ Standing' = "lingering"
            BY <2>1, <2>7, Standings, StandingsNext
        <3> QED BY <1>0, <1>9, <3>1, SilentMove
    <2> QED BY <1>9, <2>4, <2>5, <2>6, <2>7 DEF HandleMessage
<1> QED
    BY <1>2, <1>3, <1>4, <1>5, <1>6, <1>7, <1>8, <1>9 DEF RunStep

\* The daemon's steps leave the supervisor where it is.
LEMMA StandingLeft ==
    ASSUME DaemonMoves \/ ReadFrame
    PROVE  /\ Standing' = Standing
           /\ UNCHANGED <<queue, sent>> /\ Told' = Told
<1>1. UNCHANGED <<at, cancelled, daemonGone, interrupted>>
    BY Zenon DEF DaemonMoves, SendCancel, StopReading, CloseControl,
       DaemonDies, ReadFrame, localVars
<1>2. UNCHANGED <<queue, sent>>
    BY Zenon DEF DaemonMoves, SendCancel, StopReading, CloseControl,
       DaemonDies, ReadFrame, inside, writerVars
<1> QED
    BY <1>1, <1>2, Zenon DEF Standing, Told

LEMMA DaemonKeeps ==
    ASSUME TypeInv, KeepInv, DaemonMoves PROVE ContractStep
<1>0. /\ Standing' = Standing /\ Told' = Told /\ cancels \in Nat
      /\ HeardInv /\ EndsInv /\ [Next]_vars
    BY StandingLeft, TypeGroups, SupervisorAssumption
    DEF DaemonType, KeepInv, Next
<1>1. CASE SendCancel
    <2>1. /\ ~ControlClosed /\ cancels' = cancels + 1
          /\ control' = Append(control, "cancel")
          /\ UNCHANGED <<taken, reader, listener>>
        BY <1>1 DEF SendCancel
    <2>2. ~ControlClosed'
        <3>1. control \in Seq({"cancel", "torn", "eof"}) /\ Len(control) \in Nat
            BY TypeGroups, LenProperties DEF ControlType
        <3>2. Len(control') = Len(control) + 1 /\ control'[Len(control) + 1] = "cancel"
            BY <2>1, <3>1, AppendProperties
        <3> QED BY <2>1, <3>2 DEF ControlClosed
    <2>3. Frames' = Frames
        BY <1>0, <2>1, Zenon DEF Frames, StartFrame, OutcomeFrame
    <2>4. (cancels > 0)' = TRUE
        BY <1>0, <2>1
    <2>5. Contract!AskToStop
        BY <1>0, <2>1, <2>2, <2>3, <2>4 DEF Contract!AskToStop
    <2> QED BY <2>5 DEF ContractStep, Contract!Next, Contract!DaemonStep
<1>2. ASSUME reader' # "reading", Frames' = <<>>, UNCHANGED cancels,
             ControlClosed => ControlClosed'
      PROVE  ContractStep
    <2>1. Contract!Leave
        BY <1>0, <1>2 DEF Contract!Leave
    <2> QED BY <2>1 DEF ContractStep, Contract!Next, Contract!DaemonStep
<1>3. CASE StopReading \/ DaemonDies
    <2>1. reader' = "gone" /\ UNCHANGED cancels
        BY <1>3 DEF StopReading, DaemonDies
    <2>2. Frames' = <<>>
        BY <2>1 DEF Frames
    <2> QED BY <1>0, <1>2, <2>1, <2>2, ClosedStep
<1>4. CASE CloseControl
    <2>1. reader # "reading" /\ UNCHANGED <<reader, taken, cancels>>
        BY <1>4 DEF CloseControl, world, daemonVars
    <2>2. Frames' = <<>>
        <3>1. CASE reader = "gone"
            BY <2>1, <3>1 DEF Frames
        <3>2. CASE reader = "idle"
            <4>1. Told # <<>> /\ taken = Len(Told)
                BY <1>0, <3>2 DEF EndsInv
            <4>2. taken # 0 /\ ~(taken < Len(Told)) /\ <<>> \o <<>> = <<>>
                BY <4>1, FrameTypes, ConcatEmptySeq, EmptySeq
            <4>3. StartFrame' = <<>> /\ OutcomeFrame' = <<>>
                BY <1>0, <2>1, <4>2 DEF StartFrame, OutcomeFrame
            <4> QED BY <2>1, <3>2, <4>2, <4>3 DEF Frames
        <3> QED BY <2>1, <3>1, <3>2, TypeGroups DEF DaemonType
    <2> QED BY <1>0, <1>2, <2>1, <2>2, ClosedStep
<1> QED
    BY <1>1, <1>3, <1>4 DEF DaemonMoves

\* A pair of frames.
LEMMA StartedFirst ==
    ASSUME NEW w
    PROVE  /\ Append(<<"started">>, w) # <<>>
           /\ Head(Append(<<"started">>, w)) = "started"
           /\ Tail(Append(<<"started">>, w)) = <<w>>
<1> DEFINE S == {"started", w}
           q == <<"started">>
<1>1. /\ q \in Seq(S) /\ w \in S /\ q # <<>> /\ Head(q) = "started"
      /\ Tail(q) = <<>> /\ Append(<<>>, w) = <<w>>
    OBVIOUS
<1> HIDE DEF S, q
<1>2. Append(q, w) # <<>>
    BY <1>1, AppendProperties
<1>3. /\ Head(Append(q, w)) = IF q = <<>> THEN w ELSE Head(q)
      /\ Tail(Append(q, w)) = IF q = <<>> THEN <<>> ELSE Append(Tail(q), w)
    BY <1>1, HeadTailAppend
<1>4. Append(q, w) # <<>> /\ Head(Append(q, w)) = "started"
      /\ Tail(Append(q, w)) = <<w>>
    BY <1>1, <1>2, <1>3
<1> QED BY <1>4 DEF q

\* A frame of output is not a step of the contract, the first and the last are.
LEMMA ReadKeeps ==
    ASSUME TypeInv, TellInv, KeepInv, ReadFrame PROVE ContractStep
<1>0. /\ Standing' = Standing /\ Told' = Told
      /\ reader = "reading" /\ taken < Len(sent) /\ taken' = taken + 1
      /\ reader' = IF sent[taken + 1] \in Outcomes THEN "idle" ELSE "reading"
      /\ UNCHANGED <<cancels, control, listener>>
    <2>1. /\ reader = "reading" /\ taken < Len(sent) /\ taken' = taken + 1
          /\ reader' = IF sent[taken + 1] \in Outcomes THEN "idle" ELSE "reading"
          /\ UNCHANGED <<cancels, control, listener>>
        BY DEF ReadFrame, inside, controlVars
    <2> QED BY <2>1, StandingLeft
<1>1. ControlClosed' = ControlClosed /\ (cancels > 0)' = (cancels > 0)
    BY <1>0, Zenon DEF ControlClosed
<1>2. /\ taken \in Nat /\ Len(Told) \in Nat /\ Len(sent) \in Nat
      /\ taken + 1 \in 1 .. Len(sent) /\ taken + 1 \in 1 .. Len(Told)
      /\ Told[taken + 1] = sent[taken + 1]
    <2>1. taken \in Nat /\ Len(Told) \in Nat /\ Len(sent) \in Nat
          /\ Len(queue) \in Nat /\ Len(Told) = Len(sent) + Len(queue)
        BY FrameTypes, TellTypes
    <2>2. taken + 1 \in 1 .. Len(sent) /\ taken + 1 \in 1 .. Len(Told)
        BY <1>0, <2>1
    <2> QED BY <2>1, <2>2, TellTypes
<1>3. Told # <<>> /\ taken' # 0
    BY <1>0, <1>2, EmptySeq
<1>4. \A i \in 1 .. Len(Told) : Told[i] \in Outcomes => i = Len(Told)
    BY <1>0 DEF KeepInv, LostInv, TellInv, LastInv
<1>5. StartFrame' = <<>> /\ Frames = StartFrame \o OutcomeFrame
      /\ Frames' = StartFrame' \o OutcomeFrame'
    BY <1>0, <1>3 DEF StartFrame, Frames
<1>6. CASE sent[taken + 1] \in Outcomes
    <2>1. taken + 1 = Len(Told) /\ Told[Len(Told)] \in Outcomes
        BY <1>2, <1>4, <1>6
    <2>2. StartFrame = <<>>
        <3>1. taken = 0 => Told[1] \in Outcomes
            BY <1>2, <1>6
        <3> QED BY <3>1 DEF StartFrame, Outcomes
    <2>3. taken < Len(Told) /\ ~(taken' < Len(Told))
        BY <1>0, <1>2, <2>1
    <2>4. /\ OutcomeFrame = <<Word(Told[Len(Told)])>>
          /\ OutcomeFrame' = <<>>
        BY <1>0, <2>1, <2>3 DEF OutcomeFrame
    <2>5. /\ Frames = <<Word(Told[Len(Told)])>> /\ Frames' = <<>>
          /\ Word(Told[Len(Told)]) # "started"
        BY <1>5, <2>1, <2>2, <2>4, FrameTypes, ConcatEmptySeq, EmptySeq
        DEF Word, Outcomes
    <2>6. /\ Frames # <<>> /\ Tail(Frames) = <<>> /\ Head(Frames) # "started"
        BY <2>5
    <2>7. Contract!ReadFrame
        BY <1>0, <1>1, <1>6, <2>5, <2>6 DEF Contract!ReadFrame
    <2> QED BY <2>7 DEF ContractStep, Contract!Next, Contract!DaemonStep
<1>7. CASE sent[taken + 1] \notin Outcomes
    <2>1. reader' = "reading"
        BY <1>0, <1>7
    <2>2. OutcomeFrame' = OutcomeFrame
        <3>1. Told[Len(Told)] \in Outcomes =>
                 (taken < Len(Told) <=> taken' < Len(Told))
            <4>1. Told[Len(Told)] \in Outcomes => taken + 1 # Len(Told)
                BY <1>2, <1>7
            <4> QED BY <1>0, <1>2, <4>1
        <3> QED BY <1>0, <3>1 DEF OutcomeFrame
    <2>3. OutcomeFrame = <<>> \/ OutcomeFrame = <<Word(Told[Len(Told)])>>
        BY DEF OutcomeFrame
    <2>4. Frames' = OutcomeFrame
        BY <1>5, <2>2, <2>3, FrameTypes, ConcatEmptySeq, EmptySeq
    <2>5. CASE StartFrame = <<>>
        <3>1. Frames = OutcomeFrame
            BY <1>5, <2>3, <2>5, FrameTypes, ConcatEmptySeq, EmptySeq
        <3> QED BY <1>0, <1>1, <2>1, <2>4, <3>1 DEF ContractStep, Contract!vars
    <2>6. CASE StartFrame = <<"started">>
        <3>1. Frames = <<"started">> \o OutcomeFrame
            BY <1>5, <2>6
        <3>2. Frames # <<>> /\ Head(Frames) = "started" /\ Tail(Frames) = OutcomeFrame
            <4>1. CASE OutcomeFrame = <<>>
                <5>1. Frames = <<"started">>
                    BY <1>5, <2>6, <4>1, FrameTypes
                <5> QED BY <4>1, <5>1
            <4>2. ASSUME NEW w, OutcomeFrame = <<w>>
                  PROVE  /\ Frames # <<>> /\ Head(Frames) = "started"
                         /\ Tail(Frames) = OutcomeFrame
                <5>1. Frames = Append(<<"started">>, w)
                    BY <1>5, <2>6, <4>2, FrameTypes
                <5> QED BY <4>2, <5>1, StartedFirst
            <4> QED BY <2>3, <4>1, <4>2
        <3>3. Contract!ReadFrame
            BY <1>0, <1>1, <2>1, <2>4, <3>2 DEF Contract!ReadFrame
        <3> QED BY <3>3 DEF ContractStep, Contract!Next, Contract!DaemonStep
    <2> QED BY <2>5, <2>6, FrameTypes
<1> QED
    BY <1>6, <1>7

-----------------------------------------------------------------------------
(* The theorems.                                                           *)

\* Every variable of the supervisor keeps its type, and its queue, its internal
\* channel and what the daemon has taken stay within their bounds.
THEOREM TypeCorrectness == Spec => []TypeOK
<1> QED BY TypeInvariance, PTL DEF TypeInv

\* However often controls arrive, processes fork, leave the group or change
\* their user, run() leaves its loop after a stop only with every member of the
\* group that may be signalled sent SIGKILL: the grace deadline is not skipped
\* by a leader that exits first.
THEOREM EscalationCompletes == Spec => []EscalationIsComplete
<1>1. StopInv => EscalationIsComplete
    BY DEF StopInv, EscalationIsComplete
<1> QED
    BY <1>1, StopInit, StopStep, TypeInvariance, PTL DEF Spec

\* The frame with the outcome is the last, after "started" and after every chunk
\* any process wrote to a stream that could be read, each of them once.
THEOREM OutputPrecedesOutcome == Spec => []OutputBeforeOutcome
<1> QED
    BY TellInit, TellStep, TellImplies, TypeInvariance, PTL DEF Spec

\* Whatever the command, the queue, the channel and the two pipes do, what the
\* daemon can see of a supervisor are steps of the contract: "started" once and
\* first, one outcome and last, "cancelled" only if a Cancel was written, and no
\* loss of the daemon noticed that did not happen.
THEOREM SupervisorKeepsContract == Spec => KeepsContract
<1>1. Init => Contract!Init
    BY ContractInit
<1>2. TypeInv /\ TellInv /\ KeepInv /\ [Next]_vars => [Contract!Next]_(Contract!vars)
    <2> SUFFICES ASSUME TypeInv, TellInv, KeepInv, [Next]_vars PROVE ContractStep
        BY DEF ContractStep
    <2>1. CASE RunStep \/ GraceExpires
        BY <2>1, RunKeeps
    <2>2. CASE OwnStep /\ ~RunStep /\ ~GraceExpires
        BY <2>2, SeenByNobody
    <2>3. CASE DaemonMoves
        BY <2>3, DaemonKeeps
    <2>4. CASE ReadFrame
        BY <2>4, ReadKeeps
    <2> QED BY <2>1, <2>2, <2>3, <2>4, OwnSteps
<1> QED
    BY <1>1, <1>2, KeepInvariance, PTL DEF Spec, KeepsContract, Contract!Spec
=============================================================================
