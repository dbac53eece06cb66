--------------------------- MODULE EventSubscription ---------------------------
(***************************************************************************)
(* How clients follow one execution (daemon.rs, executor.rs, client.rs).   *)
(* Its events are durable first and broadcast later, by three producers    *)
(* that do not wait for each other: its task, the capture writer, and a    *)
(* call that closes it while it is queued.  A subscription joins a replay  *)
(* from the database to the broadcast; wait() sleeps on the broadcast.     *)
(* Receivers that fall behind lose their oldest events, connections break, *)
(* and loomd dies and restarts.                                            *)
(***************************************************************************)
EXTENDS Naturals, Sequences, FiniteSets

CONSTANTS
    HubDepth,   \* capacity of the broadcast channel
    PageSize,   \* events that fit into a page of read_output
    BatchSize,  \* CAPTURE_BATCH_SIZE
    MaxOutput,  \* bound: output events of the execution
    MaxOthers,  \* bound: events of other executions
    MaxLosses,  \* bound: connections that break
    MaxBoots    \* bound: restarts of loomd

ASSUME SubscriptionAssumption ==
    /\ {HubDepth, PageSize, BatchSize} \subseteq Nat \ {0}
    /\ {MaxOutput, MaxOthers, MaxLosses, MaxBoots} \subseteq Nat

VARIABLES
    log,      \* kinds of the durable events, by seq
    outbox,   \* seqs a producer has stored and not yet broadcast
    pc,       \* where the engine task is
    others,   \* events of other executions so far
    boots,
    losses,
    mail,     \* events a broadcast receiver has not taken; 0 is another's
    lagged,   \* it has lost some: since it was last told / since it exists
    handler,  \* where handle_subscription is
    cursor,   \* its cursor, and before that the after_seq of the request
    page,     \* events of the page it still has to send
    atEnd,    \* what the page says: "more", "done" or "live" comes next
    wire,     \* events on their way to the subscriber
    next,     \* the subscriber's next_seq
    client,   \* "following", "ended", or the error it was left with
    waiter,   \* where a wait() call is
    after     \* its after_seq

Producers == {"task", "writer", "closer"}
Receivers == {"subscriber", "waiter"}

sourceVars == <<log, outbox, pc>>
boundVars  == <<others, boots, losses>>
hubVars    == <<mail, lagged>>
handlerVars == <<handler, cursor, page, atEnd>>
clientVars == <<wire, next, client>>
waiterVars == <<waiter, after>>
vars == <<sourceVars, boundVars, hubVars, handlerVars, clientVars, waiterVars>>

-----------------------------------------------------------------------------

Seqs == 0 .. MaxOutput + 3

TypeOK ==
    /\ log \in Seq({"started", "output", "finished"})
    /\ Len(log) \in Seqs
    /\ outbox \in [Producers -> Seq(Seqs \ {0})]
    /\ pc \in {"booting", "reading", "failed", "ended"}
    /\ others \in 0 .. MaxOthers
    /\ boots \in 0 .. MaxBoots /\ losses \in 0 .. MaxLosses
    /\ mail \in [Receivers -> Seq(Seqs)]
    /\ \A r \in Receivers : Len(mail[r]) <= HubDepth
    /\ lagged \in [Receivers -> BOOLEAN]
    /\ handler \in {"none", "lookup", "replay", "sending", "live", "closed"}
    /\ cursor \in Seqs
    /\ page \in Seq(Seqs \ {0}) /\ Len(page) <= PageSize
    /\ atEnd \in {"more", "done", "live"}
    /\ wire \in Seq(Seqs \ {0})
    /\ next \in Seqs
    /\ client \in {"following", "ended", "refused", "gap"}
    /\ waiter \in {"idle", "subscribed", "parked", "answering",
                   "returned"}
    /\ after \in Seqs

Init ==
    /\ log = <<>>
    /\ outbox = [p \in Producers |-> <<>>]
    /\ pc = "booting"
    /\ others = 0 /\ boots = 0 /\ losses = 0
    /\ mail = [r \in Receivers |-> <<>>]
    /\ lagged = [r \in Receivers |-> FALSE]
    /\ handler = "none"
    /\ cursor = 0
    /\ page = <<>>
    /\ atEnd = "live"
    /\ wire = <<>>
    /\ next = 0
    /\ client = "following"
    /\ waiter = "idle"
    /\ after = 0

Positions(kind) == {i \in 1 .. Len(log) : log[i] = kind}
Terminal == Positions("finished") # {}
Outputs  == Cardinality(Positions("output"))

-----------------------------------------------------------------------------
(* The producers.                                                          *)

\* A producer stores events in one transaction; it sends them afterwards.
Store(producer, kinds) ==
    /\ outbox[producer] = <<>>
    /\ log' = log \o kinds
    /\ outbox' = [outbox EXCEPT ![producer] =
                    [i \in 1 .. Len(kinds) |-> Len(log) + i]]
    /\ UNCHANGED <<boundVars, hubVars, handlerVars, clientVars, waiterVars>>

\* mark_running, unless the row was closed in the queue.
TaskStarts ==
    /\ pc = "booting"
    /\ pc' = "reading"
    /\ Store("task", IF Terminal THEN <<>> ELSE <<"started">>)

\* append_capture_batch; what is queued when the task fails is stored later.
WriteBatch ==
    /\ pc \in {"reading", "failed"} /\ outbox["task"] = <<>>
    /\ \E n \in 1 .. BatchSize :
        /\ Outputs + n <= MaxOutput
        /\ Store("writer", [i \in 1 .. n |-> "output"])
    /\ UNCHANGED pc

\* The flush barrier has been answered: the writer has sent all it stored.
TaskFinishes ==
    /\ pc = "reading" /\ outbox["writer"] = <<>>
    /\ pc' = "ended"
    /\ Store("task", IF Terminal THEN <<>> ELSE <<"finished">>)

\* A task that fails does not flush.
TaskFails ==
    /\ pc \in {"booting", "reading"}
    /\ pc' = "failed"
    /\ Store("task", IF Terminal THEN <<>> ELSE <<"finished">>)

CloseQueued ==
    /\ log = <<>>
    /\ Store("closer", <<"finished">>)
    /\ UNCHANGED pc

Listening(r) == IF r = "subscriber" THEN handler \notin {"none", "closed"}
                ELSE waiter \in {"subscribed", "parked"}

\* Deviation: the channel is unbounded.
SendUnbounded(seq) ==
    /\ mail' = [r \in Receivers |->
         IF Listening(r) THEN Append(mail[r], seq) ELSE <<>>]
    /\ UNCHANGED lagged

\* events.send: the channel keeps the last HubDepth events for every receiver.
Send(seq) ==
    /\ mail' = [r \in Receivers |->
         IF ~Listening(r) THEN <<>>
         ELSE IF Len(mail[r]) < HubDepth THEN Append(mail[r], seq)
         ELSE Append(Tail(mail[r]), seq)]
    /\ lagged' = [r \in Receivers |->
         Listening(r) /\ (lagged[r] \/ Len(mail[r]) = HubDepth)]

Broadcast(producer) ==
    /\ outbox[producer] # <<>>
    /\ Send(Head(outbox[producer]))
    /\ outbox' = [outbox EXCEPT ![producer] = Tail(@)]
    /\ UNCHANGED <<log, pc, boundVars, handlerVars, clientVars, waiterVars>>

OtherExecution ==
    /\ others < MaxOthers
    /\ others' = others + 1
    /\ Send(0)
    /\ UNCHANGED <<sourceVars, boots, losses, handlerVars, clientVars,
                   waiterVars>>

-----------------------------------------------------------------------------
(* handle_subscription.                                                    *)

NewReceiver(r) ==
    /\ mail' = [mail EXCEPT ![r] = <<>>]
    /\ lagged' = [lagged EXCEPT ![r] = FALSE]

Handler(state) ==
    /\ handler' = state
    /\ UNCHANGED <<sourceVars, boundVars, waiterVars, next, client>>

\* The request arrives; the receiver is created before the row is read.
Subscribe ==
    /\ client = "following" /\ handler = "none"
    /\ Handler("lookup")
    /\ NewReceiver("subscriber")
    /\ cursor' = next
    /\ UNCHANGED <<page, atEnd, wire>>

\* A cursor ahead of the execution is refused.
LookUp ==
    /\ handler = "lookup"
    /\ IF cursor > Len(log)
       THEN handler' = "closed" /\ client' = "refused"
       ELSE handler' = "replay" /\ UNCHANGED client
    /\ UNCHANGED <<sourceVars, boundVars, hubVars, cursor, page, atEnd, wire,
                   next, waiterVars>>

\* read_output is one command of the store: page and state belong together.
ReadPage ==
    /\ handler = "replay"
    /\ Handler("sending")
    /\ LET last == IF cursor + PageSize < Len(log) THEN cursor + PageSize
                   ELSE Len(log)
       IN  /\ page' = [i \in 1 .. last - cursor |-> cursor + i]
           /\ atEnd' = IF last < Len(log) THEN "more"
                       ELSE IF Terminal THEN "done" ELSE "live"
    /\ UNCHANGED <<hubVars, cursor, wire>>

\* A "finished" ends the subscription wherever it stands.
Deliver(seq, otherwise) ==
    /\ wire' = Append(wire, seq)
    /\ cursor' = seq
    /\ Handler(IF log[seq] = "finished" THEN "closed" ELSE otherwise)

SendPage ==
    /\ handler = "sending" /\ page # <<>>
    /\ Deliver(Head(page), "sending")
    /\ page' = Tail(page)
    /\ UNCHANGED <<hubVars, atEnd>>

\* Deviation: a page that came to its end closes the subscription.
PageEndsReplay ==
    /\ handler = "sending" /\ page = <<>>
    /\ Handler(IF Terminal THEN "closed" ELSE "live")
    /\ UNCHANGED <<hubVars, cursor, page, atEnd, wire>>

\* Deviation: the receiver is created when the replay is over.
SubscribeAfterReplay ==
    /\ handler = "sending" /\ page = <<>>
    /\ Handler(CASE atEnd = "more" -> "replay"
                 [] atEnd = "done" -> "closed"
                 [] atEnd = "live" -> "live")
    /\ NewReceiver("subscriber")
    /\ UNCHANGED <<cursor, page, atEnd, wire>>

PageSent ==
    /\ handler = "sending" /\ page = <<>>
    /\ Handler(CASE atEnd = "more" -> "replay"
                 [] atEnd = "done" -> "closed"
                 [] atEnd = "live" -> "live")
    /\ UNCHANGED <<hubVars, cursor, page, atEnd, wire>>

\* recv() returns Lagged once, then the events that are left.
ReceiveLagged ==
    /\ handler = "live" /\ lagged["subscriber"]
    /\ lagged' = [lagged EXCEPT !["subscriber"] = FALSE]
    /\ Handler("replay")
    /\ UNCHANGED <<mail, cursor, page, atEnd, wire>>

\* Deviation: whatever comes is sent on.
ReceiveUnchecked ==
    /\ handler = "live" /\ ~lagged["subscriber"]
    /\ mail["subscriber"] # <<>>
    /\ mail' = [mail EXCEPT !["subscriber"] = Tail(@)]
    /\ LET seq == Head(mail["subscriber"]) IN
        IF seq <= cursor THEN Handler("live") /\ UNCHANGED <<cursor, wire>>
        ELSE Deliver(seq, "live")
    /\ UNCHANGED <<lagged, page, atEnd>>

\* Deviation: an event out of turn is dropped.
ReceiveInOrderOnly ==
    /\ handler = "live" /\ ~lagged["subscriber"]
    /\ mail["subscriber"] # <<>>
    /\ mail' = [mail EXCEPT !["subscriber"] = Tail(@)]
    /\ LET seq == Head(mail["subscriber"]) IN
        IF seq = cursor + 1 THEN Deliver(seq, "live")
        ELSE Handler("live") /\ UNCHANGED <<cursor, wire>>
    /\ UNCHANGED <<lagged, page, atEnd>>

\* Old events and those of others are skipped; a gap is closed by a replay.
Receive ==
    /\ handler = "live" /\ ~lagged["subscriber"]
    /\ mail["subscriber"] # <<>>
    /\ mail' = [mail EXCEPT !["subscriber"] = Tail(@)]
    /\ LET seq == Head(mail["subscriber"]) IN
        \/ seq <= cursor /\ Handler("live") /\ UNCHANGED <<cursor, wire>>
        \/ seq = cursor + 1 /\ Deliver(seq, "live")
        \/ seq > cursor + 1 /\ Handler("replay") /\ UNCHANGED <<cursor, wire>>
    /\ UNCHANGED <<lagged, page, atEnd>>

-----------------------------------------------------------------------------
(* The subscriber, and what can happen to its connection.                  *)

\* next_event checks that nothing is missing and nothing comes twice.
NextEvent ==
    /\ client = "following" /\ wire # <<>>
    /\ wire' = Tail(wire)
    /\ IF Head(wire) = next + 1
       THEN next' = next + 1 /\ UNCHANGED client
       ELSE client' = "gap" /\ UNCHANGED next
    /\ UNCHANGED <<sourceVars, boundVars, hubVars, handlerVars, waiterVars>>

EndOfStream ==
    /\ client = "following" /\ handler = "closed" /\ wire = <<>>
    /\ client' = "ended"
    /\ UNCHANGED <<sourceVars, boundVars, hubVars, handlerVars, waiterVars,
                   wire, next>>

\* What is on the wire is lost; the subscriber comes back with its next_seq.
Disconnect ==
    /\ handler' = "none"
    /\ wire' = <<>>
    /\ page' = <<>>
    /\ cursor' = 0 /\ atEnd' = "live"

ConnectionLost ==
    /\ losses < MaxLosses /\ client = "following" /\ handler # "none"
    /\ losses' = losses + 1
    /\ Disconnect
    /\ UNCHANGED <<sourceVars, others, boots, hubVars, next, client,
                   waiterVars>>

\* loomd dies: its memory and its connections are gone, what was stored stays,
\* and the new daemon closes the row before it listens to anyone.
Restart ==
    /\ boots < MaxBoots
    /\ boots' = boots + 1
    /\ log' = IF Terminal THEN log ELSE Append(log, "finished")
    /\ outbox' = [p \in Producers |-> <<>>]
    /\ pc' = "ended"
    /\ mail' = [r \in Receivers |-> <<>>]
    /\ lagged' = [r \in Receivers |-> FALSE]
    /\ Disconnect
    /\ waiter' = IF waiter = "idle" THEN waiter ELSE "returned"
    /\ after' = 0
    /\ UNCHANGED <<others, losses, next, client>>

-----------------------------------------------------------------------------
(* wait().                                                                 *)

Wait(state) ==
    /\ waiter' = state
    /\ UNCHANGED <<sourceVars, boundVars, handlerVars, clientVars>>

WaitBegins ==
    /\ waiter = "idle"
    /\ Wait("subscribed")
    /\ NewReceiver("waiter")
    /\ after' \in 0 .. Len(log)

\* Deviation: only a closed execution is answered at once.
WaitReadsStateOnly ==
    /\ waiter = "subscribed"
    /\ Wait(IF Terminal THEN "answering" ELSE "parked")
    /\ UNCHANGED <<hubVars, after>>

\* A closed execution, or one with something to read, is answered at once.
WaitReads ==
    /\ waiter = "subscribed"
    /\ Wait(IF Terminal \/ Len(log) > after THEN "answering" ELSE "parked")
    /\ UNCHANGED <<hubVars, after>>

\* Only an event of the execution wakes the call: not that it has lost some.
WaitReceives ==
    /\ waiter = "parked" /\ mail["waiter"] # <<>>
    /\ Wait(IF Head(mail["waiter"]) > after THEN "answering" ELSE "parked")
    /\ mail' = [mail EXCEPT !["waiter"] = Tail(@)]
    /\ UNCHANGED <<lagged, after>>

WaitReturns ==
    /\ waiter = "answering"
    /\ Wait("returned")
    /\ NewReceiver("waiter")
    /\ after' = 0

WaitTimeout ==
    /\ waiter = "parked"
    /\ Wait("answering")
    /\ UNCHANGED <<hubVars, after>>

-----------------------------------------------------------------------------

SourceStep  == TaskStarts \/ WriteBatch \/ TaskFinishes \/ TaskFails
                 \/ CloseQueued \/ OtherExecution
HandlerStep == LookUp \/ ReadPage \/ SendPage \/ PageSent \/ ReceiveLagged
                 \/ Receive
ClientStep  == Subscribe \/ NextEvent \/ EndOfStream
WaiterStep  == WaitReads \/ WaitReceives \/ WaitReturns

Next ==
    \/ SourceStep \/ HandlerStep \/ ClientStep \/ WaiterStep
    \/ \E p \in Producers : Broadcast(p)
    \/ WaitBegins \/ WaitTimeout \/ ConnectionLost \/ Restart

Spec == Init /\ [][Next]_vars

\* The runtime polls what is ready, and the subscriber reads and comes back.
\* Nothing obliges a command to write or to end.
Fairness ==
    /\ \A p \in Producers : WF_vars(Broadcast(p))
    /\ WF_vars(HandlerStep) /\ WF_vars(ClientStep)

FairSpec == Spec /\ Fairness

-----------------------------------------------------------------------------

\* README: "a reconnect can resume without gaps or duplicates."  Whatever is
\* lost, late or out of order, no subscriber meets a hole or is refused.
ResumeIsExact == client \notin {"gap", "refused"}

\* A subscription that has caught up and sleeps has not missed the event it
\* sleeps for: what is stored behind its cursor is in its receiver, or some
\* producer has yet to send it, or the receiver will say that it lagged.
LiveIsCurrent ==
    handler = "live" /\ cursor < Len(log) =>
        \/ lagged["subscriber"]
        \/ \E i \in 1 .. Len(mail["subscriber"]) :
             mail["subscriber"][i] > cursor
        \/ \E p \in Producers : \E i \in 1 .. Len(outbox[p]) :
             outbox[p][i] > cursor

\* The same for a wait() that sleeps, except that it is not told of a lag: then
\* it may have lost the event it waits for and sleep until its timeout.
WaitIsCurrent ==
    waiter = "parked" /\ after < Len(log) =>
        \/ lagged["waiter"]
        \/ \E i \in 1 .. Len(mail["waiter"]) : mail["waiter"][i] > after
        \/ \E p \in Producers : \E i \in 1 .. Len(outbox[p]) :
             outbox[p][i] > after

\* A stream the daemon ends by itself has told the subscriber of the outcome.
EndIsOutcome ==
    client = "ended" => \E i \in Positions("finished") : i <= next

\* A subscriber of a closed execution hears of the outcome in the end.
OutcomeIsDelivered == Terminal ~> client = "ended"

=============================================================================
