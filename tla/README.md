# A verification development for loomterm

loomterm runs shell commands for humans and coding agents in a background
daemon, `loomd`, and keeps an exact record of what ran, what it printed and how
it ended. The hard part is not to run a command: it is that the record stays
right while commands, clients, the daemon's own shutdown, crashes of any of its
processes and the bounded queues between them all act at once.

This directory holds TLA+ models of that part, TLC configurations that check
them on small instances, and proofs checked by TLAPS. Paths below are relative
to the repository.

## 1. The system

```
 loom, UI, watch, MCP, hooks           (clients, any number, any time)
        |  Unix socket, one JSON request and answer after the other
        v
 loomd: connections -> dispatch -> ExecutionEngine ---- Store actor (SQLite)
                                   |  tasks, slots,         ^
                                   |  handles, hub          | batches, barriers
                                   |                  capture writer
        control pipe (Spawn, Cancel, EOF)  |  ^ event pipe (Started, Stdout,
                                           v  |  Stderr, Finished, EOF)
 loom-supervisor, one per command:  run() loop, control reader, two capture
                                    tasks, event writer, stdin task
                                           |  signals to the group
                                           v
                                  the command's process group
```

### Inventory

| Component | State it keeps | Operations | What is hard about it |
|---|---|---|---|
| Execution engine, `src/executor.rs` | `processes` (handles), `active`, lifecycle, `slots` semaphore, `transitions` mutex, task handles, `idle` | `execute`, the task wrapper, `run_execution`, `cancel`, `drain`, `wait_for_idle` | tasks, cancel calls and drain write the same rows from different awaits; wake-ups by `Notify` and broadcast; aborts; each step may fail |
| Output capture writer, `src/executor.rs` | capture queue, current batch, `pending_error`, fatal signal | `capture_output`, `enqueue_events`, `flush_capture`, `run_capture_writer` | one bounded queue and one transaction shared by all executions; an error travels by barrier |
| Supervisor process, `src/supervisor.rs` | child, deadline, `cancelled`, `interrupted`, event queue, internal channel | `run`, `read_controls`, `capture`, `write_events`, `join_capture`, `report_outcome` | the leader's exit, a signal deadline, Cancel, a daemon's death and full queues in any order; members of the group outlive the leader |
| Broadcast, subscriptions, wait, `src/executor.rs`, `src/daemon.rs`, `src/client.rs` | the hub, a receiver each, a cursor each | `subscribe`, `handle_subscription`, `replay_subscription`, `next_event`, `wait` | events are stored first and broadcast later by three producers; lagging receivers; lost connections; restarts |
| Store: executions and events, `src/store.rs` | `executions`, `events`, `next_seq` | `create_execution`, `mark_running`, `append_capture_batch`, `finish`, `cancel_queued`, `get_execution`, `reconcile_incomplete`, `prune`, `read_output` | one actor thread, so each command is atomic, but callers read in one command and act in the next |
| Store: agent sessions, turns, actions | `agent_sessions`, `agent_turns`, `agent_actions` | start, ensure, finish, record hook event, reconcile | hook processes are concurrent and late; several statements without a transaction |
| Store: workspaces, listings, statistics | `workspaces`, aggregates | list, stats | page and percentile arithmetic |
| Daemon lifecycle, `src/daemon.rs`, `bin/loomd.rs` | lock file, socket, pid | claim the lock, reconcile, accept loop, shutdown | two starters, stale files, death between any two steps |
| Daemon connections, `src/daemon.rs` | one connection's codec | dispatch of every request | sequential on a connection, concurrent across them |
| Daemon client, `src/client.rs` | a connection, a subscription's cursor | `call`, `subscribe`, `next_event`, `connect_or_start` | who starts the daemon; resume after a break |
| Session recorder and hooks, `src/session.rs`, `src/agent.rs`, `src/terminal.rs` | `active.lock`, replay document | `run`, `handle_hook`, replay | a recorder that dies; the daemon reconciles while it finishes |
| Operator UI, `src/ui.rs` | selection, screens, subscription | refresh, confirm, cancel, follow | a confirmed action against a list that was refreshed |
| Session watcher, `src/watch.rs` | selection, timeline | poll, confirm, cancel | the same |
| MCP server, `src/mcp.rs` | none of its own | run, read, wait, list, cancel | a cursor moved by a truncating page |
| Command line, `bin/loom.rs` | none | argument parsing, rendering | sequential |
| Onboarding, `src/onboarding.rs` | files of other tools | plan, apply, undo | sequential file edits |
| Configuration, protocol, domain types | none | validation, framing, serialisation | sequential |

### What makes each component correct

* **Engine.** The record of an execution is closed once and for all; while the
  daemon is up, an incomplete record has somebody who will close it; a command
  whose record is closed is stopped; no caller sleeps through the event it
  sleeps for; a drained queue stays empty; a drain that ended well left nothing
  open and nothing running.
* **Capture writer.** Output is stored in order, up to the limit and no byte
  further; an outcome is stored behind all the output it closes; a loss is
  reported to the execution that lost; nobody waits for a barrier for ever.
* **Supervisor.** Once it was told to stop, or its daemon died, no member of the
  command's group that it may signal survives it; the outcome is its last word,
  after all the output; it ends.
* **Subscriptions.** A subscriber sees every event once, in order, across lag,
  lost connections and restarts, and hears of the outcome; `wait` does not
  sleep on an event that happened already.
* **Daemon lifecycle.** At most one daemon uses the database; a client that
  finds none gets one.
* **Sessions.** What a session's row says was said by the recorder, or by a
  daemon that found the recorder gone; a closed session has no active turn, and
  an open one has one at most; a session whose recorder died is closed some time.
* **Operator interfaces and tools.** A pane shows one execution without a hole;
  it catches up with what has ended; who is told that this was all has had all of
  it; what is confirmed is what is cancelled.

`PROJECT.json` lists the hazards behind these sentences at the lines where they
bite, with the properties that cover them.

## 2. The modules

| Module | Models | Role |
|---|---|---|
| `DurableExecution` | what the store promises of one record | abstract specification |
| `ExecutionEngine` | `executor.rs`, rows of `store.rs`, daemon life and death | implements `DurableExecution` |
| `SupervisorContract` | the two pipes of `executor.rs` and `supervisor.rs` | what engine and supervisor owe each other; each implements it |
| `ExecutionEngineProofs`, `ExecutionRecordProofs` | | theorems about `ExecutionEngine`, the second on top of the first |
| `Supervisor` | `supervisor.rs` | one supervisor and its process group |
| `SupervisorProofs` | | theorems about `Supervisor` |
| `OutputCapture` | the capture writer and `append_capture_batch` | the way of output into the log |
| `OutputCaptureProofs` | | theorems about `OutputCapture` |
| `EventSubscription` | hub, `handle_subscription`, `wait`, the subscriber | the way of the log to clients |
| `EventSubscriptionProofs` | | theorems about `EventSubscription` |
| `DaemonStartup` | `daemon.rs` `run`, `DaemonLock`, `prepare_socket` | who may serve: lock file and socket |
| `DaemonStartupProofs` | | theorems about `DaemonStartup` |
| `AgentSessions` | recorder of `loom.rs` and `session.rs`, the session commands of `store.rs`, `reconcile_agent_sessions` | composed with `DaemonStartup`, whose daemons it uses and whose specification it implements |
| `AgentSessionsProofs` | | theorems about `AgentSessions` |
| `OutputReader` | stored events, pages, cursor, pane, subscription | what the next three have in common |
| `OperatorUi` | `ui.rs` | `loom ui` |
| `SessionWatcher` | `watch.rs` | `loom watch` |
| `OutputTools` | `mcp.rs`, `loom run`, `loom logs` | readers that end |
| `OperatorPrograms` | | composes the readers with executions that write, end and are pruned |
| `OperatorProgramsProofs` | | theorems about the readers, each beside loomd |
| `MC...` | | constants and symmetry for TLC |

The modules cut the system where the code has an interface: the engine sees a
supervisor through its two pipes, as `SupervisorContract` has them, the capture writer sees the engine's tasks
through queue and barrier, subscribers see the log and the hub. A session sees
the daemons through connections, which end with the daemon; the programs see the
daemon as stored events and a subscription that may end at any time, which is
what `EventSubscription` shows of it.

### ExecutionEngine

| Variable | In the code |
|---|---|
| `row` | `executions.state`; `"absent"` before `create_execution` |
| `pc` | the await at which the task of an execution stands: `slot` (semaphore), `check` (first `get_execution`), `spawn`, `register` (control pipe written, handle not yet published), `events` (the frame loop), `record`/`commit` (row read, row written), `notify`, `close`, `reap`, and the wrapper's failure and clean-up steps |
| `processes` | the map of `ProcessControl`s; the supervisor's stdin stays open while the map or the task owns a sender (`ControlOpen`). The task owns its `control_tx` (`OwnsControl`) from the spawn until it drops it in `close`, behind the outcome if one was received and before the record if none was |
| `stopSent`, `events` | executions whose control pipe was given a Cancel; frames in the event pipe not yet read |
| `drainer`, `idleNotified` | `drain` with its phases, and the `Notify` it waits for; the counter `active` is the number of tasks in `Counted` |
| `lock` | who holds `transitions` across an await (`run_execution`'s registration, a cancel, the drain) |
| `cpc`, `target`, `saw`, `woken` | a `cancel` call, the execution it names, the state it last read, and whether its broadcast receiver holds an event |
| `verdict`, `received` | `run_execution`'s locals: the state to record, `received_finished` |
| `sup` | the supervisor as its pipes show it: booting, alive, cancelling, orphaned (its control pipe is closed), lingering (it waits for output pipes after the leader's exit), exited |
| `up`, `boots`, `faults` | the daemon's life; bounds |

A step ends at every await another task can observe; what the code does between
two awaits is one action. The store is one thread that runs one command at a
time, so a store command is atomic with the code that follows it up to the next
await. Operations of the code and their actions: `execute` is `CreateExecution`
and `StartTask`; `run_execution` is `AcquireSlot`, `CheckQueued`,
`SpawnSupervisor`, `Register`, `HandleStarted`, `HandleFinished`,
`HandleTornFrame`, `StreamEnds`, `RecordOutcome`, `CommitOutcome`,
`NotifyOutcome`, `CloseControl`, `ReapSupervisor`; the wrapper is `StoreFails`,
`RecordFailure`, `CommitFailure`, `NotifyFailure`, `ForgetTask`, `Unregister`,
`DropActive`, `WakeIdle`; `cancel` is the `Cancel...` actions; `drain` and
`wait_for_idle` are the `Drain...` actions, `AbortTask` and `DrainForced`;
`daemon::run` is `DaemonStart` (which reconciles before anything is accepted)
and `DaemonKilled`.

Abstractions: `cancel` clones the handle it finds before `finish` removes it,
and the model reads `processes` at the deciding step; a failed `accept` and the
other `?` exits of the daemon's main loop end the process and are
`DaemonKilled`; a flush barrier here succeeds or, with a storage fault, fails.

### Supervisor

`at` is where `run` stands (`boot`, `loop`, then `join`, `stdin`, `report`, `flush`,
and `over`); `control`, `listener` and `internal` are the control pipe, the reader
task and the channel of 16; `capture`, `queue`, `sent` are the capture tasks,
the event queue and what the writer got into the daemon's pipe; `deadline`,
`exited`, `cancelled`, `interrupted` are `run`'s locals. `proc`, `group`,
`foreign` and `fds` describe the command: a leader that may fork, exit, leave the
group, change its user, close its pipes, or write. The command and the daemon's
ends of the pipes are external to the supervisor and do what processes may do.

SIGTERM is not a step: a process may exit or ignore it at any time, and all the
signal does to the supervisor is to arm the grace deadline. SIGKILL dooms all
the group's members that the supervisor's user may signal. After the loop
nobody receives from the internal channel; that is kept, and appears in the
liveness properties as `ChannelFull`. A control frame cut short by a dying
daemon becomes `CaptureFailed`, as in `read_controls`. Errors of the stdin task
other than a closed pipe are left out.

### SupervisorContract

One execution's two pipes, with what is behind them reduced to what the other side
can tell: `state` is the supervisor as `ExecutionEngine` has it (`sup`), `asked`
that a Cancel was written, `frames` what was said and not read, without the
output, `open` and `reading` the daemon's two ends. Half of the steps are the
supervisor's (`Launch`, `HearCancel`, `LoseDaemon`, `Linger`, `Report`, `Vanish`),
half the daemon's (`AskToStop`, `ReadFrame`, `Leave`).

`Supervisor!KeepsContract` reads the contract off `supervisor.rs`: `Standing` is the
state that `run`'s place and locals amount to, `Frames` what of `sent` and the
queue the daemon has yet to read. `ExecutionEngine!KeepsContracts` reads it off
`executor.rs`, once for each execution: `open` is `ControlOpen`, `reading` is
`Reading`. Neither uses the other's module, so each is checked and proved at
its own size.

### OutputCapture

The two streams share one sequence number, so a chunk is a range of bytes of
one stream. A task cuts the chunk at `Limit` (`CaptureOutput`), puts records
into the queue one at a time (`SendRecord`, which waits for room), asks for a
barrier (`SendBarrier`) and records its outcome after the answer. The writer
collects a batch, stores it in one transaction, keeps an error in `pending` and
hands it to the next barrier. `records` is the batch by execution, since
`append_capture_batch` never relates records of different ones, and `batched` how
many there are. Rows closed while queued (`CloseQueued`) and
pruned rows (`Prune`) come from outside, at any time; `prune` may take any
closed row, a superset of what retention selects. "finished" stands for every
outcome recorded behind a barrier. A daemon's death is left to
`ExecutionEngine`; what a fatal error leads to, the drain, shows as
`CloseQueued`, or as the early end of a task.

### EventSubscription

One execution, its log, and the three producers that store an event in one step
and broadcast it in a later one (the task, the capture writer, a cancel or drain
that closes a queued row). `mail` is what a broadcast receiver has not taken;
a full one loses its oldest event and is told `Lagged`. `handler` follows
`handle_subscription`: receiver first, then the row, then pages, then live;
`client` follows the UI's subscriber, which resumes from its cursor.
`waiter` follows `wait`. Events of other executions share the hub and are 0 in
`mail`. Truncation markers count as output; socket data unread when the daemon
dies is lost; `wait`'s `after_seq` is never ahead of the log.

### DaemonStartup

`pc` is the next system call of each process in `run`: `create`, `write`,
`read`, `probe`, `unlink` are `DaemonLock::acquire`; `socket`, `connect`,
`unsocket` are `prepare_socket`; then `bind`, `listen`, `open`, `serve`, `drain`,
`unlock`; `abandon` is a start that fails with the lock in hand, and drops it.
`lock` and `sock` name who created the file that is at the path, whatever happened
to it since, because the code tests and removes by path; `written` says whose lock
file has a pid in it yet, `seen` which pid a process has read, `again` the second
and last round of `acquire`. A process that dies keeps nothing but its files; when
it starts again it is another one, and the old files are `Stale`. Pids are not
reused. `clean` and `alone` are history: whether two processes ever acquired the
lock at a time, and who has been by itself since it started.

### AgentSessions

| Variable | In the code |
|---|---|
| `recorder` | where `record_session_with_env` stands; in `Holding` it has `active.lock`. `asked` and `sent` are recorders killed with their first or last request on the wire |
| `link` | the loomd that holds the connection of the call |
| `dir` | the session's directory exists |
| `row`, `turns` | the tables; `released` is the `interrupted` that reconciliation writes; a turn's tool actions are one |
| `result` | what the recorder will report |
| `pending`, `heard` | the agent's events without a hook so far; the last in order |
| `listed` | the rows a daemon's reconciliation still has to look at |
| `torn` | sessions whose closing was cut between its two statements |

`CreateArtifacts`, `Call`, `CreateSession`, `Created`, `Record`,
`RecordInterrupted`, `FinishSession`, `Finished`, `Exit` are the life of a recorder,
`CallFails`, `CreateFails`, `FinishLost` its failures and the one retry, `Kill` its
death. `AgentEvent` is `record_agent_event`, with `PromptSubmitted` and
`TurnEvent` for the rules by which an event finds, creates or ends turns.
`ListRecording`, `Reconcile`, `LeaveRecording`, `ReconcileFails` are
`reconcile_agent_sessions`, which lists, tests the lock and closes in three
steps, before service begins and again before each request that asks for it.
`DeleteFiles` and `DeleteRow` are the deletion, `Shutdown` the refusal while a
session records, `CrashInFinish` a death between the two statements of
`finish_agent_session`. A daemon's own steps are those of `DaemonStartup`, with
the reconciliation put between `open` and `serve`.

Abstractions: the directory and its lock are made in one step, before the row;
sixty tries of `connect_or_start` are a daemon that is there in time or is not;
a hook is delivered by any daemon that has the database open; the answer to a
hook is only logged, so it is not modelled.

### OutputReader, OperatorUi, SessionWatcher, OutputTools, OperatorPrograms

`fate`, `home`, `len` and `sessions` are what loomd knows; an execution's events
are 1 (started), output, and a last one (finished). A reader has a `selected`
execution, a `pane` of at most `Cap` chunks, the `cursor` behind the last event it
has taken and a subscription `sub`; `stage` is what it is doing. `LoadPage` takes
a page, which may end anywhere within `PageEvents` events (the store also ends it
by bytes); `LoadEnds` is a read that fails or has nothing to read.

* `OperatorUi`: `chosen` is the session selected, `listed`, `detail` and `shown`
  what the last refresh and the query leave visible. Each action is one key,
  mouse event, subscription event or poll with all it sets off: the refresh
  (`Fetch`), the choice of a selection (`EnsureFrom`) and `sync_subscription`
  (`Sync`). `Return` is `operator_ui` coming back from an agent with a new state.
* `SessionWatcher`: `watched` is the last reading, `asked` the execution that the
  open question names; `WatchPoll` reads again and may move the selection.
* `OutputTools`: `remaining` is `max_bytes` as `loom_run` uses it up;
  `Answers` are the pages the store may give, `Converted` how far `convert_events`
  keeps one. The state `complete` means that the caller was told, by a terminal
  state and no more events, that this was all.

One program runs in a behaviour, so their state does not multiply. `loom ui`
compares subscriptions by execution only: a pane that was emptied while its
subscription went on starts later than the first event, which is why
`PaneIsSegment` speaks of a segment that ends at the cursor and not of the
whole. A subscription of `loom run` that ends before the outcome was sent, with
the execution over by then, returns the row's state (`loom.rs:1405-1407`) without
the rest of the output; the model takes that as `over` and not as `complete`.

## 3. The runs

| Run | Instance | Question and answer |
|---|---|---|
| `engine` | 2 executions, 1 slot, 1 canceller, 1 drain, 1 store fault, no restart; 2.6 million states | holds: all safety of the engine, and `DurableRecord`, the refinement of `DurableExecution` |
| `engine_live` | 1 execution, 2 cancellers, 1 restart, no fault; about 108 000 states | holds: a restart closes what a death left open and nothing else (`IncompleteHasOwner`, `DurableRecord`); a stop that was sent closes the record; to its supervisor the engine is the daemon of the contract (`KeepsContracts`); drain and cancel end without their timeouts |
| `engine_spawn` | 2 executions, no canceller | violated: `QueuedNeverSpawns`, see finding 1 |
| `supervisor` | leader and one more process, 1 stream, 2 chunks, 1 cancel, 1 read error, an internal channel of 1; 4.9 million states | holds: outcome last and complete, nobody reachable survives an escalation, the daemon sees what the contract lets it see (`KeepsContract`) |
| `supervisor_live` | the same, 1 chunk, no read error, an internal channel of 2 | holds: a supervisor told to stop ends, and so does one whose command is gone |
| `supervisor_crash` | no output, no cancel | violated: `CrashEndsGroup`, see finding 2 |
| `capture` | 2 executions, limit 2 of 3 bytes, chunks of 1 and 2, queue of 1, batch of 2, 1 failed batch; 259 000 states | holds: order, limit, completeness of outcomes, one closing, no task waits for ever |
| `capture_loss` | 3 executions, 1 byte each, a healthy database | violated: `LossIsReported`, see finding 3 |
| `subscription` | 1 execution, 2 outputs, hub of 1, pages of 1, 1 lost connection, 1 restart; 1.1 million states | holds: no gap, no missed wake-up, the outcome arrives |
| `sessions` | 2 starters of loomd, 1 session, 4 hook events, all processes killed anywhere; 2.8 million states | holds: one daemon serves, debris refuses nobody, rows say what their recorder said, turns settle |
| `sessions_wedge` | 1 starter, 1 session, no hooks | violated: `ReleasedIsReconciled`, see finding 4 |
| `operator` | 2 executions, 1 session, 5 events each, pages of 2, panes of 2, chunks of 2 bytes, answers of 3, one program at a time; 551 000 states | holds: panes have no hole, readers catch up, "all" is all, a cancel goes where the question said |

**Why these bounds.** The engine's hazards are between one execution's task, one
cancel, one drain and the daemon's death; a second execution adds the slot
(somebody must wait in the queue while somebody runs), the shared drain and the
shared store fault. A death and a restart are in `engine_live`, where one
execution is enough: reconciliation treats every row alike and an orphan shares
nothing with other executions. There two cancellers race, and the second finds
what the first left; one restart is enough to see a reconciliation meet an
orphan. In the supervisor one more process can outlive the leader, hold
its pipes, leave the group or change its user; the event queue and the pipe of
depth one fill with the second chunk; the internal channel fills with one post or,
in `supervisor_live`, with two, and the others have to wait. In the capture writer limit 2 and chunks of 1 and 2 make a chunk end
below, at and across the limit, and queue 1 with batch 2 makes the writer block
the tasks and share batches. In the subscription the hub of one lags as soon as
two events are sent, and a page of one puts a page boundary between any two
events.

Two starters show every race for the files: a third would have to stand between
two that already exclude each other, and the proofs of section 4 are for any
number. Deaths and restarts are unbounded, since a process that starts again is a
new one. The script has a prompt and a tool of a turn with an id, then a prompt and
a stop without one: so a prompt ends a turn, a tool event finds or creates one,
and an event without an id falls on whatever is active; hooks deliver any subset in
any order. The constraint `TurnsWithOneDaemon` drops states in which there are
turns while two daemons are up: hooks go through the database and do not see which
daemon has it, so what they do with two is what they do with one. In `operator` an
execution has a first and a last event and up to three chunks, so with pages
of two a read needs several pages, and with panes of two the oldest chunk is cut off;
chunks of two bytes and answers of three make a page that holds two chunks lose
one in `convert_events`. `HomesOfPrograms` lets only the watcher meet a second
execution in its session: the UI reaches two executions through the list of all
work, and the tools do not look at sessions. `ChunkBytes <= MaxBytes` is assumed:
an event larger than what a caller of the MCP server asks for is never returned
and its cursor never moves. The proofs of section 4 hold for every value of the
constants, within the assumptions named there.

**Fairness.** Weak fairness on what the runtime schedules: an engine task that
can move, a cancel call, the drain, the capture writer, the handlers, the
supervisor's tasks and its timer. Tokio polls a ready task, and the store's
thread serves commands in order. Weak fairness also on `Exit` of a process that
was killed with SIGKILL, which the kernel guarantees, and on the daemon reading
the frames a live supervisor sends. Nothing obliges a command to exit, a client
to call, a user to restart the daemon, or a timeout of `cancel` and `drain` to
expire: the liveness properties say that these calls end *without* it.

In `AgentSessions`, clients keep asking, so a daemon is started where there is
none and reconciles; a recorder that can go on does; the lock is tested again and
again, so a reconciliation that finds it free at infinitely many tests is
taken (`SF`): the copy of the lock in a child the daemon has just forked is gone
by the time of some test. From some time on no daemon is killed; without that no
daemon need ever get as far as `serve`. In `OperatorPrograms` the user stops
choosing some time, polls go on, and a read that is tried again and again succeeds
some time (`SF` on `UiReads` and `WatchReads`); a stream that has sent its outcome
ends. Nobody is obliged to delete, prune or quit.

**Deadlock.** All configurations set `CHECK_DEADLOCK FALSE`: an engine with all
its executions recorded, a supervisor that ended and a subscriber that read its
outcome have stopped for good, and the bounds on input stop them too. That
nothing stops too early is what the liveness properties check.

**Liveness, with its escapes.** `CancelledIsClosed` and `DrainEnds` except a
command that `lingers` (its leader has gone, its output is held open): by
finding 2 the supervisor then does not listen. `StopEndsSupervisor` excepts
processes the supervisor may not signal (they called `setsid` or changed their
user) and a full internal channel, which nobody empties after the loop; the
second needs more than 16 unread posts. `PaneCatchesUp` excepts a reader that
turns to another execution, is stopped, finds its execution pruned, or watches a
session that is deleted.

## 4. What is proved

TLAPS checks eight modules. Every invariant, action property and refinement that a
run checks is a theorem there; the liveness properties are not. The types of
`AgentSessions` and `OperatorPrograms` (`SessionTypeOK`, `OperatorTypeOK`) are
proved for all constants and are in no run.

### Assumptions

Each module names what it asks of its constants, and TLC evaluates that in the
runs.

| Assumption | Says | Because |
|---|---|---|
| `EngineAssumption` | one slot at least, bounds are naturals, no canceller is called `"free"` or `"drain"` | `config.rs` rejects 0; the names are the lock's other values |
| `SupervisorAssumption` | the leader is a process; capacities are at least one; no stream is called as a frame of another kind is | a channel of depth 0 does not exist; frames carry their kind |
| `CaptureAssumption` | capacities and chunks are at least one, the limit is a natural | constants of `executor.rs`; a read of no bytes is the end |
| `SubscriptionAssumption` | hub, pages and batches hold one event at least | as above |
| `StartupAssumption` | `None` and `Stale` are not daemons | they stand for no file and a dead one's |
| `SessionAssumption` | `None` is no session; `Script` is a sequence of events | |
| `ReaderAssumption` | executions are numbered from 1, there is one; an execution has two events at least; pages and panes hold one | it starts and ends; constants of `ui.rs` and `watch.rs` |
| `QueryAssumption` | a query matches executions and sessions, and no id is both | lists of the two are apart in the code |
| `BytesAssumption` | an answer holds one chunk at least | the known exception of section 3 |

The theorems hold for any number of executions, calls, processes, sessions and
daemons, any capacities, and any number of faults, losses and restarts. One
theorem has a hypothesis besides: `Orderly`, below.

### The theorems

| Module | Theorem | Property | Inductive invariant |
|---|---|---|---|
| `ExecutionEngineProofs` | `TypeCorrectness` | `TypeOK` | `TypeInv` |
| | `CancelWakesUp` | `NoLostCancelWakeup` | `CancelInv` |
| | `DrainHearsIdle` | `NoLostIdleWakeup` | `TypeInv`, `GoodbyeOnItsWay` |
| | `QueueClosed` | `QueueStaysEmpty` | `QueueInv` |
| | `StopAlwaysReaches` | `StopReachesCommand` | `StopInv` |
| `ExecutionRecordProofs` | `RecordIsDurable` | `DurableRecord` | `AskedInv` |
| | `OpenRowsAreOwned` | `IncompleteHasOwner` | `OwnerInv` |
| | `DrainLeavesNothing` | `CleanStop` | `OwnerInv`, `SlotsInv` |
| | `SupervisorsFitSlots` | `LiveWithinSlots` | `SlotsInv` |
| | `EngineKeepsContracts` | `KeepsContracts` | `LinkInv` |
| | `SameSupervisor` | of `SupervisorStep` and `CommandStep` | |
| `SupervisorProofs` | `TypeCorrectness` | `TypeOK` | `TypeInv` |
| | `EscalationCompletes` | `EscalationIsComplete` | `StopInv` |
| | `OutputPrecedesOutcome` | `OutputBeforeOutcome` | `TellInv` |
| | `SupervisorKeepsContract` | `KeepsContract` | `KeepInv` |
| `OutputCaptureProofs` | `TypeCorrectness` | `TypeOK` | `CaptureInv` |
| | `OutputStaysInOrder` | `LogInOrder` | `CaptureInv` |
| | `OutcomesAreComplete` | `OutcomeIsComplete` | `CaptureInv` |
| | `RowsCloseOnce` | `ClosedOnce` | `CaptureInv` |
| `EventSubscriptionProofs` | `TypeCorrectness` | `TypeOK` | `TypeInv`, `LengthInv` |
| | `ResumesAreExact` | `ResumeIsExact` | `StreamInv` |
| | `EndsAreOutcomes` | `EndIsOutcome` | `EndInv` |
| | `LiveMissesNothing` | `LiveIsCurrent` | `WayInv` |
| | `WaitMissesNothing` | `WaitIsCurrent` | `WayInv` |
| `DaemonStartupProofs` | `OneDaemonServes` | `ExclusiveService` | `StartupInv` |
| | `DebrisIsHarmless` | `StartsFromDebris` | `StartupInv` |
| `AgentSessionsProofs` | `SessionsRefineStartup` | `SessionSpec => StartupSpec` | none needed |
| | `SessionsHaveOneDaemon`, `SessionsStartFromDebris` | the same two, of sessions | by refinement |
| | `SessionTypesHold` | `SessionTypeOK` | `SessionInv` |
| | `RecorderHasTheWord` | `RecorderDecides` | `SessionInv` |
| | `TurnsAreSettled` | `TurnsSettle`, if `Orderly` | `TurnsInv` |
| | `ClosedTurnsEnd` | the half of it that needs no `Orderly` | `TurnsInv` |
| `OperatorProgramsProofs` | `CancelGoesWhereItSaid` | `CancelReachesNamed` | `WatchInv` |
| | `TypeCorrectness` | `OperatorTypeOK` | `OperatorInv` |
| | `PanesHaveNoHole` | `PaneIsSegment` | `OperatorInv` |
| | `NoOutputIsLeftOut` | `CompleteMeansAll` | `OperatorInv` |

### Why the invariants are what they are

**The engine**, one invariant on top of the other.

* **`TypeInv`** adds to `TypeOK` that a task about to record has a verdict
  (`VerdictKnown`) and that a pending call names an execution (`TargetKnown`):
  the initial values of both, "none", would otherwise be written into a row.
* **`CancelInv`.** That a parked `cancel` on a closed row has an event waiting
  or on its way is not inductive: the row may be closed between the read that
  sends the call to sleep and the moment it sleeps. `WakeupOnItsWay` states the
  same of the call that has read and not yet parked, which is inductive because
  the receiver exists before the read; `NobodyIsServed` says that a dead daemon
  has no calls, for the step in which it restarts.
* **`GoodbyeOnItsWay`** extends `NoLostIdleWakeup` from the sleeping drain to
  the one that has loaded `active` and not yet slept. It rests on the `Notified`
  being created before the load, and on a last task that decrements and then
  notifies.
* **`QueueInv`** adds that a dead daemon is not draining, so that a restart,
  which makes the engine accept again, cannot find a drain behind its back.
* **`StopInv`** is the largest. `StopReachesCommand` says of every closed row
  whose command runs that somebody is about to stop it. To preserve it one needs
  that before the spawn there is neither a supervisor nor a handle
  (`UnbornTasks`); that a supervisor reports an outcome only as it exits
  (`OutcomeIsLast`), so a task that records one closes the row of a command that
  is gone (`RecordedAfterExit`); that a queued row of a registered task has a
  handle (`QueuedHasHandle`), so a cancel or drain that closes the row also
  finds the pipe; and that the `transitions` mutex keeps a row from starting
  while `cancel` decides and while `drain` goes from cancelling the queue to
  signalling the handles (`TransitionsHeld`).
* **`AskedInv`.** `DurableExecution` lets a running row be closed as cancelled
  only if Cancel was written, so the proof follows "cancelled" back from the
  row to the task's verdict, to the frame in the pipe, to the supervisor
  (`CancelWasAsked`). Each step of the engine is then a step of the abstract
  record or leaves it alone; the one that closes many rows at once is the
  reconciliation of a daemon that starts.
* **`OwnerInv`.** An open row has its owner because a task announces, closes its
  pipe or ends only behind its row (`ClosedBehindTask`).
* **`SlotsInv`** counts permits and not commands: the tasks that hold one are
  finitely many and no more than there are (`PermitsHeld`), and without failures
  a command that can be stopped has a task that holds its permit (`LiveHasTask`).
  `DrainWaited` says what a drain may rely on when it stops: no task was started
  behind its back, and none is left. `CleanStop` follows from this and `OwnerInv`.

Each proof has one step per action of `Next`; the lemmas `CallFrame`,
`SupervisorFrame`, `DrainFrame`, `TaskFrame` and the `Task...` lemmas say once
what the actions of one actor leave alone.

**The supervisor.** `EscalationIsComplete` is about the end of `run`'s loop; the
invariant `StopInv` says why it holds there: from the stop on either the deadline
is armed in the loop, or SIGKILL was sent to everybody in the group. A fork
between the two is of a process that is doomed or still covered by the deadline.
`OutputBeforeOutcome` speaks of what the daemon got; `TellInv` of that with the
queue behind it (`Told`), which the writer does not change. It counts every chunk
once, as read and told, read and held by a capture task, or unread
(`ChunkInv`), says that the streams are settled before the outcome is put into
the queue (`LastInv`) and that nothing can be put in before the start
(`FirstInv`). If the daemon's end of the pipe is closed, nothing is told any more
and all that remains is that no outcome was.

**The contract of the two.** Three theorems compose them.

* `SupervisorKeepsContract`: every step of `Supervisor`, of its tasks, its command
  or its daemon, is a step of the contract or leaves it alone. `KeepInv` has what
  the mapping needs: a Cancel heard anywhere, in the pipe, with the reader or in
  the channel, was written (`HeardInv`); the daemon is called lost only if a pipe of
  its is (`LostInv`); every reason to stop but those is a Cancel, and a lost daemon gets
  no report (`ReasonInv`); nothing was said before the request, and who has read the
  outcome has read all (`EndsInv`). With the outcome at the end of `Told` (`TellInv`),
  what the daemon has not read of it is `started` and the outcome, in this order.
* `EngineKeepsContracts`: every step of the engine is, for each execution, a step
  of its contract or leaves it alone. `LinkInv` adds to the invariants above that
  nothing is in a pipe nobody reads and that an outcome or half a frame is last
  there (`PipesKept`): so a task that reads one stops reading with a pipe that
  is empty.
* `SameSupervisor`: a step that changes only one supervisor and its frames is a step
  of `ExecutionEngine`'s supervisor if and only if it is one of the contract's. So
  what is proved of the engine uses no more of a supervisor than the contract,
  which `Supervisor` implements.

The other direction has no such theorem: that `Supervisor`'s daemon (`SendCancel`,
`ReadFrame`, `StopReading`, `CloseControl`, `DaemonDies`) may do all that the
contract's may, up to the number of Cancels, is seen by reading the five actions
beside the contract's three. What the models show of the whole is safety: that a
supervisor the daemon waits for ends is a liveness property of each model by itself.

**The capture writer.** An execution's records pass through four sequences: its
task's outbox, its part of the shared queue, its part of the batch, its log.
`FlowInv` says that each is in order and wholly before the next, so that moving
the first of one to the end of the next keeps the order, whatever the other
executions have in between. `ExtentInv` bounds all pieces by what was written and
by the limit. `FlushInv` says why a barrier means anything: once it is answered,
nothing of that execution is left on the way. `WholeInv` says that the pieces
together are all of the output, or a barrier was refused or is about to be; with
the two before, an outcome recorded behind a barrier is complete. A batch that
fails loses pieces of several executions at once and leaves one error, so that
`Refused` must speak of some barrier and not of each one's own.

**Subscriptions.** `StreamInv` gives the position of everything between the log
and the subscriber: what is on the wire follows what the client has, the page
follows the cursor, and the cursor is what the client has and the wire. That a
client which comes back is not refused is a part of it. `EndInv` says who has
seen the outcome. `WayInv` is `LiveIsCurrent` and `WaitIsCurrent` without their
moment: the newest event is in the mail, in a producer's outbox, or lost with a
lag to tell (`Coming`), for the handler that is still sending its last page before
it goes live too, as its receiver exists by then. `LengthInv` bounds the log, and
therefore knows that of three who may close the row only one writes "finished".

**Daemons and sessions.**

* **`StartupInv`.** `PlacesInv` says what a process has done by where it stands
  (who listens, who has the database open). `LockInv` is the heart: as long as
  `clean`, one process at most is in `acquire`, and while somebody holds the lock
  file, who probes a pid probes the holder's and nobody is about to remove the
  file. That last part is what two simultaneous acquirers break, and why `clean`
  cannot be dropped. `AloneInv` says what a process by itself finds at each of its
  steps, in `acquire`'s second round too.
* **Refinement.** Each action of `AgentSessions` either leaves the daemons alone
  or is an action of `DaemonStartup` with more conjuncts, so the invariants of the
  daemons are inherited and not proved again.
* **`SessionInv`.** `RecorderDecides` is not inductive: a killed recorder's last
  request may still be served, so one must know what the request will write.
  `RowAgrees` relates the row to where the recorder stands, so that
  reconciliation, which acts on a list that may be old, can only meet a row that is
  open with its recorder gone, or closed already, and `Close` leaves that alone.
* **`TurnsInv`** adds that a row which does not exist has no turns, and, while
  hooks have come in order, that the turns known by name are the ones the events
  so far have named. Without the latter an event could find an old turn where a
  new one is meant. It needs **`Orderly`**: a turn that the provider names begins
  with its prompt, the only one of that name; events that name no turn may come in
  any way. That is not this code's doing but the provider's, and `TurnsSettle` is
  false without it: a second prompt for a turn that has ended makes it active
  again, though it is not the last one. `MCScript` is `Orderly`. What a closed session
  promises does not depend on it, and `ClosedTurnsEnd` says that by itself.

**Readers.** `OperatorInv` has a part for loomd, `WorldInv`, and one for each
program.

* **`PaneInv`** gives `PaneIsSegment` a beginning: `ShowsFrom(e, from)` says that
  the pane is what `e` wrote after `from`, up to the cursor, cut to `Cap` chunks.
  `SubInv` says that a subscription is to what is selected and goes on at the
  cursor, or at or after it with the pane empty: that is the one case in which
  a pane has a new beginning. For the tools, which never reset, `from` is 0, and
  `ToolInv` adds that a caller who may stop has its cursor at the end of an
  execution that is over, which no step of loomd undoes.
* `SlicesJoin` and `KeptJoin` carry these proofs: the events after `a` up to `b`
  and those after `b` up to `c` are those after `a` up to `c`, and what was cut off
  a pane earlier makes no difference when it is cut again.
* **`WatchInv`.** The execution a question names belongs to the watched session
  and started before; therefore a later reading loses it by pruning only, and only
  then the selection moves. `NoWatcher` keeps the other programs without questions.
* `Newest` chooses a greatest element, so one must exist. The library has no
  induction that the provers at hand can use, but the well-foundedness of `<` on
  the naturals gives least elements of sets (`SmallestOf`), and with these
  greatest ones of bounded sets (`GreatestOf`).

**Only model-checked.** The liveness properties (`CancelledIsClosed`,
`DrainEnds`, `CancelReturns`, `StopEndsSupervisor`, `PipesClosedEndsSupervisor`,
`CaptureSettles`, `OutcomeIsDelivered`, `PaneCatchesUp`): the proof system has no
rules for fairness and `ENABLED`. The four findings below are counterexamples of
TLC. The modules use no recursive operators; what an operator defined by
recursion would compute could not be proved, since the library's induction
theorems take an operator as a parameter.

## 5. Findings

1. **A drained queue may start a command** (`engine_spawn`, `QueuedNeverSpawns`).
   `run_execution` starts the supervisor and queues its `Spawn` message while the
   row is still queued, and looks at the row again only when it publishes the
   handle and when `Started` arrives. If `drain` cancels the queued row in
   between, the record says "cancelled", never started, and the command runs
   until the Cancel or the closed pipe reaches its supervisor.
   `README.md:386-389` says that the tests prove "queued work cannot spawn during
   graceful shutdown"; the test has the execution wait for a slot, where this is
   true. That the command does not run on is `StopReachesCommand`, which is
   proved.
2. **A daemon's crash may leave the group alive** (`supervisor_crash`,
   `CrashEndsGroup`). When the leader exits on its own, `run` leaves its loop and
   waits for the capture tasks, that is, for every process that holds the output
   pipes. Nobody receives `DaemonGone` or `Cancel` from then on, so a background
   process of the group and its supervisor live on.
   `README.md:45-48` promises SIGTERM and SIGKILL for the group.
3. **Lost output may go unreported** (`capture_loss`, `LossIsReported`). A batch
   holds records of several executions in one transaction. A record of a pruned
   execution (its row was closed while queued, its command still wrote) makes the
   batch fail; the error is handed to whichever barrier comes next. If that is the
   pruned execution's, the other one's barrier succeeds and it is recorded as
   finished, with output missing. `OutcomeIsComplete`, which holds, says that
   this takes a barrier that was refused to somebody.
4. **A lost answer may leave a database no daemon serves** (`sessions_wedge`,
   `ReleasedIsReconciled`). When the answer to a session's registration does not
   come, `record_session_with_env` removes the session's directory and leaves,
   though the daemon may have stored the row before it died. Reconciliation then
   opens `active.lock` in a directory that does not exist, and the error ends
   the whole of it: each later start of `loomd` fails before it serves.
   `README.md:212-214` says that the daemon reconciles the record of a recorder
   that exited without finalizing its session.

Three more things the models show and no sentence of the repository denies.
`DaemonLock::acquire` tests and removes the lock file in two calls and takes an
empty file for stale, so two daemons that start at the same moment may both come
to serve: `ExclusiveService` and its theorem except that case and no other. A watcher's
question about an execution that is pruned while it is open is answered with the
cancellation of another one (`CancelReachesNamed` has that exception). A session
closed by a call cut between its two statements keeps its active turns
(`TurnsSettle` excepts `torn`).

## 6. Plan

What is left, in the order of what it would add:

1. **Compositions.** What a module assumes of its neighbour, implemented by the
   neighbour's own module, as `SupervisorContract` does it for the engine and the
   supervisor: the engine's flush barrier by `OutputCapture`; the subscription of
   `OutputReader` by `EventSubscription`. The invariants of section 4 are what such
   step simulations would start from.
2. **Retention.** The choice `prune` makes by age, count and bytes, as an operator
   compared with a reference definition.

## 7. What is not modelled, and why

* Workspaces, listings and statistics: reads, and updates by one statement of
  one actor; their arithmetic is a query's.
* Framing, JSON, argument parsing, rendering, scrolling and focus, the PTY relay,
  the cast file and the replay document, redaction, `normalize_hook_event`:
  sequential data conversions and I/O with no state another actor sees.
* `restart_daemon`, `doctor`, `status`: sequences of requests that are modelled,
  each on its own.
* The peer check of a connection: it has one outcome for all of one user's
  processes.
* Onboarding: sequential edits of configuration files.
* The text of commands and output, time stamps, identifiers: none of the
  properties tells them apart.
* The failure of SQLite itself beyond "a command fails": a transaction that
  commits survives the death of the process. (With `synchronous = NORMAL` in WAL
  mode the last ones may be lost with the machine's power.)
* Process ids that are reused, and processes that cannot be created inside a
  command: they are the operating system's, not decided by this code.

## 8. Running it

    tlc -workers 2 -config MCExecutionEngine.cfg MCExecutionEngine
    for m in *Proofs.tla; do tlapm $m; done

Each configuration names in its first line the question it answers. The violated
ones, `capture` and `engine_live` take less than a minute each, the others one to
three minutes; the proofs of a module take a minute or two from nothing.
