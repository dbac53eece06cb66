----------------------------- MODULE AgentSessions -----------------------------
(***************************************************************************)
(* Recorded agent sessions.  A recorder (loom.rs record_session_with_env,  *)
(* session.rs) keeps a directory with a locked file, registers a row with  *)
(* a loomd, runs the agent and reports how it ended; hooks of the agent    *)
(* report its turns from processes of their own; every loomd closes the    *)
(* rows whose recorder has let its lock go (daemon.rs reconcile).  The     *)
(* daemons are those of DaemonStartup: they die, and start again.          *)
(***************************************************************************)
EXTENDS DaemonStartup, Sequences, Integers

CONSTANTS
    Sessions,
    Script      \* the events an agent's hooks report, in order

\* What a hook may report: a turn begins, a tool is called, it ends, the turn ends.
Kinds == {"prompt", "tool", "toolend", "stop"}

ASSUME SessionAssumption ==
    /\ None \notin Sessions
    /\ Script \in Seq([id : STRING, kind : Kinds])

VARIABLES
    recorder,  \* where each session's recorder is
    link,      \* the loomd that holds the recorder's call, or None
    dir,       \* sessions whose directory exists
    row,       \* the state column of each session, "absent" or "deleted"
    result,    \* the end the recorder has to report
    turns,     \* the session's turns, oldest first
    pending,   \* the agent's events that no hook has delivered
    heard,     \* the last event recorded, -1 once one came out of order (history)
    torn,      \* sessions closed by a call that stopped half way (history)
    listed     \* the rows each loomd is reconciling

recorderVars == <<recorder, link, dir, result>>
turnVars == <<turns, pending, heard>>
storeVars == <<row, torn, listed>>
sessionVars == <<recorderVars, turnVars, storeVars>>
allVars == <<startupVars, sessionVars>>

Holding == {"ready", "creating", "created", "recording", "ended", "retry",
            "finishing", "answered", "done"}
\* "asked" and "sent": killed with its first or its last call under way
Gone == {"none", "asked", "sent", "left", "gone"}
Verdicts == {"finished", "interrupted"}
Terminal == Verdicts \cup {"released"}
Anonymous == ""
Ids == {Script[n].id : n \in DOMAIN Script}

Recording == {s \in Sessions : row[s] = "recording"}
Locked(s) == recorder[s] \in Holding
Orphan == \E s \in Recording : s \notin dir
Serving == {d \in opened : pc[d] = "serve"}
Accepting(d) == sock = d /\ d \in listening

SessionTypeOK ==
    /\ StartupTypeOK
    /\ recorder \in [Sessions -> Holding \cup Gone]
    /\ link \in [Sessions -> Daemons \cup {None}]
    /\ dir \subseteq Sessions
    /\ row \in [Sessions -> Terminal \cup {"absent", "recording", "deleted"}]
    /\ result \in [Sessions -> Verdicts]
    /\ \A s \in Sessions : \A t \in DOMAIN turns[s] :
          turns[s][t] \in [id : Ids \cup {Anonymous},
                           state : {"active", "ended", "interrupted"},
                           tool : {"none", "running", "ended"}]
    /\ pending \in [Sessions -> SUBSET (DOMAIN Script)]
    /\ heard \in [Sessions -> -1 .. Len(Script)]
    /\ torn \subseteq Sessions
    /\ listed \in [Daemons -> SUBSET Sessions]

SessionInit ==
    /\ StartupInit
    /\ recorder = [s \in Sessions |-> "none"]
    /\ link = [s \in Sessions |-> None]
    /\ dir = {} /\ torn = {}
    /\ row = [s \in Sessions |-> "absent"]
    /\ result = [s \in Sessions |-> "finished"]
    /\ turns = [s \in Sessions |-> <<>>]
    /\ pending = [s \in Sessions |-> {}]
    /\ heard = [s \in Sessions |-> 0]
    /\ listed = [d \in Daemons |-> {}]

-----------------------------------------------------------------------------
(* The recorder. *)

RecorderGoes(s, from, to) ==
    /\ recorder[s] \in from
    /\ recorder' = [recorder EXCEPT ![s] = to]

Hangs(s) == link' = [link EXCEPT ![s] = None]

\* connect_or_start has had a health answer: each one reconciles first.
CreateArtifacts(s) ==
    /\ Serving # {} /\ ~Orphan
    /\ RecorderGoes(s, {"none"}, "ready")
    /\ dir' = dir \cup {s}
    /\ UNCHANGED <<link, result, turnVars, storeVars>>

Call(s, d) ==
    /\ Accepting(d)
    /\ \/ RecorderGoes(s, {"ready"}, "creating")
       \/ RecorderGoes(s, {"ended", "retry"}, "finishing")
    /\ link' = [link EXCEPT ![s] = d]
    /\ UNCHANGED <<dir, result, turnVars, storeVars>>

\* Only the last call starts a loomd and is repeated, once.
CallFails(s) ==
    /\ \/ /\ ~\E d \in Daemons : Accepting(d)
          /\ \/ RecorderGoes(s, {"ready"}, "gone") /\ dir' = dir \ {s}
             \/ RecorderGoes(s, {"ended"}, "retry") /\ UNCHANGED dir
             \/ RecorderGoes(s, {"retry"}, "gone") /\ UNCHANGED dir
       \/ Orphan /\ RecorderGoes(s, {"retry"}, "gone") /\ UNCHANGED dir
    /\ UNCHANGED <<link, result, turnVars, storeVars>>

CreateSession(s) ==
    /\ link[s] \in opened
    /\ \/ RecorderGoes(s, {"creating"}, "created") /\ UNCHANGED link
       \/ RecorderGoes(s, {"asked"}, "gone") /\ Hangs(s)
    /\ row' = [row EXCEPT ![s] = "recording"]
    /\ UNCHANGED <<dir, result, torn, listed, turnVars>>

\* The agent starts.
Created(s) ==
    /\ link[s] # None
    /\ RecorderGoes(s, {"created"}, "recording")
    /\ Hangs(s)
    /\ pending' = [pending EXCEPT ![s] = DOMAIN Script]
    /\ UNCHANGED <<dir, result, turns, heard, storeVars>>

\* The request is refused, or its answer does not come.
CreateFails(s) ==
    /\ \/ RecorderGoes(s, {"creating"}, "gone")
       \/ link[s] = None /\ RecorderGoes(s, {"created"}, "gone")
    /\ Hangs(s)
    /\ dir' = dir \ {s}
    /\ UNCHANGED <<result, turnVars, storeVars>>

\* The agent exits.
Record(s) ==
    /\ RecorderGoes(s, {"recording"}, "ended")
    /\ result' = [result EXCEPT ![s] = "finished"]
    /\ UNCHANGED <<link, dir, turnVars, storeVars>>

\* A signal, the end of the terminal, or an error of the recorder's own.
RecordInterrupted(s) ==
    /\ RecorderGoes(s, {"recording"}, "ended")
    /\ result' = [result EXCEPT ![s] = "interrupted"]
    /\ UNCHANGED <<link, dir, turnVars, storeVars>>

\* Nothing is recorded for the session any more.
Deaf(s) ==
    /\ pending' = [pending EXCEPT ![s] = {}]
    /\ heard' = [heard EXCEPT ![s] = 0]

\* Deviation: the row is closed again, without a look at its state.
CloseAgain(s, verdict) ==
    /\ row' = [row EXCEPT ![s] = verdict]
    /\ Deaf(s) /\ UNCHANGED turns

\* finish_agent_session: a row that is closed stays as it is.
Close(s, verdict) ==
    IF row[s] = "recording"
    THEN /\ row' = [row EXCEPT ![s] = verdict]
         /\ turns' = [turns EXCEPT ![s] =
                [t \in DOMAIN @ |-> IF @[t].state = "active"
                                    THEN [@[t] EXCEPT !.state = "interrupted"]
                                    ELSE @[t]]]
         /\ Deaf(s)
    ELSE UNCHANGED <<row, turnVars>>

FinishSession(s) ==
    /\ link[s] \in opened
    /\ \/ RecorderGoes(s, {"finishing"}, "answered") /\ UNCHANGED link
       \/ RecorderGoes(s, {"sent"}, "gone") /\ Hangs(s)
    /\ Close(s, result[s])
    /\ UNCHANGED <<dir, result, torn, listed>>

Finished(s) ==
    /\ link[s] # None
    /\ RecorderGoes(s, {"answered"}, "done")
    /\ Hangs(s)
    /\ UNCHANGED <<dir, result, turnVars, storeVars>>

\* A call whose answer does not come is not repeated.
FinishLost(s) ==
    /\ link[s] = None
    /\ RecorderGoes(s, {"finishing", "answered", "sent", "asked"}, "gone")
    /\ UNCHANGED <<link, dir, result, turnVars, storeVars>>

Exit(s) ==
    /\ RecorderGoes(s, {"done"}, "left")
    /\ UNCHANGED <<link, dir, result, turnVars, storeVars>>

Kill(s) ==
    /\ \/ RecorderGoes(s, {"creating"}, "asked") /\ UNCHANGED link
       \/ RecorderGoes(s, {"finishing"}, "sent") /\ UNCHANGED link
       \/ RecorderGoes(s, Holding \ {"creating", "finishing"}, "gone") /\ Hangs(s)
    /\ UNCHANGED <<dir, result, turnVars, storeVars>>

-----------------------------------------------------------------------------
(* The turns that hooks report. *)

OfId(ts, id) == {t \in DOMAIN ts : ts[t].id = id}
Active(ts) == {t \in DOMAIN ts : ts[t].state = "active"}
Latest(T) == CHOOSE t \in T : \A u \in T : u <= t

\* find_provider_turn, or find_active_turn for an event without an id
Addressed(ts, id) == IF id = Anonymous THEN Active(ts) ELSE OfId(ts, id)
NewTurn(id) == [id |-> id, state |-> "active", tool |-> "none"]

FindOrCreate(ts, id) ==
    IF Addressed(ts, id) = {} THEN Append(ts, NewTurn(id)) ELSE ts

\* Deviation: other turns stay active, a resumed one gets its session's state.
PromptBesideOthers(ts, id) ==
    LET same == IF id = Anonymous THEN {} ELSE OfId(ts, id)
    IN  IF same = {} THEN Append(ts, NewTurn(id))
        ELSE [ts EXCEPT ![Latest(same)].state = "recording"]

\* An active turn of the same provider session ends when the next one begins.
PromptSubmitted(ts, id) ==
    LET cut == [t \in DOMAIN ts |->
                    IF ts[t].state = "active" /\ (id = Anonymous \/ ts[t].id # id)
                    THEN [ts[t] EXCEPT !.state = "interrupted"] ELSE ts[t]]
        same == IF id = Anonymous THEN {} ELSE OfId(ts, id)
    IN  IF same = {} THEN Append(cut, NewTurn(id))
        ELSE [cut EXCEPT ![Latest(same)].state = "active"]

\* ToolStarted, ToolFinished and TurnFinished may come before their turn.
TurnEvent(ts, id, kind) ==
    LET found == FindOrCreate(ts, id)
        t == Latest(Addressed(found, id))
    IN  CASE kind = "tool"    -> [found EXCEPT ![t].tool = "running"]
          [] kind = "toolend" -> [found EXCEPT ![t].tool = "ended"]
          [] kind = "stop"    -> [found EXCEPT ![t].state = "ended"]

RecordEvent(ts, e) ==
    IF e.kind = "prompt" THEN PromptSubmitted(ts, e.id)
                         ELSE TurnEvent(ts, e.id, e.kind)

\* Each hook is a process of its own: an event may come late, or never.  A
\* session that is not recording refuses it, and the hook only logs that.
AgentEvent(s, n) ==
    /\ n \in pending[s] /\ opened # {} /\ row[s] = "recording"
    /\ pending' = [pending EXCEPT ![s] = @ \ {n}]
    /\ turns' = [turns EXCEPT ![s] = RecordEvent(@, Script[n])]
    /\ heard' = [heard EXCEPT ![s] = IF n = @ + 1 THEN n ELSE -1]
    /\ UNCHANGED <<recorderVars, storeVars>>

-----------------------------------------------------------------------------
(* loomd. *)

\* A list, a look-up, a health check or a shutdown reconciles first.
ListRecording(d) ==
    /\ d \in Serving /\ listed[d] = {} /\ Recording # {}
    /\ listed' = [listed EXCEPT ![d] = Recording]
    /\ UNCHANGED <<row, torn, recorderVars, turnVars>>

\* The lock was free: the row is closed even if it changed since it was listed.
Reconcile(d, s) ==
    /\ s \in listed[d] /\ s \in dir /\ ~Locked(s)
    /\ d \in opened \/ pc[d] = "open"
    /\ listed' = [listed EXCEPT ![d] = @ \ {s}]
    /\ Close(s, "released")
    /\ UNCHANGED <<torn, recorderVars>>

\* The recorder lives, or a child of loomd still has a copy of its lock.
LeaveRecording(d, s) ==
    /\ s \in listed[d] /\ s \in dir
    /\ Locked(s) \/ pc[d] # "open"
    /\ listed' = [listed EXCEPT ![d] = @ \ {s}]
    /\ UNCHANGED <<row, torn, recorderVars, turnVars>>

\* The lock file cannot be made: the request fails.
ReconcileFails(d, s) ==
    /\ s \in listed[d] \ dir /\ pc[d] # "open"
    /\ listed' = [listed EXCEPT ![d] = {}]
    /\ UNCHANGED <<row, torn, recorderVars, turnVars>>

DeleteFiles(s) ==
    /\ Serving # {} /\ row[s] \in Terminal /\ s \in dir
    /\ dir' = dir \ {s}
    /\ UNCHANGED <<recorder, link, result, turnVars, storeVars>>

DeleteRow(s) ==
    /\ Serving # {} /\ row[s] \in Terminal /\ s \notin dir
    /\ row' = [row EXCEPT ![s] = "deleted"]
    /\ turns' = [turns EXCEPT ![s] = <<>>]
    /\ UNCHANGED <<torn, listed, pending, heard, recorderVars>>

\* What a loomd that ends leaves: calls without an answer.
CutLinks(d) ==
    /\ link' = [s \in Sessions |-> IF link[s] = d THEN None ELSE link[s]]
    /\ listed' = [listed EXCEPT ![d] = {}]
    /\ UNCHANGED <<recorder, dir, result>>

DaemonAdvances(d) ==
    /\ Advance(d)
    /\ \/ pc'[d] \in Down /\ CutLinks(d)
       \/ /\ pc'[d] = "open"
          /\ listed' = [listed EXCEPT ![d] = Recording]
          /\ UNCHANGED recorderVars
       \/ pc'[d] \notin Down \cup {"open"} /\ UNCHANGED <<listed, recorderVars>>
    /\ UNCHANGED <<row, torn, turnVars>>

DaemonOpens(d) ==
    /\ listed[d] = {}
    /\ OpenStore(d)
    /\ IF pc'[d] = "serve" THEN UNCHANGED <<listed, recorderVars>> ELSE CutLinks(d)
    /\ UNCHANGED <<row, torn, turnVars>>

DaemonOpenFails(d) ==
    /\ listed[d] \ dir # {}
    /\ OpenFails(d) /\ CutLinks(d)
    /\ UNCHANGED <<row, torn, turnVars>>

\* A forced shutdown too may fail to reconcile.
Shutdown(d, force) ==
    /\ Stop(d) /\ ~Orphan
    /\ force \/ Recording = {}
    /\ UNCHANGED sessionVars

\* A signal or a failure of the storage.
Interrupted(d) == Stop(d) /\ UNCHANGED sessionVars

DaemonCrashes(d) ==
    /\ Crash(d) /\ CutLinks(d)
    /\ UNCHANGED <<row, torn, turnVars>>

\* The first of the two statements of finish_agent_session is committed.
CrashInFinish(d, s) ==
    /\ row[s] = "recording"
    /\ \/ /\ link[s] = d /\ d \in opened /\ recorder[s] \in {"finishing", "sent"}
          /\ row' = [row EXCEPT ![s] = result[s]]
       \/ /\ s \in listed[d] \cap dir /\ ~Locked(s)
          /\ row' = [row EXCEPT ![s] = "released"]
    /\ torn' = torn \cup {s}
    /\ Crash(d) /\ CutLinks(d)
    /\ Deaf(s) /\ UNCHANGED turns

RecorderStep(s) ==
    \/ CreateArtifacts(s) \/ CallFails(s) \/ CreateSession(s) \/ Created(s)
    \/ CreateFails(s) \/ Record(s) \/ RecordInterrupted(s) \/ FinishSession(s)
    \/ Finished(s) \/ FinishLost(s) \/ Exit(s)
    \/ \E d \in Daemons : Call(s, d)

ReconcileStep(d) ==
    \/ ListRecording(d)
    \/ \E s \in Sessions :
          Reconcile(d, s) \/ LeaveRecording(d, s) \/ ReconcileFails(d, s)

DaemonStep(d) ==
    \/ Start(d) /\ UNCHANGED sessionVars
    \/ DaemonAdvances(d) \/ DaemonOpens(d) \/ DaemonOpenFails(d)

SessionNext ==
    \/ /\ \/ \E s \in Sessions : \/ RecorderStep(s) \/ Kill(s) \/ DeleteFiles(s)
                                 \/ DeleteRow(s)
                                 \/ \E n \in DOMAIN Script : AgentEvent(s, n)
          \/ \E d \in Daemons : ReconcileStep(d)
       /\ UNCHANGED startupVars
    \/ \E d \in Daemons :
          \/ DaemonStep(d) \/ Interrupted(d) \/ DaemonCrashes(d)
          \/ \E force \in BOOLEAN : Shutdown(d, force)
          \/ \E s \in Sessions : CrashInFinish(d, s)

SessionSpec == SessionInit /\ [][SessionNext]_allVars

\* Clients keep asking, so a loomd is started when there is none, and from some
\* time on no loomd is killed.
SessionFairness ==
    /\ <>[][\A d \in Daemons : ~Crash(d)]_allVars
    /\ \A d \in Daemons :
          /\ WF_allVars(DaemonStep(d))
          /\ WF_allVars(ListRecording(d) /\ UNCHANGED startupVars)
          /\ \A s \in Sessions : SF_allVars(Reconcile(d, s) /\ UNCHANGED startupVars)
    /\ \A s \in Sessions : WF_allVars(RecorderStep(s) /\ UNCHANGED startupVars)

FairSessionSpec == SessionSpec /\ SessionFairness

-----------------------------------------------------------------------------

(***************************************************************************)
(* What a session's row says came from who had the right to say it: loomd  *)
(* calls a session released only when its recorder is gone, and an answer  *)
(* the recorder has got stands, though reconciliation lists a row, tests   *)
(* the lock and closes the row in three steps, and a killed recorder's     *)
(* last request may still be on its way.                                   *)
(***************************************************************************)
RecorderDecides ==
    \A s \in Sessions :
        /\ row[s] = "released" => recorder[s] \in {"gone", "sent"}
        /\ recorder[s] \in {"answered", "done", "left"} =>
              row[s] \in {result[s], "deleted"}

(***************************************************************************)
(* A closed session has no active turn, unless the call that closed it     *)
(* stopped half way; and while events come in order, only the last turn is *)
(* active, with and without the provider's turn ids.                       *)
(***************************************************************************)
TurnsSettle ==
    \A s \in Sessions :
        /\ row[s] \in Terminal /\ s \notin torn => Active(turns[s]) = {}
        /\ row[s] = "recording" /\ heard[s] # -1 =>
              Active(turns[s]) \subseteq {Len(turns[s])}

(***************************************************************************)
(* README.md:212: the daemon reconciles the record of a recorder that      *)
(* exited without finalizing its session, instead of leaving it recording. *)
(***************************************************************************)
ReleasedIsReconciled ==
    \A s \in Sessions :
        (row[s] = "recording" /\ ~Locked(s)) ~> (row[s] # "recording")

=============================================================================
