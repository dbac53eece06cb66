-------------------------- MODULE AgentSessionsProofs ---------------------------
(***************************************************************************)
(* The safety of recorded sessions for any number of sessions and loomds   *)
(* and any script of hook events.  The daemons of AgentSessions are those  *)
(* of DaemonStartup, so its theorems carry over; RecorderDecides needs to  *)
(* know what the row says at each place of its recorder.                   *)
(***************************************************************************)
EXTENDS AgentSessions, DaemonStartupProofs, SequenceTheorems

TurnRecords ==
    [id : Ids \cup {Anonymous}, state : {"active", "ended", "interrupted"},
     tool : {"none", "running", "ended"}]

CallTypes ==
    /\ recorder \in [Sessions -> Holding \cup Gone]
    /\ row \in [Sessions -> Terminal \cup {"absent", "recording", "deleted"}]
    /\ result \in [Sessions -> Verdicts]

DataTypes ==
    /\ link \in [Sessions -> Daemons \cup {None}]
    /\ dir \subseteq Sessions
    /\ turns \in [Sessions -> Seq(TurnRecords)]
    /\ pending \in [Sessions -> SUBSET (DOMAIN Script)]
    /\ heard \in [Sessions -> -1 .. Len(Script)]
    /\ torn \subseteq Sessions
    /\ listed \in [Daemons -> SUBSET Sessions]

\* What the row says while its recorder is at each of its places.
RowAgrees(s) ==
    /\ recorder[s] \in {"none", "ready", "creating", "asked"} => row[s] = "absent"
    /\ recorder[s] \in {"created", "recording", "ended", "retry"} => row[s] = "recording"
    /\ recorder[s] = "finishing" => row[s] \in {"recording", result[s], "deleted"}
    /\ recorder[s] \in {"answered", "done", "left"} => row[s] \in {result[s], "deleted"}
    /\ row[s] = "released" => recorder[s] \in {"gone", "sent"}

SessionInv == CallTypes /\ DataTypes /\ \A s \in Sessions : RowAgrees(s)

-----------------------------------------------------------------------------
(* The daemons. *)

LEMMA SessionNextStartup == [SessionNext]_allVars => [StartupNext]_startupVars
<1> SUFFICES ASSUME [SessionNext]_allVars PROVE [StartupNext]_startupVars
    OBVIOUS
<1>1. CASE UNCHANGED allVars
    BY <1>1 DEF allVars
<1>2. ASSUME NEW d \in Daemons, DaemonStep(d) PROVE StartupNext
    BY <1>2, Zenon DEF DaemonStep, DaemonAdvances, DaemonOpens, DaemonOpenFails, StartupNext
<1>3. ASSUME NEW d \in Daemons,
             Interrupted(d) \/ DaemonCrashes(d) \/ \E force \in BOOLEAN : Shutdown(d, force)
      PROVE  StartupNext
    BY <1>3, Zenon DEF Interrupted, DaemonCrashes, Shutdown, StartupNext
<1>4. ASSUME NEW d \in Daemons, NEW s \in Sessions, CrashInFinish(d, s) PROVE StartupNext
    BY <1>4, Zenon DEF CrashInFinish, StartupNext
<1>5. QED BY <1>1, <1>2, <1>3, <1>4, Zenon DEF SessionNext

(***************************************************************************)
(* The loomds of AgentSessions do what DaemonStartup lets them do.         *)
(***************************************************************************)
THEOREM SessionsRefineStartup == SessionSpec => StartupSpec
<1>1. SessionInit => StartupInit BY DEF SessionInit
<1>2. QED BY <1>1, SessionNextStartup, PTL DEF SessionSpec, StartupSpec

(***************************************************************************)
(* daemon.rs run, as AgentSessions composes it with recorders and hooks.   *)
(***************************************************************************)
THEOREM SessionsHaveOneDaemon == SessionSpec => []ExclusiveService
BY SessionsRefineStartup, OneDaemonServes, PTL

(***************************************************************************)
(* A loomd that is alone is not refused, also when it opens a store with   *)
(* sessions to reconcile.                                                  *)
(***************************************************************************)
THEOREM SessionsStartFromDebris == SessionSpec => []StartsFromDebris
BY SessionsRefineStartup, DebrisIsHarmless, PTL

-----------------------------------------------------------------------------
(* Turns keep their type, whatever a hook reports. *)

LEMMA SameLength ==
    ASSUME NEW S, NEW ts \in Seq(S), NEW us,
           us = [t \in DOMAIN ts |-> us[t]], \A t \in DOMAIN ts : us[t] \in S
    PROVE  us \in Seq(S)
<1>1. DOMAIN ts = 1 .. Len(ts) /\ Len(ts) \in Nat BY LenProperties
<1>2. us \in [1 .. Len(ts) -> S] BY <1>1
<1>3. QED BY <1>1, <1>2, SeqDef

LEMMA ScriptEvents ==
    ASSUME NEW n \in DOMAIN Script
    PROVE  Script[n].id \in Ids /\ Script[n].kind \in Kinds
<1> DEFINE E == [id : STRING, kind : Kinds]
<1>1. Script \in Seq(E) BY SessionAssumption
<1> HIDE DEF E
<1>2. Script[n] \in E BY <1>1, LenProperties, ElementOfSeq
<1>3. QED BY <1>2, Zenon DEF E, Ids

LEMMA NewTurnType ==
    ASSUME NEW ts \in Seq(TurnRecords), NEW id \in Ids
    PROVE  Append(ts, NewTurn(id)) \in Seq(TurnRecords)
<1>1. NewTurn(id) \in TurnRecords BY DEF NewTurn, TurnRecords
<1>2. QED BY <1>1, AppendProperties

LEMMA RecordEventType ==
    ASSUME NEW ts \in Seq(TurnRecords), NEW n \in DOMAIN Script
    PROVE  RecordEvent(ts, Script[n]) \in Seq(TurnRecords)
<1> DEFINE id == Script[n].id
           kind == Script[n].kind
<1>0. id \in Ids /\ kind \in {"prompt", "tool", "toolend", "stop"}
    BY ScriptEvents DEF Kinds
<1> HIDE DEF id, kind
<1>1. PromptSubmitted(ts, id) \in Seq(TurnRecords)
  <2> DEFINE cut == [t \in DOMAIN ts |->
                        IF ts[t].state = "active" /\ (id = Anonymous \/ ts[t].id # id)
                        THEN [ts[t] EXCEPT !.state = "interrupted"] ELSE ts[t]]
             same == IF id = Anonymous THEN {} ELSE OfId(ts, id)
             last == Latest(same)
             resumed == [cut EXCEPT ![last].state = "active"]
  <2>1. \A t \in DOMAIN ts : ts[t] \in TurnRecords BY ElementOfSeq, LenProperties
  <2>2. \A t \in DOMAIN ts : cut[t] \in TurnRecords BY <2>1, SMT DEF TurnRecords
  <2>3. cut \in Seq(TurnRecords) BY <2>2, SameLength
  <2>4. Append(cut, NewTurn(id)) \in Seq(TurnRecords) BY <1>0, <2>3, NewTurnType
  <2>5. resumed \in Seq(TurnRecords)
    <3>1. \A t \in DOMAIN cut : cut[t] \in TurnRecords BY <2>2
    <3> HIDE DEF cut, last
    <3>2. \A t \in DOMAIN cut : resumed[t] \in TurnRecords BY <3>1, SMT DEF TurnRecords
    <3>3. QED BY <2>3, <3>2, SameLength
  <2>6. PromptSubmitted(ts, id) = IF same = {} THEN Append(cut, NewTurn(id)) ELSE resumed
      BY Zenon DEF PromptSubmitted
  <2>7. QED BY <2>4, <2>5, <2>6, Zenon
<1>2. ASSUME kind # "prompt" PROVE TurnEvent(ts, id, kind) \in Seq(TurnRecords)
  <2> DEFINE found == FindOrCreate(ts, id)
             t == Latest(Addressed(found, id))
  <2>1. found \in Seq(TurnRecords) BY <1>0, NewTurnType, Zenon DEF FindOrCreate
  <2>2. \A u \in DOMAIN found : found[u] \in TurnRecords BY <2>1, ElementOfSeq, LenProperties
  <2> HIDE DEF found, t
  <2>3. \A u \in DOMAIN found :
            /\ [found EXCEPT ![t].tool = "running"][u] \in TurnRecords
            /\ [found EXCEPT ![t].tool = "ended"][u] \in TurnRecords
            /\ [found EXCEPT ![t].state = "ended"][u] \in TurnRecords
      BY <2>2, SMT DEF TurnRecords
  <2>4. /\ [found EXCEPT ![t].tool = "running"] \in Seq(TurnRecords)
        /\ [found EXCEPT ![t].tool = "ended"] \in Seq(TurnRecords)
        /\ [found EXCEPT ![t].state = "ended"] \in Seq(TurnRecords)
      BY <2>1, <2>3, SameLength
  <2>5. QED BY <1>0, <1>2, <2>4, Zenon DEF TurnEvent, found, t
<1>3. QED BY <1>1, <1>2, Zenon DEF RecordEvent, id, kind

-----------------------------------------------------------------------------
(* The recorder and its row. *)

LEMMA SessionInvInit == SessionInit => SessionInv
<1> SUFFICES ASSUME SessionInit PROVE SessionInv
    OBVIOUS
<1>1. <<>> \in Seq(TurnRecords) BY EmptySeq
<1>2. Len(Script) \in Nat BY SessionAssumption, LenProperties
<1>3. CallTypes /\ DataTypes
    BY <1>1, <1>2, SMT DEF SessionInit, CallTypes, DataTypes, Holding, Gone, Verdicts, Terminal
<1>4. ASSUME NEW s \in Sessions PROVE RowAgrees(s)
    BY <1>4, SMT DEF SessionInit, RowAgrees
<1>5. QED BY <1>3, <1>4 DEF SessionInv

\* A step that leaves what a session's recorder, row and verdict are.
SameRow(s) == recorder'[s] = recorder[s] /\ row'[s] = row[s] /\ result'[s] = result[s]

LEMMA OthersAgree ==
    ASSUME SessionInv, NEW s \in Sessions, \A o \in Sessions : o # s => SameRow(o),
           RowAgrees(s)', CallTypes', DataTypes'
    PROVE  SessionInv'
<1>1. ASSUME NEW o \in Sessions PROVE RowAgrees(o)'
  <2>1. CASE o # s
    <3>1. SameRow(o) /\ RowAgrees(o) BY <2>1 DEF SessionInv
    <3>2. QED BY <3>1, Zenon DEF SameRow, RowAgrees
  <2>2. QED BY <2>1
<1>2. QED BY <1>1 DEF SessionInv

LEMMA AllAgree ==
    ASSUME SessionInv, \A o \in Sessions : SameRow(o), CallTypes', DataTypes'
    PROVE  SessionInv'
<1>1. ASSUME NEW o \in Sessions PROVE RowAgrees(o)'
  <2>1. SameRow(o) /\ RowAgrees(o) BY DEF SessionInv
  <2>2. QED BY <2>1, Zenon DEF SameRow, RowAgrees
<1>2. QED BY <1>1 DEF SessionInv

LEMMA LinkType ==
    ASSUME DataTypes, NEW s \in Sessions, UNCHANGED link \/ Hangs(s)
    PROVE  link' \in [Sessions -> Daemons \cup {None}]
<1>1. CASE UNCHANGED link BY <1>1 DEF DataTypes
<1>2. CASE Hangs(s) BY <1>2 DEF Hangs, DataTypes
<1>3. QED BY <1>1, <1>2

\* A row that is closed or left alone keeps the type of its turns.
LEMMA CloseType ==
    ASSUME DataTypes, NEW s \in Sessions, NEW verdict, Close(s, verdict)
    PROVE  /\ turns' \in [Sessions -> Seq(TurnRecords)]
           /\ pending' \in [Sessions -> SUBSET (DOMAIN Script)]
           /\ heard' \in [Sessions -> -1 .. Len(Script)]
<1> DEFINE closed == [t \in DOMAIN turns[s] |->
                        IF turns[s][t].state = "active"
                        THEN [turns[s][t] EXCEPT !.state = "interrupted"]
                        ELSE turns[s][t]]
<1>1. turns[s] \in Seq(TurnRecords) BY DEF DataTypes
<1>2. \A t \in DOMAIN turns[s] : turns[s][t] \in TurnRecords
    BY <1>1, ElementOfSeq, LenProperties
<1>3. \A t \in DOMAIN turns[s] : closed[t] \in TurnRecords BY <1>2, SMT DEF TurnRecords
<1>4. closed \in Seq(TurnRecords) BY <1>1, <1>3, SameLength
<1>5. 0 \in -1 .. Len(Script) BY SessionAssumption, LenProperties
<1>6. CASE row[s] = "recording"
  <2>1. turns' = [turns EXCEPT ![s] = closed] /\ Deaf(s) BY <1>6, Zenon DEF Close
  <2> HIDE DEF closed
  <2>2. turns' \in [Sessions -> Seq(TurnRecords)] BY <1>4, <2>1 DEF DataTypes
  <2>3. pending' \in [Sessions -> SUBSET (DOMAIN Script)] BY <2>1 DEF Deaf, DataTypes
  <2>4. heard' \in [Sessions -> -1 .. Len(Script)] BY <1>5, <2>1 DEF Deaf, DataTypes
  <2>5. QED BY <2>2, <2>3, <2>4
<1>7. CASE row[s] # "recording"
    BY <1>7, Zenon DEF Close, DataTypes, turnVars
<1>8. QED BY <1>6, <1>7

\* What Close does to the row.
LEMMA CloseRow ==
    ASSUME NEW s \in Sessions, NEW verdict, Close(s, verdict)
    PROVE  row' = IF row[s] = "recording" THEN [row EXCEPT ![s] = verdict] ELSE row
BY Zenon DEF Close

\* Nothing is registered yet.
LEMMA CreateArtifactsKeeps ==
    ASSUME SessionInv, NEW s \in Sessions, CreateArtifacts(s)
    PROVE  SessionInv'
<1> USE DEF SessionInv, Holding, Gone, Verdicts, Terminal, recorderVars, turnVars, storeVars
<1>1. CallTypes' BY SMT DEF CallTypes, CreateArtifacts, RecorderGoes
<1>2. DataTypes' BY SMT DEF DataTypes, CreateArtifacts, RecorderGoes
<1>3. \A o \in Sessions : o # s => SameRow(o) BY SMT DEF SameRow, CallTypes, CreateArtifacts, RecorderGoes
<1>4. RowAgrees(s)' BY SMT DEF RowAgrees, CallTypes, CreateArtifacts, RecorderGoes
<1>5. QED BY <1>1, <1>2, <1>3, <1>4, OthersAgree

\* A call is sent.
LEMMA CallKeeps ==
    ASSUME SessionInv, NEW s \in Sessions, NEW d \in Daemons, Call(s, d)
    PROVE  SessionInv'
<1> USE DEF SessionInv, Holding, Gone, Verdicts, Terminal, recorderVars, turnVars, storeVars
<1>1. CallTypes' BY SMT DEF CallTypes, Call, RecorderGoes
<1>2. DataTypes' BY SMT DEF DataTypes, Call, RecorderGoes
<1>3. \A o \in Sessions : o # s => SameRow(o) BY SMT DEF SameRow, CallTypes, Call, RecorderGoes
<1>4. RowAgrees(s)' BY SMT DEF RowAgrees, CallTypes, Call, RecorderGoes
<1>5. QED BY <1>1, <1>2, <1>3, <1>4, OthersAgree

\* A call finds nobody.
LEMMA CallFailsKeeps ==
    ASSUME SessionInv, NEW s \in Sessions, CallFails(s)
    PROVE  SessionInv'
<1> USE DEF SessionInv, Holding, Gone, Verdicts, Terminal, recorderVars, turnVars, storeVars
<1>1. CallTypes' BY SMT DEF CallTypes, CallFails, RecorderGoes
<1>2. DataTypes' BY SMT DEF DataTypes, CallFails, RecorderGoes
<1>3. \A o \in Sessions : o # s => SameRow(o) BY SMT DEF SameRow, CallTypes, CallFails, RecorderGoes
<1>4. RowAgrees(s)' BY SMT DEF RowAgrees, CallTypes, CallFails, RecorderGoes
<1>5. QED BY <1>1, <1>2, <1>3, <1>4, OthersAgree

\* The row appears with its recorder waiting, or gone.
LEMMA CreateSessionKeeps ==
    ASSUME SessionInv, NEW s \in Sessions, CreateSession(s)
    PROVE  SessionInv'
<1> USE DEF SessionInv, Holding, Gone, Verdicts, Terminal, recorderVars, turnVars, storeVars
<1>1. CallTypes' BY SMT DEF CallTypes, CreateSession, RecorderGoes
<1>2. UNCHANGED link \/ Hangs(s) BY Zenon DEF CreateSession
<1>3. link' \in [Sessions -> Daemons \cup {None}] BY <1>2, LinkType
<1>4. DataTypes' BY <1>3, SMT DEF DataTypes, CreateSession
<1>5. \A o \in Sessions : o # s => SameRow(o)
    BY SMT DEF SameRow, CallTypes, CreateSession, RecorderGoes
<1>6. RowAgrees(s)' BY SMT DEF RowAgrees, CallTypes, CreateSession, RecorderGoes
<1>7. QED BY <1>1, <1>4, <1>5, <1>6, OthersAgree

\* The recorder has its row.
LEMMA CreatedKeeps ==
    ASSUME SessionInv, NEW s \in Sessions, Created(s)
    PROVE  SessionInv'
<1> USE DEF SessionInv, Holding, Gone, Verdicts, Terminal, recorderVars, turnVars, storeVars
<1>1. CallTypes' BY SMT DEF CallTypes, Created, Hangs, RecorderGoes
<1>2. DataTypes' BY SMT DEF DataTypes, Created, Hangs, RecorderGoes
<1>3. \A o \in Sessions : o # s => SameRow(o) BY SMT DEF SameRow, CallTypes, Created, Hangs, RecorderGoes
<1>4. RowAgrees(s)' BY SMT DEF RowAgrees, CallTypes, Created, Hangs, RecorderGoes
<1>5. QED BY <1>1, <1>2, <1>3, <1>4, OthersAgree

\* The recorder gives up.
LEMMA CreateFailsKeeps ==
    ASSUME SessionInv, NEW s \in Sessions, CreateFails(s)
    PROVE  SessionInv'
<1> USE DEF SessionInv, Holding, Gone, Verdicts, Terminal, recorderVars, turnVars, storeVars
<1>1. CallTypes' BY SMT DEF CallTypes, CreateFails, Hangs, RecorderGoes
<1>2. DataTypes' BY SMT DEF DataTypes, CreateFails, Hangs, RecorderGoes
<1>3. \A o \in Sessions : o # s => SameRow(o) BY SMT DEF SameRow, CallTypes, CreateFails, Hangs, RecorderGoes
<1>4. RowAgrees(s)' BY SMT DEF RowAgrees, CallTypes, CreateFails, Hangs, RecorderGoes
<1>5. QED BY <1>1, <1>2, <1>3, <1>4, OthersAgree

\* The agent exits, and the row is still open.
LEMMA RecordKeeps ==
    ASSUME SessionInv, NEW s \in Sessions, Record(s)
    PROVE  SessionInv'
<1> USE DEF SessionInv, Holding, Gone, Verdicts, Terminal, recorderVars, turnVars, storeVars
<1>1. CallTypes' BY SMT DEF CallTypes, Record, RecorderGoes
<1>2. DataTypes' BY SMT DEF DataTypes, Record, RecorderGoes
<1>3. \A o \in Sessions : o # s => SameRow(o) BY SMT DEF SameRow, CallTypes, Record, RecorderGoes
<1>4. RowAgrees(s)' BY SMT DEF RowAgrees, CallTypes, Record, RecorderGoes
<1>5. QED BY <1>1, <1>2, <1>3, <1>4, OthersAgree

\* The recording is cut off, and the row is still open.
LEMMA RecordInterruptedKeeps ==
    ASSUME SessionInv, NEW s \in Sessions, RecordInterrupted(s)
    PROVE  SessionInv'
<1> USE DEF SessionInv, Holding, Gone, Verdicts, Terminal, recorderVars, turnVars, storeVars
<1>1. CallTypes' BY SMT DEF CallTypes, RecordInterrupted, RecorderGoes
<1>2. DataTypes' BY SMT DEF DataTypes, RecordInterrupted, RecorderGoes
<1>3. \A o \in Sessions : o # s => SameRow(o) BY SMT DEF SameRow, CallTypes, RecordInterrupted, RecorderGoes
<1>4. RowAgrees(s)' BY SMT DEF RowAgrees, CallTypes, RecordInterrupted, RecorderGoes
<1>5. QED BY <1>1, <1>2, <1>3, <1>4, OthersAgree

\* The row is closed with the recorder's verdict, or was before the answer.
LEMMA FinishSessionKeeps ==
    ASSUME SessionInv, NEW s \in Sessions, FinishSession(s)
    PROVE  SessionInv'
<1> USE DEF SessionInv, Holding, Gone, Verdicts, Terminal, recorderVars, turnVars, storeVars
<1>1. Close(s, result[s]) BY Zenon DEF FinishSession
<1>2. row' = IF row[s] = "recording" THEN [row EXCEPT ![s] = result[s]] ELSE row
    BY <1>1, CloseRow
<1>3. CallTypes' BY <1>2, SMT DEF CallTypes, FinishSession, RecorderGoes
<1>4. DataTypes'
  <2>1. UNCHANGED link \/ Hangs(s) BY Zenon DEF FinishSession
  <2>2. link' \in [Sessions -> Daemons \cup {None}] BY <2>1, LinkType
  <2>3. QED BY <1>1, <2>2, CloseType, SMT DEF DataTypes, FinishSession
<1>5. \A o \in Sessions : o # s => SameRow(o)
    BY <1>2, SMT DEF SameRow, CallTypes, FinishSession, RecorderGoes
<1>6. RowAgrees(s)' BY <1>2, SMT DEF RowAgrees, CallTypes, FinishSession, RecorderGoes
<1>7. QED BY <1>3, <1>4, <1>5, <1>6, OthersAgree

\* The answer arrives.
LEMMA FinishedKeeps ==
    ASSUME SessionInv, NEW s \in Sessions, Finished(s)
    PROVE  SessionInv'
<1> USE DEF SessionInv, Holding, Gone, Verdicts, Terminal, recorderVars, turnVars, storeVars
<1>1. CallTypes' BY SMT DEF CallTypes, Finished, Hangs, RecorderGoes
<1>2. DataTypes' BY SMT DEF DataTypes, Finished, Hangs, RecorderGoes
<1>3. \A o \in Sessions : o # s => SameRow(o) BY SMT DEF SameRow, CallTypes, Finished, Hangs, RecorderGoes
<1>4. RowAgrees(s)' BY SMT DEF RowAgrees, CallTypes, Finished, Hangs, RecorderGoes
<1>5. QED BY <1>1, <1>2, <1>3, <1>4, OthersAgree

\* The answer is lost.
LEMMA FinishLostKeeps ==
    ASSUME SessionInv, NEW s \in Sessions, FinishLost(s)
    PROVE  SessionInv'
<1> USE DEF SessionInv, Holding, Gone, Verdicts, Terminal, recorderVars, turnVars, storeVars
<1>1. CallTypes' BY SMT DEF CallTypes, FinishLost, RecorderGoes
<1>2. DataTypes' BY SMT DEF DataTypes, FinishLost, RecorderGoes
<1>3. \A o \in Sessions : o # s => SameRow(o) BY SMT DEF SameRow, CallTypes, FinishLost, RecorderGoes
<1>4. RowAgrees(s)' BY SMT DEF RowAgrees, CallTypes, FinishLost, RecorderGoes
<1>5. QED BY <1>1, <1>2, <1>3, <1>4, OthersAgree

\* The recorder leaves.
LEMMA ExitKeeps ==
    ASSUME SessionInv, NEW s \in Sessions, Exit(s)
    PROVE  SessionInv'
<1> USE DEF SessionInv, Holding, Gone, Verdicts, Terminal, recorderVars, turnVars, storeVars
<1>1. CallTypes' BY SMT DEF CallTypes, Exit, RecorderGoes
<1>2. DataTypes' BY SMT DEF DataTypes, Exit, RecorderGoes
<1>3. \A o \in Sessions : o # s => SameRow(o) BY SMT DEF SameRow, CallTypes, Exit, RecorderGoes
<1>4. RowAgrees(s)' BY SMT DEF RowAgrees, CallTypes, Exit, RecorderGoes
<1>5. QED BY <1>1, <1>2, <1>3, <1>4, OthersAgree

\* The recorder dies.
LEMMA KillKeeps ==
    ASSUME SessionInv, NEW s \in Sessions, Kill(s)
    PROVE  SessionInv'
<1> USE DEF SessionInv, Holding, Gone, Verdicts, Terminal, recorderVars, turnVars, storeVars
<1>1. CallTypes' BY SMT DEF CallTypes, Kill, RecorderGoes
<1>2. UNCHANGED link \/ Hangs(s) BY Zenon DEF Kill
<1>3. link' \in [Sessions -> Daemons \cup {None}] BY <1>2, LinkType
<1>4. DataTypes' BY <1>3, SMT DEF DataTypes, Kill
<1>5. \A o \in Sessions : o # s => SameRow(o)
    BY SMT DEF SameRow, CallTypes, Kill, RecorderGoes
<1>6. RowAgrees(s)' BY SMT DEF RowAgrees, CallTypes, Kill, RecorderGoes
<1>7. QED BY <1>1, <1>4, <1>5, <1>6, OthersAgree

\* The files of a closed session go.
LEMMA DeleteFilesKeeps ==
    ASSUME SessionInv, NEW s \in Sessions, DeleteFiles(s)
    PROVE  SessionInv'
<1> USE DEF SessionInv, Holding, Gone, Verdicts, Terminal, recorderVars, turnVars, storeVars
<1>1. CallTypes' BY SMT DEF CallTypes, DeleteFiles
<1>2. DataTypes' BY SMT DEF DataTypes, DeleteFiles
<1>3. \A o \in Sessions : o # s => SameRow(o) BY SMT DEF SameRow, CallTypes, DeleteFiles
<1>4. RowAgrees(s)' BY SMT DEF RowAgrees, CallTypes, DeleteFiles
<1>5. QED BY <1>1, <1>2, <1>3, <1>4, OthersAgree

\* A closed row goes, with its turns.
LEMMA DeleteRowKeeps ==
    ASSUME SessionInv, NEW s \in Sessions, DeleteRow(s)
    PROVE  SessionInv'
<1> USE DEF SessionInv, Holding, Gone, Verdicts, Terminal, recorderVars, turnVars, storeVars
<1>1. <<>> \in Seq(TurnRecords) BY EmptySeq
<1>2. CallTypes' BY SMT DEF CallTypes, DeleteRow
<1>3. DataTypes' BY <1>1, SMT DEF DataTypes, DeleteRow
<1>4. \A o \in Sessions : o # s => SameRow(o) BY SMT DEF SameRow, CallTypes, DeleteRow
<1>5. RowAgrees(s)' BY SMT DEF RowAgrees, CallTypes, DeleteRow
<1>6. QED BY <1>2, <1>3, <1>4, <1>5, OthersAgree

\* A hook's event changes turns of an open session.
LEMMA AgentEventKeeps ==
    ASSUME SessionInv, NEW s \in Sessions, NEW n \in DOMAIN Script, AgentEvent(s, n)
    PROVE  SessionInv'
<1> USE DEF SessionInv, Holding, Gone, Verdicts, Terminal, recorderVars, turnVars, storeVars
<1>1. RecordEvent(turns[s], Script[n]) \in Seq(TurnRecords)
    BY RecordEventType DEF DataTypes
<1>2. DOMAIN Script = 1 .. Len(Script) /\ Len(Script) \in Nat
    BY SessionAssumption, LenProperties
<1>3. turns' = [turns EXCEPT ![s] = RecordEvent(turns[s], Script[n])]
    BY Zenon DEF AgentEvent
<1>4. turns' \in [Sessions -> Seq(TurnRecords)] BY <1>1, <1>3 DEF DataTypes
<1>5. heard' \in [Sessions -> -1 .. Len(Script)] BY <1>2, SMT DEF AgentEvent, DataTypes
<1>6. DataTypes' BY <1>4, <1>5, SMT DEF AgentEvent, DataTypes
<1>7. CallTypes' BY SMT DEF AgentEvent, CallTypes
<1>8. \A o \in Sessions : SameRow(o) BY SMT DEF SameRow, AgentEvent
<1>9. QED BY <1>6, <1>7, <1>8, AllAgree

-----------------------------------------------------------------------------
(* loomd. *)

\* A step that only reads rows, and lists those that are open.
LEMMA ListingKeeps ==
    ASSUME SessionInv, UNCHANGED <<row, torn, turnVars, recorderVars>>,
           listed' \in [Daemons -> SUBSET Sessions]
    PROVE  SessionInv'
<1> USE DEF SessionInv, Holding, Gone, Verdicts, Terminal, recorderVars, turnVars, storeVars
<1>1. CallTypes' /\ DataTypes' BY SMT DEF CallTypes, DataTypes
<1>2. \A o \in Sessions : SameRow(o) BY SMT DEF SameRow
<1>3. QED BY <1>1, <1>2, AllAgree

\* Only a recorder that is gone, with an open row, has no lock.
LEMMA ReconcileKeeps ==
    ASSUME SessionInv, NEW d \in Daemons, NEW s \in Sessions, Reconcile(d, s)
    PROVE  SessionInv'
<1> USE DEF SessionInv, Holding, Gone, Verdicts, Terminal, recorderVars, turnVars, storeVars
<1>1. Close(s, "released") BY Zenon DEF Reconcile
<1>2. row' = IF row[s] = "recording" THEN [row EXCEPT ![s] = "released"] ELSE row
    BY <1>1, CloseRow
<1>3. CallTypes' BY <1>2, SMT DEF CallTypes, Reconcile
<1>4. DataTypes' BY <1>1, CloseType, SMT DEF DataTypes, Reconcile
<1>5. \A o \in Sessions : o # s => SameRow(o) BY <1>2, SMT DEF SameRow, CallTypes, Reconcile
<1>6. RowAgrees(s)' BY <1>2, SMT DEF RowAgrees, CallTypes, Reconcile, Locked
<1>7. QED BY <1>3, <1>4, <1>5, <1>6, OthersAgree

LEMMA ReconcileStepKeeps ==
    ASSUME SessionInv, NEW d \in Daemons, ReconcileStep(d)
    PROVE  SessionInv'
<1>0. listed \in [Daemons -> SUBSET Sessions] BY DEF SessionInv, DataTypes
<1>1. CASE ListRecording(d)
  <2>1. listed' \in [Daemons -> SUBSET Sessions] BY <1>0, <1>1 DEF ListRecording, Recording
  <2>2. QED BY <1>1, <2>1, ListingKeeps, Zenon DEF ListRecording
<1>2. ASSUME NEW s \in Sessions, LeaveRecording(d, s) \/ ReconcileFails(d, s)
      PROVE  SessionInv'
  <2>1. listed' \in [Daemons -> SUBSET Sessions]
      BY <1>0, <1>2, SMT DEF LeaveRecording, ReconcileFails
  <2>2. QED BY <1>2, <2>1, ListingKeeps, Zenon DEF LeaveRecording, ReconcileFails
<1>3. QED BY <1>1, <1>2, ReconcileKeeps, Zenon DEF ReconcileStep

\* A loomd that ends leaves calls without an answer, and every row as it was.
LEMMA CutLinksKeeps ==
    ASSUME SessionInv, NEW d \in Daemons, CutLinks(d), UNCHANGED <<row, torn, turnVars>>
    PROVE  SessionInv'
<1> USE DEF SessionInv, Holding, Gone, Verdicts, Terminal, recorderVars, turnVars, storeVars
<1>1. CallTypes' BY SMT DEF CallTypes, CutLinks
<1>2. DataTypes' BY SMT DEF DataTypes, CutLinks
<1>3. \A o \in Sessions : SameRow(o) BY SMT DEF SameRow, CutLinks
<1>4. QED BY <1>1, <1>2, <1>3, AllAgree

LEMMA DaemonStepKeeps ==
    ASSUME SessionInv, NEW d \in Daemons, DaemonStep(d)
    PROVE  SessionInv'
<1>0. listed \in [Daemons -> SUBSET Sessions] BY DEF SessionInv, DataTypes
<1>1. CASE Start(d) /\ UNCHANGED sessionVars
    BY <1>0, <1>1, ListingKeeps, Zenon DEF sessionVars, storeVars
<1>2. CASE DaemonAdvances(d)
  <2>1. UNCHANGED <<row, torn, turnVars>> BY <1>2, Zenon DEF DaemonAdvances
  <2>2. CASE CutLinks(d) BY <2>1, <2>2, CutLinksKeeps
  <2>3. CASE listed' = [listed EXCEPT ![d] = Recording] /\ UNCHANGED recorderVars
    <3>1. listed' \in [Daemons -> SUBSET Sessions] BY <1>0, <2>3 DEF Recording
    <3>2. QED BY <2>1, <2>3, <3>1, ListingKeeps, Zenon
  <2>4. CASE UNCHANGED <<listed, recorderVars>>
      BY <1>0, <2>1, <2>4, ListingKeeps, Zenon
  <2>5. QED BY <1>2, <2>2, <2>3, <2>4, Zenon DEF DaemonAdvances
<1>3. CASE DaemonOpens(d)
  <2>1. UNCHANGED <<row, torn, turnVars>> BY <1>3, Zenon DEF DaemonOpens
  <2>2. CASE CutLinks(d) BY <2>1, <2>2, CutLinksKeeps
  <2>3. CASE UNCHANGED <<listed, recorderVars>>
      BY <1>0, <2>1, <2>3, ListingKeeps, Zenon
  <2>4. QED BY <1>3, <2>2, <2>3, Zenon DEF DaemonOpens
<1>4. CASE DaemonOpenFails(d)
    BY <1>4, CutLinksKeeps, Zenon DEF DaemonOpenFails
<1>5. QED BY <1>1, <1>2, <1>3, <1>4, Zenon DEF DaemonStep

\* The half of a finish that is committed is the one that decides.
LEMMA CrashInFinishKeeps ==
    ASSUME SessionInv, NEW d \in Daemons, NEW s \in Sessions, CrashInFinish(d, s)
    PROVE  SessionInv'
<1> USE DEF SessionInv, Holding, Gone, Verdicts, Terminal, recorderVars, turnVars, storeVars
<1>1. 0 \in -1 .. Len(Script) BY SessionAssumption, LenProperties
<1>2. CutLinks(d) /\ Deaf(s) /\ UNCHANGED turns BY Zenon DEF CrashInFinish
<1>3. CallTypes' BY <1>2, SMT DEF CallTypes, CrashInFinish, CutLinks
<1>4. DataTypes'
  <2>1. pending' \in [Sessions -> SUBSET (DOMAIN Script)] BY <1>2 DEF Deaf, DataTypes
  <2>2. heard' \in [Sessions -> -1 .. Len(Script)] BY <1>1, <1>2 DEF Deaf, DataTypes
  <2>3. torn' \subseteq Sessions BY DEF CrashInFinish, DataTypes
  <2>4. QED BY <1>2, <2>1, <2>2, <2>3, SMT DEF DataTypes, CutLinks
<1>5. \A o \in Sessions : o # s => SameRow(o)
    BY <1>2, SMT DEF SameRow, CallTypes, CrashInFinish, CutLinks
<1>6. RowAgrees(s)' BY <1>2, SMT DEF RowAgrees, CallTypes, CrashInFinish, CutLinks, Locked
<1>7. QED BY <1>3, <1>4, <1>5, <1>6, OthersAgree

LEMMA SessionInvNext == SessionInv /\ [SessionNext]_allVars => SessionInv'
<1> SUFFICES ASSUME SessionInv, [SessionNext]_allVars PROVE SessionInv'
    OBVIOUS
<1>0. listed \in [Daemons -> SUBSET Sessions] BY DEF SessionInv, DataTypes
<1>1. CASE UNCHANGED sessionVars
    BY <1>0, <1>1, ListingKeeps, Zenon DEF sessionVars, storeVars
<1>2. ASSUME NEW s \in Sessions, RecorderStep(s) PROVE SessionInv'
    BY <1>2, CreateArtifactsKeeps, CallKeeps, CallFailsKeeps, CreateSessionKeeps,
       CreatedKeeps, CreateFailsKeeps, RecordKeeps, RecordInterruptedKeeps,
       FinishSessionKeeps, FinishedKeeps, FinishLostKeeps, ExitKeeps, Zenon
    DEF RecorderStep
<1>3. ASSUME NEW s \in Sessions,
             \/ Kill(s) \/ DeleteFiles(s) \/ DeleteRow(s)
             \/ \E n \in DOMAIN Script : AgentEvent(s, n)
      PROVE  SessionInv'
    BY <1>3, KillKeeps, DeleteFilesKeeps, DeleteRowKeeps, AgentEventKeeps, Zenon
<1>4. ASSUME NEW d \in Daemons, DaemonCrashes(d) PROVE SessionInv'
    BY <1>4, CutLinksKeeps, Zenon DEF DaemonCrashes
<1>5. ASSUME NEW d \in Daemons, Interrupted(d) \/ \E force \in BOOLEAN : Shutdown(d, force)
      PROVE  SessionInv'
    BY <1>1, <1>5, Zenon DEF Interrupted, Shutdown
<1>6. CASE UNCHANGED allVars BY <1>1, <1>6, Zenon DEF allVars
<1>7. QED
    BY <1>2, <1>3, <1>4, <1>5, <1>6, ReconcileStepKeeps, DaemonStepKeeps,
       CrashInFinishKeeps, Zenon DEF SessionNext

LEMMA SessionInvHolds == SessionSpec => []SessionInv
BY SessionInvInit, SessionInvNext, PTL DEF SessionSpec

(***************************************************************************)
(* Type correctness, for any script of hook events.                        *)
(***************************************************************************)
THEOREM SessionTypesHold == SessionSpec => []SessionTypeOK
<1>1. StartupInv /\ SessionInv => SessionTypeOK
  <2> SUFFICES ASSUME StartupInv, SessionInv PROVE SessionTypeOK
      OBVIOUS
  <2>1. ASSUME NEW s \in Sessions, NEW t \in DOMAIN turns[s]
        PROVE  turns[s][t] \in TurnRecords
    <3>1. turns[s] \in Seq(TurnRecords) BY DEF SessionInv, DataTypes
    <3>2. QED BY <3>1, ElementOfSeq, LenProperties
  <2>2. QED
      BY <2>1, Zenon DEF SessionTypeOK, StartupInv, SessionInv, CallTypes, DataTypes, TurnRecords
<1>2. QED BY <1>1, SessionInvHolds, StartupIsSafe, SessionsRefineStartup, PTL

(***************************************************************************)
(* loom.rs record_session_with_env against daemon.rs reconcile: a session  *)
(* is released only from a recorder that is gone, and an answer stands.    *)
(***************************************************************************)
THEOREM RecorderHasTheWord == SessionSpec => []RecorderDecides
<1>1. SessionInv => RecorderDecides BY SMT DEF SessionInv, RowAgrees, RecorderDecides
<1>2. QED BY <1>1, SessionInvHolds, PTL

-----------------------------------------------------------------------------
(* The turns of a session. *)

\* A provider's named turn begins with its prompt, its only one; events that
\* name no turn may come in any way.
Orderly ==
    \A n \in DOMAIN Script :
        Script[n].id # Anonymous =>
            (Script[n].kind = "prompt" <=> \A m \in 1 .. n - 1 : Script[m].id # Script[n].id)

\* The turns that a record knows by name, and those its first events name.
Named(ts) == {ts[t].id : t \in DOMAIN ts} \ {Anonymous}
Told(h) == {Script[m].id : m \in 1 .. h} \ {Anonymous}

LastIsActive(ts) == Active(ts) \subseteq {Len(ts)}

TurnsAgree(s) ==
    /\ row[s] = "absent" => turns[s] = <<>> /\ heard[s] = 0
    /\ row[s] \in Terminal /\ s \notin torn => Active(turns[s]) = {}
    /\ Orderly /\ row[s] = "recording" /\ heard[s] # -1 =>
          LastIsActive(turns[s]) /\ Named(turns[s]) = Told(heard[s])

TurnsInv == \A s \in Sessions : TurnsAgree(s)

LEMMA ToldNext ==
    ASSUME NEW n \in DOMAIN Script
    PROVE  Told(n) = Told(n - 1) \cup ({Script[n].id} \ {Anonymous})
<1>1. n \in Nat \ {0} BY SessionAssumption, LenProperties
<1>2. 1 .. n = (1 .. n - 1) \cup {n} BY <1>1, SMT
<1>3. QED BY <1>2 DEF Told

\* A new turn is the last one, so it may be the only one that is active.
LEMMA NewTurnIsLast ==
    ASSUME NEW ts \in Seq(TurnRecords), NEW id \in Ids, Active(ts) = {}
    PROVE  LastIsActive(Append(ts, NewTurn(id)))
<1> DEFINE us == Append(ts, NewTurn(id))
<1>1. /\ Len(us) = Len(ts) + 1 /\ Len(ts) \in Nat
      /\ DOMAIN us = 1 .. Len(us) /\ DOMAIN ts = 1 .. Len(ts)
      /\ \A t \in 1 .. Len(ts) : us[t] = ts[t]
    <2>1. NewTurn(id) \in TurnRecords BY DEF NewTurn, TurnRecords
    <2>2. us \in Seq(TurnRecords) BY NewTurnType
    <2>3. QED BY <2>1, <2>2, AppendProperties, LenProperties
<1> HIDE DEF us
<1>2. ASSUME NEW t \in Active(us) PROVE t = Len(us)
  <2>1. t \in 1 .. Len(us) /\ us[t].state = "active" BY <1>1, <1>2 DEF Active
  <2>2. CASE t \in 1 .. Len(ts) BY <1>1, <2>1, <2>2, SMT DEF Active
  <2>3. QED BY <1>1, <2>1, <2>2, SMT
<1>3. QED BY <1>2 DEF LastIsActive, us

LEMMA NewTurnIsNamed ==
    ASSUME NEW ts \in Seq(TurnRecords), NEW id \in Ids
    PROVE  Named(Append(ts, NewTurn(id))) = Named(ts) \cup ({id} \ {Anonymous})
<1> DEFINE us == Append(ts, NewTurn(id))
<1>1. /\ Len(us) = Len(ts) + 1 /\ Len(ts) \in Nat
      /\ DOMAIN us = 1 .. Len(us) /\ DOMAIN ts = 1 .. Len(ts)
      /\ \A t \in 1 .. Len(ts) : us[t] = ts[t]
      /\ us[Len(us)] = NewTurn(id)
    <2>1. NewTurn(id) \in TurnRecords BY DEF NewTurn, TurnRecords
    <2>2. us \in Seq(TurnRecords) BY NewTurnType
    <2>3. QED BY <2>1, <2>2, AppendProperties, LenProperties
<1>2. NewTurn(id).id = id BY DEF NewTurn
<1> HIDE DEF us
<1>3. DOMAIN us = DOMAIN ts \cup {Len(us)} BY <1>1, SMT
<1>4. {us[t].id : t \in DOMAIN us} = {ts[t].id : t \in DOMAIN ts} \cup {id}
    BY <1>1, <1>2, <1>3
<1>5. QED BY <1>4 DEF Named, us

\* A change of a turn that makes none active and renames none.
LEMMA SameTurns ==
    ASSUME NEW ts \in Seq(TurnRecords), NEW us \in Seq(TurnRecords),
           DOMAIN us = DOMAIN ts,
           \A t \in DOMAIN ts : us[t].id = ts[t].id /\ (us[t].state = "active" => ts[t].state = "active")
    PROVE  /\ Len(us) = Len(ts) /\ Named(us) = Named(ts)
           /\ Active(us) \subseteq Active(ts)
<1>0. Len(us) \in Nat /\ Len(ts) \in Nat BY LenProperties
<1>1. DOMAIN us = 1 .. Len(us) /\ DOMAIN ts = 1 .. Len(ts) BY LenProperties
<1>2. Len(us) = Len(ts)
  <2>1. \A k \in Nat : k \in 1 .. Len(us) <=> k \in 1 .. Len(ts) BY <1>1
  <2>2. Len(us) <= Len(ts) BY <1>0, <2>1, SMT
  <2>3. Len(ts) <= Len(us) BY <1>0, <2>1, SMT
  <2>4. QED BY <1>0, <2>2, <2>3, SMT
<1>3. QED BY <1>2 DEF Named, Active

\* A prompt ends the turns before it.
LEMMA PromptInOrder ==
    ASSUME NEW n \in DOMAIN Script, NEW ts \in Seq(TurnRecords), NEW id \in Ids,
           id # Anonymous => id \notin Named(ts)
    PROVE  /\ LastIsActive(PromptSubmitted(ts, id))
           /\ Named(PromptSubmitted(ts, id)) = Named(ts) \cup ({id} \ {Anonymous})
<1> DEFINE cut == [t \in DOMAIN ts |->
                      IF ts[t].state = "active" /\ (id = Anonymous \/ ts[t].id # id)
                      THEN [ts[t] EXCEPT !.state = "interrupted"] ELSE ts[t]]
           same == IF id = Anonymous THEN {} ELSE OfId(ts, id)
           last == Latest(same)
<1>1. PromptSubmitted(ts, id) =
          IF same = {} THEN Append(cut, NewTurn(id)) ELSE [cut EXCEPT ![last].state = "active"]
    BY Zenon DEF PromptSubmitted
<1>2. \A t \in DOMAIN ts : ts[t] \in TurnRecords BY ElementOfSeq, LenProperties
<1>3. ASSUME id # Anonymous PROVE OfId(ts, id) = {}
  <2>1. \A t \in DOMAIN ts : ts[t].id # id BY <1>3 DEF Named
  <2>2. QED BY <2>1 DEF OfId
<1>4. same = {} BY <1>3
<1>5. \A t \in DOMAIN ts :
          /\ cut[t] \in TurnRecords /\ cut[t].id = ts[t].id
          /\ cut[t].state = "active" => ts[t].state = "active" /\ ts[t].id = id /\ id # Anonymous
    BY <1>2, SMT DEF TurnRecords
<1>6. DOMAIN cut = DOMAIN ts /\ cut = [t \in DOMAIN ts |-> cut[t]] OBVIOUS
<1> HIDE DEF cut, same, last
<1>7. cut \in Seq(TurnRecords) BY <1>5, <1>6, SameLength
<1>8. Named(cut) = Named(ts) BY <1>5, <1>6, <1>7, SameTurns, Zenon
<1>9. Active(cut) = {}
  <2>1. ASSUME NEW t \in DOMAIN ts, cut[t].state = "active" PROVE FALSE
    <3>1. ts[t].id = id /\ id # Anonymous BY <1>5, <2>1, Zenon
    <3>2. t \in OfId(ts, id) BY <3>1, Zenon DEF OfId
    <3>3. QED BY <1>3, <3>1, <3>2
  <2>2. QED BY <1>6, <2>1, Zenon DEF Active
<1>10. PromptSubmitted(ts, id) = Append(cut, NewTurn(id)) BY <1>1, <1>4, Zenon
<1>11. LastIsActive(Append(cut, NewTurn(id))) BY <1>7, <1>9, NewTurnIsLast
<1>12. Named(Append(cut, NewTurn(id))) = Named(cut) \cup ({id} \ {Anonymous})
    BY <1>7, NewTurnIsNamed
<1>13. QED BY <1>8, <1>10, <1>11, <1>12

\* Another event finds its turn, or makes it if none is active.
LEMMA FoundInOrder ==
    ASSUME NEW n \in DOMAIN Script, NEW ts \in Seq(TurnRecords), NEW id \in Ids,
           LastIsActive(ts), id # Anonymous => id \in Named(ts)
    PROVE  /\ LastIsActive(FindOrCreate(ts, id))
           /\ Named(FindOrCreate(ts, id)) = Named(ts) \cup ({id} \ {Anonymous})
<1>1. CASE Addressed(ts, id) = {}
  <2>1. ASSUME id # Anonymous PROVE FALSE
    <3>1. PICK t \in DOMAIN ts : ts[t].id = id BY <2>1 DEF Named
    <3>2. QED BY <1>1, <2>1, <3>1 DEF Addressed, OfId
  <2>2. Active(ts) = {} BY <1>1, <2>1 DEF Addressed
  <2>3. QED BY <1>1, <2>2, NewTurnIsLast, NewTurnIsNamed, Zenon DEF FindOrCreate
<1>2. CASE Addressed(ts, id) # {}
  <2>1. FindOrCreate(ts, id) = ts BY <1>2 DEF FindOrCreate
  <2>2. Named(ts) = Named(ts) \cup ({id} \ {Anonymous}) OBVIOUS
  <2>3. QED BY <2>1, <2>2, Zenon
<1>3. QED BY <1>1, <1>2

LEMMA EventInOrder ==
    ASSUME Orderly, NEW n \in DOMAIN Script, NEW ts \in Seq(TurnRecords),
           LastIsActive(ts), Named(ts) = Told(n - 1)
    PROVE  /\ LastIsActive(RecordEvent(ts, Script[n]))
           /\ Named(RecordEvent(ts, Script[n])) = Told(n)
<1> DEFINE id == Script[n].id
           kind == Script[n].kind
<1>0. id \in Ids /\ kind \in {"prompt", "tool", "toolend", "stop"}
    BY ScriptEvents DEF Kinds
<1>1. ASSUME id # Anonymous PROVE kind = "prompt" <=> id \notin Named(ts)
  <2>1. id \in Told(n - 1) <=> \E m \in 1 .. n - 1 : Script[m].id = id BY <1>1 DEF Told
  <2>2. QED BY <1>1, <2>1, Zenon DEF Orderly
<1>2. Told(n) = Named(ts) \cup ({id} \ {Anonymous}) BY ToldNext, Zenon
<1> HIDE DEF id, kind
<1>3. CASE kind = "prompt"
  <2>1. RecordEvent(ts, Script[n]) = PromptSubmitted(ts, id)
      BY <1>3, Zenon DEF RecordEvent, id, kind
  <2>2. QED BY <1>0, <1>1, <1>2, <1>3, <2>1, PromptInOrder, Zenon
<1>4. CASE kind # "prompt"
  <2> DEFINE found == FindOrCreate(ts, id)
             t == Latest(Addressed(found, id))
             us == RecordEvent(ts, Script[n])
  <2>1. LastIsActive(found) /\ Named(found) = Told(n)
      BY <1>0, <1>1, <1>2, <1>4, FoundInOrder, Zenon
  <2>2. found \in Seq(TurnRecords) BY <1>0, NewTurnType, Zenon DEF FindOrCreate
  <2>3. us \in Seq(TurnRecords) BY RecordEventType
  <2>4. us = TurnEvent(ts, id, kind) BY <1>4, Zenon DEF RecordEvent, id, kind
  <2>5. \A u \in DOMAIN found : found[u] \in TurnRecords BY <2>2, ElementOfSeq, LenProperties
  <2> HIDE DEF found, t, us
  <2>6. \/ us = [found EXCEPT ![t].tool = "running"]
        \/ us = [found EXCEPT ![t].tool = "ended"]
        \/ us = [found EXCEPT ![t].state = "ended"]
      BY <1>0, <1>4, <2>4, Zenon DEF TurnEvent, found, t
  <2>7. DOMAIN us = DOMAIN found BY <2>6
  <2>8. \A u \in DOMAIN found :
            /\ us[u].id = found[u].id
            /\ us[u].state = "active" => found[u].state = "active"
      BY <2>5, <2>6, SMT DEF TurnRecords
  <2>9. Len(us) = Len(found) /\ Named(us) = Named(found) /\ Active(us) \subseteq Active(found)
      BY <2>2, <2>3, <2>7, <2>8, SameTurns, Zenon
  <2>10. LastIsActive(us) /\ Named(us) = Told(n)
      BY <2>1, <2>9 DEF LastIsActive
  <2>11. QED BY <2>10 DEF us
<1>5. QED BY <1>3, <1>4

LEMMA TurnsInvInit == SessionInit => TurnsInv
BY SMT DEF SessionInit, TurnsInv, TurnsAgree, Terminal, Verdicts

\* A step that leaves a session's row, and what is said of its turns.
SameTurnsOf(s) ==
    /\ row'[s] = row[s] /\ turns'[s] = turns[s] /\ heard'[s] = heard[s]
    /\ s \in torn => s \in torn'

LEMMA OthersTurns ==
    ASSUME TurnsInv, NEW s \in Sessions, \A o \in Sessions : o # s => SameTurnsOf(o),
           TurnsAgree(s)'
    PROVE  TurnsInv'
<1>1. ASSUME NEW o \in Sessions PROVE TurnsAgree(o)'
  <2>1. CASE o # s
    <3>1. SameTurnsOf(o) /\ TurnsAgree(o) BY <2>1 DEF TurnsInv
    <3>2. QED BY <3>1, Zenon DEF SameTurnsOf, TurnsAgree
  <2>2. QED BY <2>1
<1>2. QED BY <1>1 DEF TurnsInv

LEMMA AllTurns ==
    ASSUME TurnsInv, \A o \in Sessions : SameTurnsOf(o)
    PROVE  TurnsInv'
<1>1. ASSUME NEW o \in Sessions PROVE TurnsAgree(o)'
  <2>1. SameTurnsOf(o) /\ TurnsAgree(o) BY DEF TurnsInv
  <2>2. QED BY <2>1, Zenon DEF SameTurnsOf, TurnsAgree
<1>2. QED BY <1>1 DEF TurnsInv

LEMMA RowsAlone ==
    ASSUME TurnsInv, UNCHANGED <<row, torn, turns, heard>>
    PROVE  TurnsInv'
<1>1. \A o \in Sessions : SameTurnsOf(o) BY DEF SameTurnsOf
<1>2. QED BY <1>1, AllTurns

\* Closing an open row ends its turns; a closed one is left alone.
LEMMA CloseSettles ==
    ASSUME SessionInv, TurnsInv, NEW s \in Sessions, NEW verdict \in Terminal,
           Close(s, verdict), UNCHANGED torn
    PROVE  TurnsInv'
<1> DEFINE closed == [t \in DOMAIN turns[s] |->
                        IF turns[s][t].state = "active"
                        THEN [turns[s][t] EXCEPT !.state = "interrupted"]
                        ELSE turns[s][t]]
<1>0. /\ turns \in [Sessions -> Seq(TurnRecords)]
      /\ row \in [Sessions -> Terminal \cup {"absent", "recording", "deleted"}]
      /\ heard \in [Sessions -> -1 .. Len(Script)]
    BY DEF SessionInv, DataTypes, CallTypes
<1>1. CASE row[s] # "recording"
    BY <1>1, RowsAlone, Zenon DEF Close, turnVars
<1>2. CASE row[s] = "recording"
  <2>1. /\ turns' = [turns EXCEPT ![s] = closed] /\ row' = [row EXCEPT ![s] = verdict]
        /\ heard' = [heard EXCEPT ![s] = 0]
      BY <1>2, Zenon DEF Close, Deaf
  <2>2. \A t \in DOMAIN turns[s] : turns[s][t] \in TurnRecords
      BY <1>0, ElementOfSeq, LenProperties
  <2>3. \A t \in DOMAIN closed : closed[t].state # "active" BY <2>2, SMT DEF TurnRecords
  <2>4. Active(closed) = {} BY <2>3 DEF Active
  <2> HIDE DEF closed
  <2>5. row'[s] = verdict /\ turns'[s] = closed BY <1>0, <2>1
  <2>6. TurnsAgree(s)' BY <2>4, <2>5, SMT DEF TurnsAgree, Terminal, Verdicts
  <2>7. \A o \in Sessions : o # s => SameTurnsOf(o) BY <1>0, <2>1 DEF SameTurnsOf
  <2>8. QED BY <2>6, <2>7, OthersTurns
<1>3. QED BY <1>1, <1>2

\* A row appears without turns.
LEMMA CreateSettles ==
    ASSUME SessionInv, TurnsInv, NEW s \in Sessions, CreateSession(s)
    PROVE  TurnsInv'
<1>0. row \in [Sessions -> Terminal \cup {"absent", "recording", "deleted"}]
    BY DEF SessionInv, CallTypes
<1>1. row' = [row EXCEPT ![s] = "recording"] /\ UNCHANGED <<torn, turns, heard>>
    BY Zenon DEF CreateSession, turnVars
<1>2. recorder[s] \in {"creating", "asked"} BY DEF CreateSession, RecorderGoes
<1>3. row[s] = "absent" BY <1>2 DEF SessionInv, RowAgrees
<1>4. turns[s] = <<>> /\ heard[s] = 0 BY <1>3 DEF TurnsInv, TurnsAgree
<1>5. LastIsActive(<<>>) /\ Named(<<>>) = {} BY DEF LastIsActive, Active, Named
<1>6. Told(0) = {}
  <2>1. 1 .. 0 = {} BY SMT
  <2>2. QED BY <2>1 DEF Told
<1>7. row'[s] = "recording" /\ turns'[s] = <<>> /\ heard'[s] = 0 BY <1>0, <1>1, <1>4
<1>8. TurnsAgree(s)' BY <1>5, <1>6, <1>7, Zenon DEF TurnsAgree, Terminal, Verdicts
<1>9. \A o \in Sessions : o # s => SameTurnsOf(o) BY <1>0, <1>1 DEF SameTurnsOf
<1>10. QED BY <1>8, <1>9, OthersTurns

\* A row goes with its turns.
LEMMA DeleteSettles ==
    ASSUME SessionInv, TurnsInv, NEW s \in Sessions, DeleteRow(s)
    PROVE  TurnsInv'
<1>0. /\ turns \in [Sessions -> Seq(TurnRecords)]
      /\ row \in [Sessions -> Terminal \cup {"absent", "recording", "deleted"}]
    BY DEF SessionInv, DataTypes, CallTypes
<1>1. /\ row' = [row EXCEPT ![s] = "deleted"] /\ turns' = [turns EXCEPT ![s] = <<>>]
      /\ UNCHANGED <<torn, heard>>
    BY Zenon DEF DeleteRow
<1>2. row'[s] = "deleted" BY <1>0, <1>1
<1>3. TurnsAgree(s)' BY <1>2, SMT DEF TurnsAgree, Terminal, Verdicts
<1>4. \A o \in Sessions : o # s => SameTurnsOf(o) BY <1>0, <1>1 DEF SameTurnsOf
<1>5. QED BY <1>3, <1>4, OthersTurns

\* An event finds its session recording; one out of order is not followed.
LEMMA AgentEventSettles ==
    ASSUME SessionInv, TurnsInv, NEW s \in Sessions, NEW n \in DOMAIN Script, AgentEvent(s, n)
    PROVE  TurnsInv'
<1>0. /\ turns \in [Sessions -> Seq(TurnRecords)]
      /\ row \in [Sessions -> Terminal \cup {"absent", "recording", "deleted"}]
      /\ heard \in [Sessions -> -1 .. Len(Script)]
    BY DEF SessionInv, DataTypes, CallTypes
<1>1. /\ turns' = [turns EXCEPT ![s] = RecordEvent(turns[s], Script[n])]
      /\ heard' = [heard EXCEPT ![s] = IF n = heard[s] + 1 THEN n ELSE -1]
      /\ row[s] = "recording" /\ UNCHANGED <<row, torn>>
    BY Zenon DEF AgentEvent, storeVars
<1>2. /\ turns'[s] = RecordEvent(turns[s], Script[n])
      /\ heard'[s] = IF n = heard[s] + 1 THEN n ELSE -1
      /\ row'[s] = "recording"
    BY <1>0, <1>1
<1>3. n \in Nat \ {0} /\ Len(Script) \in Nat BY SessionAssumption, LenProperties
<1>4. heard[s] \in -1 .. Len(Script) BY <1>0
<1>5. ASSUME Orderly, heard'[s] # -1
      PROVE  LastIsActive(turns'[s]) /\ Named(turns'[s]) = Told(heard'[s])
  <2>1. heard'[s] = n /\ heard[s] = n - 1 /\ heard[s] # -1
      BY <1>2, <1>3, <1>4, <1>5, SMT
  <2>2. LastIsActive(turns[s]) /\ Named(turns[s]) = Told(n - 1)
      BY <1>1, <1>5, <2>1, Zenon DEF TurnsInv, TurnsAgree
  <2>3. turns[s] \in Seq(TurnRecords) BY <1>0
  <2>4. QED BY <1>2, <1>5, <2>1, <2>2, <2>3, EventInOrder, Zenon
<1>6. TurnsAgree(s)' BY <1>2, <1>5, Zenon DEF TurnsAgree, Terminal, Verdicts
<1>7. \A o \in Sessions : o # s => SameTurnsOf(o) BY <1>0, <1>1 DEF SameTurnsOf
<1>8. QED BY <1>6, <1>7, OthersTurns

\* A finish that stops half way is remembered, its turns are not looked at.
LEMMA CrashInFinishSettles ==
    ASSUME SessionInv, TurnsInv, NEW d \in Daemons, NEW s \in Sessions, CrashInFinish(d, s)
    PROVE  TurnsInv'
<1>0. /\ row \in [Sessions -> Terminal \cup {"absent", "recording", "deleted"}]
      /\ heard \in [Sessions -> -1 .. Len(Script)]
      /\ result \in [Sessions -> Verdicts]
    BY DEF SessionInv, DataTypes, CallTypes
<1>1. /\ row' = [row EXCEPT ![s] = result[s]] \/ row' = [row EXCEPT ![s] = "released"]
      /\ torn' = torn \cup {s} /\ heard' = [heard EXCEPT ![s] = 0] /\ UNCHANGED turns
    BY Zenon DEF CrashInFinish, Deaf
<1>2. s \in torn' /\ row'[s] \in Terminal BY <1>0, <1>1 DEF Terminal
<1>3. TurnsAgree(s)' BY <1>2, SMT DEF TurnsAgree, Terminal, Verdicts
<1>4. \A o \in Sessions : o # s => SameTurnsOf(o) BY <1>0, <1>1, SMT DEF SameTurnsOf
<1>5. QED BY <1>3, <1>4, OthersTurns

LEMMA TurnsInvNext == SessionInv /\ TurnsInv /\ [SessionNext]_allVars => TurnsInv'
<1> SUFFICES ASSUME SessionInv, TurnsInv, [SessionNext]_allVars PROVE TurnsInv'
    OBVIOUS
<1> USE DEF storeVars, turnVars
<1>1. ASSUME NEW s \in Sessions, RecorderStep(s) PROVE TurnsInv'
  <2>1. CASE CreateSession(s) BY <2>1, CreateSettles
  <2>2. CASE FinishSession(s)
    <3>1. result[s] \in Terminal BY DEF SessionInv, CallTypes, Terminal
    <3>2. QED BY <2>2, <3>1, CloseSettles, Zenon DEF FinishSession
  <2>3. CASE CreateArtifacts(s) \/ CallFails(s)
      BY <2>3, RowsAlone, Zenon DEF CreateArtifacts, CallFails
  <2>4. CASE Created(s) \/ CreateFails(s) \/ Record(s) \/ RecordInterrupted(s)
      BY <2>4, RowsAlone, Zenon DEF Created, CreateFails, Record, RecordInterrupted
  <2>5. CASE Finished(s) \/ FinishLost(s) \/ Exit(s)
      BY <2>5, RowsAlone, Zenon DEF Finished, FinishLost, Exit
  <2>6. ASSUME NEW d \in Daemons, Call(s, d) PROVE TurnsInv'
      BY <2>6, RowsAlone, Zenon DEF Call
  <2>7. QED BY <1>1, <2>1, <2>2, <2>3, <2>4, <2>5, <2>6, Zenon DEF RecorderStep
<1>2. ASSUME NEW s \in Sessions, Kill(s) \/ DeleteFiles(s) PROVE TurnsInv'
    BY <1>2, RowsAlone, Zenon DEF Kill, DeleteFiles
<1>3. ASSUME NEW d \in Daemons, ReconcileStep(d) PROVE TurnsInv'
  <2>1. ASSUME NEW s \in Sessions, Reconcile(d, s) PROVE TurnsInv'
      BY <2>1, CloseSettles, Zenon DEF Reconcile, Terminal
  <2>2. ASSUME NEW s \in Sessions, LeaveRecording(d, s) \/ ReconcileFails(d, s)
        PROVE  TurnsInv'
      BY <2>2, RowsAlone, Zenon DEF LeaveRecording, ReconcileFails
  <2>3. CASE ListRecording(d) BY <2>3, RowsAlone, Zenon DEF ListRecording
  <2>4. QED BY <1>3, <2>1, <2>2, <2>3, Zenon DEF ReconcileStep
<1>4. CASE UNCHANGED sessionVars BY <1>4, RowsAlone, Zenon DEF sessionVars
<1>5. ASSUME NEW d \in Daemons, DaemonStep(d) PROVE TurnsInv'
    BY <1>4, <1>5, RowsAlone, Zenon
    DEF DaemonStep, DaemonAdvances, DaemonOpens, DaemonOpenFails
<1>6. ASSUME NEW d \in Daemons, Interrupted(d) \/ DaemonCrashes(d) PROVE TurnsInv'
    BY <1>4, <1>6, RowsAlone, Zenon DEF Interrupted, DaemonCrashes
<1>7. ASSUME NEW d \in Daemons, NEW force \in BOOLEAN, Shutdown(d, force) PROVE TurnsInv'
    BY <1>4, <1>7, Zenon DEF Shutdown
<1>8. CASE UNCHANGED allVars BY <1>4, <1>8, Zenon DEF allVars
<1>9. QED
    BY <1>1, <1>2, <1>3, <1>5, <1>6, <1>7, <1>8, DeleteSettles, AgentEventSettles,
       CrashInFinishSettles, Zenon DEF SessionNext

(***************************************************************************)
(* store.rs finish_agent_session and record_agent_event, for a provider    *)
(* whose named turns begin with their prompt, each a new one: its events   *)
(* leave at most the last turn active while they come in order, and a      *)
(* session closed by whoever finishes or reconciles it has none.           *)
(***************************************************************************)
THEOREM TurnsAreSettled == ASSUME Orderly PROVE SessionSpec => []TurnsSettle
<1>1. TurnsInv => TurnsSettle
    BY Zenon DEF TurnsInv, TurnsAgree, TurnsSettle, LastIsActive
<1>2. SessionSpec => []TurnsInv
    BY SessionInvHolds, TurnsInvInit, TurnsInvNext, PTL DEF SessionSpec
<1>3. QED BY <1>1, <1>2, PTL

ClosedIsSettled ==
    \A s \in Sessions : row[s] \in Terminal /\ s \notin torn => Active(turns[s]) = {}

(***************************************************************************)
(* What does not depend on the provider: in whatever order hooks report    *)
(* whatever turns, a session whose closing was not cut in half leaves none *)
(* of them active, and late hooks do not start one.                        *)
(***************************************************************************)
THEOREM ClosedTurnsEnd == SessionSpec => []ClosedIsSettled
<1>1. TurnsInv => ClosedIsSettled BY Zenon DEF TurnsInv, TurnsAgree, ClosedIsSettled
<1>2. QED BY <1>1, SessionInvHolds, TurnsInvInit, TurnsInvNext, PTL DEF SessionSpec
================================================================================
