--------------------------- MODULE OperatorPrograms ----------------------------
(***************************************************************************)
(* Each program that reads output, beside a loomd whose executions write,  *)
(* finish and are pruned meanwhile.                                        *)
(***************************************************************************)
EXTENDS OperatorUi, SessionWatcher, OutputTools

VARIABLE program

vars == <<worldVars, readerVars, uiVars, watchVars, remaining, program>>

Init ==
    /\ WorldInit
    /\ \/ /\ program = "ui" /\ UiStarts
          /\ \E k \in Sessions \cup {None} : UiInit(k)
          /\ NotWatching /\ remaining = MaxBytes
       \/ /\ program = "watch" /\ \E k \in Sessions : WatchStarts(k)
          /\ UiInit(None) /\ remaining = MaxBytes
       \/ /\ program = "tool"
          /\ \E e \in Executions, at \in {"run", "logs", "follow"} : ToolStarts(e, at)
          /\ UiInit(None) /\ NotWatching

InUi(A) == program = "ui" /\ A /\ UNCHANGED <<worldVars, watchVars, remaining, program>>
InWatch(A) == program = "watch" /\ A /\ UNCHANGED <<worldVars, uiVars, remaining, program>>
InTool(A) == program = "tool" /\ A /\ UNCHANGED <<worldVars, uiVars, watchVars, program>>

Next ==
    \/ WorldNext /\ UNCHANGED <<uiVars, watchVars, remaining, program>>
    \/ InUi(UiStep)
    \/ InWatch(WatchStep)
    \/ InTool(ToolStep)

\* The user stops to choose and loomd answers readers again and again.
Fairness ==
    /\ <>[][~(InUi(UserInput) \/ \E e \in Executions : InWatch(WatchInput(e)))]_vars
    /\ WF_vars(InUi(Begin)) /\ WF_vars(InUi(Poll(FALSE))) /\ SF_vars(InUi(UiReads))
    /\ WF_vars(InUi(LoadEnds("subscribe") /\ UNCHANGED uiVars))
    /\ WF_vars(InUi(Subscribe /\ UNCHANGED uiVars))
    /\ WF_vars(InUi(Deliver("idle") /\ UNCHANGED uiVars))
    /\ WF_vars(InUi(StreamEnds /\ sub.pos = len[sub.exec] /\ fate[sub.exec] # "running"))
    /\ WF_vars(InWatch(WatchPoll)) /\ SF_vars(InWatch(WatchReads))
    /\ WF_vars(InWatch(LoadEnds("idle") /\ UNCHANGED watchVars))
    /\ WF_vars(InTool(RunWaits)) /\ WF_vars(InTool(ReadsOn)) /\ WF_vars(InTool(LogPage))
    /\ WF_vars(InTool(Follow))
    /\ WF_vars(InTool(Deliver("follow") /\ UNCHANGED remaining))

Spec == Init /\ [][Next]_vars
FairSpec == Spec /\ Fairness

-----------------------------------------------------------------------------

OperatorTypeOK ==
    /\ OutputTypeOK /\ UiTypeOK /\ WatchTypeOK /\ ToolTypeOK
    /\ program \in {"ui", "watch", "tool"}

(***************************************************************************)
(* A pane never mixes executions and has no hole: it is what one execution *)
(* wrote between some event and the cursor, less what Cap cut off, and if  *)
(* an execution is selected, it is that one.                               *)
(***************************************************************************)
PaneIsSegment ==
    \E e \in IF selected = None THEN Executions ELSE {selected} :
        \E from \in 0 .. cursor : pane = Kept(Chunks(e, from, cursor))

(***************************************************************************)
(* Who is told that this was all has had all of it.                        *)
(***************************************************************************)
CompleteMeansAll ==
    stage = "complete" =>
        /\ fate[selected] \in {"finished", "pruned"}
        /\ pane = Kept(Chunks(selected, 0, len[selected]))

(***************************************************************************)
(* A reader gets to the end of an execution that has finished, unless it   *)
(* turns away from it, is stopped, finds it pruned, or watches a session   *)
(* that somebody deletes.                                                  *)
(***************************************************************************)
PaneCatchesUp ==
    \A e \in Executions :
        (selected = e /\ fate[e] = "finished")
            ~> \/ cursor = len[e]
               \/ selected # e \/ fate[e] = "pruned" \/ stage = "over"
               \/ program = "watch" /\ watched.session \notin sessions
=============================================================================
