------------------------------ MODULE OperatorUi -------------------------------
(***************************************************************************)
(* loom ui (ui.rs, and loom.rs operator_ui around it): lists of sessions   *)
(* and executions refreshed by polling, a selection in each, and a pane    *)
(* with the output of the selected execution, read page by page and then   *)
(* by subscription.  Keys, the mouse, the subscription and the poll are    *)
(* taken one at a time, each to the end of what it sets off.  A query is   *)
(* the set of what it matches; scrolling and focus are left out, and the   *)
(* dialogs are one, as they only stand between keys and the lists.         *)
(***************************************************************************)
EXTENDS OutputReader

CONSTANT Queries  \* what a query may match

ASSUME QueryAssumption ==
    /\ Queries \subseteq SUBSET (Executions \cup Sessions)
    /\ Executions \cap Sessions = {}

VARIABLES
    chosen,   \* the session selected, or None for all work
    listed,   \* executions and sessions at the last refresh
    detail,   \* executions of the chosen session at the last refresh, or None
    shown,    \* what the query matches
    editing,  \* the query is being typed
    dialog    \* a dialog has the keys

uiVars == <<chosen, listed, detail, shown, editing, dialog>>

Everything == Executions \cup Sessions

UiTypeOK ==
    /\ chosen \in Sessions \cup {None}
    /\ listed \subseteq Everything
    /\ detail = None \/ detail \subseteq Executions
    /\ shown \in Queries \cup {Everything}
    /\ editing \in BOOLEAN /\ dialog \in BOOLEAN

\* A new OperatorState, for the session to select.
UiInit(k) ==
    /\ chosen = k /\ listed = {} /\ detail = None /\ shown = Everything
    /\ editing = FALSE /\ dialog = FALSE

UiStarts ==
    /\ selected = None /\ pane = <<>> /\ cursor = 0 /\ sub = None
    /\ stage = "start"

Scoped == IF detail = None THEN listed \cap Executions ELSE detail
Visible == shown \cap Scoped

\* ensure_execution_selection: what is not visible gives way to the newest.
EnsureFrom(current) ==
    /\ selected' = IF current \in Visible' THEN current ELSE Newest(Visible')
    /\ IF selected' # current THEN ResetOutput ELSE UNCHANGED <<pane, cursor>>

\* Deviation: a subscription is kept whatever it is to.
SyncAny ==
    IF sub # None \/ selected' = None
    THEN UNCHANGED <<sub, stage>>
    ELSE sub' = None /\ stage' = "load"

\* sync_subscription, by the execution's id
Sync ==
    IF selected' = IF sub = None THEN None ELSE sub.exec
    THEN UNCHANGED <<sub, stage>>
    ELSE sub' = None /\ stage' = "load"

\* What refresh fetches; a session that is gone is no longer selected.
Fetch(k) ==
    /\ chosen' = IF k \in sessions THEN k ELSE None
    /\ listed' = Stored \cup sessions
    /\ detail' = IF chosen' = None THEN None ELSE InSession(chosen')
    /\ UNCHANGED <<shown, editing, dialog>>

Begin ==
    /\ stage = "start" /\ stage' = "load"
    /\ Fetch(chosen) /\ EnsureFrom(None)
    /\ UNCHANGED sub

\* The keys go over what is visible, the mouse hits what is drawn.
SelectSession(k) ==
    /\ stage = "idle" /\ k # chosen /\ k \in {None} \cup (listed \cap shown \cap Sessions)
    /\ Fetch(k)
    /\ selected' = Newest(Visible') /\ ResetOutput
    /\ Sync

SelectExecution(e) ==
    /\ stage = "idle" /\ e # selected /\ e \in Visible
    /\ selected' = e /\ ResetOutput
    /\ Sync
    /\ UNCHANGED uiVars

RefreshKey ==
    /\ stage = "idle" /\ ~editing
    /\ Fetch(chosen) /\ EnsureFrom(selected)
    /\ Sync

\* A key for the open dialog; the cancel of one goes to the execution that its
\* question named.
DialogInput ==
    /\ stage = "idle" /\ dialog /\ ~editing
    /\ dialog' \in BOOLEAN
    /\ UNCHANGED <<selected, pane, cursor, chosen, listed, detail, shown, editing>>
    /\ Sync

\* Input that leaves the lists alone; it may open a dialog.
OtherInput ==
    /\ stage = "idle"
    /\ dialog' \in IF editing \/ dialog THEN {dialog} ELSE BOOLEAN
    /\ UNCHANGED <<selected, pane, cursor, chosen, listed, detail, shown, editing>>
    /\ Sync

StartSearch ==
    /\ stage = "idle" /\ ~editing /\ ~dialog
    /\ editing' = TRUE /\ chosen' = None /\ detail' = None
    /\ UNCHANGED <<listed, shown, dialog>>
    /\ EnsureFrom(None)
    /\ Sync

\* A key of the query, the end of typing, or Escape with a query.
Search(query) ==
    /\ stage = "idle"
    /\ \/ editing /\ shown' = query /\ UNCHANGED editing
       \/ editing /\ editing' = FALSE /\ UNCHANGED shown
       \/ /\ ~editing /\ ~dialog
          /\ shown' = Everything /\ UNCHANGED editing
    /\ UNCHANGED <<chosen, listed, detail, dialog>>
    /\ EnsureFrom(selected)
    /\ Sync

\* Deviation: only a change of the selection reads again.
PollSelection(early) ==
    /\ stage = "idle"
    /\ Fetch(chosen) /\ EnsureFrom(selected)
    /\ sub' = IF selected' # selected THEN None ELSE sub
    /\ stage' = IF selected' # selected /\ ~early THEN "load" ELSE "idle"

\* The poll; a reading is not repeated before RETRY_INTERVAL.
Poll(early) ==
    /\ stage = "idle"
    /\ Fetch(chosen) /\ EnsureFrom(selected)
    /\ sub' = IF selected' # selected THEN None ELSE sub
    /\ stage' = IF sub' = None /\ ~early THEN "load" ELSE "idle"

\* A stream that ends, or loses its daemon.
StreamEnds ==
    /\ stage = "idle" /\ sub # None /\ sub' = None
    /\ UNCHANGED <<selected, pane, cursor, stage, uiVars>>

\* The user leaves, to an agent perhaps, or a refresh by key fails.
Leave ==
    /\ stage \in {"start", "idle"} /\ stage' = "over"
    /\ UNCHANGED <<selected, pane, cursor, sub, uiVars>>

\* operator_ui comes back from an agent with the newest session selected.
Return(k) ==
    /\ stage = "over" /\ k \in sessions \cup {None}
    /\ chosen' = k /\ listed' = {} /\ detail' = None /\ shown' = Everything
    /\ editing' = FALSE /\ dialog' = FALSE
    /\ selected' = None /\ ResetOutput /\ sub' = None /\ stage' = "start"

\* handle_key: the query has the keys first, then the dialog.
KeyInput ==
    \/ \E q \in Queries \cup {Everything} : Search(q)
    \/ RefreshKey \/ DialogInput \/ OtherInput \/ StartSearch
    \/ /\ ~editing /\ ~dialog
       /\ \/ \E k \in Sessions \cup {None} : SelectSession(k)
          \/ \E e \in Executions : SelectExecution(e)

\* handle_mouse asks for neither; the wheel acts as the arrow keys do.
MouseInput ==
    \/ \E k \in Sessions \cup {None} : SelectSession(k)
    \/ \E e \in Executions : SelectExecution(e)
    \/ OtherInput

UserInput ==
    \/ KeyInput \/ MouseInput \/ Leave
    \/ \E k \in Sessions \cup {None} : Return(k)

UiReads == LoadPage("subscribe") /\ UNCHANGED uiVars

UiStep ==
    \/ UserInput \/ Begin \/ UiReads \/ StreamEnds
    \/ \E early \in BOOLEAN : Poll(early)
    \/ (LoadEnds("subscribe") \/ Subscribe \/ Deliver("idle")) /\ UNCHANGED uiVars
=============================================================================
