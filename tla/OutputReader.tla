----------------------------- MODULE OutputReader ------------------------------
(***************************************************************************)
(* What the programs that show an execution's output have in common: the   *)
(* events that loomd keeps of each execution, and a reader with a cursor   *)
(* behind the last event it has taken (ui.rs and watch.rs, output_cursor,  *)
(* ingest, load_output; client.rs read_output, subscribe).  An execution's *)
(* events are numbered from 1: it starts, writes output, and finishes.     *)
(***************************************************************************)
EXTENDS Integers, Sequences

CONSTANTS
    Executions,  \* ids, in the order of creation
    Sessions,
    Homes,       \* the sessions that executions may be started in, None for none
    None,
    MaxEvents,   \* bound: events of an execution
    PageEvents,  \* bound: events of a page
    Cap          \* output chunks a pane keeps

ASSUME ReaderAssumption ==
    /\ Executions \subseteq Nat \ {0} /\ Executions # {} /\ None \notin Executions
    /\ Homes \subseteq [Executions -> Sessions \cup {None}]
    /\ MaxEvents \in Nat \ {0, 1} /\ PageEvents \in Nat \ {0} /\ Cap \in Nat \ {0}

VARIABLES
    fate,      \* what loomd knows of each execution
    home,      \* the session each execution is started in
    len,       \* how many events it keeps of it
    sessions,  \* the recorded sessions that exist
    selected,  \* the execution the reader shows, or None
    pane,      \* the chunks it shows, as <<execution, seq>>
    cursor,    \* the last event it has taken
    sub,       \* its subscription [exec, pos], or None
    stage      \* what it is doing

worldVars == <<fate, home, len, sessions>>
readerVars == <<selected, pane, cursor, sub, stage>>

Stored == {e \in Executions : fate[e] \in {"running", "finished"}}
InSession(k) == {e \in Stored : home[e] = k}
Newest(E) == IF E = {} THEN None ELSE CHOOSE e \in E : \A f \in E : f <= e
Lesser(a, b) == IF a < b THEN a ELSE b

\* The first event is the start; the last one is the outcome, once there is one.
FirstOutput == 2
LastOutput(e) == IF fate[e] \in {"finished", "pruned"} THEN len[e] - 1 ELSE len[e]

\* The chunks among the events after `from` up to `to`.
Chunks(e, from, to) ==
    LET before == IF from < FirstOutput THEN FirstOutput - 1 ELSE from
    IN  [i \in 1 .. Lesser(to, LastOutput(e)) - before |-> <<e, before + i>>]

OutputTypeOK ==
    /\ fate \in [Executions -> {"absent", "running", "finished", "pruned"}]
    /\ home \in Homes
    /\ len \in [Executions -> 0 .. MaxEvents]
    /\ sessions \subseteq Sessions
    /\ selected \in Executions \cup {None}
    /\ \A i \in DOMAIN pane : pane[i] \in Executions \X (1 .. MaxEvents)
    /\ cursor \in 0 .. MaxEvents
    /\ stage \in {"start", "idle", "load", "subscribe", "over",
                 "run", "asked", "logs", "follow", "complete"}
    /\ sub = None \/ sub \in [exec : Executions, pos : 0 .. MaxEvents]

\* Some executions have started.
WorldInit ==
    /\ \E n \in Executions \cup {0} :
          /\ fate = [e \in Executions |-> IF e <= n THEN "running" ELSE "absent"]
          /\ len = [e \in Executions |-> IF e <= n THEN 1 ELSE 0]
    /\ home \in Homes /\ sessions = Sessions

Execute(e) ==
    /\ fate[e] = "absent" /\ \A f \in Executions : f < e => fate[f] # "absent"
    /\ fate' = [fate EXCEPT ![e] = "running"]
    /\ len' = [len EXCEPT ![e] = 1]
    /\ UNCHANGED sessions

Write(e) ==
    /\ fate[e] = "running" /\ len[e] < MaxEvents - 1
    /\ len' = [len EXCEPT ![e] = @ + 1]
    /\ UNCHANGED <<fate, sessions>>

Finish(e) ==
    /\ fate[e] = "running"
    /\ fate' = [fate EXCEPT ![e] = "finished"]
    /\ len' = [len EXCEPT ![e] = @ + 1]
    /\ UNCHANGED sessions

\* loomd prunes old executions after each one that ends.
Prune(e) ==
    /\ fate[e] = "finished"
    /\ fate' = [fate EXCEPT ![e] = "pruned"]
    /\ UNCHANGED <<len, sessions>>

DeleteSession(k) ==
    /\ sessions' = sessions \ {k} /\ k \in sessions
    /\ UNCHANGED <<fate, len>>

WorldNext ==
    /\ \/ \E e \in Executions : Execute(e) \/ Write(e) \/ Finish(e) \/ Prune(e)
       \/ \E k \in Sessions : DeleteSession(k)
    /\ UNCHANGED <<home, readerVars>>

-----------------------------------------------------------------------------

Kept(chunks) == SubSeq(chunks, 1 + IF Len(chunks) > Cap THEN Len(chunks) - Cap ELSE 0,
                       Len(chunks))

\* Append what is output among these events.
Ingest(e, from, to) ==
    /\ pane' = Kept(pane \o Chunks(e, from, to))
    /\ cursor' = to

ResetOutput == pane' = <<>> /\ cursor' = 0

\* Where a page that starts at the cursor may end.
PageEnds(e) ==
    IF cursor >= len[e] THEN {cursor}
    ELSE cursor + 1 .. Lesser(len[e], cursor + PageEvents)

\* One page of load_output; a full one is followed by another.
LoadPage(then) ==
    /\ stage = "load" /\ selected \in Stored
    /\ \E to \in PageEnds(selected) :
          /\ Ingest(selected, cursor, to)
          /\ stage' = IF to < len[selected] THEN "load" ELSE then
    /\ UNCHANGED <<selected, sub>>

\* Nothing is selected, it is gone, or loomd does not answer.
LoadEnds(then) ==
    /\ stage = "load" /\ stage' = then
    /\ UNCHANGED <<selected, pane, cursor, sub>>

Subscribe ==
    /\ stage = "subscribe" /\ stage' = "idle"
    /\ sub' \in {None} \cup
          (IF selected \in Stored THEN {[exec |-> selected, pos |-> cursor]} ELSE {})
    /\ UNCHANGED <<selected, pane, cursor>>

\* The next event of the subscription, whatever is selected.
Deliver(at) ==
    /\ stage = at /\ sub # None
    /\ sub.exec \in Stored /\ sub.pos < len[sub.exec]
    /\ Ingest(sub.exec, sub.pos, sub.pos + 1)
    /\ sub' = [sub EXCEPT !.pos = @ + 1]
    /\ UNCHANGED <<selected, stage>>
=============================================================================
