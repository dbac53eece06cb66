---------------------------- MODULE SessionWatcher -----------------------------
(***************************************************************************)
(* loom watch (watch.rs): the executions of one recorded session and the   *)
(* output of the selected one, both read again at every poll.              *)
(***************************************************************************)
EXTENDS OutputReader

VARIABLES
    watched,  \* the session, its executions and the live ones, as last read
    asked     \* the execution that the open question names, or None

watchVars == <<watched, asked>>

WatchTypeOK ==
    /\ watched \in [session : Sessions \cup {None},
                    execs : SUBSET Executions, live : SUBSET Executions]
    /\ asked \in Executions \cup {None}

Reading(k) ==
    [session |-> k, execs |-> InSession(k),
     live |-> {e \in InSession(k) : fate[e] = "running"}]

NotWatching ==
    /\ watched = [session |-> None, execs |-> {}, live |-> {}]
    /\ asked = None

\* WatchState::new, and the first reading
WatchStarts(k) ==
    /\ watched = Reading(k) /\ asked = None
    /\ selected = Newest(InSession(k))
    /\ pane = <<>> /\ cursor = 0 /\ sub = None /\ stage = "load"

\* Deviation: the selection moves while a question is open.
SelectWhileAsked(e) ==
    /\ stage = "idle" /\ e \in watched.execs \ {selected}
    /\ selected' = e /\ ResetOutput
    /\ stage' = "load"
    /\ UNCHANGED <<sub, watchVars>>

WatchInput(e) ==
    /\ stage = "idle" /\ asked = None /\ e \in watched.execs \ {selected}
    /\ selected' = e /\ ResetOutput
    /\ stage' = "load"
    /\ UNCHANGED <<sub, watchVars>>

AskToCancel ==
    /\ stage = "idle" /\ asked = None /\ selected \in watched.live
    /\ asked' = selected
    /\ UNCHANGED <<readerVars, watched>>

\* A confirmed cancel goes to what is selected now.
AnswerQuestion ==
    /\ stage = "idle" /\ asked # None /\ asked' = None
    /\ UNCHANGED <<readerVars, watched>>

\* A poll that fails changes nothing until RETRY_INTERVAL has passed.
WatchPoll ==
    /\ stage = "idle" /\ watched.session \in sessions
    /\ watched' = Reading(watched.session)
    /\ IF selected \in watched'.execs
       THEN UNCHANGED <<selected, pane, cursor>>
       ELSE selected' = Newest(watched'.execs)
            /\ IF selected' # selected THEN ResetOutput ELSE UNCHANGED <<pane, cursor>>
    /\ stage' = "load"
    /\ UNCHANGED <<sub, asked>>

\* q, or the end of the input
WatchQuits ==
    /\ stage = "idle" /\ stage' = "over"
    /\ UNCHANGED <<selected, pane, cursor, sub, watchVars>>

\* handle_key: an open question has the keys.
WatchKey ==
    \/ \E e \in Executions : WatchInput(e)
    \/ AskToCancel \/ AnswerQuestion \/ WatchQuits

WatchReads == LoadPage("idle") /\ UNCHANGED watchVars

WatchStep ==
    \/ WatchKey \/ WatchPoll \/ WatchReads
    \/ LoadEnds("idle") /\ UNCHANGED watchVars

-----------------------------------------------------------------------------

(***************************************************************************)
(* A confirmed cancel reaches the execution that the question names, or    *)
(* that one has finished and been pruned meanwhile: only then is the       *)
(* selection another one, which the cancel ends in its place.              *)
(***************************************************************************)
CancelReachesNamed ==
    asked # None => selected = asked \/ fate[asked] = "pruned"
=============================================================================
