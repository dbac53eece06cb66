------------------------------ MODULE OutputTools ------------------------------
(***************************************************************************)
(* Readers that are asked for one execution's events and say when that was *)
(* all: the tools of the MCP server (mcp.rs run, read, wait), which answer *)
(* up to a number of bytes and whether there is more, and the command line *)
(* (loom.rs stream_until_finished, follow_logs).  pane is what the caller  *)
(* has been given; "complete" is the state in which it may stop asking.    *)
(***************************************************************************)
EXTENDS OutputReader

CONSTANTS
    ChunkBytes,  \* bytes of an output chunk
    MaxBytes     \* max_bytes of a call

ASSUME BytesAssumption ==
    ChunkBytes \in Nat \ {0} /\ MaxBytes \in Nat /\ ChunkBytes <= MaxBytes

VARIABLE remaining  \* bytes loom_run may still return

ToolTypeOK == remaining \in 0 .. MaxBytes

ToolStarts(e, at) ==
    /\ selected = e /\ fate[e] = "running"
    /\ pane = <<>> /\ cursor = 0 /\ sub = None
    /\ remaining = MaxBytes /\ stage = at

Bytes(to) == ChunkBytes * Len(Chunks(selected, cursor, to))

\* What the store answers: as much as fits, one event at least.
Answers(max) == {to \in PageEnds(selected) : to = cursor + 1 \/ Bytes(to) <= max}

\* convert_events leaves out the event that does not fit, and what follows it.
Converted(to, max) ==
    {c \in cursor .. to : /\ Bytes(c) <= max
                         /\ \A later \in c + 1 .. to : Bytes(later) > max}

\* Deviation: the cursor, has_more and what is charged are the store's.
AnswerAsRead(to, max) ==
    /\ \E taken \in Converted(to, max) :
          pane' = Kept(pane \o Chunks(selected, cursor, taken))
    /\ cursor' = to
    /\ remaining' = max - Bytes(to)
    /\ stage' = IF to = len[selected] /\ fate[selected] = "finished" THEN "complete"
                ELSE IF stage = "run" /\ remaining' > 0 THEN "run" ELSE "asked"

\* An answer with events, the execution's state and has_more.
Answer(to, max) ==
    \E taken \in Converted(to, max) :
        LET more == to < len[selected] \/ taken < to
        IN  /\ Ingest(selected, cursor, taken)
            /\ remaining' = max - Bytes(taken)
            /\ stage' = IF fate[selected] = "finished" /\ ~more THEN "complete"
                        ELSE IF stage = "run" /\ taken = to /\ fate[selected] # "finished"
                                /\ remaining' > 0
                             THEN "run" ELSE "asked"

\* One wait of loom_run's loop, which ends with the execution, its bytes or time.
RunWaits ==
    /\ stage = "run" /\ selected \in Stored
    /\ \E to \in Answers(remaining) : Answer(to, remaining)
    /\ UNCHANGED <<selected, sub>>

RunTimesOut ==
    /\ stage = "run" /\ stage' = "asked"
    /\ UNCHANGED <<selected, pane, cursor, sub, remaining>>

\* loom_read, or loom_wait, with next_seq.
ReadsOn ==
    /\ stage = "asked" /\ selected \in Stored
    /\ \E to \in Answers(MaxBytes) : Answer(to, MaxBytes)
    /\ UNCHANGED <<selected, sub>>

\* loom logs: pages until there are no more of them.
LogPage ==
    /\ stage = "logs" /\ selected \in Stored
    /\ \E to \in Answers(MaxBytes) :
          /\ Ingest(selected, cursor, to)
          /\ stage' = IF to < len[selected] THEN "logs"
                      ELSE IF fate[selected] = "finished" THEN "complete" ELSE "over"
    /\ UNCHANGED <<selected, sub, remaining>>

\* loom run and loom logs --follow subscribe.  A stream may end before the
\* outcome: loom run then returns what the row says, and that is not "complete".
Follow ==
    /\ stage = "follow" /\ sub = None /\ selected \in Stored
    /\ sub' = [exec |-> selected, pos |-> cursor]
    /\ UNCHANGED <<selected, pane, cursor, stage, remaining>>

FollowEnds ==
    /\ stage = "follow" /\ sub # None
    /\ stage' = IF cursor > 0 /\ cursor = len[selected] /\ fate[selected] = "finished"
                THEN "complete" ELSE "over"
    /\ sub' = None
    /\ UNCHANGED <<selected, pane, cursor, remaining>>

ToolStep ==
    \/ RunWaits \/ RunTimesOut \/ ReadsOn \/ LogPage \/ Follow \/ FollowEnds
    \/ Deliver("follow") /\ UNCHANGED remaining
=============================================================================
