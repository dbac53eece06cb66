-------------------------- MODULE SupervisorContract --------------------------
(***************************************************************************)
(* What loomd and a loom-supervisor owe each other over their two pipes,   *)
(* for one execution.  Supervisor is a supervisor that keeps its half      *)
(* whatever its command does; ExecutionEngine is a daemon that keeps the   *)
(* other half whatever cancels, drains, fails or dies, and counts on       *)
(* nothing of a supervisor but this.                                       *)
(*                                                                         *)
(* Output is left out, as in ExecutionEngine.                              *)
(***************************************************************************)
EXTENDS Sequences

VARIABLES
    state,   \* the supervisor, as far as the daemon can be concerned
    asked,   \* a Cancel was written to its control pipe
    frames,  \* what it has said and the daemon has not read
    open,    \* the daemon holds the control pipe
    reading  \* the daemon reads the event pipe

vars == <<state, asked, frames, open, reading>>

Started  == {"alive", "cancelling", "orphaned"}
Outcomes == {"finished", "cancelled", "interrupted"}

\* A supervisor that was just started, and the task that started it.
Init ==
    /\ state = "booting"
    /\ asked = FALSE
    /\ frames = <<>>
    /\ open = TRUE /\ reading = TRUE

-----------------------------------------------------------------------------
(* The supervisor's half.                                                  *)

\* What is written to a pipe nobody reads is lost.
Say(frame) == frames' = IF reading THEN Append(frames, frame) ELSE frames

\* It starts the command and says so, or says that it could not, or finds that
\* nobody asks it to.
Launch ==
    /\ state = "booting"
    /\ \/ state' = "alive" /\ Say("started")
       \/ state' = "exited" /\ Say("finished")
       \/ ~open /\ state' = "exited" /\ UNCHANGED frames
    /\ UNCHANGED <<asked, open, reading>>

HearCancel ==
    /\ state = "alive" /\ asked
    /\ state' = "cancelling"
    /\ UNCHANGED <<asked, frames, open, reading>>

\* It learns that the daemon is gone from either pipe.
LoseDaemon ==
    /\ state \in {"alive", "cancelling"}
    /\ ~open \/ ~reading
    /\ state' = "orphaned"
    /\ UNCHANGED <<asked, frames, open, reading>>

\* From here on it no longer listens.
Linger ==
    /\ state \in Started
    /\ state' = "lingering"
    /\ UNCHANGED <<asked, frames, open, reading>>

\* The outcome is its last word, and "cancelled" only if that was asked for.
\* The lost daemon is told nothing.
Report ==
    /\ state \in {"alive", "cancelling", "lingering"}
    /\ state' = "exited"
    /\ \E outcome \in Outcomes :
        /\ outcome = "cancelled" => asked /\ state # "alive"
        /\ outcome = "finished" => state # "cancelling"
        /\ Say(outcome)
    /\ UNCHANGED <<asked, open, reading>>

\* It exits without an outcome, or dies, perhaps half-way through a frame.
Vanish ==
    /\ state # "exited"
    /\ state' = "exited"
    /\ UNCHANGED frames \/ Say("torn")
    /\ UNCHANGED <<asked, open, reading>>

SupervisorStep ==
    Launch \/ HearCancel \/ LoseDaemon \/ Linger \/ Report \/ Vanish

-----------------------------------------------------------------------------
(* The daemon's half.                                                      *)

\* Cancel is written as long as there is a pipe to write it to, once or again.
AskToStop ==
    /\ open
    /\ asked' = TRUE
    /\ UNCHANGED <<state, frames, open, reading>>

\* Frames are read in order, and none after an outcome or half a frame.  If the
\* row has been closed meanwhile, Cancel is the answer to "started".
ReadFrame ==
    /\ reading /\ frames # <<>>
    /\ frames' = Tail(frames)
    /\ reading' = (Head(frames) = "started")
    /\ asked' = asked \/ asked' = open
    /\ UNCHANGED <<state, open>>

\* The task stops reading before it drops the control pipe, or drops both.
Leave ==
    /\ reading' = FALSE /\ frames' = <<>>
    /\ open' = open \/ open' = FALSE
    /\ UNCHANGED <<state, asked>>

DaemonStep == AskToStop \/ ReadFrame \/ Leave

-----------------------------------------------------------------------------

Next == SupervisorStep \/ DaemonStep

Spec == Init /\ [][Next]_vars
=============================================================================
