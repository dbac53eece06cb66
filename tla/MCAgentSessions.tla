---------------------------- MODULE MCAgentSessions ----------------------------
(***************************************************************************)
(* Small instances of AgentSessions for TLC.                               *)
(***************************************************************************)
EXTENDS AgentSessions, TLC

Event(id, kind) == [id |-> id, kind |-> kind]

\* A provider that names its turns, and events without a name.
MCScript ==
    <<Event("a", "prompt"), Event("a", "tool"),
      Event(Anonymous, "prompt"), Event(Anonymous, "stop")>>

MCNoScript == <<>>

Symmetry == Permutations(Daemons)

\* Bound: turns change while at most one loomd runs.
TurnsWithOneDaemon ==
    \A s \in Sessions : turns[s] # <<>> => Cardinality({d \in Daemons : Up(d)}) <= 1
=============================================================================
