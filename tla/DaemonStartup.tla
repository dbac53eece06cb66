----------------------------- MODULE DaemonStartup -----------------------------
(***************************************************************************)
(* How a loomd takes and gives up its place (daemon.rs run, DaemonLock,    *)
(* prepare_socket).  Two files under the state directory say who serves: a *)
(* lock file with a pid in it, and the Unix socket.  Each is tested and    *)
(* then changed by path, in system calls of their own, so starters         *)
(* interleave between them; loomd is killed anywhere and leaves its files. *)
(* A member of Daemons is one process at a time: when it starts again it   *)
(* has a new pid, and what the old one left belongs to nobody.             *)
(***************************************************************************)
EXTENDS FiniteSets

CONSTANTS
    Daemons,  \* processes that run loomd
    None,     \* no file
    Stale     \* the owner of a file whose process is gone

ASSUME StartupAssumption == {None, Stale} \cap Daemons = {} /\ None # Stale

VARIABLES
    pc,         \* where each process is in run()
    again,      \* processes in the second round of DaemonLock::acquire
    seen,       \* the pid each process has read from the lock file
    lock,       \* who created the lock file that exists
    written,    \* processes that have written their pid into their lock file
    sock,       \* who bound the socket that exists
    listening,  \* processes whose listener is open
    opened,     \* processes that have the database open
    clean,      \* no two processes were acquiring the lock at a time since
                \* the last one that started with no other around (history)
    alone       \* the process that has had no other beside it since it
                \* started, if its own start did not fail to open (history)

files == <<lock, written, sock, listening, opened>>
ghosts == <<clean, alone>>
startupVars == <<pc, again, seen, files, ghosts>>

Owners == Daemons \cup {None, Stale}
Down == {"idle", "refused"}
Acquiring == {"create", "write", "read", "probe", "unlink"}
Claimed == {"socket", "connect", "unsocket", "bind", "listen", "open",
            "serve", "drain", "unlock", "abandon"}

StartupTypeOK ==
    /\ pc \in [Daemons -> Down \cup Acquiring \cup Claimed]
    /\ again \subseteq Daemons
    /\ seen \in [Daemons -> Owners]
    /\ lock \in Owners /\ sock \in Owners
    /\ written \subseteq Daemons
    /\ listening \subseteq Daemons
    /\ opened \subseteq Daemons
    /\ clean \in BOOLEAN
    /\ alone \subseteq Daemons

Up(d) == d \in Daemons /\ pc[d] \notin Down
Others(d) == {o \in Daemons \ {d} : Up(o)}
Forget(d, owner) == IF owner = d THEN Stale ELSE owner

StartupInit ==
    /\ pc = [d \in Daemons |-> "idle"]
    /\ again = {} /\ written = {} /\ listening = {} /\ opened = {}
    /\ seen = [d \in Daemons |-> Stale]
    /\ lock \in {None, Stale} /\ sock \in {None, Stale}
    /\ clean = TRUE /\ alone = {}

Goto(d, from, to) == pc[d] = from /\ pc' = [pc EXCEPT ![d] = to]

\* A client that finds no daemon, or a user, starts the process.
Start(d) ==
    /\ pc[d] \in Down
    /\ pc' = [pc EXCEPT ![d] = "create"]
    /\ again' = again \ {d}
    /\ written' = written \ {d}
    /\ lock' = Forget(d, lock) /\ sock' = Forget(d, sock)
    /\ seen' = [o \in Daemons |-> Forget(d, seen[o])]
    /\ clean' = \/ Others(d) = {}
                \/ clean /\ \A o \in Daemons \ {d} : pc[o] \notin Acquiring
    /\ alone' = IF Others(d) = {} THEN {d} ELSE {}
    /\ UNCHANGED <<listening, opened>>

CreateLock(d) ==
    /\ \/ lock = None /\ lock' = d /\ Goto(d, "create", "write")
       \/ lock # None /\ lock' = lock /\ Goto(d, "create", "read")
    /\ UNCHANGED <<again, seen, written, sock, listening, opened, ghosts>>

\* The file was opened before: nothing is written if its path is gone by now.
WritePid(d) ==
    /\ Goto(d, "write", "socket")
    /\ written' = written \cup {d}
    /\ UNCHANGED <<again, seen, lock, sock, listening, opened, ghosts>>

\* A file without a pid counts as one whose process is gone.
ReadLock(d) ==
    /\ \/ lock = None /\ Goto(d, "read", "refused") /\ UNCHANGED seen
       \/ /\ lock # None
          /\ Goto(d, "read", "probe")
          /\ seen' = [seen EXCEPT ![d] = IF lock \in written THEN lock ELSE Stale]
    /\ UNCHANGED <<again, files, ghosts>>

\* Deviation: a lock file is stale whoever wrote it.
BreakLock(d) ==
    /\ Goto(d, "probe", "unlink")
    /\ UNCHANGED <<again, seen, files, ghosts>>

ProbeOwner(d) ==
    /\ Goto(d, "probe", IF Up(seen[d]) THEN "refused" ELSE "unlink")
    /\ UNCHANGED <<again, seen, files, ghosts>>

\* Whatever is at the path by now is removed.  There are two rounds.
RemoveLock(d) ==
    /\ Goto(d, "unlink", IF lock = None \/ d \in again THEN "refused" ELSE "create")
    /\ lock' = None
    /\ again' = again \cup {d}
    /\ UNCHANGED <<seen, written, sock, listening, opened, ghosts>>

\* Deviation: a socket that exists is taken for a loomd that listens.
RespectSocket(d) ==
    /\ Goto(d, "socket", IF sock = None THEN "bind" ELSE "abandon")
    /\ UNCHANGED <<again, seen, files, ghosts>>

FindSocket(d) ==
    /\ Goto(d, "socket", IF sock = None THEN "bind" ELSE "connect")
    /\ UNCHANGED <<again, seen, files, ghosts>>

TrySocket(d) ==
    /\ Goto(d, "connect", IF sock \in listening THEN "abandon" ELSE "unsocket")
    /\ UNCHANGED <<again, seen, files, ghosts>>

RemoveSocket(d) ==
    /\ Goto(d, "unsocket", IF sock = None THEN "abandon" ELSE "bind")
    /\ sock' = None
    /\ UNCHANGED <<again, seen, lock, written, listening, opened, ghosts>>

BindSocket(d) ==
    /\ \/ sock = None /\ sock' = d /\ Goto(d, "bind", "listen")
       \/ sock # None /\ sock' = sock /\ Goto(d, "bind", "abandon")
    /\ UNCHANGED <<again, seen, lock, written, listening, opened, ghosts>>

\* The kernel refuses connections until listen(); none is answered before "serve".
Listen(d) ==
    /\ Goto(d, "listen", "open")
    /\ listening' = listening \cup {d}
    /\ UNCHANGED <<again, seen, lock, written, sock, opened, ghosts>>

\* set_permissions fails when the socket's path is gone.
OpenStore(d) ==
    /\ \/ /\ sock # None
          /\ Goto(d, "open", "serve")
          /\ opened' = opened \cup {d} /\ UNCHANGED listening
       \/ /\ sock = None
          /\ Goto(d, "open", "abandon")
          /\ listening' = listening \ {d} /\ UNCHANGED opened
    /\ UNCHANGED <<again, seen, lock, written, sock, ghosts>>

\* The database does not open, or what it holds cannot be reconciled.
OpenFails(d) ==
    /\ Goto(d, "open", "abandon")
    /\ listening' = listening \ {d}
    /\ alone' = alone \ {d}
    /\ UNCHANGED <<again, seen, lock, written, sock, opened, clean>>

\* The loop ends: a request, a signal or a storage failure.
Stop(d) ==
    /\ Goto(d, "serve", "drain")
    /\ listening' = listening \ {d}
    /\ UNCHANGED <<again, seen, lock, written, sock, opened, ghosts>>

\* The engine is drained and the store shut down; the socket's path goes next.
FinishDrain(d) ==
    /\ Goto(d, "drain", "unlock")
    /\ opened' = opened \ {d}
    /\ sock' = None
    /\ UNCHANGED <<again, seen, lock, written, listening, ghosts>>

\* Drop removes the path, whoever's file it is by then.
DropLock(d) ==
    /\ Goto(d, "unlock", "idle") \/ Goto(d, "abandon", "refused")
    /\ lock' = None
    /\ UNCHANGED <<again, seen, written, sock, listening, opened, ghosts>>

Crash(d) ==
    /\ Up(d)
    /\ pc' = [pc EXCEPT ![d] = "idle"]
    /\ listening' = listening \ {d}
    /\ opened' = opened \ {d}
    /\ UNCHANGED <<again, seen, lock, written, sock, ghosts>>

\* The steps that stay within this component.
Advance(d) ==
    \/ CreateLock(d) \/ WritePid(d) \/ ReadLock(d) \/ ProbeOwner(d)
    \/ RemoveLock(d) \/ FindSocket(d) \/ TrySocket(d) \/ RemoveSocket(d)
    \/ BindSocket(d) \/ Listen(d) \/ FinishDrain(d) \/ DropLock(d)

StartupNext ==
    \E d \in Daemons :
        \/ Start(d) \/ Advance(d) \/ OpenStore(d) \/ OpenFails(d)
        \/ Stop(d) \/ Crash(d)

StartupSpec == StartupInit /\ [][StartupNext]_startupVars

-----------------------------------------------------------------------------

(***************************************************************************)
(* Unless two processes were in DaemonLock::acquire at the same time, the  *)
(* loomd that serves is the one both files lead to, and nobody else has    *)
(* the database open: no later start, failed start or exit takes the files *)
(* away from it.  The exception is real: acquire tests and removes the     *)
(* file in two calls, and an empty file counts as stale.                   *)
(***************************************************************************)
ExclusiveService ==
    clean =>
        \A d \in Daemons :
            /\ pc[d] = "serve" => lock = d /\ sock = d /\ d \in listening
            /\ d \in opened => opened = {d}

(***************************************************************************)
(* A loomd that has no other beside it is not refused, whatever files the  *)
(* dead have left: an old pid, an empty lock file, a socket nobody is      *)
(* behind.                                                                 *)
(***************************************************************************)
StartsFromDebris == \A d \in alone : pc[d] \notin {"abandon", "refused"}
=============================================================================
