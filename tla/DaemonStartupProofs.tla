-------------------------- MODULE DaemonStartupProofs ---------------------------
(***************************************************************************)
(* That one loomd serves and that debris stops none, for any number of     *)
(* starters.  ExclusiveService is not inductive: a process that is about   *)
(* to remove the lock file must not have read it before a live one wrote   *)
(* it.  So the invariant says who may be in DaemonLock::acquire, what each *)
(* has seen there, and that the file belongs to the one that got through.  *)
(***************************************************************************)
EXTENDS DaemonStartup, TLAPS

\* Processes whose lock file must be there.
Holder(d) == pc[d] \in Claimed \cup {"write"}

\* What each process's own place says of its listener, database and files.
PlacesInv ==
    \A d \in Daemons :
        /\ d \in listening <=> pc[d] \in {"open", "serve"}
        /\ d \in opened <=> pc[d] \in {"serve", "drain"}
        /\ pc[d] \in {"create", "read", "probe", "unlink"} => lock # d
        /\ pc[d] = "probe" => seen[d] # d
        /\ pc[d] \in Claimed => d \in written

\* What keeps a starter from the files of a live loomd.
LockInv ==
    clean =>
        \A d \in Daemons :
            /\ Holder(d) => lock = d
            /\ pc[d] \in {"listen", "open", "serve", "drain"} => sock = d
            /\ \A o \in Daemons :
                  /\ pc[d] \in Acquiring /\ pc[o] \in Acquiring => d = o
                  /\ Holder(d) /\ pc[o] = "probe" => seen[o] = d
                  /\ Holder(d) => pc[o] # "unlink"

\* What a process without others finds at each of its places.
AloneInv ==
    \A d \in alone :
        /\ \A o \in Daemons \ {d} : pc[o] \in Down
        /\ pc[d] \notin {"abandon", "refused"}
        /\ pc[d] = "create" /\ d \in again => lock = None
        /\ pc[d] \in {"read", "probe", "unlink"} => lock # None /\ d \notin again
        /\ pc[d] \in {"connect", "unsocket"} => sock # None
        /\ pc[d] = "bind" => sock = None
        /\ pc[d] \in {"listen", "open"} => sock = d

StartupInv == StartupTypeOK /\ PlacesInv /\ LockInv /\ AloneInv

-----------------------------------------------------------------------------

\* The initial files belong to nobody, whoever left them.
LEMMA StartupInvInit == StartupInit => StartupInv
BY StartupAssumption, SMT DEF StartupInit, StartupInv, StartupTypeOK, PlacesInv, LockInv, AloneInv,
    Holder, Owners, Down, Acquiring, Claimed

\* A process that starts: the pid of its past belongs to nobody now.
LEMMA StartKeeps ==
    ASSUME StartupInv, NEW d \in Daemons, Start(d)
    PROVE  StartupInv'
<1> USE StartupAssumption
<1> USE DEF StartupInv, StartupTypeOK, Owners, Down, Acquiring, Claimed, Goto, files, ghosts, startupVars, Start, Up, Forget
<1>1. StartupTypeOK' BY SMT
<1>2. PlacesInv' BY SMT DEF PlacesInv
<1>3. LockInv'
  <2>1. CASE Others(d) = {}
    <3>1. \A o \in Daemons \ {d} : pc'[o] \in Down BY <2>1, SMT DEF Others
    <3>2. pc'[d] = "create" BY SMT
    <3>3. QED BY <3>1, <3>2, SMT DEF LockInv, Holder
  <2>2. CASE Others(d) # {} /\ clean'
    <3>1. clean /\ \A o \in Daemons \ {d} : pc[o] \notin Acquiring BY <2>2, Zenon
    <3>2. QED BY <3>1, SMT DEF LockInv, Holder
  <2>3. QED BY <2>1, <2>2, Zenon DEF LockInv
<1>4. AloneInv'
  <2>1. ASSUME NEW e \in alone' PROVE e = d /\ Others(d) = {} BY <2>1, SMT
  <2>2. QED BY <2>1, SMT DEF AloneInv, Others
<1>5. QED BY <1>1, <1>2, <1>3, <1>4

\* Whoever creates the file was the only one acquiring.
LEMMA CreateLockKeeps ==
    ASSUME StartupInv, NEW d \in Daemons, CreateLock(d)
    PROVE  StartupInv'
<1> USE StartupAssumption
<1> USE DEF StartupInv, StartupTypeOK, Owners, Down, Acquiring, Claimed, Goto, files, ghosts, startupVars, CreateLock
<1>1. StartupTypeOK' BY SMT
<1>2. PlacesInv' BY SMT DEF PlacesInv
<1>3. LockInv' BY SMT DEF PlacesInv, LockInv, Holder
<1>4. AloneInv' BY SMT DEF PlacesInv, AloneInv
<1>5. QED BY <1>1, <1>2, <1>3, <1>4

\* The file of a process that got through has its pid in it.
LEMMA WritePidKeeps ==
    ASSUME StartupInv, NEW d \in Daemons, WritePid(d)
    PROVE  StartupInv'
<1> USE StartupAssumption
<1> USE DEF StartupInv, StartupTypeOK, Owners, Down, Acquiring, Claimed, Goto, files, ghosts, startupVars, WritePid
<1>1. StartupTypeOK' BY SMT
<1>2. PlacesInv' BY SMT DEF PlacesInv
<1>3. LockInv' BY SMT DEF PlacesInv, LockInv, Holder
<1>4. AloneInv' BY SMT DEF PlacesInv, AloneInv
<1>5. QED BY <1>1, <1>2, <1>3, <1>4

\* What is read beside a live holder is its pid.
LEMMA ReadLockKeeps ==
    ASSUME StartupInv, NEW d \in Daemons, ReadLock(d)
    PROVE  StartupInv'
<1> USE StartupAssumption
<1> USE DEF StartupInv, StartupTypeOK, Owners, Down, Acquiring, Claimed, Goto, files, ghosts, startupVars, ReadLock
<1>1. StartupTypeOK' BY SMT
<1>2. PlacesInv' BY SMT DEF PlacesInv
<1>3. LockInv' BY SMT DEF PlacesInv, LockInv, Holder
<1>4. AloneInv' BY SMT DEF PlacesInv, AloneInv
<1>5. QED BY <1>1, <1>2, <1>3, <1>4

\* A live holder's file is not removed.
LEMMA ProbeOwnerKeeps ==
    ASSUME StartupInv, NEW d \in Daemons, ProbeOwner(d)
    PROVE  StartupInv'
<1> USE StartupAssumption
<1> USE DEF StartupInv, StartupTypeOK, Owners, Down, Acquiring, Claimed, Goto, files, ghosts, startupVars, ProbeOwner, Up
<1>1. StartupTypeOK' BY SMT
<1>2. PlacesInv' BY SMT DEF PlacesInv
<1>3. LockInv' BY SMT DEF PlacesInv, LockInv, Holder
<1>4. AloneInv' BY SMT DEF PlacesInv, AloneInv
<1>5. QED BY <1>1, <1>2, <1>3, <1>4

\* So the file that is removed has no live holder.
LEMMA RemoveLockKeeps ==
    ASSUME StartupInv, NEW d \in Daemons, RemoveLock(d)
    PROVE  StartupInv'
<1> USE StartupAssumption
<1> USE DEF StartupInv, StartupTypeOK, Owners, Down, Acquiring, Claimed, Goto, files, ghosts, startupVars, RemoveLock
<1>1. StartupTypeOK' BY SMT
<1>2. PlacesInv' BY SMT DEF PlacesInv
<1>3. LockInv' BY SMT DEF PlacesInv, LockInv, Holder
<1>4. AloneInv' BY SMT DEF PlacesInv, AloneInv
<1>5. QED BY <1>1, <1>2, <1>3, <1>4

\* The socket is looked for by the holder alone.
LEMMA FindSocketKeeps ==
    ASSUME StartupInv, NEW d \in Daemons, FindSocket(d)
    PROVE  StartupInv'
<1> USE StartupAssumption
<1> USE DEF StartupInv, StartupTypeOK, Owners, Down, Acquiring, Claimed, Goto, files, ghosts, startupVars, FindSocket
<1>1. StartupTypeOK' BY SMT
<1>2. PlacesInv' BY SMT DEF PlacesInv
<1>3. LockInv' BY SMT DEF PlacesInv, LockInv, Holder
<1>4. AloneInv' BY SMT DEF PlacesInv, AloneInv
<1>5. QED BY <1>1, <1>2, <1>3, <1>4

\* Nobody else listens while a process has none beside it.
LEMMA TrySocketKeeps ==
    ASSUME StartupInv, NEW d \in Daemons, TrySocket(d)
    PROVE  StartupInv'
<1> USE StartupAssumption
<1> USE DEF StartupInv, StartupTypeOK, Owners, Down, Acquiring, Claimed, Goto, files, ghosts, startupVars, TrySocket
<1>1. StartupTypeOK' BY SMT
<1>2. PlacesInv' BY SMT DEF PlacesInv
<1>3. LockInv' BY SMT DEF PlacesInv, LockInv, Holder
<1>4. AloneInv' BY SMT DEF PlacesInv, AloneInv
<1>5. QED BY <1>1, <1>2, <1>3, <1>4

\* The socket that is removed is that of a dead process.
LEMMA RemoveSocketKeeps ==
    ASSUME StartupInv, NEW d \in Daemons, RemoveSocket(d)
    PROVE  StartupInv'
<1> USE StartupAssumption
<1> USE DEF StartupInv, StartupTypeOK, Owners, Down, Acquiring, Claimed, Goto, files, ghosts, startupVars, RemoveSocket
<1>1. StartupTypeOK' BY SMT
<1>2. PlacesInv' BY SMT DEF PlacesInv
<1>3. LockInv' BY SMT DEF PlacesInv, LockInv, Holder
<1>4. AloneInv' BY SMT DEF PlacesInv, AloneInv
<1>5. QED BY <1>1, <1>2, <1>3, <1>4

\* The holder's socket is its own from here on.
LEMMA BindSocketKeeps ==
    ASSUME StartupInv, NEW d \in Daemons, BindSocket(d)
    PROVE  StartupInv'
<1> USE StartupAssumption
<1> USE DEF StartupInv, StartupTypeOK, Owners, Down, Acquiring, Claimed, Goto, files, ghosts, startupVars, BindSocket
<1>1. StartupTypeOK' BY SMT
<1>2. PlacesInv' BY SMT DEF PlacesInv
<1>3. LockInv' BY SMT DEF PlacesInv, LockInv, Holder
<1>4. AloneInv' BY SMT DEF PlacesInv, AloneInv
<1>5. QED BY <1>1, <1>2, <1>3, <1>4

\* The listener opens where the place says so.
LEMMA ListenKeeps ==
    ASSUME StartupInv, NEW d \in Daemons, Listen(d)
    PROVE  StartupInv'
<1> USE StartupAssumption
<1> USE DEF StartupInv, StartupTypeOK, Owners, Down, Acquiring, Claimed, Goto, files, ghosts, startupVars, Listen
<1>1. StartupTypeOK' BY SMT
<1>2. PlacesInv' BY SMT DEF PlacesInv
<1>3. LockInv' BY SMT DEF PlacesInv, LockInv, Holder
<1>4. AloneInv' BY SMT DEF PlacesInv, AloneInv
<1>5. QED BY <1>1, <1>2, <1>3, <1>4

\* The database is opened by the holder alone.
LEMMA OpenStoreKeeps ==
    ASSUME StartupInv, NEW d \in Daemons, OpenStore(d)
    PROVE  StartupInv'
<1> USE StartupAssumption
<1> USE DEF StartupInv, StartupTypeOK, Owners, Down, Acquiring, Claimed, Goto, files, ghosts, startupVars, OpenStore
<1>1. StartupTypeOK' BY SMT
<1>2. PlacesInv' BY SMT DEF PlacesInv
<1>3. LockInv' BY SMT DEF PlacesInv, LockInv, Holder
<1>4. AloneInv' BY SMT DEF PlacesInv, AloneInv
<1>5. QED BY <1>1, <1>2, <1>3, <1>4

\* A start that fails for its own reasons counts no longer.
LEMMA OpenFailsKeeps ==
    ASSUME StartupInv, NEW d \in Daemons, OpenFails(d)
    PROVE  StartupInv'
<1> USE StartupAssumption
<1> USE DEF StartupInv, StartupTypeOK, Owners, Down, Acquiring, Claimed, Goto, files, ghosts, startupVars, OpenFails
<1>1. StartupTypeOK' BY SMT
<1>2. PlacesInv' BY SMT DEF PlacesInv
<1>3. LockInv' BY SMT DEF PlacesInv, LockInv, Holder
<1>4. AloneInv' BY SMT DEF PlacesInv, AloneInv
<1>5. QED BY <1>1, <1>2, <1>3, <1>4

\* The listener closes; the files stay.
LEMMA StopKeeps ==
    ASSUME StartupInv, NEW d \in Daemons, Stop(d)
    PROVE  StartupInv'
<1> USE StartupAssumption
<1> USE DEF StartupInv, StartupTypeOK, Owners, Down, Acquiring, Claimed, Goto, files, ghosts, startupVars, Stop
<1>1. StartupTypeOK' BY SMT
<1>2. PlacesInv' BY SMT DEF PlacesInv
<1>3. LockInv' BY SMT DEF PlacesInv, LockInv, Holder
<1>4. AloneInv' BY SMT DEF PlacesInv, AloneInv
<1>5. QED BY <1>1, <1>2, <1>3, <1>4

\* The database is closed before the files are given up.
LEMMA FinishDrainKeeps ==
    ASSUME StartupInv, NEW d \in Daemons, FinishDrain(d)
    PROVE  StartupInv'
<1> USE StartupAssumption
<1> USE DEF StartupInv, StartupTypeOK, Owners, Down, Acquiring, Claimed, Goto, files, ghosts, startupVars, FinishDrain
<1>1. StartupTypeOK' BY SMT
<1>2. PlacesInv' BY SMT DEF PlacesInv
<1>3. LockInv' BY SMT DEF PlacesInv, LockInv, Holder
<1>4. AloneInv' BY SMT DEF PlacesInv, AloneInv
<1>5. QED BY <1>1, <1>2, <1>3, <1>4

\* The file is given up by its holder: nobody else has one.
LEMMA DropLockKeeps ==
    ASSUME StartupInv, NEW d \in Daemons, DropLock(d)
    PROVE  StartupInv'
<1> USE StartupAssumption
<1> USE DEF StartupInv, StartupTypeOK, Owners, Down, Acquiring, Claimed, Goto, files, ghosts, startupVars, DropLock
<1>1. StartupTypeOK' BY SMT
<1>2. PlacesInv' BY SMT DEF PlacesInv
<1>3. LockInv' BY SMT DEF PlacesInv, LockInv, Holder
<1>4. AloneInv' BY SMT DEF PlacesInv, AloneInv
<1>5. QED BY <1>1, <1>2, <1>3, <1>4

\* A death leaves the files and takes the process out of every count.
LEMMA CrashKeeps ==
    ASSUME StartupInv, NEW d \in Daemons, Crash(d)
    PROVE  StartupInv'
<1> USE StartupAssumption
<1> USE DEF StartupInv, StartupTypeOK, Owners, Down, Acquiring, Claimed, Goto, files, ghosts, startupVars, Crash, Up
<1>1. StartupTypeOK' BY SMT
<1>2. PlacesInv' BY SMT DEF PlacesInv
<1>3. LockInv' BY SMT DEF PlacesInv, LockInv, Holder
<1>4. AloneInv' BY SMT DEF PlacesInv, AloneInv
<1>5. QED BY <1>1, <1>2, <1>3, <1>4

LEMMA StartupInvNext == StartupInv /\ [StartupNext]_startupVars => StartupInv'
<1> SUFFICES ASSUME StartupInv, [StartupNext]_startupVars PROVE StartupInv'
    OBVIOUS
<1>1. CASE UNCHANGED startupVars
    BY <1>1, SMT DEF StartupInv, StartupTypeOK, PlacesInv, LockInv, AloneInv, Holder,
       startupVars, files, ghosts
<1>2. ASSUME NEW d \in Daemons, Advance(d) PROVE StartupInv'
    BY <1>2, CreateLockKeeps, WritePidKeeps, ReadLockKeeps, ProbeOwnerKeeps,
       RemoveLockKeeps, FindSocketKeeps, TrySocketKeeps, RemoveSocketKeeps,
       BindSocketKeeps, ListenKeeps, FinishDrainKeeps, DropLockKeeps, Zenon DEF Advance
<1>3. QED
    BY <1>1, <1>2, StartKeeps, OpenStoreKeeps, OpenFailsKeeps, StopKeeps, CrashKeeps, Zenon
    DEF StartupNext

LEMMA StartupInvImplies == StartupInv => ExclusiveService /\ StartsFromDebris
<1> SUFFICES ASSUME StartupInv PROVE ExclusiveService /\ StartsFromDebris
    OBVIOUS
<1>1. ASSUME clean, NEW d \in Daemons, d \in opened PROVE opened = {d}
  <2>1. \A o \in opened : o \in Daemons /\ Holder(o)
      BY SMT DEF StartupInv, StartupTypeOK, PlacesInv, Holder, Claimed
  <2>2. \A o \in opened : lock = o BY <1>1, <2>1, Zenon DEF StartupInv, LockInv
  <2>3. QED BY <1>1, <2>2
<1>2. ExclusiveService
    BY <1>1, SMT DEF ExclusiveService, StartupInv, PlacesInv, LockInv, Holder, Claimed
<1>3. StartsFromDebris BY Zenon DEF StartsFromDebris, StartupInv, AloneInv
<1>4. QED BY <1>2, <1>3

(***************************************************************************)
(* The invariant, for any number of processes that start, fail and die.    *)
(***************************************************************************)
THEOREM StartupIsSafe == StartupSpec => []StartupInv
BY StartupInvInit, StartupInvNext, PTL DEF StartupSpec

(***************************************************************************)
(* daemon.rs run: but for the race in DaemonLock::acquire, the files lead  *)
(* to the loomd that serves, and it alone has the database open.           *)
(***************************************************************************)
THEOREM OneDaemonServes == StartupSpec => []ExclusiveService
BY StartupIsSafe, StartupInvImplies, PTL

(***************************************************************************)
(* daemon.rs run: nothing that dead processes leave in the state directory *)
(* keeps a loomd that is alone from serving.                               *)
(***************************************************************************)
THEOREM DebrisIsHarmless == StartupSpec => []StartsFromDebris
BY StartupIsSafe, StartupInvImplies, PTL
=============================================================================
