------------------------------ MODULE Startup -------------------------------
(***************************************************************************)
(* The life of crond processes on one host (main of crond.rs): the pid     *)
(* file that is also the single-instance lock, the marker by which @reboot *)
(* jobs run once per boot, and the shutdown that removes the pid file.     *)
(*                                                                         *)
(* Several processes may be started at any time.  The files are shared and *)
(* each system call is a step; a process may die between any two of them.  *)
(***************************************************************************)
EXTENDS Integers, FiniteSets

CONSTANTS
    Daemons,       \* the crond processes
    NoPid,         \* the content of a pid file without a pid
    MaxUnlinks     \* bound: how often the pid file is removed in one boot

ASSUME StartupAssumption ==
    /\ IsFiniteSet(Daemons)
    /\ NoPid \notin Daemons
    /\ MaxUnlinks \in Nat

NoFile == 0

VARIABLES
    pc,            \* where each process is in main
    fd,            \* the pid file each process has open, by inode
    path,          \* the inode that cfg.pid_file names, or NoFile
    pid,           \* the process written into each inode
    marker,        \* cfg.reboot_file exists
    unlinks,       \* history: removals of the pid file in this boot
    reboot_runs,   \* history: how often @reboot jobs were started in this boot
    mishaps        \* history: what went wrong in this boot

vars == <<pc, fd, path, pid, marker, unlinks, reboot_runs, mishaps>>

PCs == {"off", "opened", "locked", "started", "marking", "rebooting",
        "looping", "unlocked"}

Mishaps == {"no_pid", "no_marker", "died_rebooting"}

Inodes == 1..(MaxUnlinks + 1)

\* A process holds the lock of its inode from flock to drop(lock).
Holding == {"locked", "started", "marking", "rebooting", "looping"}
Active  == {d \in Daemons : pc[d] \in Holding}

LockedByOther(d) == \E e \in Active \ {d} : fd[e] = fd[d]

Goto(d, l) == pc' = [pc EXCEPT ![d] = l]

\* The process is gone, and its descriptors with it.
Exit(d) == Goto(d, "off") /\ fd' = [fd EXCEPT ![d] = NoFile]

-----------------------------------------------------------------------------
\* Slip: the file is truncated when it is opened.
OpenTruncates(d) ==
    /\ pc[d] = "off"
    /\ LET inode == IF path = NoFile THEN unlinks + 1 ELSE path
       IN  /\ path' = inode
           /\ fd' = [fd EXCEPT ![d] = inode]
           /\ pid' = [pid EXCEPT ![inode] = NoPid]
    /\ Goto(d, "opened")
    /\ UNCHANGED <<marker, unlinks, reboot_runs, mishaps>>

\* open(O_CREAT) without O_TRUNC.  Inodes are numbered in order of creation:
\* one is created only where the last was unlinked.
Open(d) ==
    /\ pc[d] = "off"
    /\ LET inode == IF path = NoFile THEN unlinks + 1 ELSE path
       IN  /\ path' = inode
           /\ fd' = [fd EXCEPT ![d] = inode]
    /\ Goto(d, "opened")
    /\ UNCHANGED <<pid, marker, unlinks, reboot_runs, mishaps>>

\* Slip: a shared lock.
LockShared(d) ==
    /\ pc[d] = "opened"
    /\ Goto(d, "locked")
    /\ UNCHANGED <<fd, path, pid, marker, unlinks, reboot_runs, mishaps>>

\* flock(LOCK_EX | LOCK_NB) on the file that was opened.
Lock(d) ==
    /\ pc[d] = "opened"
    /\ ~LockedByOther(d)
    /\ Goto(d, "locked")
    /\ UNCHANGED <<fd, path, pid, marker, unlinks, reboot_runs, mishaps>>

\* "can't lock, otherwise running?": the process exits and leaves the file.
LockFails(d) ==
    /\ pc[d] = "opened"
    /\ LockedByOther(d)
    /\ Exit(d)
    /\ UNCHANGED <<path, pid, marker, unlinks, reboot_runs, mishaps>>

\* Truncate, write, flush; a failure is logged and tolerated.
WritePid(d) ==
    /\ pc[d] = "locked"
    /\ \/ /\ pid' = [pid EXCEPT ![fd[d]] = d]
          /\ UNCHANGED mishaps
       \/ /\ pid' = [pid EXCEPT ![fd[d]] = NoPid]
          /\ mishaps' = mishaps \cup {"no_pid"}
    /\ Goto(d, "started")
    /\ UNCHANGED <<fd, path, marker, unlinks, reboot_runs>>

\* Slip: the marker is created without looking for it.
CheckNoMarker(d) ==
    /\ pc[d] = "started"
    /\ Goto(d, "marking")
    /\ UNCHANGED <<fd, path, pid, marker, unlinks, reboot_runs, mishaps>>

\* reboot_file.exists(), after the crontabs have been loaded.
CheckMarker(d) ==
    /\ pc[d] = "started"
    /\ Goto(d, IF marker THEN "looping" ELSE "marking")
    /\ UNCHANGED <<fd, path, pid, marker, unlinks, reboot_runs, mishaps>>

\* Slip: the jobs are run only when the marker can't be created.
CreateMarkerOnly(d) ==
    /\ pc[d] = "marking"
    /\ marker' = TRUE
    /\ Goto(d, "looping")
    /\ UNCHANGED <<fd, path, pid, unlinks, reboot_runs, mishaps>>

\* File::create: succeeds also when another process has created it meanwhile.
CreateMarker(d) ==
    /\ pc[d] = "marking"
    /\ marker' = TRUE
    /\ Goto(d, "rebooting")
    /\ UNCHANGED <<fd, path, pid, unlinks, reboot_runs, mishaps>>

\* The marker can't be created: the @reboot jobs are skipped.
CreateMarkerFails(d) ==
    /\ pc[d] = "marking"
    /\ mishaps' = mishaps \cup {"no_marker"}
    /\ Goto(d, "looping")
    /\ UNCHANGED <<fd, path, pid, marker, unlinks, reboot_runs>>

RunReboot(d) ==
    /\ pc[d] = "rebooting"
    /\ reboot_runs' = reboot_runs + 1
    /\ Goto(d, "looping")
    /\ UNCHANGED <<fd, path, pid, marker, unlinks, mishaps>>

\* run_forever has returned; drop(lock) closes the file.
Unlock(d) ==
    /\ pc[d] = "looping"
    /\ Goto(d, "unlocked")
    /\ UNCHANGED <<fd, path, pid, marker, unlinks, reboot_runs, mishaps>>

\* remove_file by name, whichever inode the name stands for by now.
Unlink(d) ==
    /\ pc[d] = "unlocked"
    /\ unlinks < MaxUnlinks
    /\ path' = NoFile
    /\ unlinks' = IF path = NoFile THEN unlinks ELSE unlinks + 1
    /\ Exit(d)
    /\ UNCHANGED <<pid, marker, reboot_runs, mishaps>>

\* The process exits or is killed without going through the shutdown: its lock
\* is released, its files stay.
Die(d) ==
    /\ pc[d] # "off"
    /\ mishaps' = IF pc[d] = "rebooting" THEN mishaps \cup {"died_rebooting"}
                  ELSE mishaps
    /\ Exit(d)
    /\ UNCHANGED <<path, pid, marker, unlinks, reboot_runs>>

-----------------------------------------------------------------------------
\* A boot: /run is empty and nothing runs.
Init ==
    /\ pc = [d \in Daemons |-> "off"]
    /\ fd = [d \in Daemons |-> NoFile]
    /\ path = NoFile
    /\ pid = [i \in Inodes |-> NoPid]
    /\ marker = FALSE
    /\ unlinks = 0
    /\ reboot_runs = 0
    /\ mishaps = {}

\* The host is rebooted: the files on tmpfs are gone with the processes.
HostReboot ==
    /\ pc' = [d \in Daemons |-> "off"]
    /\ fd' = [d \in Daemons |-> NoFile]
    /\ path' = NoFile
    /\ pid' = [i \in Inodes |-> NoPid]
    /\ marker' = FALSE
    /\ unlinks' = 0
    /\ reboot_runs' = 0
    /\ mishaps' = {}

Main(d) == \/ Open(d) \/ Lock(d) \/ LockFails(d) \/ WritePid(d)
           \/ CheckMarker(d) \/ CreateMarker(d) \/ CreateMarkerFails(d)
           \/ RunReboot(d) \/ Unlock(d) \/ Unlink(d)

Next == (\E d \in Daemons : Main(d) \/ Die(d)) \/ HostReboot

Spec == Init /\ [][Next]_vars

-----------------------------------------------------------------------------
(* Properties.                                                             *)

\* Type correctness.
TypeOK ==
    /\ pc \in [Daemons -> PCs]
    /\ fd \in [Daemons -> Inodes \cup {NoFile}]
    /\ path \in Inodes \cup {NoFile}
    /\ pid \in [Inodes -> Daemons \cup {NoPid}]
    /\ marker \in BOOLEAN
    /\ unlinks \in 0..MaxUnlinks
    /\ reboot_runs \in Nat
    /\ mishaps \subseteq Mishaps

\* What the lock guarantees although the shutdown releases it before it removes
\* the file: only a removal can let one more daemon in.  While nobody has shut
\* down there is at most one, however the processes start, fail and die.
OneMorePerUnlink == Cardinality(Active) <= unlinks + 1

\* What the lock is there for ("Single-instance lock", crond.rs): one daemon.
SingleInstance == Cardinality(Active) <= 1

\* The pid file names the daemon while none has shut down: starting a second
\* crond, which finds the lock taken, does not damage it.
PidFileNamesDaemon ==
    \A d \in Daemons :
        pc[d] \in {"started", "marking", "rebooting", "looping"} /\ unlinks = 0
            => \/ path # NoFile /\ pid[path] = d
               \/ "no_pid" \in mishaps

\* @reboot jobs are not started twice in one boot, by two daemons or by one
\* that was restarted, unless a daemon had to go on without the marker.
RebootAtMostOnce == reboot_runs > 1 => "no_marker" \in mishaps

\* A daemon in its main loop has started the @reboot jobs or follows one that
\* did ("`@reboot` jobs run once per boot", README).
RebootNotLost ==
    (\E d \in Daemons : pc[d] = "looping")
        => reboot_runs > 0 \/ "no_marker" \in mishaps

\* The same, except that a daemon died while it was starting them.
RebootLostOnlyByDeath == RebootNotLost \/ "died_rebooting" \in mishaps
=============================================================================
