----------------------------- MODULE StartupInv -----------------------------
(***************************************************************************)
(* The inductive invariant behind the properties of Startup.               *)
(***************************************************************************)
EXTENDS Startup

\* The name stands for the newest inode, and nobody has a newer one open.
FilesInOrder ==
    /\ path # NoFile => path = unlinks + 1
    /\ \A d \in Daemons : pc[d] # "off" =>
          /\ 1 <= fd[d]
          /\ fd[d] <= unlinks + 1
          /\ path = NoFile => fd[d] <= unlinks

\* One process at most holds the lock of an inode.
LockExclusive == \A d, e \in Active : fd[d] = fd[e] => d = e

\* Whoever has written a pid file keeps the others from writing it.
PidKept ==
    \A d \in Daemons :
        pc[d] \in Holding \ {"locked"} =>
            pid[fd[d]] = d \/ "no_pid" \in mishaps

\* As long as every daemon could create its marker: nobody has got past it, or
\* shut down, without one, and while the jobs are being started there is one
\* daemon only.
MarkerFirst ==
    /\ reboot_runs <= 1
    /\ ~marker => /\ unlinks = 0
                  /\ reboot_runs = 0
                  /\ \A d \in Daemons : pc[d] \notin {"rebooting", "looping", "unlocked"}
    /\ \A d \in Daemons : pc[d] = "marking" => ~marker
    /\ \A d \in Daemons : pc[d] = "rebooting" =>
          /\ unlinks = 0
          /\ reboot_runs = 0
          /\ \A e \in Daemons : pc[e] \notin {"looping", "unlocked"}
    /\ marker /\ reboot_runs = 0 =>
          \/ "died_rebooting" \in mishaps
          \/ \E d \in Daemons : pc[d] = "rebooting"

\* The inductive invariant.
IInv ==
    /\ TypeOK
    /\ FilesInOrder
    /\ LockExclusive
    /\ PidKept
    /\ "no_marker" \notin mishaps => MarkerFirst
=============================================================================
