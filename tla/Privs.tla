------------------------------- MODULE Privs -------------------------------
(***************************************************************************)
(* The identity of a process and how crontab-rs changes it (privs.rs):     *)
(* as_real_user drops and regains the effective ids around a call,         *)
(* configure_child gives them up for good between fork and exec.           *)
(*                                                                         *)
(* An operator that makes a system call yields the set of the identities   *)
(* that may result: none if the kernel refuses.  A group has the name of   *)
(* the user it belongs to.                                                 *)
(***************************************************************************)
CONSTANT Root       \* user id 0

-----------------------------------------------------------------------------
(* The kernel.                                                             *)

seteuid(i, u) == {j \in {[i EXCEPT !.euid = u]} : i.euid = Root \/ u \in {i.ruid, i.suid}}

setegid(i, g) == {j \in {[i EXCEPT !.egid = g]} : i.euid = Root \/ g \in {i.rgid, i.sgid}}

setgroups(i, gs) == {j \in {[i EXCEPT !.groups = gs]} : i.euid = Root}

setresgid(i, g) == {j \in {[i EXCEPT !.rgid = g, !.egid = g, !.sgid = g]} :
                       i.euid = Root \/ g \in {i.rgid, i.egid, i.sgid}}

setresuid(i, u) == {j \in {[i EXCEPT !.ruid = u, !.euid = u, !.suid = u]} :
                       i.euid = Root \/ u \in {i.ruid, i.euid, i.suid}}

-----------------------------------------------------------------------------
(* as_real_user: the identities of the call, and those after it.           *)

NotSetId(i) == i.euid = i.ruid /\ i.egid = i.rgid

Dropped(i) == IF NotSetId(i) THEN {i}
              ELSE UNION {seteuid(j, i.ruid) : j \in setegid(i, i.rgid)}

\* Slip: what was dropped is not regained.
RegainedNot(i, before) == {i}

Regained(i, before) == UNION {setegid(j, before.egid) : j \in seteuid(i, before.euid)}

-----------------------------------------------------------------------------
(* The child of a process with identity i that is to run as uid, gid and   *)
(* groups, just before exec.                                               *)

\* The groups, while it may change them, then the group, then the user.
Assume(i, c) ==
    LET grouped == IF i.euid = Root THEN setgroups(i, c.groups) ELSE {i}
    IN  UNION {setresuid(k, c.uid) : k \in UNION {setresgid(j, c.gid) : j \in grouped}}

\* What must hold afterwards, or the child does not start: the ids are the right
\* ones, and there is no way back to root.
GivenUp(i, c) == /\ i.euid = c.uid /\ i.egid = c.gid
                 /\ c.uid # Root => seteuid(i, Root) = {}

\* No credentials are none to give up: only a binary without privileges may.
configure_child(i, cs) ==
    IF cs = {} THEN {j \in {i} : NotSetId(i)}
    ELSE UNION {{j \in Assume(i, c) : GivenUp(j, c)} : c \in cs}

\* Creds::real_user
real_user(i) == [uid |-> i.ruid, gid |-> i.rgid, groups |-> i.groups]
=============================================================================
