---------------------------- MODULE MCCrontabCmd ----------------------------
(* A small instance of CrontabCmd: root and two users, who run one command  *)
(* that may be anything, also with the name of another user, and one that   *)
(* changes a crontab.                                                       *)
EXTENDS CrontabCmd, TLC

CONSTANTS p1, p2, u1, u2

MCProcs == {p1, p2}
MCUsers == {Root, u1, u2}

Line(op, user, me, mode, first) ==
    [op |-> op, user |-> user, u_first |-> first, me |-> me, mode |-> mode]

MCLines ==
    (p1 :> ({Line(op, NoUser, me, mode, TRUE) :
                op \in Ops, me \in {Root, u1}, mode \in Modes}
            \cup {Line(op, u1, Root, "setuid", first) : op \in Ops, first \in BOOLEAN}
            \cup {Line(op, u, u1, "setuid", first) :
                op \in Ops, u \in MCUsers, first \in BOOLEAN}))
    @@ (p2 :> {Line(op, u1, Root, "plain", TRUE) : op \in {"install", "edit"}}
              \cup {Line("remove", NoUser, u1, "setuid", TRUE), Line("edit", NoUser, u1, "plain", TRUE)})
=============================================================================
