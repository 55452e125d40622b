----------------------------- MODULE CrontabCmd -----------------------------
(***************************************************************************)
(* crontab(1) (bin/crontab.rs, allow.rs): several commands at once list,   *)
(* install, edit, test and remove crontabs or set the cluster host, each   *)
(* started by some user with some privileges.  A step is what one command  *)
(* does between two system calls that others can notice; it may be killed  *)
(* after any of them, and any call may fail.                               *)
(*                                                                         *)
(* A text is its verdict: Valid texts pass check_syntax, the others do     *)
(* not.  The empty text is valid.                                          *)
(***************************************************************************)
EXTENDS Privs, FiniteSets

CONSTANTS
    Procs,          \* the commands
    Users,          \* root among them
    Valid, Invalid, \* the texts
    Empty,          \* the empty one
    Lines,          \* the command lines of each command: [op, user, u_first, me, mode]
    NoUser          \* no -u

Texts   == Valid \cup Invalid
Absent  == "absent"         \* no such file
Partial == "partial"        \* written in part
Torn    == ""               \* a host file that was truncated

FileOps == {"install", "test"}
Ops     == FileOps \cup {"list", "remove", "edit", "set_host", "clear_host", "show_host"}
Modes   == {"plain", "setuid", "setgid"}

ASSUME CommandAssumption ==
    /\ Root \in Users /\ NoUser \notin Users
    /\ Empty \in Valid /\ {Absent, Partial} \cap Texts = {}
    /\ \A p \in Procs : \A c \in Lines[p] :
          c.op \in Ops /\ c.user \in Users \cup {NoUser} /\ c.me \in Users /\ c.mode \in Modes

VARIABLES
    spool,          \* the crontab of each user: its text and owner
    spool_dir,      \* the spool directory exists
    host,           \* .cron.hostname: absent, torn, or the command that set it
    proc            \* the state of each command

vars == <<spool, spool_dir, host, proc>>

File(t, u) == [text |-> t, owner |-> u]
NoFile     == File(Absent, Root)

Move(p, c) == proc' = [proc EXCEPT ![p] = c]

At(p, pc) == proc[p].pc = pc

Target(p) == IF proc[p].line.user = NoUser THEN proc[p].line.me ELSE proc[p].line.user

\* The command c at its next step.
To(c, pc) == [c EXCEPT !.pc = pc]

\* The end of main; a failure is reported by the exit status.
Done(c, st) == [c EXCEPT !.pc = "done", !.status = st]

\* What a command does to files of its caller, to the spool, or as its editor:
\* kept to look at the identity it had.
Using(c, what, i) == [c EXCEPT !.used = @ \cup {<<what, i>>}]

-----------------------------------------------------------------------------
(* main: the checks before anything happens.                               *)

Launched(c) ==
    LET eff == IF c.mode = "setuid" THEN Root ELSE c.me
        grp == IF c.mode = "setgid" THEN "cron" ELSE c.me
    IN  [ruid |-> c.me, euid |-> eff, suid |-> eff,
         rgid |-> c.me, egid |-> grp, sgid |-> grp, groups |-> {c.me}]

HostOps == {"set_host", "clear_host", "show_host"}

\* Slip: privileged by the effective user, and so in every set-uid command.
option_order_error_euid(c) ==
    LET given == c.user # NoUser
        root  == Launched(c).euid = Root
    IN
    \/ given /\ ~root
    \/ c.op \in {"set_host", "clear_host"} /\ ~root
    \/ given /\ ~c.u_first /\ c.op \in HostOps \cup {"test"}
    \/ given /\ c.user # c.me /\ c.op \in HostOps

\* Options are judged in the order they were given; an action excludes others.
option_order_error(c) ==
    LET given == c.user # NoUser
        root  == c.me = Root
    IN
    \/ given /\ ~root
    \/ c.op \in {"set_host", "clear_host"} /\ ~root
    \/ given /\ ~c.u_first /\ c.op \in HostOps \cup {"test"}
    \/ given /\ c.user # c.me /\ c.op \in HostOps

\* How an access list looks to a user.
ListStates == {"absent", "unreadable", "listed", "not_listed"}

user_allowed(allow, deny, me) ==
    \/ me = Root
    \/ allow = "listed"
    \/ allow = "absent" /\ deny \in {"absent", "not_listed"}

FirstStep(c) == CASE c.op \in FileOps     -> "read"
                  [] c.op = "list"        -> "list"
                  [] c.op = "remove"      -> "remove"
                  [] c.op = "edit"        -> "edit"
                  [] c.op = "set_host"    -> "truncate"
                  [] c.op = "clear_host"  -> "clear"
                  [] c.op = "show_host"   -> "show"

\* history: a list exists and can't be read, by a command that is not root's
Unread(allow, deny, me) == me # Root /\ "unreadable" \in {allow, deny}

Begin(p) ==
    /\ At(p, "new")
    /\ \E c \in Lines[p], allow, deny \in ListStates :
          LET start == [proc[p] EXCEPT !.line = c, !.ids = Launched(c),
                                       !.unread = Unread(allow, deny, c.me)]
          IN  IF option_order_error(c) \/ ~user_allowed(allow, deny, c.me)
              THEN Move(p, Done(start, "failure"))
              ELSE Move(p, To(start, FirstStep(c)))
    /\ UNCHANGED <<spool, spool_dir, host>>

-----------------------------------------------------------------------------
(* Listing and removing; the cluster host.                                 *)

List(p) ==
    /\ At(p, "list")
    /\ \/ /\ spool[Target(p)].text # Absent
          /\ Move(p, Done(Using(proc[p], "spool", proc[p].ids), "success"))
       \/ Move(p, Done(proc[p], "failure"))
    /\ UNCHANGED <<spool, spool_dir, host>>

\* The crontab is there, and the user, if asked, wants it removed or not.
StatAndConfirm(p) ==
    /\ At(p, "remove")
    /\ \/ spool[Target(p)].text # Absent /\ Move(p, To(proc[p], "unlink"))
       \/ spool[Target(p)].text # Absent /\ Move(p, Done(proc[p], "success"))
       \/ Move(p, Done(proc[p], "failure"))
    /\ UNCHANGED <<spool, spool_dir, host>>

Unlink(p) ==
    /\ At(p, "unlink")
    /\ \/ /\ spool[Target(p)].text # Absent
          /\ spool' = [spool EXCEPT ![Target(p)] = NoFile]
          /\ Move(p, Done(Using(proc[p], "spool", proc[p].ids), "success"))
       \/ Move(p, Done(proc[p], "failure")) /\ UNCHANGED spool
    /\ UNCHANGED <<spool_dir, host>>

\* fs::write truncates, then writes.
TruncateHost(p) ==
    /\ At(p, "truncate")
    /\ \/ spool_dir /\ host' = Torn /\ Move(p, To(proc[p], "write"))
       \/ Move(p, Done(proc[p], "failure")) /\ UNCHANGED host
    /\ UNCHANGED <<spool, spool_dir>>

\* The file may have been removed meanwhile, or written by another command, too.
WriteHost(p) ==
    /\ At(p, "write")
    /\ \/ host' \in (IF host = Absent THEN {Absent} ELSE {p, host, Torn}) /\ Move(p, Done(proc[p], "success"))
       \/ Move(p, Done(proc[p], "failure")) /\ UNCHANGED host
    /\ UNCHANGED <<spool, spool_dir>>

ClearHost(p) ==
    /\ At(p, "clear")
    /\ \/ host' = Absent /\ Move(p, Done(proc[p], "success"))
       \/ Move(p, Done(proc[p], "failure")) /\ UNCHANGED host
    /\ UNCHANGED <<spool, spool_dir>>

ShowHost(p) ==
    /\ At(p, "show")
    /\ \/ host # Absent /\ Move(p, Done(proc[p], "success"))
       \/ Move(p, Done(proc[p], "failure"))
    /\ UNCHANGED <<spool, spool_dir, host>>

-----------------------------------------------------------------------------
(* Installing.                                                             *)

\* check_syntax for an installation or a test.
AfterCheck(c) == IF c.text \in Invalid THEN Done(c, "failure")
                 ELSE IF c.line.op = "test" THEN Done(c, "success")
                 ELSE To(c, "install")

\* The file is read as the caller, standard input as it is.
ReadInput(p) ==
    LET c == proc[p] IN
    /\ At(p, "read")
    /\ \E i \in Dropped(c.ids) : \E after \in Regained(i, c.ids) :
          \/ Move(p, Done(c, "failure"))
          \/ \E t \in Texts :
                \/ Move(p, AfterCheck([c EXCEPT !.text = t]))
                \/ Move(p, AfterCheck(Using([c EXCEPT !.text = t, !.ids = after], "caller", i)))
    /\ UNCHANGED <<spool, spool_dir, host>>

\* What run of an edit session returns; with keep the copy is left behind.
Outcome(c, st, keep) == [c EXCEPT !.pc = "close", !.status = st, !.keep = keep]

\* The end of an installation, by itself or in an edit session.
Installed(c, st, keep) == IF c.line.op = "edit" THEN Outcome(c, "success", keep) ELSE Done(c, st)

\* Slip: the temporary file stays.
InstallFailsLeaves(p) ==
    /\ proc[p].pc \in {"install", "fill", "persist"}
    /\ Move(p, Installed(proc[p], "failure", TRUE))
    /\ UNCHANGED <<spool, spool_dir, host>>

\* install fails and drops its temporary file; an edit that can't be installed
\* is left for the user, and still a success.
InstallFails(p) ==
    /\ proc[p].pc \in {"install", "fill", "persist"}
    /\ spool_dir' \in {spool_dir, spool_dir \/ (At(p, "install") /\ proc[p].ids.euid = Root)}
    /\ Move(p, Installed([proc[p] EXCEPT !.tmp = NoFile], "failure", TRUE))
    /\ UNCHANGED <<spool, host>>

\* The spool directory, if root may create it, and a file with a name that the
\* daemon passes over.
MakeTmp(p) ==
    LET i == proc[p].ids IN
    /\ At(p, "install")
    /\ spool_dir \/ i.euid = Root
    /\ spool_dir' = TRUE
    /\ Move(p, Using([proc[p] EXCEPT !.pc = "fill", !.tmp = File(Partial, i.euid)], "spool", i))
    /\ UNCHANGED <<spool, host>>

\* Slip: the owner is set once the file has its name.
FillOnly(p) ==
    /\ At(p, "fill")
    /\ Move(p, [proc[p] EXCEPT !.pc = "persist", !.tmp = File(proc[p].text, proc[p].ids.euid)])
    /\ UNCHANGED <<spool, spool_dir, host>>

\* Write, sync, chmod and, by root, chown.
Fill(p) ==
    /\ At(p, "fill")
    /\ LET owner == IF proc[p].ids.euid = Root THEN Target(p) ELSE proc[p].ids.euid
       IN  Move(p, [proc[p] EXCEPT !.pc = "persist", !.tmp = File(proc[p].text, owner)])
    /\ UNCHANGED <<spool, spool_dir, host>>

\* Rename the file to its name.
Persist(p) ==
    /\ At(p, "persist")
    /\ spool' = [spool EXCEPT ![Target(p)] = proc[p].tmp]
    /\ Move(p, Installed([proc[p] EXCEPT !.tmp = NoFile, !.installed = TRUE], "success", FALSE))
    /\ UNCHANGED <<spool_dir, host>>

-----------------------------------------------------------------------------
(* Editing.                                                                *)

ReadOriginal(p) ==
    LET there == spool[Target(p)].text # Absent
        text  == IF there THEN spool[Target(p)].text ELSE Empty
    IN
    /\ At(p, "edit")
    /\ \/ Move(p, [proc[p] EXCEPT !.pc = "copy", !.original = text])
       \/ Move(p, Done(proc[p], "failure"))
    /\ UNCHANGED <<spool, spool_dir, host>>

\* The copy is made as the caller.
MakeCopy(p) ==
    LET c == proc[p] IN
    /\ At(p, "copy")
    /\ \E i \in Dropped(c.ids) : \E after \in Regained(i, c.ids) :
          \/ Move(p, Done(c, "failure"))
          \/ Move(p, Using([c EXCEPT !.pc = "editor", !.copy = c.original, !.ids = after], "caller", i))
    /\ UNCHANGED <<spool, spool_dir, host>>

\* The editor leaves any text behind; if it fails, or can't be started, the
\* session is over.
RunEditor(p) ==
    LET c == proc[p] IN
    /\ At(p, "editor")
    /\ \/ Move(p, Outcome([c EXCEPT !.saved = Absent], "failure", FALSE))
       \/ \E child \in configure_child(c.ids, {real_user(c.ids)}), t \in Texts :
             LET edited == Using([c EXCEPT !.copy = t], "editor", child)
                 work   == IF t = c.original THEN Absent ELSE t
             IN  \/ Move(p, [edited EXCEPT !.pc = "reread", !.saved = work])
                 \/ Move(p, Outcome([edited EXCEPT !.saved = Absent], "failure", FALSE))
    /\ UNCHANGED <<spool, spool_dir, host>>

\* Nothing changed, something to install, or something wrong.
AfterEdit(c) == IF c.copy = c.original THEN Outcome(c, "success", FALSE)
                ELSE IF c.copy \in Valid THEN [c EXCEPT !.pc = "install", !.text = c.copy]
                ELSE To(c, "ask")

\* Slip: a copy that can't be read back is no work of the user.
RereadDrops(p) ==
    /\ At(p, "reread")
    /\ Move(p, Outcome(proc[p], "failure", FALSE)) \/ Move(p, AfterEdit(proc[p]))
    /\ UNCHANGED <<spool, spool_dir, host>>

\* What was edited is read back, as the caller, and compared and checked.
Reread(p) ==
    LET c == proc[p] IN
    /\ At(p, "reread")
    /\ \E i \in Dropped(c.ids) : \E after \in Regained(i, c.ids) :
          \/ Move(p, Outcome(c, "failure", TRUE))
          \/ Move(p, AfterEdit(Using([c EXCEPT !.ids = after], "caller", i)))
    /\ UNCHANGED <<spool, spool_dir, host>>

AskRetry(p) ==
    /\ At(p, "ask")
    /\ Move(p, To(proc[p], "editor")) \/ Move(p, Outcome(proc[p], "success", TRUE))
    /\ UNCHANGED <<spool, spool_dir, host>>

\* The copy is removed as the caller, unless it is kept or can't be removed.
Close(p) ==
    LET c == proc[p] IN
    /\ At(p, "close")
    /\ \/ Move(p, To(c, "done"))
       \/ /\ ~c.keep
          /\ \E i \in Dropped(c.ids) : \E after \in Regained(i, c.ids) :
                Move(p, Using([c EXCEPT !.pc = "done", !.copy = Absent, !.ids = after], "caller", i))
    /\ UNCHANGED <<spool, spool_dir, host>>

-----------------------------------------------------------------------------
(* A command is killed, or gives up because it can't change its identity.  *)
Die(p) ==
    /\ proc[p].pc \notin {"new", "done", "dead"}
    /\ Move(p, To(proc[p], "dead"))
    /\ UNCHANGED <<spool, spool_dir, host>>

\* The administrator makes or removes the spool directory while it is empty.
MakeSpool ==
    /\ \A u \in Users : spool[u] = NoFile
    /\ \A p \in Procs : proc[p].tmp = NoFile
    /\ host = Absent
    /\ spool_dir' = ~spool_dir
    /\ UNCHANGED <<spool, host, proc>>

NoLine == [op |-> "list", user |-> NoUser, u_first |-> TRUE, me |-> Root, mode |-> "plain"]

Init ==
    /\ spool \in [Users -> {NoFile}]
    /\ spool_dir = FALSE
    /\ host = Absent
    /\ proc = [p \in Procs |->
          [pc |-> "new", status |-> "none", line |-> NoLine, ids |-> Launched(NoLine),
           text |-> Absent, tmp |-> NoFile, original |-> Absent, copy |-> Absent, keep |-> FALSE,
           unread |-> FALSE, used |-> {}, saved |-> Absent, installed |-> FALSE]]

Command(p) ==
    \/ Begin(p) \/ List(p) \/ StatAndConfirm(p) \/ Unlink(p)
    \/ TruncateHost(p) \/ WriteHost(p) \/ ClearHost(p) \/ ShowHost(p)
    \/ ReadInput(p) \/ InstallFails(p) \/ MakeTmp(p) \/ Fill(p) \/ Persist(p)
    \/ ReadOriginal(p) \/ MakeCopy(p) \/ RunEditor(p) \/ Reread(p) \/ AskRetry(p) \/ Close(p)

Next == MakeSpool \/ \E p \in Procs : Command(p) \/ Die(p)

Spec == Init /\ [][Next]_vars

-----------------------------------------------------------------------------
(* Properties.                                                             *)

\* A crontab as a reader finds it: whole, or broken because it is incomplete,
\* unchecked or somebody else's.
Visible(u) == IF spool[u] = NoFile THEN Absent
              ELSE IF spool[u].text \in Valid /\ spool[u].owner = u THEN spool[u].text
              ELSE "broken"

Register == INSTANCE CrontabFile WITH crontab <- [u \in Users |-> Visible(u)]

\* The crontab of every user is replaced atomically, by complete, checked texts
\* that belong to the user, however commands interleave, fail and die.
ReplacedAtomically == Register!Spec

\* The daemon's directory is left with files of crontab(1) only by commands that
\* were killed: every failure removes its temporary file.
LeftoversOnlyByDeath ==
    \A p \in Procs : proc[p].tmp # NoFile => proc[p].pc \in {"fill", "persist", "dead"}

\* What the user has edited is not lost: when a session is over, what the editor
\* last left is installed, or still in the copy (EditOutcome), unless the editor
\* failed or left what it was given.
EditsKept ==
    \A p \in Procs :
        LET c == proc[p] IN
        c.pc \in {"done", "dead"} /\ c.saved # Absent /\ ~c.installed
            => c.copy = c.saved

\* Files of the caller are used with the ids of the caller, the spool with those
\* the command was started with, and the editor runs without a way back.
CallerPrivileges ==
    \A p \in Procs : \A a \in proc[p].used :
        LET me == proc[p].line.me
            i  == a[2]
        IN  /\ a[1] = "caller" => i.euid = me /\ i.egid = me
            /\ a[1] = "spool"  => i = Launched(proc[p].line)
            /\ a[1] = "editor" => /\ {i.ruid, i.euid, i.suid} = {me}
                                  /\ {i.rgid, i.egid, i.sgid} = {me}
                                  /\ i.groups = {me}

\* Nobody changes the crontab of another user, or the cluster host, unless root
\* does: whatever -u names, in whatever order the options come, and although the
\* binary may be set-uid, a change is a step of a command that was started by the
\* user of that crontab, or by root.
Authorised ==
    [][spool' # spool \/ host' # host =>
          \E p \in Procs : LET c == proc'[p] IN
             /\ c # proc[p]
             /\ \A u \in Users : spool'[u] # spool[u] => c.line.me \in {u, Root}
             /\ host' # host => c.line.me = Root]_vars

\* "If either file exists but can't be read, every non-root user is denied rather
\* than let through" (README): nothing is done for such a user.
FailClosed ==
    \A p \in Procs : proc[p].unread => proc[p].pc = "done" /\ proc[p].status = "failure"
=============================================================================
