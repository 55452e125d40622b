-------------------------- MODULE CrontabCmdProofs --------------------------
(***************************************************************************)
(* What CrontabCmd guarantees for any number of commands, users and texts: *)
(* the crontabs are replaced atomically, temporary files stay behind only  *)
(* when a command is killed, what was edited is kept, the files of the     *)
(* caller are used with the ids of the caller, and nobody but root changes *)
(* what belongs to another.                                                *)
(***************************************************************************)
EXTENDS CrontabCmd, TLAPS

AllLines == {NoLine} \cup UNION {Lines[p] : p \in Procs}
Groups   == Users \cup {"cron"}

Identities == [ruid : Users, euid : Users, suid : Users,
               rgid : Groups, egid : Groups, sgid : Groups, groups : SUBSET Groups]

Files == [text : Texts \cup {Absent, Partial}, owner : Users]

PCs == {"new", "list", "remove", "unlink", "truncate", "write", "clear", "show", "read", "install",
        "fill", "persist", "edit", "copy", "editor", "reread", "ask", "close", "done", "dead"}

Statuses == {"none", "success", "failure"}

Kinds == {"caller", "spool", "editor"}

Commands == [pc : PCs, status : Statuses, line : AllLines, ids : Identities,
             text : Texts \cup {Absent}, tmp : Files, original : Texts \cup {Absent},
             copy : Texts \cup {Absent}, keep : BOOLEAN, unread : BOOLEAN,
             used : SUBSET (Kinds \X Identities), saved : Texts \cup {Absent},
             installed : BOOLEAN]

Over == {"new", "done", "dead"}

-----------------------------------------------------------------------------
(* The inductive invariant, about one command c.                           *)

\* Whose crontab it is about.
Subject(c) == IF c.line.user = NoUser THEN c.line.me ELSE c.line.user

\* A command keeps, or gets back, the ids it was started with.
SameIds(c) == c.ids = Launched(c.line)

\* Only what the options permit is done.
Permitted(c) ==
    /\ c.pc \notin Over => ~option_order_error(c.line)
    /\ c.pc \in {"truncate", "write"} => c.line.op = "set_host"
    /\ c.pc = "clear" => c.line.op = "clear_host"

\* What is installed was checked, and belongs to the user when it gets its name.
Checked(c) ==
    /\ c.pc \in {"install", "fill", "persist"} => c.text \in Valid
    /\ c.pc = "persist" => c.tmp.text = c.text /\ c.tmp.owner = Subject(c)

Tidy(c) == c.tmp # NoFile => c.pc \in {"fill", "persist", "dead"}

\* The user's work is in the copy until it is installed, and the copy is given up
\* only then.
Safe(c) ==
    /\ c.saved # Absent /\ ~c.installed => c.copy = c.saved
    /\ c.saved # Absent => c.saved # c.original
    /\ c.pc \in {"new", "edit", "copy"} => c.saved = Absent
    /\ c.pc = "close" /\ ~c.keep => c.saved = Absent \/ c.installed

\* A use of the identity i that CallerPrivileges permits.
Proper(l, what, i) ==
    /\ what = "caller" => i.euid = l.me /\ i.egid = l.me
    /\ what = "spool"  => i = Launched(l)
    /\ what = "editor" => /\ {i.ruid, i.euid, i.suid} = {l.me}
                          /\ {i.rgid, i.egid, i.sgid} = {l.me}
                          /\ i.groups = {l.me}

Privileged(c) ==
    /\ c.pc = "new" => c.used = {}
    /\ \A a \in c.used : Proper(c.line, a[1], a[2])

Good(c) == /\ c \in Commands
           /\ SameIds(c) /\ Permitted(c) /\ Checked(c) /\ Tidy(c) /\ Safe(c) /\ Privileged(c)

\* A crontab is there, whole and its user's, or not there.
Whole == /\ spool \in [Users -> Files]
         /\ \A u \in Users : spool[u] = NoFile \/ (spool[u].text \in Valid /\ spool[u].owner = u)

IInv == /\ Whole
        /\ proc \in [Procs -> Commands]
        /\ \A p \in Procs : Good(proc[p])

-----------------------------------------------------------------------------
(* The parameters.                                                         *)

\* Neither what is missing nor what is cut short is a text.
LEMMA TextFacts == /\ Absent \notin Texts /\ Partial \notin Texts
                   /\ Valid \subseteq Texts /\ Invalid \subseteq Texts /\ Empty \in Texts
                   /\ \A t \in Texts : t \notin Invalid => t \in Valid
BY CommandAssumption DEF Texts

\* A command line names users, and what it asks for is known.
LEMMA LineFacts ==
    ASSUME NEW l \in AllLines
    PROVE  l.op \in Ops /\ l.user \in Users \cup {NoUser} /\ l.me \in Users /\ l.mode \in Modes
<1>1. CASE l = NoLine
  BY <1>1, CommandAssumption DEF NoLine, Ops, Modes
<1>2. CASE \E p \in Procs : l \in Lines[p]
  BY <1>2, CommandAssumption
<1>3. l = NoLine \/ l \in UNION {Lines[p] : p \in Procs}
  BY DEF AllLines
<1>4. QED
  BY <1>1, <1>2, <1>3

\* No file at all is among what a name may show.
LEMMA NoFileType == NoFile \in Files
BY CommandAssumption DEF NoFile, File, Files

\* The names that the type invariant knows.
LEMMA Names ==
    /\ "new" \in PCs /\ "list" \in PCs /\ "remove" \in PCs /\ "unlink" \in PCs
    /\ "truncate" \in PCs /\ "write" \in PCs /\ "clear" \in PCs /\ "show" \in PCs
    /\ "read" \in PCs /\ "install" \in PCs /\ "fill" \in PCs /\ "persist" \in PCs
    /\ "edit" \in PCs /\ "copy" \in PCs /\ "editor" \in PCs /\ "reread" \in PCs
    /\ "ask" \in PCs /\ "close" \in PCs /\ "done" \in PCs /\ "dead" \in PCs
    /\ "none" \in Statuses /\ "success" \in Statuses /\ "failure" \in Statuses
    /\ "caller" \in Kinds /\ "spool" \in Kinds /\ "editor" \in Kinds
BY DEF PCs, Statuses, Kinds

\* A command starts with ids of its caller and of root.
LEMMA LaunchedType == \A l \in AllLines : Launched(l) \in Identities
<1> SUFFICES ASSUME NEW l \in AllLines PROVE Launched(l) \in Identities
  OBVIOUS
<1>1. l.me \in Users /\ Root \in Users
  BY LineFacts, CommandAssumption
<1>2. QED
  BY <1>1 DEF Launched, Identities, Groups

-----------------------------------------------------------------------------
(* Changes of identity.                                                    *)

\* What as_real_user runs has the effective ids of the caller.
LEMMA DroppedIds ==
    ASSUME NEW i \in Identities, NEW j \in Dropped(i)
    PROVE  j \in Identities /\ j.euid = i.ruid /\ j.egid = i.rgid
           /\ j = [i EXCEPT !.euid = i.ruid, !.egid = i.rgid]
<1>1. CASE NotSetId(i)
  BY <1>1 DEF Dropped, NotSetId, Identities
<1>2. CASE ~NotSetId(i)
  <2>1. PICK g \in setegid(i, i.rgid) : j \in seteuid(g, i.ruid)
    BY <1>2 DEF Dropped
  <2>2. g = [i EXCEPT !.egid = i.rgid]
    BY <2>1 DEF setegid
  <2>3. j = [g EXCEPT !.euid = i.ruid]
    BY <2>1, <2>2 DEF seteuid
  <2>4. QED
    BY <2>2, <2>3 DEF Identities, Groups
<1>3. QED
  BY <1>1, <1>2

\* After as_real_user the ids are what they were.
LEMMA RegainedIds ==
    ASSUME NEW i \in Identities, NEW j \in Dropped(i), NEW k \in Regained(j, i)
    PROVE  k = i
<1>1. j = [i EXCEPT !.euid = i.ruid, !.egid = i.rgid]
  BY DroppedIds
<1>2. k = [[j EXCEPT !.euid = i.euid] EXCEPT !.egid = i.egid]
  BY DEF Regained, seteuid, setegid
<1>3. QED
  BY <1>1, <1>2 DEF Identities

\* The editor has the ids of the caller, all of them.
LEMMA EditorIds ==
    ASSUME NEW l \in AllLines, NEW child \in configure_child(Launched(l), {real_user(Launched(l))})
    PROVE  child \in Identities /\ Proper(l, "editor", child)
<1> DEFINE i == Launched(l)
           c == real_user(i)
<1>1. l.me \in Users
  BY LineFacts
<1>2. /\ i \in Identities /\ i.ruid = l.me /\ i.rgid = l.me /\ i.groups = {l.me}
      /\ c.uid = l.me /\ c.gid = l.me /\ c.groups = {l.me}
  BY <1>1, LaunchedType DEF Launched, real_user
<1> HIDE DEF i, c
<1>3. child \in Assume(i, c)
  BY DEF configure_child, i, c
<1>4. PICK g \in {i} \cup {[i EXCEPT !.groups = c.groups]} :
         child \in UNION {setresuid(k, c.uid) : k \in setresgid(g, c.gid)}
  BY <1>3 DEF Assume, setgroups
<1>5. g \in Identities /\ g.groups = {l.me}
  BY <1>1, <1>2, <1>4 DEF Identities, Groups
<1>6. PICK k \in setresgid(g, c.gid) : child \in setresuid(k, c.uid)
  BY <1>4
<1>7. k = [g EXCEPT !.rgid = l.me, !.egid = l.me, !.sgid = l.me]
  BY <1>2, <1>6 DEF setresgid
<1>8. child = [k EXCEPT !.ruid = l.me, !.euid = l.me, !.suid = l.me]
  BY <1>2, <1>6 DEF setresuid
<1>9. QED
  BY <1>1, <1>5, <1>7, <1>8 DEF Identities, Groups, Proper

-----------------------------------------------------------------------------
(* What the steps are made of keeps a command good.                        *)

\* An access with ids that are proper for it keeps a command good.
LEMMA UsingGood ==
    ASSUME NEW c, Good(c), c.pc # "new", NEW what \in Kinds, NEW i \in Identities,
           Proper(c.line, what, i)
    PROVE  Good(Using(c, what, i))
<1> DEFINE d == Using(c, what, i)
<1>1. d \in Commands /\ d = [c EXCEPT !.used = c.used \cup {<<what, i>>}]
  BY DEF Good, Commands, Using
<1>2. /\ d.pc = c.pc /\ d.line = c.line /\ d.ids = c.ids /\ d.text = c.text /\ d.tmp = c.tmp
      /\ d.original = c.original /\ d.copy = c.copy /\ d.keep = c.keep
      /\ d.saved = c.saved /\ d.installed = c.installed
      /\ d.used = c.used \cup {<<what, i>>}
  BY DEF Good, Commands, Using
<1> HIDE DEF d
<1>3. SameIds(d) /\ Permitted(d) /\ Tidy(d) /\ Safe(d)
  BY <1>2 DEF Good, SameIds, Permitted, Tidy, Safe
<1>4. Checked(d)
  BY <1>2 DEF Good, Checked, Subject
<1>5. Privileged(d)
  BY <1>2 DEF Good, Privileged
<1>6. QED
  BY <1>1, <1>3, <1>4, <1>5 DEF Good, d

\* A command that is over, whatever its status, when it has no temporary file.
LEMMA DoneGood ==
    ASSUME NEW c, Good(c), c.tmp = NoFile, NEW st \in Statuses
    PROVE  Good(Done(c, st)) /\ Good(To(c, "done"))
<1> SUFFICES ASSUME NEW d, d = Done(c, st) \/ d = To(c, "done") PROVE Good(d)
  OBVIOUS
<1>1. d \in Commands
  BY Names DEF Good, Commands, Done, To
<1>2. /\ d.pc = "done" /\ d.line = c.line /\ d.ids = c.ids /\ d.tmp = c.tmp
      /\ d.original = c.original /\ d.copy = c.copy /\ d.used = c.used
      /\ d.saved = c.saved /\ d.installed = c.installed
  BY DEF Good, Commands, Done, To
<1>3. SameIds(d) /\ Permitted(d) /\ Checked(d) /\ Tidy(d) /\ Privileged(d)
  BY <1>2 DEF Good, SameIds, Permitted, Checked, Tidy, Privileged, Over
<1>4. Safe(d)
  BY <1>2 DEF Good, Safe
<1>5. QED
  BY <1>1, <1>3, <1>4 DEF Good

\* A command that is killed.
LEMMA DeadGood == ASSUME NEW c, Good(c) PROVE Good(To(c, "dead"))
<1> DEFINE d == To(c, "dead")
<1>1. d \in Commands
  BY Names DEF Good, Commands, To
<1>2. /\ d.pc = "dead" /\ d.line = c.line /\ d.ids = c.ids /\ d.tmp = c.tmp
      /\ d.original = c.original /\ d.copy = c.copy /\ d.used = c.used
      /\ d.saved = c.saved /\ d.installed = c.installed
  BY DEF Good, Commands, To
<1> HIDE DEF d
<1>3. SameIds(d) /\ Permitted(d) /\ Checked(d) /\ Tidy(d) /\ Privileged(d)
  BY <1>2 DEF Good, SameIds, Permitted, Checked, Tidy, Privileged, Over
<1>4. Safe(d)
  BY <1>2 DEF Good, Safe
<1>5. QED
  BY <1>1, <1>3, <1>4 DEF Good, d

\* The steps where the user's work is safe in the copy, or there is none.
Between == {"unlink", "editor", "reread", "ask"}

\* So does going on to a step that needs no temporary file.
LEMMA ToGood ==
    ASSUME NEW c, Good(c), c.pc \notin Over, c.tmp = NoFile, NEW pc \in Between
    PROVE  Good(To(c, pc))
<1> DEFINE d == To(c, pc)
<1>1. d \in Commands
  BY Names DEF Good, Commands, To, Between
<1>2. /\ d.pc = pc /\ d.line = c.line /\ d.ids = c.ids /\ d.tmp = c.tmp
      /\ d.original = c.original /\ d.copy = c.copy /\ d.used = c.used
      /\ d.saved = c.saved /\ d.installed = c.installed
  BY DEF Good, Commands, To
<1> HIDE DEF d
<1>3. SameIds(d) /\ Permitted(d) /\ Checked(d) /\ Tidy(d) /\ Privileged(d)
  BY <1>2 DEF Good, SameIds, Permitted, Checked, Tidy, Privileged, Over, Between
<1>4. Safe(d)
  BY <1>2 DEF Good, Safe, Between
<1>5. QED
  BY <1>1, <1>3, <1>4 DEF Good, d

\* The end of a session keeps the copy, unless there is nothing to lose.
LEMMA OutcomeGood ==
    ASSUME NEW c, Good(c), c.pc \notin Over, c.tmp = NoFile, NEW st \in Statuses, NEW keep \in BOOLEAN,
           keep \/ c.saved = Absent \/ c.installed
    PROVE  Good(Outcome(c, st, keep))
<1> DEFINE d == Outcome(c, st, keep)
<1>1. d \in Commands
  BY Names DEF Good, Commands, Outcome
<1>2. /\ d.pc = "close" /\ d.line = c.line /\ d.ids = c.ids /\ d.tmp = c.tmp /\ d.keep = keep
      /\ d.original = c.original /\ d.copy = c.copy /\ d.used = c.used
      /\ d.saved = c.saved /\ d.installed = c.installed
  BY DEF Good, Commands, Outcome
<1> HIDE DEF d
<1>3. SameIds(d) /\ Permitted(d) /\ Checked(d) /\ Tidy(d) /\ Privileged(d)
  BY <1>2 DEF Good, SameIds, Permitted, Checked, Tidy, Privileged, Over
<1>4. Safe(d)
  BY <1>2 DEF Good, Safe
<1>5. QED
  BY <1>1, <1>3, <1>4 DEF Good, d

\* A checked text is going to be installed.
LEMMA InstallGood ==
    ASSUME NEW c, Good(c), c.pc \in {"read", "reread"}, NEW t \in Valid
    PROVE  Good([c EXCEPT !.pc = "install", !.text = t])
<1> DEFINE d == [c EXCEPT !.pc = "install", !.text = t]
<1>1. d \in Commands
  BY Names, TextFacts DEF Good, Commands
<1>2. /\ d.pc = "install" /\ d.line = c.line /\ d.ids = c.ids /\ d.tmp = c.tmp /\ d.text = t
      /\ d.original = c.original /\ d.copy = c.copy /\ d.used = c.used
      /\ d.saved = c.saved /\ d.installed = c.installed
  BY DEF Good, Commands
<1> HIDE DEF d
<1>3. SameIds(d) /\ Permitted(d) /\ Checked(d) /\ Tidy(d) /\ Privileged(d)
  BY <1>2 DEF Good, SameIds, Permitted, Checked, Tidy, Privileged, Over
<1>4. Safe(d)
  BY <1>2 DEF Good, Safe
<1>5. QED
  BY <1>1, <1>3, <1>4 DEF Good, d

\* An installation ends without a temporary file.
LEMMA InstalledGood ==
    ASSUME NEW c, Good(c), c.pc \in {"install", "fill", "persist"}, NEW st \in Statuses,
           NEW keep \in BOOLEAN, NEW i \in BOOLEAN, c.installed => i, keep \/ i
    PROVE  Good(Installed([c EXCEPT !.tmp = NoFile, !.installed = i], st, keep))
<1> DEFINE e == [c EXCEPT !.tmp = NoFile, !.installed = i]
           d == Installed(e, st, keep)
<1>1. e \in Commands
  BY NoFileType DEF Good, Commands
<1>2. d \in Commands
  BY <1>1, Names DEF Commands, Installed, Outcome, Done
<1>3. /\ d.pc = "close" \/ d.pc = "done"
      /\ d.pc = "close" => d.keep = keep
      /\ d.line = c.line /\ d.ids = c.ids /\ d.tmp = NoFile
      /\ d.original = c.original /\ d.copy = c.copy /\ d.used = c.used
      /\ d.saved = c.saved /\ d.installed = i
  <2>1. /\ e.line = c.line /\ e.ids = c.ids /\ e.tmp = NoFile
        /\ e.original = c.original /\ e.copy = c.copy /\ e.used = c.used
        /\ e.saved = c.saved /\ e.installed = i
    BY DEF Good, Commands
  <2> HIDE DEF e
  <2>2. QED
    BY <1>1, <2>1 DEF Commands, Installed, Outcome, Done
<1> HIDE DEF d, e
<1>4. SameIds(d) /\ Permitted(d) /\ Checked(d) /\ Tidy(d) /\ Privileged(d)
  BY <1>3 DEF Good, SameIds, Permitted, Checked, Tidy, Privileged, Over
<1>5. Safe(d)
  BY <1>3 DEF Good, Safe
<1>6. QED
  BY <1>2, <1>4, <1>5 DEF Good, d, e

-----------------------------------------------------------------------------
(* The actions.                                                            *)

Moves(p) == \E d : Good(d) /\ Move(p, d)

\* A new command is turned away, or starts what the options ask for.
LEMMA BeginMoves == ASSUME IInv, NEW p \in Procs, Begin(p) PROVE Moves(p)
<1> DEFINE c == proc[p]
<1>1. Good(c) /\ c.pc = "new"
  BY DEF IInv, Begin, At
<1>2. PICK l \in Lines[p], allow \in ListStates, deny \in ListStates :
         LET start == [c EXCEPT !.line = l, !.ids = Launched(l), !.unread = Unread(allow, deny, l.me)]
         IN  IF option_order_error(l) \/ ~user_allowed(allow, deny, l.me)
             THEN Move(p, Done(start, "failure"))
             ELSE Move(p, To(start, FirstStep(l)))
  BY DEF Begin
<1> DEFINE g == Unread(allow, deny, l.me)
           e == [c EXCEPT !.line = l, !.ids = Launched(l), !.unread = g]
<1>3. l \in AllLines /\ g \in BOOLEAN
  BY DEF AllLines, Unread
<1>4. e \in Commands
  BY <1>1, <1>3, LaunchedType DEF Good, Commands
<1>5. /\ e.line = l /\ e.ids = Launched(l) /\ e.unread = g /\ e.tmp = NoFile /\ e.used = {}
      /\ e.saved = Absent
  <2>1. c.used = {} /\ c.saved = Absent /\ c.tmp = NoFile
    BY <1>1 DEF Good, Privileged, Safe, Tidy
  <2>2. QED
    BY <1>1, <2>1 DEF Good, Commands
<1> HIDE DEF e, g, c
<1>6. CASE option_order_error(l) \/ ~user_allowed(allow, deny, l.me)
  <2> DEFINE d == Done(e, "failure")
  <2>1. d \in Commands
    BY <1>4, Names DEF Commands, Done
  <2>2. /\ d.pc = "done" /\ d.line = l /\ d.ids = Launched(l) /\ d.tmp = NoFile /\ d.used = {}
        /\ d.saved = Absent
    BY <1>4, <1>5 DEF Commands, Done
  <2>3. Move(p, d)
    BY <1>2, <1>6 DEF e, g
  <2> HIDE DEF d
  <2>4. Good(d)
    BY <2>1, <2>2 DEF Good, SameIds, Permitted, Checked, Tidy, Safe, Privileged, Over
  <2>5. QED
    BY <2>3, <2>4 DEF Moves
<1>7. CASE ~option_order_error(l) /\ user_allowed(allow, deny, l.me)
  <2> DEFINE d == To(e, FirstStep(l))
  <2>1. l.op \in Ops
    BY <1>3, LineFacts
  <2>2. /\ FirstStep(l) \in {"read", "list", "remove", "edit", "truncate", "clear", "show"}
        /\ FirstStep(l) = "truncate" => l.op = "set_host"
        /\ FirstStep(l) = "clear" => l.op = "clear_host"
    BY <2>1 DEF FirstStep, Ops, FileOps
  <2>3. d \in Commands
    BY <1>4, <2>2, Names DEF Commands, To
  <2>4. /\ d.pc = FirstStep(l) /\ d.line = l /\ d.ids = Launched(l) /\ d.tmp = NoFile /\ d.used = {}
        /\ d.saved = Absent
    BY <1>4, <1>5 DEF Commands, To
  <2>5. Move(p, d)
    BY <1>2, <1>7 DEF e, g
  <2> HIDE DEF d
  <2>6. Permitted(d)
    BY <1>7, <2>2, <2>4 DEF Permitted
  <2>7. SameIds(d) /\ Checked(d) /\ Tidy(d) /\ Safe(d) /\ Privileged(d)
    BY <2>2, <2>4 DEF SameIds, Checked, Tidy, Safe, Privileged
  <2>8. QED
    BY <2>3, <2>5, <2>6, <2>7 DEF Moves, Good
<1>8. QED
  BY <1>6, <1>7

\* Listing and removing a crontab, and the cluster host.
LEMMA ShortMoves ==
    ASSUME IInv, NEW p \in Procs,
           \/ List(p) \/ StatAndConfirm(p) \/ Unlink(p)
           \/ TruncateHost(p) \/ WriteHost(p) \/ ClearHost(p) \/ ShowHost(p)
    PROVE  Moves(p)
<1> DEFINE c == proc[p]
<1>1. Good(c) /\ c.pc \in {"list", "remove", "unlink", "truncate", "write", "clear", "show"}
  BY DEF IInv, At, List, StatAndConfirm, Unlink, TruncateHost, WriteHost, ClearHost, ShowHost
<1>2. c.tmp = NoFile /\ c.pc \notin Over
  BY <1>1 DEF Good, Tidy, Over
<1>3. \/ \E st \in Statuses : Move(p, Done(c, st))
      \/ Move(p, Done(Using(c, "spool", c.ids), "success"))
      \/ Move(p, To(c, "unlink"))
      \/ c.pc = "truncate" /\ Move(p, To(c, "write"))
  BY Names DEF At, List, StatAndConfirm, Unlink, TruncateHost, WriteHost, ClearHost, ShowHost
<1> HIDE DEF c
<1>4. CASE \E st \in Statuses : Move(p, Done(c, st))
  BY <1>1, <1>2, <1>4, DoneGood DEF Moves
<1>5. CASE Move(p, Done(Using(c, "spool", c.ids), "success"))
  <2>1. Proper(c.line, "spool", c.ids) /\ c.ids \in Identities
    BY <1>1 DEF Good, SameIds, Proper, Commands
  <2>2. Good(Using(c, "spool", c.ids)) /\ Using(c, "spool", c.ids).tmp = NoFile
    BY <1>1, <1>2, <2>1, Names, UsingGood DEF Over, Using, Good, Commands
  <2>3. QED
    BY <1>5, <2>2, DoneGood, Names DEF Moves
<1>6. CASE Move(p, To(c, "unlink"))
  BY <1>1, <1>2, <1>6, ToGood DEF Moves, Between
<1>7. CASE c.pc = "truncate" /\ Move(p, To(c, "write"))
  <2> DEFINE d == To(c, "write")
  <2>1. d \in Commands
    BY <1>1, Names DEF Good, Commands, To
  <2>2. /\ d.pc = "write" /\ d.line = c.line /\ d.ids = c.ids /\ d.tmp = c.tmp
        /\ d.original = c.original /\ d.copy = c.copy /\ d.used = c.used
        /\ d.saved = c.saved /\ d.installed = c.installed
    BY <1>1 DEF Good, Commands, To
  <2> HIDE DEF d
  <2>3. SameIds(d) /\ Permitted(d) /\ Checked(d) /\ Tidy(d) /\ Privileged(d)
    BY <1>1, <1>2, <1>7, <2>2 DEF Good, SameIds, Permitted, Checked, Tidy, Privileged, Over
  <2>4. Safe(d)
    BY <1>1, <2>2 DEF Good, Safe
  <2>5. QED
    BY <1>7, <2>1, <2>3, <2>4 DEF Good, Moves, d
<1>8. QED
  BY <1>3, <1>4, <1>5, <1>6, <1>7

\* What is done as the caller has the caller's ids, and then the command its own.
LEMMA AsCaller ==
    ASSUME NEW c, Good(c), NEW i \in Dropped(c.ids), NEW after \in Regained(i, c.ids)
    PROVE  after = c.ids /\ i \in Identities /\ Proper(c.line, "caller", i)
<1>1. c.ids \in Identities /\ c.ids = Launched(c.line)
  BY DEF Good, SameIds, Commands
<1>2. after = c.ids /\ i \in Identities /\ i.euid = c.ids.ruid /\ i.egid = c.ids.rgid
  BY <1>1, DroppedIds, RegainedIds
<1>3. c.ids.ruid = c.line.me /\ c.ids.rgid = c.line.me
  BY <1>1 DEF Launched
<1>4. QED
  BY <1>2, <1>3 DEF Proper

\* A text that was read is refused, found good, or installed.
LEMMA AfterCheckGood ==
    ASSUME NEW c, Good(c), c.pc = "read", c.text \in Texts
    PROVE  Good(AfterCheck(c))
<1>1. c.tmp = NoFile
  BY DEF Good, Tidy
<1>2. Good(Done(c, "failure")) /\ Good(Done(c, "success"))
  BY <1>1, Names, DoneGood
<1>3. c.text \notin Invalid => Good(To(c, "install"))
  <2>1. c.text \notin Invalid => Good([c EXCEPT !.pc = "install", !.text = c.text])
    BY TextFacts, InstallGood
  <2>2. [c EXCEPT !.pc = "install", !.text = c.text] = To(c, "install")
    BY DEF Good, Commands, To
  <2>3. QED
    BY <2>1, <2>2
<1>4. QED
  BY <1>2, <1>3 DEF AfterCheck

\* Reading what is to be installed or tested.
LEMMA ReadMoves == ASSUME IInv, NEW p \in Procs, ReadInput(p) PROVE Moves(p)
<1> DEFINE c == proc[p]
<1>1. Good(c) /\ c.pc = "read"
  BY DEF IInv, At, ReadInput
<1>2. PICK i \in Dropped(c.ids) : \E after \in Regained(i, c.ids) :
         \/ Move(p, Done(c, "failure"))
         \/ \E t \in Texts :
               \/ Move(p, AfterCheck([c EXCEPT !.text = t]))
               \/ Move(p, AfterCheck(Using([c EXCEPT !.text = t, !.ids = after], "caller", i)))
  BY DEF ReadInput
<1>3. PICK after \in Regained(i, c.ids) :
         \/ Move(p, Done(c, "failure"))
         \/ \E t \in Texts :
               \/ Move(p, AfterCheck([c EXCEPT !.text = t]))
               \/ Move(p, AfterCheck(Using([c EXCEPT !.text = t, !.ids = after], "caller", i)))
  BY <1>2
<1> HIDE DEF c
<1>4. after = c.ids /\ i \in Identities /\ Proper(c.line, "caller", i)
  BY <1>1, AsCaller
<1>5. CASE Move(p, Done(c, "failure"))
  <2>1. c.tmp = NoFile
    BY <1>1 DEF Good, Tidy
  <2>2. QED
    BY <1>1, <1>5, <2>1, DoneGood, Names DEF Moves
<1>6. CASE \E t \in Texts :
               \/ Move(p, AfterCheck([c EXCEPT !.text = t]))
               \/ Move(p, AfterCheck(Using([c EXCEPT !.text = t, !.ids = after], "caller", i)))
  <2>1. PICK t \in Texts :
               \/ Move(p, AfterCheck([c EXCEPT !.text = t]))
               \/ Move(p, AfterCheck(Using([c EXCEPT !.text = t, !.ids = after], "caller", i)))
    BY <1>6
  <2> DEFINE d == [c EXCEPT !.text = t]
  <2>2. /\ d \in Commands
        /\ d.pc = c.pc /\ d.line = c.line /\ d.ids = c.ids /\ d.tmp = c.tmp /\ d.keep = c.keep
        /\ d.original = c.original /\ d.copy = c.copy /\ d.used = c.used
        /\ d.saved = c.saved /\ d.installed = c.installed /\ d.text = t
    BY <1>1 DEF Good, Commands
  <2>3. [c EXCEPT !.text = t, !.ids = after] = d
    BY <1>1, <1>4 DEF Good, Commands
  <2> HIDE DEF d
  <2>4. Good(d)
    BY <1>1, <2>2 DEF Good, SameIds, Permitted, Checked, Tidy, Safe, Privileged, Over
  <2>5. Good(Using(d, "caller", i))
    BY <1>1, <1>4, <2>2, <2>4, Names, UsingGood
  <2>6. Using(d, "caller", i).pc = "read" /\ Using(d, "caller", i).text = t
    BY <1>1, <2>2 DEF Using, Commands
  <2>7. Good(AfterCheck(d)) /\ Good(AfterCheck(Using(d, "caller", i)))
    BY <1>1, <2>2, <2>4, <2>5, <2>6, AfterCheckGood
  <2>8. Move(p, AfterCheck(d)) \/ Move(p, AfterCheck(Using(d, "caller", i)))
    BY <2>1, <2>3 DEF d
  <2>9. QED
    BY <2>7, <2>8 DEF Moves
<1>7. QED
  BY <1>3, <1>5, <1>6

\* The temporary file is made, filled and given to its user.
LEMMA FileMoves == ASSUME IInv, NEW p \in Procs, MakeTmp(p) \/ Fill(p) PROVE Moves(p)
<1> DEFINE c == proc[p]
<1>1. CASE MakeTmp(p)
  <2> DEFINE f == [c EXCEPT !.pc = "fill", !.tmp = File(Partial, c.ids.euid)]
  <2>1. Good(c) /\ c.pc = "install" /\ Move(p, Using(f, "spool", c.ids))
    BY <1>1 DEF IInv, At, MakeTmp
  <2> HIDE DEF c
  <2>2. c.ids \in Identities /\ c.ids.euid \in Users /\ Proper(c.line, "spool", c.ids)
    BY <2>1 DEF Good, Commands, Identities, SameIds, Proper
  <2>3. File(Partial, c.ids.euid) \in Files
    BY <2>2 DEF File, Files
  <2>4. f \in Commands
    BY <2>1, <2>3, Names DEF Good, Commands
  <2>5. /\ f.pc = "fill" /\ f.line = c.line /\ f.ids = c.ids /\ f.text = c.text /\ f.keep = c.keep
        /\ f.original = c.original /\ f.copy = c.copy /\ f.used = c.used /\ f.unread = c.unread
        /\ f.saved = c.saved /\ f.installed = c.installed
    BY <2>1 DEF Good, Commands
  <2> HIDE DEF f
  <2>6. SameIds(f) /\ Permitted(f) /\ Checked(f) /\ Tidy(f) /\ Safe(f) /\ Privileged(f)
    BY <2>1, <2>5 DEF Good, SameIds, Permitted, Checked, Tidy, Safe, Privileged, Over
  <2>7. Good(Using(f, "spool", c.ids))
    BY <2>2, <2>4, <2>5, <2>6, Names, UsingGood DEF Good
  <2>8. QED
    BY <2>1, <2>7 DEF Moves
<1>2. CASE Fill(p)
  <2> DEFINE owner == IF c.ids.euid = Root THEN Subject(c) ELSE c.ids.euid
             d == [c EXCEPT !.pc = "persist", !.tmp = File(c.text, owner)]
  <2>1. Good(c) /\ c.pc = "fill" /\ Move(p, d)
    BY <1>2 DEF IInv, At, Fill, Target, Subject
  <2> HIDE DEF c
  <2>2. c.text \in Valid /\ ~option_order_error(c.line) /\ c.line \in AllLines
    BY <2>1 DEF Good, Checked, Permitted, Over, Commands
  <2>3. c.line.me \in Users /\ c.line.user \in Users \cup {NoUser}
    BY <2>2, LineFacts
  <2>4. owner \in Users /\ owner = Subject(c)
    <3>1. Subject(c) \in Users
      BY <2>3 DEF Subject
    <3>2. c.ids.euid # Root => c.ids.euid = Subject(c)
      <4>1. c.ids.euid # Root => c.ids.euid = c.line.me
        BY <2>1 DEF Good, SameIds, Launched
      <4>2. c.line.me # Root => c.line.user = NoUser
        BY <2>2 DEF option_order_error
      <4>3. QED
        BY <4>1, <4>2 DEF Subject
    <3>3. QED
      BY <3>1, <3>2
  <2> HIDE DEF owner
  <2>5. /\ File(c.text, owner) \in Files
        /\ File(c.text, owner).text = c.text /\ File(c.text, owner).owner = owner
    BY <2>2, <2>4, TextFacts DEF File, Files
  <2>6. d \in Commands
    BY <2>1, <2>5, Names DEF Good, Commands
  <2>7. /\ d.pc = "persist" /\ d.line = c.line /\ d.ids = c.ids /\ d.text = c.text /\ d.keep = c.keep
        /\ d.original = c.original /\ d.copy = c.copy /\ d.used = c.used
        /\ d.saved = c.saved /\ d.installed = c.installed /\ d.tmp = File(c.text, owner)
    BY <2>1 DEF Good, Commands
  <2>8. Subject(d) = Subject(c)
    BY <2>7 DEF Subject
  <2> HIDE DEF d
  <2>9. Checked(d)
    BY <2>2, <2>4, <2>5, <2>7, <2>8 DEF Checked
  <2>10. SameIds(d) /\ Permitted(d) /\ Tidy(d) /\ Safe(d) /\ Privileged(d)
    BY <2>1, <2>7 DEF Good, SameIds, Permitted, Tidy, Safe, Privileged, Over
  <2>11. QED
    BY <2>1, <2>6, <2>9, <2>10 DEF Moves, Good
<1>3. QED
  BY <1>1, <1>2

\* The installation succeeds or fails.
LEMMA EndMoves == ASSUME IInv, NEW p \in Procs, InstallFails(p) \/ Persist(p) PROVE Moves(p)
<1> DEFINE c == proc[p]
<1>1. Good(c) /\ c.pc \in {"install", "fill", "persist"} /\ c.installed \in BOOLEAN
  BY DEF IInv, At, InstallFails, Persist, Good, Commands
<1>2. CASE InstallFails(p)
  <2>1. Move(p, Installed([c EXCEPT !.tmp = NoFile], "failure", TRUE))
    BY <1>2 DEF InstallFails
  <2> HIDE DEF c
  <2>2. [c EXCEPT !.tmp = NoFile] = [c EXCEPT !.tmp = NoFile, !.installed = c.installed]
    BY <1>1 DEF Good, Commands
  <2>3. QED
    BY <1>1, <2>1, <2>2, InstalledGood, Names DEF Moves
<1>3. CASE Persist(p)
  <2>1. Move(p, Installed([c EXCEPT !.tmp = NoFile, !.installed = TRUE], "success", FALSE))
    BY <1>3 DEF Persist
  <2> HIDE DEF c
  <2>2. QED
    BY <1>1, <2>1, InstalledGood, Names DEF Moves
<1>4. QED
  BY <1>2, <1>3

\* The copy of what is to be edited.
LEMMA CopyMoves == ASSUME IInv, NEW p \in Procs, ReadOriginal(p) \/ MakeCopy(p) PROVE Moves(p)
<1> DEFINE c == proc[p]
<1>1. Good(c) /\ c.pc \in {"edit", "copy"}
  BY DEF IInv, At, ReadOriginal, MakeCopy
<1>2. c.tmp = NoFile /\ c.saved = Absent
  BY <1>1 DEF Good, Tidy, Safe
<1>3. CASE Move(p, Done(c, "failure"))
  BY <1>1, <1>2, <1>3, DoneGood, Names DEF Moves
<1>4. ASSUME NEW t \in Texts, c.pc = "edit", Move(p, [c EXCEPT !.pc = "copy", !.original = t])
      PROVE  Moves(p)
  <2> DEFINE d == [c EXCEPT !.pc = "copy", !.original = t]
  <2> HIDE DEF c
  <2>1. d \in Commands
    BY <1>1, Names DEF Good, Commands
  <2>2. /\ d.pc = "copy" /\ d.line = c.line /\ d.ids = c.ids /\ d.tmp = c.tmp
        /\ d.used = c.used /\ d.saved = c.saved
    BY <1>1 DEF Good, Commands
  <2>3. Move(p, d)
    BY <1>4
  <2> HIDE DEF d
  <2>4. SameIds(d) /\ Permitted(d) /\ Checked(d) /\ Tidy(d) /\ Safe(d) /\ Privileged(d)
    BY <1>1, <1>2, <2>2 DEF Good, SameIds, Permitted, Checked, Tidy, Safe, Privileged, Over
  <2>5. QED
    BY <2>1, <2>3, <2>4 DEF Good, Moves
<1>5. CASE ReadOriginal(p)
  <2>1. c.pc = "edit"
    BY <1>5 DEF ReadOriginal, At
  <2>2. \/ Move(p, Done(c, "failure"))
        \/ \E t \in Texts : Move(p, [c EXCEPT !.pc = "copy", !.original = t])
    <3> DEFINE T == Target(p)
               text == IF spool[T].text # Absent THEN spool[T].text ELSE Empty
    <3>1. Move(p, [c EXCEPT !.pc = "copy", !.original = text]) \/ Move(p, Done(c, "failure"))
      BY <1>5 DEF ReadOriginal
    <3>2. T \in Users
      <4>1. c.line \in AllLines
        BY <1>1 DEF Good, Commands
      <4>2. QED
        BY <4>1, LineFacts DEF Target
    <3>3. spool[T] = NoFile \/ spool[T].text \in Valid
      BY <3>2 DEF IInv, Whole
    <3>4. text \in Texts
      BY <3>3, TextFacts DEF NoFile, File
    <3> HIDE DEF text
    <3>5. QED
      BY <3>1, <3>4
  <2>3. QED
    BY <1>3, <1>4, <2>1, <2>2
<1>6. CASE MakeCopy(p)
  <2>1. PICK i \in Dropped(c.ids) : \E after \in Regained(i, c.ids) :
           \/ Move(p, Done(c, "failure"))
           \/ Move(p, Using([c EXCEPT !.pc = "editor", !.copy = c.original, !.ids = after], "caller", i))
    BY <1>6 DEF MakeCopy
  <2>2. PICK after \in Regained(i, c.ids) :
           \/ Move(p, Done(c, "failure"))
           \/ Move(p, Using([c EXCEPT !.pc = "editor", !.copy = c.original, !.ids = after], "caller", i))
    BY <2>1
  <2> HIDE DEF c
  <2>3. after = c.ids /\ i \in Identities /\ Proper(c.line, "caller", i)
    BY <1>1, AsCaller
  <2> DEFINE d == [c EXCEPT !.pc = "editor", !.copy = c.original, !.ids = after]
  <2>4. d \in Commands
    BY <1>1, <2>3, Names DEF Good, Commands
  <2>5. /\ d.pc = "editor" /\ d.line = c.line /\ d.ids = c.ids /\ d.tmp = c.tmp
        /\ d.used = c.used /\ d.saved = c.saved
    BY <1>1, <2>3 DEF Good, Commands
  <2>6. Move(p, Done(c, "failure")) \/ Move(p, Using(d, "caller", i))
    BY <2>2
  <2> HIDE DEF d
  <2>7. SameIds(d) /\ Permitted(d) /\ Checked(d) /\ Tidy(d) /\ Safe(d) /\ Privileged(d)
    BY <1>1, <1>2, <2>5 DEF Good, SameIds, Permitted, Checked, Tidy, Safe, Privileged, Over
  <2>8. Good(Using(d, "caller", i))
    BY <2>3, <2>4, <2>5, <2>7, Names, UsingGood DEF Good
  <2>9. QED
    BY <1>3, <2>6, <2>8 DEF Moves
<1>7. QED
  BY <1>5, <1>6

\* The editor leaves something behind, or fails.
LEMMA EditorMoves == ASSUME IInv, NEW p \in Procs, RunEditor(p) PROVE Moves(p)
<1> DEFINE c == proc[p]
<1>1. Good(c) /\ c.pc = "editor"
  BY DEF IInv, At, RunEditor
<1>2. c.tmp = NoFile /\ c.ids = Launched(c.line) /\ c.line \in AllLines
  BY <1>1 DEF Good, Tidy, SameIds, Commands
<1>3. CASE Move(p, Outcome([c EXCEPT !.saved = Absent], "failure", FALSE))
  <2> DEFINE d == [c EXCEPT !.saved = Absent]
  <2> HIDE DEF c
  <2>1. d \in Commands
    BY <1>1 DEF Good, Commands
  <2>2. /\ d.pc = "editor" /\ d.line = c.line /\ d.ids = c.ids /\ d.tmp = c.tmp
        /\ d.used = c.used /\ d.saved = Absent
    BY <1>1 DEF Good, Commands
  <2>3. Move(p, Outcome(d, "failure", FALSE))
    BY <1>3
  <2> HIDE DEF d
  <2>4. SameIds(d) /\ Permitted(d) /\ Checked(d) /\ Tidy(d) /\ Safe(d) /\ Privileged(d)
    BY <1>1, <1>2, <2>2 DEF Good, SameIds, Permitted, Checked, Tidy, Safe, Privileged, Over
  <2>5. Good(Outcome(d, "failure", FALSE))
    BY <1>2, <2>1, <2>2, <2>4, Names, OutcomeGood DEF Good, Over
  <2>6. QED
    BY <2>3, <2>5 DEF Moves
<1>4. ASSUME NEW child \in configure_child(c.ids, {real_user(c.ids)}), NEW t \in Texts,
             LET edited == Using([c EXCEPT !.copy = t], "editor", child)
                 work   == IF t = c.original THEN Absent ELSE t
             IN  \/ Move(p, [edited EXCEPT !.pc = "reread", !.saved = work])
                 \/ Move(p, Outcome([edited EXCEPT !.saved = Absent], "failure", FALSE))
      PROVE  Moves(p)
  <2> DEFINE work == IF t = c.original THEN Absent ELSE t
             e == Using([c EXCEPT !.copy = t], "editor", child)
             d == [e EXCEPT !.pc = "reread", !.saved = work]
             f == [e EXCEPT !.saved = Absent]
  <2>1. Move(p, d) \/ Move(p, Outcome(f, "failure", FALSE))
    BY <1>4
  <2>2. child \in Identities /\ Proper(c.line, "editor", child)
    BY <1>2, <1>4, EditorIds
  <2>3. work \in Texts \cup {Absent} /\ (work # Absent => work = t /\ work # c.original)
    OBVIOUS
  <2> HIDE DEF c, work
  <2>4. e \in Commands
    <3>1. [c EXCEPT !.copy = t] \in Commands
      BY <1>1 DEF Good, Commands
    <3>2. <<"editor", child>> \in Kinds \X Identities
      BY <2>2, Names
    <3>3. QED
      BY <3>1, <3>2 DEF Commands, Using
  <2>5. /\ e.pc = "editor" /\ e.line = c.line /\ e.ids = c.ids /\ e.tmp = c.tmp /\ e.copy = t
        /\ e.original = c.original
        /\ e.used = c.used \cup {<<"editor", child>>}
    BY <1>1, <2>2 DEF Good, Commands, Using
  <2> HIDE DEF e
  <2>6. d \in Commands /\ f \in Commands
    BY <2>3, <2>4, Names DEF Commands
  <2>7. /\ d.pc = "reread" /\ d.line = c.line /\ d.ids = c.ids /\ d.tmp = c.tmp /\ d.copy = t
        /\ d.original = c.original /\ d.saved = work
        /\ d.used = c.used \cup {<<"editor", child>>}
    BY <2>4, <2>5 DEF Commands
  <2>8. /\ f.pc = "editor" /\ f.line = c.line /\ f.ids = c.ids /\ f.tmp = c.tmp
        /\ f.saved = Absent
        /\ f.used = c.used \cup {<<"editor", child>>}
    BY <2>4, <2>5 DEF Commands
  <2> HIDE DEF d, f
  <2>9. Privileged(d) /\ Privileged(f)
    BY <1>1, <2>2, <2>7, <2>8 DEF Good, Privileged
  <2>10. SameIds(d) /\ Permitted(d) /\ Checked(d) /\ Tidy(d) /\ Safe(d)
    BY <1>1, <1>2, <2>3, <2>7 DEF Good, SameIds, Permitted, Checked, Tidy, Safe, Over
  <2>11. SameIds(f) /\ Permitted(f) /\ Checked(f) /\ Tidy(f) /\ Safe(f)
    BY <1>1, <1>2, <2>8 DEF Good, SameIds, Permitted, Checked, Tidy, Safe, Over
  <2>12. Good(Outcome(f, "failure", FALSE))
    BY <1>2, <2>6, <2>8, <2>9, <2>11, Names, OutcomeGood DEF Good, Over
  <2>13. QED
    BY <2>1, <2>6, <2>9, <2>10, <2>12 DEF Moves, Good
<1>5. QED
  BY <1>3, <1>4 DEF RunEditor

\* What was edited is looked at, and asked about.
LEMMA RereadMoves == ASSUME IInv, NEW p \in Procs, Reread(p) \/ AskRetry(p) PROVE Moves(p)
<1> DEFINE c == proc[p]
<1>1. Good(c) /\ c.pc \in {"reread", "ask"}
  BY DEF IInv, At, Reread, AskRetry
<1>2. c.tmp = NoFile /\ c.pc \notin Over
  BY <1>1 DEF Good, Tidy, Over
<1>3. \A st \in Statuses : Good(Outcome(c, st, TRUE))
  BY <1>1, <1>2, OutcomeGood
<1>4. CASE AskRetry(p)
  <2>1. Move(p, To(c, "editor")) \/ Move(p, Outcome(c, "success", TRUE))
    BY <1>4 DEF AskRetry
  <2> HIDE DEF c
  <2>2. Good(To(c, "editor"))
    BY <1>1, <1>2, ToGood DEF Between
  <2>3. QED
    BY <1>3, <2>1, <2>2, Names DEF Moves
<1>5. CASE Reread(p)
  <2>1. PICK i \in Dropped(c.ids) : \E after \in Regained(i, c.ids) :
           \/ Move(p, Outcome(c, "failure", TRUE))
           \/ Move(p, AfterEdit(Using([c EXCEPT !.ids = after], "caller", i)))
    BY <1>5 DEF Reread
  <2>2. PICK after \in Regained(i, c.ids) :
           \/ Move(p, Outcome(c, "failure", TRUE))
           \/ Move(p, AfterEdit(Using([c EXCEPT !.ids = after], "caller", i)))
    BY <2>1
  <2>3. c.pc = "reread"
    BY <1>5 DEF Reread, At
  <2> HIDE DEF c
  <2>4. after = c.ids /\ i \in Identities /\ Proper(c.line, "caller", i)
    BY <1>1, AsCaller
  <2>5. [c EXCEPT !.ids = after] = c
    BY <1>1, <2>4 DEF Good, Commands
  <2> DEFINE d == Using(c, "caller", i)
  <2>6. Good(d)
    BY <1>1, <2>3, <2>4, Names, UsingGood
  <2>7. d.pc = "reread" /\ d.tmp = NoFile
    BY <1>1, <1>2, <2>3 DEF Using, Good, Commands
  <2>8. Move(p, Outcome(c, "failure", TRUE)) \/ Move(p, AfterEdit(d))
    BY <2>2, <2>5
  <2> HIDE DEF d
  <2>9. d.copy = d.original => Good(Outcome(d, "success", FALSE))
    <3>1. d.copy = d.original => d.saved = Absent \/ d.installed
      BY <2>6 DEF Good, Safe, Commands
    <3>2. QED
      BY <2>6, <2>7, <3>1, OutcomeGood, Names DEF Over
  <2>10. d.copy \in Valid => Good([d EXCEPT !.pc = "install", !.text = d.copy])
    BY <2>6, <2>7, InstallGood
  <2>11. Good(To(d, "ask"))
    BY <2>6, <2>7, ToGood DEF Between, Over
  <2>12. Good(AfterEdit(d))
    BY <2>9, <2>10, <2>11 DEF AfterEdit
  <2>13. QED
    BY <1>3, <2>8, <2>12, Names DEF Moves
<1>6. QED
  BY <1>4, <1>5

\* The session is over.
LEMMA CloseMoves == ASSUME IInv, NEW p \in Procs, Close(p) PROVE Moves(p)
<1> DEFINE c == proc[p]
<1>1. Good(c) /\ c.pc = "close"
  BY DEF IInv, At, Close
<1>2. c.tmp = NoFile
  BY <1>1 DEF Good, Tidy
<1>3. CASE Move(p, To(c, "done"))
  BY <1>1, <1>2, <1>3, DoneGood, Names DEF Moves
<1>4. ASSUME ~c.keep, NEW i \in Dropped(c.ids), NEW after \in Regained(i, c.ids),
             Move(p, Using([c EXCEPT !.pc = "done", !.copy = Absent, !.ids = after], "caller", i))
      PROVE  Moves(p)
  <2> DEFINE d == [c EXCEPT !.pc = "done", !.copy = Absent, !.ids = after]
  <2> HIDE DEF c
  <2>1. after = c.ids /\ i \in Identities /\ Proper(c.line, "caller", i)
    BY <1>1, AsCaller
  <2>2. d \in Commands
    BY <1>1, <2>1, Names DEF Good, Commands
  <2>3. /\ d.pc = "done" /\ d.line = c.line /\ d.ids = c.ids /\ d.tmp = c.tmp
        /\ d.used = c.used /\ d.original = c.original /\ d.saved = c.saved /\ d.installed = c.installed
    BY <1>1, <2>1 DEF Good, Commands
  <2>4. Move(p, Using(d, "caller", i))
    BY <1>4
  <2> HIDE DEF d
  <2>5. SameIds(d) /\ Permitted(d) /\ Checked(d) /\ Tidy(d) /\ Privileged(d)
    BY <1>1, <1>2, <2>3 DEF Good, SameIds, Permitted, Checked, Tidy, Privileged, Over
  <2>6. Safe(d)
    BY <1>1, <1>4, <2>3 DEF Good, Safe
  <2>7. Good(Using(d, "caller", i))
    BY <2>1, <2>2, <2>3, <2>5, <2>6, Names, UsingGood DEF Good
  <2>8. QED
    BY <2>4, <2>7 DEF Moves
<1>5. QED
  BY <1>3, <1>4 DEF Close

\* Whatever a command does, and whoever kills it.
LEMMA StepMoves == ASSUME IInv, NEW p \in Procs, Command(p) \/ Die(p) PROVE Moves(p)
<1>1. CASE Die(p)
  BY <1>1, DeadGood DEF IInv, Die, Moves
<1>2. QED
  BY <1>1, BeginMoves, ShortMoves, ReadMoves, FileMoves, EndMoves, CopyMoves, EditorMoves,
     RereadMoves, CloseMoves DEF Command

\* Only Unlink and Persist touch a crontab.
SpoolStep(p) ==
    \/ UNCHANGED spool
    \/ At(p, "unlink") /\ spool[Target(p)].text # Absent /\ spool' = [spool EXCEPT ![Target(p)] = NoFile]
    \/ At(p, "persist") /\ spool' = [spool EXCEPT ![Target(p)] = proc[p].tmp]

\* A step of one command leaves the spool, or installs, or removes its target.
LEMMA SpoolSteps == ASSUME NEW p \in Procs, Command(p) \/ Die(p) PROVE SpoolStep(p)
<1>1. CASE Unlink(p)
  BY <1>1 DEF Unlink, SpoolStep
<1>2. CASE Persist(p)
  BY <1>2 DEF Persist, SpoolStep
<1>3. CASE \/ Begin(p) \/ List(p) \/ StatAndConfirm(p)
           \/ TruncateHost(p) \/ WriteHost(p) \/ ClearHost(p) \/ ShowHost(p)
  BY <1>3 DEF Begin, List, StatAndConfirm, TruncateHost, WriteHost, ClearHost, ShowHost, SpoolStep
<1>4. CASE ReadInput(p) \/ InstallFails(p) \/ MakeTmp(p) \/ Fill(p)
  BY <1>4 DEF ReadInput, InstallFails, MakeTmp, Fill, SpoolStep
<1>5. CASE ReadOriginal(p) \/ MakeCopy(p) \/ RunEditor(p) \/ Reread(p) \/ AskRetry(p) \/ Close(p) \/ Die(p)
  BY <1>5 DEF ReadOriginal, MakeCopy, RunEditor, Reread, AskRetry, Close, Die, SpoolStep
<1>6. QED
  BY <1>1, <1>2, <1>3, <1>4, <1>5 DEF Command

\* What gets the name of a crontab is complete, checked and its user's.
LEMMA PersistWhole ==
    ASSUME IInv, NEW p \in Procs, At(p, "persist")
    PROVE  /\ Target(p) \in Users /\ proc[p].tmp \in Files
           /\ proc[p].tmp.text \in Valid /\ proc[p].tmp.owner = Target(p)
<1>1. Good(proc[p]) /\ proc[p].pc = "persist"
  BY DEF IInv, At
<1>2. proc[p].line \in AllLines /\ proc[p].tmp \in Files
  BY <1>1 DEF Good, Commands
<1>3. Target(p) \in Users
  BY <1>2, LineFacts DEF Target
<1>4. QED
  BY <1>1, <1>2, <1>3 DEF Good, Checked, Subject, Target

\* The target of a command is a user.
LEMMA TargetType == ASSUME IInv, NEW p \in Procs PROVE Target(p) \in Users
<1>1. proc[p].line \in AllLines
  BY DEF IInv, Good, Commands
<1>2. QED
  BY <1>1, LineFacts DEF Target

\* A crontab changes as a whole.
LEMMA WholeStep == ASSUME IInv, NEW p \in Procs, SpoolStep(p) PROVE Whole'
<1>1. CASE UNCHANGED spool
  BY <1>1 DEF IInv, Whole
<1>2. CASE spool' = [spool EXCEPT ![Target(p)] = NoFile]
  <2>1. Target(p) \in Users /\ Whole
    BY TargetType DEF IInv
  <2>2. QED
    BY <1>2, <2>1, NoFileType DEF Whole
<1>3. CASE At(p, "persist") /\ spool' = [spool EXCEPT ![Target(p)] = proc[p].tmp]
  BY <1>3, PersistWhole DEF IInv, Whole
<1>4. QED
  BY <1>1, <1>2, <1>3 DEF SpoolStep

\* The invariant holds before any command starts,
LEMMA InitIInv == ASSUME Init PROVE IInv
<1>1. Whole
  <2>1. spool \in [Users -> {NoFile}]
    BY DEF Init
  <2>2. spool \in [Users -> Files] /\ \A u \in Users : spool[u] = NoFile
    BY <2>1, NoFileType
  <2>3. QED
    BY <2>2 DEF Whole
<1>2. ASSUME NEW p \in Procs PROVE Good(proc[p])
  <2> DEFINE c == proc[p]
  <2>1. /\ c = [pc |-> "new", status |-> "none", line |-> NoLine, ids |-> Launched(NoLine),
                text |-> Absent, tmp |-> NoFile, original |-> Absent, copy |-> Absent, keep |-> FALSE,
                unread |-> FALSE, used |-> {}, saved |-> Absent, installed |-> FALSE]
        /\ NoLine \in AllLines
    BY DEF Init, AllLines
  <2>2. Launched(NoLine) \in Identities
    BY <2>1, LaunchedType
  <2> HIDE DEF c
  <2>3. c \in Commands
    BY <2>1, <2>2, NoFileType, Names DEF Commands
  <2>4. SameIds(c) /\ Permitted(c) /\ Checked(c) /\ Tidy(c) /\ Safe(c) /\ Privileged(c)
    BY <2>1 DEF SameIds, Permitted, Checked, Tidy, Safe, Privileged, Over
  <2>5. QED
    BY <2>3, <2>4 DEF Good, c
<1>3. proc \in [Procs -> Commands]
  BY <1>2 DEF Init, Good
<1>4. QED
  BY <1>1, <1>2, <1>3 DEF IInv

\* and is preserved by every step of every command.
LEMMA NextIInv == ASSUME IInv, [Next]_vars PROVE IInv'
<1>1. CASE UNCHANGED vars
  BY <1>1 DEF vars, IInv, Whole
<1>2. CASE MakeSpool
  BY <1>2 DEF MakeSpool, IInv, Whole
<1>3. ASSUME NEW p \in Procs, Command(p) \/ Die(p) PROVE IInv'
  <2>1. Whole'
    BY <1>3, SpoolSteps, WholeStep
  <2>2. PICK d : Good(d) /\ Move(p, d)
    BY <1>3, StepMoves DEF Moves
  <2>3. d \in Commands
    BY <2>2 DEF Good
  <2>4. proc' = [proc EXCEPT ![p] = d] /\ proc \in [Procs -> Commands]
    BY <2>2 DEF Move, IInv
  <2>5. ASSUME NEW q \in Procs PROVE Good(proc'[q])
    <3>1. proc'[q] = IF q = p THEN d ELSE proc[q]
      BY <2>4
    <3>2. Good(proc[q])
      BY DEF IInv
    <3>3. QED
      BY <2>2, <3>1, <3>2
  <2>6. proc' \in [Procs -> Commands]
    BY <2>3, <2>4
  <2>7. QED
    BY <2>1, <2>5, <2>6 DEF IInv
<1>4. QED
  BY <1>1, <1>2, <1>3 DEF Next

-----------------------------------------------------------------------------
(* Theorems.                                                               *)

\* The invariant holds, however many commands run and die.
THEOREM Invariance == Spec => []IInv
<1>1. Init => IInv
  BY InitIInv
<1>2. IInv /\ [Next]_vars => IInv'
  BY NextIInv
<1>3. QED
  BY <1>1, <1>2, PTL DEF Spec

\* Temporary files stay in the spool only when their command is killed.
THEOREM LeftoversOnlyByDeathHolds == Spec => []LeftoversOnlyByDeath
<1>1. IInv => LeftoversOnlyByDeath
  BY DEF IInv, Good, Tidy, LeftoversOnlyByDeath
<1>2. QED
  BY <1>1, Invariance, PTL

\* What the user has edited is installed or in the copy.
THEOREM EditsKeptHolds == Spec => []EditsKept
<1>1. IInv => EditsKept
  BY DEF IInv, Good, Safe, EditsKept
<1>2. QED
  BY <1>1, Invariance, PTL

\* The caller's files, the spool and the editor see the right ids.
THEOREM CallerPrivilegesHolds == Spec => []CallerPrivileges
<1>1. IInv => CallerPrivileges
  <2> SUFFICES ASSUME IInv, NEW p \in Procs, NEW a \in proc[p].used
               PROVE  Proper(proc[p].line, a[1], a[2])
    BY DEF CallerPrivileges, Proper
  <2>1. QED
    BY DEF IInv, Good, Privileged
<1>2. QED
  BY <1>1, Invariance, PTL

\* Whoever changes a crontab is its user or root; the cluster host is root's.
THEOREM AuthorisedHolds == Spec => Authorised
<1> DEFINE A == spool' # spool \/ host' # host =>
                   \E p \in Procs : LET c == proc'[p] IN
                      /\ c # proc[p]
                      /\ \A u \in Users : spool'[u] # spool[u] => c.line.me \in {u, Root}
                      /\ host' # host => c.line.me = Root
<1>1. IInv /\ [Next]_vars => [A]_vars
  <2> SUFFICES ASSUME IInv, Next, spool' # spool \/ host' # host PROVE A
    BY DEF vars
  <2>1. PICK p \in Procs : Command(p) \/ Die(p)
    BY DEF Next, MakeSpool
  <2>2. SpoolStep(p)
    BY <2>1, SpoolSteps
  <2> DEFINE c == proc[p]
             e == proc'[p]
  <2>3. Unlink(p) \/ Persist(p) \/ TruncateHost(p) \/ WriteHost(p) \/ ClearHost(p)
    BY <2>1 DEF Command, Die, Begin, List, StatAndConfirm, ShowHost, ReadInput, InstallFails,
                MakeTmp, Fill, ReadOriginal, MakeCopy, RunEditor, Reread, AskRetry, Close
  <2>4. /\ Good(c) /\ c \in Commands /\ proc \in [Procs -> Commands]
        /\ c.pc \in {"unlink", "persist", "truncate", "write", "clear"} /\ c.pc \notin Over
        /\ host' # host => c.pc \in {"truncate", "write", "clear"}
    BY <2>3 DEF IInv, At, Over, Unlink, Persist, TruncateHost, WriteHost, ClearHost
  <2>5. ~option_order_error(c.line) /\ c.line \in AllLines
    BY <2>4 DEF Good, Permitted, Commands
  <2>6. e.line = c.line /\ e.pc # c.pc
    <3>1. \/ e = Done(c, "success") \/ e = Done(c, "failure")
          \/ e = Done(Using(c, "spool", c.ids), "success")
          \/ e = To(c, "write") /\ c.pc = "truncate"
          \/ e = Installed([c EXCEPT !.tmp = NoFile, !.installed = TRUE], "success", FALSE)
      BY <2>3, <2>4 DEF At, Move, Unlink, Persist, TruncateHost, WriteHost, ClearHost
    <3> HIDE DEF c, e
    <3>2. /\ Done(c, "success").pc = "done" /\ Done(c, "failure").pc = "done"
          /\ Done(c, "success").line = c.line /\ Done(c, "failure").line = c.line
      BY <2>4 DEF Done, Commands
    <3>3. LET d == Done(Using(c, "spool", c.ids), "success")
          IN  d.pc = "done" /\ d.line = c.line
      BY <2>4 DEF Done, Using, Commands
    <3>4. To(c, "write").pc = "write" /\ To(c, "write").line = c.line
      BY <2>4 DEF To, Commands
    <3>5. LET d == Installed([c EXCEPT !.tmp = NoFile, !.installed = TRUE], "success", FALSE)
          IN  d.pc \in {"done", "close"} /\ d.line = c.line
      BY <2>4 DEF Installed, Outcome, Done, Commands
    <3>6. QED
      BY <2>4, <3>1, <3>2, <3>3, <3>4, <3>5
  <2>7. Target(p) \in Users /\ c.line.me \in {Target(p), Root}
    <3>1. c.line.user # NoUser => c.line.me = Root
      BY <2>5 DEF option_order_error
    <3>2. QED
      BY <3>1, TargetType DEF Target
  <2>8. \A u \in Users : spool'[u] # spool[u] => u = Target(p)
    <3>1. spool \in [Users -> Files]
      BY DEF IInv, Whole
    <3>2. QED
      BY <2>2, <2>7, <3>1 DEF SpoolStep
  <2>9. host' # host => c.line.me = Root
    <3>1. c.pc \in {"truncate", "write", "clear"} => c.line.op \in {"set_host", "clear_host"}
      BY <2>4 DEF Good, Permitted
    <3>2. QED
      BY <2>4, <2>5, <3>1 DEF option_order_error
  <2>10. QED
    BY <2>5, <2>6, <2>7, <2>8, <2>9
<1>2. QED
  BY <1>1, Invariance, PTL DEF Spec, Authorised

\* The crontab a reader finds is never broken.
LEMMA NeverBroken ==
    ASSUME Whole, NEW u \in Users
    PROVE  /\ spool[u] = NoFile => Visible(u) = Absent
           /\ spool[u] # NoFile => Visible(u) = spool[u].text /\ spool[u].text \in Valid
BY DEF Whole, Visible

\* A text is there or it is not.
LEMMA NoFileText == NoFile.text = Absent /\ Absent \notin Valid
BY TextFacts DEF NoFile, File

\* Every step of the commands replaces or removes one crontab as a whole, or none:
\* the commands implement CrontabFile.
THEOREM ReplacedAtomicallyHolds == Spec => ReplacedAtomically
<1> DEFINE crontab == [u \in Users |-> Visible(u)]
<1>1. Init => Register!Init
  <2> SUFFICES ASSUME Init PROVE crontab \in [Users -> Valid \cup {Absent}]
    BY DEF Register!Init
  <2>1. \A u \in Users : spool[u] = NoFile
    BY DEF Init
  <2>2. \A u \in Users : Visible(u) = Absent
    BY <2>1 DEF Visible
  <2>3. QED
    BY <2>2
<1>2. IInv /\ [Next]_vars => [Register!Next]_crontab
  <2> SUFFICES ASSUME IInv, [Next]_vars, crontab' # crontab
               PROVE  Register!Next
    OBVIOUS
  <2>1. Whole /\ Whole'
    BY NextIInv DEF IInv
  <2>2. crontab' = [u \in Users |-> Visible(u)']
    OBVIOUS
  <2>3. spool' # spool
    BY DEF Visible
  <2>4. PICK p \in Procs : SpoolStep(p)
    BY <2>3, SpoolSteps DEF Next, MakeSpool, vars
  <2>5. PICK T \in Users : T = Target(p)
    BY TargetType
  <2>6. \A u \in Users : u # T => spool'[u] = spool[u]
    BY <2>1, <2>4, <2>5 DEF SpoolStep, Whole
  <2>7. \A u \in Users : u # T => Visible(u)' = Visible(u)
    BY <2>6 DEF Visible
  <2>8. crontab' = [crontab EXCEPT ![T] = Visible(T)']
    <3>1. \A u \in Users : crontab'[u] = IF u = T THEN Visible(T)' ELSE crontab[u]
      BY <2>2, <2>7
    <3>2. crontab' = [u \in Users |-> crontab'[u]] /\ crontab = [u \in Users |-> crontab[u]]
      OBVIOUS
    <3> HIDE DEF crontab
    <3>3. QED
      BY <2>5, <3>1, <3>2
  <2>9. CASE At(p, "unlink") /\ spool[T].text # Absent /\ spool' = [spool EXCEPT ![T] = NoFile]
    <3>1. spool'[T] = NoFile
      BY <2>1, <2>5, <2>9 DEF Whole
    <3>2. Visible(T)' = Absent
      BY <3>1 DEF Visible
    <3>3. spool[T] # NoFile
      BY <2>9, NoFileText
    <3>4. crontab[T] # Absent
      BY <2>1, <2>5, <3>3, NeverBroken, NoFileText
    <3>5. Register!Remove(T)
      BY <2>8, <3>2, <3>4 DEF Register!Remove
    <3>6. QED
      BY <2>5, <3>5 DEF Register!Next
  <2>10. CASE At(p, "persist") /\ spool' = [spool EXCEPT ![T] = proc[p].tmp]
    <3>1. spool'[T] = proc[p].tmp /\ proc[p].tmp.text \in Valid /\ proc[p].tmp.owner = T
      <4>1. proc[p].tmp.text \in Valid /\ proc[p].tmp.owner = T
        BY <2>10, PersistWhole, <2>5
      <4>2. QED
        BY <2>1, <2>5, <2>10, <4>1 DEF Whole
    <3>2. proc[p].tmp # NoFile
      BY <3>1, NoFileText
    <3>3. Visible(T)' = proc[p].tmp.text
      BY <3>1, <3>2 DEF Visible
    <3>4. Register!Install(T)
      BY <2>8, <3>1, <3>3 DEF Register!Install
    <3>5. QED
      BY <2>5, <3>4 DEF Register!Next
  <2>11. QED
    BY <2>3, <2>4, <2>9, <2>10, <2>5 DEF SpoolStep
<1>3. QED
  BY <1>1, <1>2, Invariance, PTL DEF Spec, ReplacedAtomically, Register!Spec
=============================================================================
