------------------------------ MODULE Database ------------------------------
(***************************************************************************)
(* The set of loaded crontabs and how a refresh brings it up to date       *)
(* (Database::refresh, scan_dir, consider, forget_all).                    *)
(*                                                                         *)
(* One thread refreshes, once per wake of the daemon.  The files are read  *)
(* one after another while crontab(1), editors and the administrator       *)
(* change them, and every system call may fail.  A file is reloaded only   *)
(* when its metadata key has changed; a file that failed is recorded in    *)
(* bad with its key, and not tried again under that key.                   *)
(*                                                                         *)
(* Contents are left out but for their identity and for those over the     *)
(* limits of cronie's load_user.  A path of CronD or Spool stands for a    *)
(* name that the filters on file names let through.                        *)
(***************************************************************************)
EXTENDS Integers

CONSTANTS
    System,         \* /etc/crontab, if the model has it
    CronD,          \* the files of /etc/cron.d
    Spool,          \* the files of the spool; each is named after its user
    Shapes,         \* the files people write: [uid, fault, content]
    OverLimit,      \* the contents load_user refuses
    permissive,     \* crond -p
    Hosts           \* bound: [paths, changes], the files people write and how often something changes

Paths == System \cup CronD \cup Spool

Uids   == {"root", "owner", "other"}      \* owner: the user a spool file names
Faults == {"none", "irregular", "mode"}   \* mode: or the number of links

ASSUME DatabaseAssumption ==
    /\ System \cap (CronD \cup Spool) = {}
    /\ CronD \cap Spool = {}
    /\ \A s \in Shapes : s.uid \in Uids /\ s.fault \in Faults
    /\ permissive \in BOOLEAN
    /\ \A h \in Hosts : h.paths \subseteq Paths /\ h.changes \in Nat

VARIABLES
    host,           \* environment: the one of Hosts
    file,           \* environment: what each path names, and its metadata key
    now,            \* environment: the clock the keys are taken from
    passwd,         \* environment: the users that have a passwd entry
    spool_secure,   \* environment: the mode of the spool directory is safe
    changes,        \* environment: changes so far
    tabs,           \* the loaded crontabs: key and content by path
    bad,            \* the keys of files that failed to load
    orphan_logged,  \* the keys of files reported as orphans
    phase,          \* the next step of refresh
    listed,         \* paths of the current directory still to consider
    unopened,       \* the path whose open has failed, until that is recorded
    open,           \* the file being considered, once its checks have passed
    seen,           \* the paths met so far in this refresh
    before,         \* history: what was loaded when this refresh began
    quiet,          \* history: nothing changed since it began
    excuses         \* history: why a path may not be up to date

envVars  == <<host, file, now, passwd, spool_secure, changes>>
mapVars  == <<tabs, bad, orphan_logged>>
scanVars == <<phase, listed, unopened, open, seen>>
histVars == <<before, quiet, excuses>>
vars == <<envVars, mapVars, scanVars, histVars>>

Without(f, p)  == [x \in DOMAIN f \ {p} |-> f[x]]
With(f, p, v)  == [x \in DOMAIN f \cup {p} |-> IF x = p THEN v ELSE f[x]]
Among(f, S)    == [x \in DOMAIN f \cap S |-> f[x]]

IsUser(p) == p \in Spool          \* Format::User

-----------------------------------------------------------------------------
(* History.  unlisted: the path was not looked at in this refresh, and kept; *)
(* entry: not looked at, and not kept; nss: its user could not be looked up; *)
(* call: the open or the stat of this version failed in this refresh;        *)
(* io: this version could not be opened or read, and that was recorded;      *)
(* untried: the failure of an earlier version was recorded under the key of  *)
(* this one; orphan: this version was judged while the user had no passwd    *)
(* entry; samekey: this version has the key of the one before it.            *)
Kinds        == {"unlisted", "entry", "nss", "call", "io", "untried", "orphan", "samekey"}
RefreshKinds == {"unlisted", "entry", "nss", "call"}

Excuse(S, k) == [p \in Paths |-> IF p \in S \cap host.paths THEN excuses[p] \cup {k} ELSE excuses[p]]

-----------------------------------------------------------------------------
(* The environment.                                                        *)

Version(there, s) == [there |-> there, key |-> 0, uid |-> s.uid, fault |-> s.fault, content |-> s.content]

\* A new version of p: renamed into place (the way of crontab(1)), removed, or
\* written in place, which also changes what an open descriptor will read.
Publish(p, version, inPlace) ==
    /\ changes < host.changes
    /\ changes' = changes + 1
    /\ \E k \in {now, now + 1} :
          /\ now' = k
          /\ file' = [file EXCEPT ![p] = [version EXCEPT !.key = k]]
          /\ excuses' = [excuses EXCEPT ![p] =
                            IF k = file[p].key THEN @ \cup {"samekey"} ELSE {}]
    /\ open' = IF inPlace THEN open
               ELSE {IF h.path = p /\ h.live
                     THEN [h EXCEPT !.live = FALSE, !.content = file[p].content]
                     ELSE h : h \in open}
    /\ quiet' = FALSE
    /\ UNCHANGED <<host, passwd, spool_secure, mapVars, phase, listed, unopened, seen, before>>

Replace(p) == \E s \in Shapes : Publish(p, Version(TRUE, s), FALSE)

Remove(p) ==
    /\ file[p].there
    /\ Publish(p, [file[p] EXCEPT !.there = FALSE], FALSE)

WriteInPlace(p) ==
    /\ file[p].there
    /\ \E s \in Shapes : Publish(p, [file[p] EXCEPT !.content = s.content], TRUE)

\* A user is added or removed, or the mode of the spool directory changes.
Administrate ==
    /\ changes < host.changes
    /\ changes' = changes + 1
    /\ \/ /\ \E p \in Spool \cap host.paths :
               \/ passwd' = passwd \cup {p}
               \/ passwd' = passwd \ {p}
          /\ UNCHANGED spool_secure
       \/ spool_secure' = ~spool_secure /\ UNCHANGED passwd
    /\ quiet' = FALSE
    /\ UNCHANGED <<host, file, now, mapVars, scanVars, before, excuses>>

-----------------------------------------------------------------------------
(* refresh: which paths are considered.                                    *)

Considered == listed = {} /\ unopened = {} /\ open = {}

Begin(kept) ==
    /\ phase = "idle"
    /\ phase' = "system"
    /\ before' = kept
    /\ quiet' = TRUE
    /\ excuses' = [p \in Paths |-> excuses[p] \ RefreshKinds]
    /\ UNCHANGED <<envVars, listed, unopened, open, seen>>

StartRefresh == Begin(DOMAIN tabs) /\ UNCHANGED mapVars

\* SIGHUP: forget_all, then refresh.
ReloadAll ==
    /\ Begin({})
    /\ tabs' = << >>
    /\ bad' = << >>
    /\ orphan_logged' = << >>

\* symlink_metadata of /etc/crontab: found, not found, or an error.
StatSystem ==
    /\ phase = "system"
    /\ phase' = "cron.d"
    /\ \/ /\ listed' = {p \in System : file[p].there}
          /\ UNCHANGED excuses
       \/ /\ listed' = {}
          /\ excuses' = Excuse(System, "entry")
    /\ UNCHANGED <<envVars, mapVars, unopened, open, seen, before, quiet>>

\* Slip: what is loaded from the directory is not kept.
KeepNothing(dir) ==
    /\ listed' = {}
    /\ excuses' = Excuse(dir, "unlisted")
    /\ UNCHANGED seen

\* scan_dir could not read the directory: what is loaded from it is kept.
Keep(dir) ==
    /\ listed' = {}
    /\ seen' = seen \cup (DOMAIN tabs \cap dir)
    /\ excuses' = Excuse(dir, "unlisted")

\* scan_dir: entries that can't be read are left out of the list.
scan_dir(dir) ==
    \/ Keep(dir)
    \/ \E unread \in SUBSET {p \in dir : file[p].there} :
          /\ listed' = {p \in dir : file[p].there} \ unread
          /\ excuses' = Excuse(unread, "entry")
          /\ UNCHANGED seen

ScanCronD ==
    /\ phase = "cron.d"
    /\ Considered
    /\ phase' = "spool"
    /\ scan_dir(CronD)
    /\ UNCHANGED <<envVars, mapVars, unopened, open, before, quiet>>

\* Slip: nothing is kept of an insecure directory.
ScanSpoolOnly ==
    /\ phase = "spool"
    /\ Considered
    /\ phase' = "drop"
    /\ IF permissive \/ spool_secure THEN scan_dir(Spool) ELSE KeepNothing(Spool)
    /\ UNCHANGED <<envVars, mapVars, unopened, open, before, quiet>>

\* A spool directory that others can write to is not read either.
ScanSpool ==
    /\ phase = "spool"
    /\ Considered
    /\ phase' = "drop"
    /\ IF permissive \/ spool_secure THEN scan_dir(Spool) ELSE Keep(Spool)
    /\ UNCHANGED <<envVars, mapVars, unopened, open, before, quiet>>

\* Drop anything that vanished.
DropVanished ==
    /\ phase = "drop"
    /\ Considered
    /\ phase' = "idle"
    /\ tabs' = Among(tabs, seen)
    /\ bad' = Among(bad, seen)
    /\ orphan_logged' = Among(orphan_logged, seen)
    /\ seen' = {}
    /\ UNCHANGED <<envVars, listed, unopened, open, histVars>>

-----------------------------------------------------------------------------
(* consider: one file, up to its checks, with one action per outcome.  The *)
(* entries are considered by name; here, in any order.                     *)

Take(p) ==
    /\ unopened = {} /\ open = {}
    /\ p \in listed
    /\ listed' = listed \ {p}
    /\ seen' = seen \cup {p}
    /\ UNCHANGED <<envVars, phase, before, quiet>>

\* The key when there is no metadata to take it from: no file has it.
Epoch == -1
Keys  == Nat \cup {Epoch}

\* Log the failure and remember the key; the tab is unloaded.
Fail(p, key) ==
    /\ bad' = With(bad, p, key)
    /\ tabs' = Without(tabs, p)

\* This version of the file was loaded, or has failed.
Known(p) ==
    \/ p \in DOMAIN tabs /\ tabs[p].key = file[p].key
    \/ p \in DOMAIN bad /\ bad[p] = file[p].key

\* The owner a spool file may have: root, or the user it is named after.
OwnerOk(p) ==
    IF IsUser(p) THEN file[p].uid = "root" \/ (file[p].uid = "owner" /\ p \in passwd)
                 ELSE file[p].uid = "root"

check_file_security(p) == file[p].fault = "none" /\ OwnerOk(p)

\* history: a verdict while the user is unknown
OrphanExcuse(p) == excuses' = Excuse(IF p \in passwd THEN {} ELSE {p} \cap Spool, "orphan")

\* Listed, but gone when it is opened.
Vanished(p) ==
    /\ Take(p)
    /\ ~file[p].there
    /\ tabs' = Without(tabs, p)
    /\ UNCHANGED <<bad, orphan_logged, unopened, open, excuses>>

\* open fails, for whatever reason but NotFound; what is there is not known yet.
OpenFails(p) ==
    /\ Take(p)
    /\ file[p].there
    /\ unopened' = {p}
    /\ excuses' = Excuse({p}, "call")
    /\ UNCHANGED <<mapVars, open>>

\* The failure is recorded under a key that symlink_metadata takes by name: that of
\* the file as it is by now, or none.
KeyFailed ==
    \E p \in unopened :
        /\ unopened' = {}
        /\ \/ /\ file[p].there
              /\ Fail(p, file[p].key)
              /\ excuses' = Excuse({p}, IF "call" \in excuses[p] THEN "io" ELSE "untried")
           \/ Fail(p, Epoch) /\ UNCHANGED excuses
        /\ UNCHANGED <<envVars, orphan_logged, phase, listed, open, seen, before, quiet>>

\* The open file has no metadata: unloaded, but not recorded as bad.
StatFails(p) ==
    /\ Take(p)
    /\ file[p].there
    /\ tabs' = Without(tabs, p)
    /\ excuses' = Excuse({p}, "call")
    /\ UNCHANGED <<bad, orphan_logged, unopened, open>>

Unchanged(p) ==
    /\ Take(p)
    /\ file[p].there
    /\ Known(p)
    /\ UNCHANGED <<mapVars, unopened, open, excuses>>

\* Slip: the failure is recorded like that of a file.
LookupFailsForGood(p) ==
    /\ Take(p)
    /\ file[p].there /\ ~Known(p)
    /\ IsUser(p)
    /\ permissive \/ file[p].fault # "irregular"
    /\ Fail(p, file[p].key)
    /\ excuses' = Excuse({p}, "nss")
    /\ UNCHANGED <<orphan_logged, unopened, open>>

\* NSS fails in the security check or in the owner lookup: try again later.
LookupFails(p) ==
    /\ Take(p)
    /\ file[p].there /\ ~Known(p)
    /\ IsUser(p)
    /\ permissive \/ file[p].fault # "irregular"
    /\ excuses' = Excuse({p}, "nss")
    /\ UNCHANGED <<mapVars, unopened, open>>

Insecure(p) ==
    /\ Take(p)
    /\ file[p].there /\ ~Known(p)
    /\ ~permissive /\ ~check_file_security(p)
    /\ Fail(p, file[p].key)
    /\ OrphanExcuse(p)
    /\ UNCHANGED <<orphan_logged, unopened, open>>

CheckPassed(p) ==
    /\ file[p].there /\ ~Known(p)
    /\ permissive \/ check_file_security(p)

\* No passwd entry: unloaded, but not recorded as bad.
Orphan(p) ==
    /\ Take(p)
    /\ CheckPassed(p)
    /\ IsUser(p) /\ p \notin passwd
    /\ orphan_logged' = With(orphan_logged, p, file[p].key)
    /\ tabs' = Without(tabs, p)
    /\ OrphanExcuse(p)
    /\ UNCHANGED <<bad, unopened, open>>

\* Everything is in order; the file stays open, to be read.
Accept(p) ==
    /\ Take(p)
    /\ CheckPassed(p)
    /\ IsUser(p) => p \in passwd
    /\ orphan_logged' = IF IsUser(p) THEN Without(orphan_logged, p) ELSE orphan_logged
    /\ open' = {[path |-> p, key |-> file[p].key, content |-> file[p].content,
                 live |-> TRUE]}
    /\ UNCHANGED <<tabs, bad, unopened, excuses>>

consider(p) == \/ Vanished(p) \/ OpenFails(p) \/ StatFails(p) \/ Unchanged(p)
               \/ LookupFails(p) \/ Insecure(p) \/ Orphan(p) \/ Accept(p)

-----------------------------------------------------------------------------
(* consider: reading the open file.                                        *)

ContentOf(h) == IF h.live THEN file[h.path].content ELSE h.content

Refused(h) == IsUser(h.path) /\ ContentOf(h) \in OverLimit

\* The file can't be read, or load_user refuses it.
ReadFails(h) ==
    /\ Fail(h.path, h.key)
    /\ \/ Refused(h) /\ UNCHANGED excuses
       \/ excuses' = Excuse(IF h.key = file[h.path].key THEN {h.path} ELSE {}, "io")

\* Slip: the key is read by path, after the content.
LoadKeyLast(h) ==
    /\ ~Refused(h)
    /\ bad' = Without(bad, h.path)
    /\ tabs' = With(tabs, h.path, [key |-> file[h.path].key, content |-> ContentOf(h)])
    /\ UNCHANGED excuses

\* Parsed and loaded under the key that was read before the content.
Load(h) ==
    /\ ~Refused(h)
    /\ bad' = Without(bad, h.path)
    /\ tabs' = With(tabs, h.path, [key |-> h.key, content |-> ContentOf(h)])
    /\ UNCHANGED excuses

Read ==
    /\ \E h \in open : ReadFails(h) \/ Load(h)
    /\ open' = {}
    /\ UNCHANGED <<envVars, orphan_logged, phase, listed, unopened, seen, before, quiet>>

-----------------------------------------------------------------------------
Init ==
    /\ host \in Hosts
    /\ file \in [Paths -> {Version(t, s) : t \in BOOLEAN, s \in Shapes}]
    /\ \A p \in Paths \ host.paths : file[p] = Version(FALSE, CHOOSE s \in Shapes : TRUE)
    /\ now = 0
    /\ passwd \in SUBSET (Spool \cap host.paths)
    /\ spool_secure = TRUE
    /\ changes = 0
    /\ tabs = << >>
    /\ bad = << >>
    /\ orphan_logged = << >>
    /\ phase = "idle"
    /\ listed = {}
    /\ unopened = {}
    /\ open = {}
    /\ seen = {}
    /\ before = {}
    /\ quiet = FALSE
    /\ excuses = [p \in Paths |-> {}]

Environment ==
    \/ \E p \in host.paths : Replace(p) \/ Remove(p) \/ WriteInPlace(p)
    \/ Administrate

Daemon ==
    \/ StartRefresh \/ ReloadAll
    \/ StatSystem \/ ScanCronD \/ ScanSpool \/ DropVanished
    \/ \E p \in Paths : consider(p)
    \/ KeyFailed \/ Read

Next == Environment \/ Daemon

Spec == Init /\ [][Next]_vars

-----------------------------------------------------------------------------
(* Properties.                                                             *)

Versions == [there : BOOLEAN, key : Nat, uid : Uids, fault : Faults,
             content : {s.content : s \in Shapes}]
Contents == {s.content : s \in Shapes}
Entries  == [key : Nat, content : Contents]

\* Type correctness.
TypeOK ==
    /\ file \in [Paths -> Versions]
    /\ now \in Nat
    /\ passwd \subseteq Spool
    /\ spool_secure \in BOOLEAN
    /\ host \in Hosts /\ changes \in 0..host.changes
    /\ DOMAIN tabs \subseteq Paths /\ \A p \in DOMAIN tabs : tabs[p] \in Entries
    /\ DOMAIN bad \subseteq Paths /\ \A p \in DOMAIN bad : bad[p] \in Keys
    /\ DOMAIN orphan_logged \subseteq Spool
    /\ \A p \in DOMAIN orphan_logged : orphan_logged[p] \in Nat
    /\ phase \in {"idle", "system", "cron.d", "spool", "drop"}
    /\ listed \subseteq Paths
    /\ unopened \subseteq Paths /\ \A p, q \in unopened : p = q
    /\ open \subseteq [path : Paths, key : Nat, content : Contents, live : BOOLEAN]
    /\ \A g, h \in open : g = h
    /\ seen \subseteq Paths
    /\ before \subseteq Paths
    /\ quiet \in BOOLEAN
    /\ excuses \in [Paths -> SUBSET Kinds]

\* A refresh is over, and nothing has changed since it began.
Settled == phase = "idle" /\ quiet

\* What the checks of consider ask of a file, apart from its user's existence.
FileFit(p) ==
    /\ file[p].there
    /\ permissive \/ (/\ file[p].fault = "none"
                      /\ \/ file[p].uid = "root"
                         \/ IsUser(p) /\ file[p].uid = "owner")

Loadable(p) ==
    /\ FileFit(p)
    /\ IsUser(p) => p \in passwd /\ file[p].content \notin OverLimit

Excused(p, kinds) == excuses[p] \cap kinds # {}

\* A file is never loaded and recorded as failed or orphaned at once, which
\* would make consider forget one of the two verdicts.
OneVerdict == DOMAIN tabs \cap (DOMAIN bad \cup DOMAIN orphan_logged) = {}

\* No stale jobs: after a refresh every loaded crontab is the file as it is now,
\* although key and content are read at different moments.
NothingStale ==
    Settled => \A p \in DOMAIN tabs :
        \/ FileFit(p) /\ tabs[p].content = file[p].content
        \/ Excused(p, {"unlisted", "nss", "samekey"})

\* No missing jobs: after a refresh every file that should run is loaded, unless
\* a call failed, or failed for this version of the file before, or this version
\* came in time to have the failure of another recorded under its key.
NothingMissing ==
    Settled => \A p \in Paths :
        Loadable(p) => p \in DOMAIN tabs \/ excuses[p] # {}

\* A crontab is unloaded only for a reason of its own: a directory that can't be
\* read or is insecure, or NSS being down, unloads nothing.
UnloadedForCause ==
    Settled => \A p \in before \ DOMAIN tabs :
        ~Loadable(p) \/ Excused(p, {"entry", "call", "io"})

\* "On any other read error, every currently loaded tab under `dir` is marked
\* `seen` so it survives this refresh" (scan_dir).
ReadErrorKeepsTabs ==
    Settled => \A p \in (before \cap (CronD \cup Spool)) \ DOMAIN tabs :
        ~Loadable(p) \/ Excused(p, {"call", "io"})

\* "Not cached in `bad`: retry every refresh so the tab loads as soon as the
\* passwd entry appears" (consider).
OrphanRetried ==
    Settled => \A p \in Spool :
        Loadable(p) => p \in DOMAIN tabs \/ excuses[p] \ {"orphan"} # {}

\* "Load or reload one file if its metadata changed" (consider): a file that no
\* call has failed on is loaded, whatever was in its place before.
ChangedIsTried ==
    Settled => \A p \in Paths :
        Loadable(p) => p \in DOMAIN tabs \/ excuses[p] \ {"untried"} # {}
=============================================================================
