# Verification of crontab-rs

TLA+ models of `crond` and `crontab`, checked with TLC and proved with TLAPS.
Line numbers refer to the sources under `src/`; `PROJECT.json` maps every
definition to the lines it stands for, lists the runs, the hazards they are
aimed at, the slips of the code each property detects, the findings and the
theorems.

## 1. The system

`crond` is one process. Its main thread owns the crontab database and the
clock; each job runs in a thread of its own, with a child process, pipes and
possibly a mailer. `crontab` is a short-lived set-uid command that changes the
spool by renaming files into it. The two share nothing but files.

| Component | State | Operations | Interacts with |
|---|---|---|---|
| Main loop, planner (`daemon.rs`, `clock.rs`) | `virtual_time`, `prev_gmtoff`, `last_wild`, flags `term` and `hup` | sleep, wake, reload, `plan`, `skip_repeated_wild`, evaluate | system clock, zone, signals, database, slots |
| Job slots and dispatch (`daemon.rs`) | counters in total and per user, `dispatch_failures` | `try_acquire`, drop, `dispatch`, `take_dispatch_failures` | main loop, job threads (a mutex) |
| Minute evaluation (`daemon.rs`) | zone cache, cluster host memo | `run_minute`, `run_reboot` | database, schedules, zones |
| Database (`database.rs`) | `tabs`, `bad`, `orphan_logged` | `refresh`, `scan_dir`, `consider`, `forget_all` | file system, passwd, parser |
| Process lifecycle (`bin/crond.rs`) | pid file and its lock, `@reboot` marker | start, lock, run `@reboot` jobs, shut down | other daemons, reboots of the host |
| `crontab` command (`bin/crontab.rs`, `allow.rs`) | a temporary file, the spool file | install, list, remove, edit, set the cluster host | editors, the daemon, other `crontab`s |
| Job runner (`job.rs`) | child, pipes, writer thread, output so far | `run`, `deliver` | slots, mailer, privileges |
| Mailer (`mail.rs`) | child, two helper threads, deadline | `send` | runner |
| Zones (`tz.rs`) | LRU cache of parsed zones | `ZoneCache::get`, POSIX rules, TZif | tzdata files, `run_minute` |
| Schedules (`schedule.rs`) | bit sets of the fields | parse, `matches`, `next_after` | parser, `run_minute` |
| Parser (`crontab.rs`) | environment, counters, diagnostics | `run`, `load_user_limit` | database, `crontab` |
| Privileges (`privs.rs`) | uid, gid, groups of the process | drop, regain | runner, mailer, editor |
| Logging (`logging.rs`) | connection, `retry_after` | `send_syslog` | everything |

What is hard here: the clock, which may jump between any two reads; files that
change while a refresh looks at them; threads that return slots; several
daemons around one pid file; deadlines that race late answers. Correct means,
component by component:

* main loop: fixed-time jobs are considered for every local minute exactly
  once, wildcard jobs at every wake and never twice for a minute, signals are
  not lost, sleeps end;
* slots: the counters are the jobs alive, and the limits hold;
* database: after a refresh the loaded crontabs are the files, none stale, none
  missing, and none unloaded because something else failed;
* lifecycle: one daemon, and `@reboot` jobs once per boot;
* `crontab`: a crontab is replaced as a whole or not at all; an edit is not lost
  without notice;
* runner, mailer: every job ends, its slot comes back, its output is delivered
  or logged once, and no deadline is overrun;
* zones, schedules: the computed times and sets are those of the reference
  definition, at every boundary; a cached zone is one that its file had;
* parser: a bad line costs no other line, and the daemon loads what `crontab`
  accepted;
* privileges: files are used with the identity they belong to, and a child has
  no way back.

## 2. Modules

### Main loop: `WakeLoop`, `FixedMinutes`

`WakeLoop` is `Scheduler::run_forever` with `plan`, `updates_previous_offset`,
`skip_repeated_wild` and the part of `run_minute` that decides which classes of
jobs a step considers. Time is counted in minutes, as the code does. `pc` names
the place in the loop: `top` is the head of the outer loop, `sleeping` the inner
one, `awake` the code after it, `evaluating` the loop over the planned steps.

| Action | Code |
|---|---|
| `GoToSleep` | compute the deadline (397-401) |
| `SleepEnds` | the polling loop ends: a flag, the deadline, or more than 65 s left (402-413) |
| `Stop`, `Reload` | the two flags after the sleep (397, 414-422) |
| `PlanWake` | read the clock, plan (424-433) |
| `SkipStep`, `RunStep` | one element of the filtered plan (434-440) |
| `FinishWake` | the assignments after the loop (443-446) |
| `Tick`, `StepClock`, `ChangeOffset` | time, `settimeofday` or suspend, DST |
| `Sighup`, `Sigterm` | the signal handlers |

The environment moves between any two actions of the daemon, so that jobs may
take minutes to start and the clock may jump within an evaluation.
`skip_repeated_wild` filters the whole plan before its first step is evaluated;
the model judges each step when it is reached. That is the same, because
the filter goes through the steps in order and nothing else touches `last_wild`.

`FixedMinutes` is the abstract specification of what the loop owes fixed-time
jobs: one minute after another, restarted only when the clock has moved further
than `MAX_JUMP`. `WakeLoop` refines it (`FixedInOrder`) with the history variable
`fixedRun`. The other history variables record the last minute of the wildcard
jobs and, while the system clock was never set back, the evaluations of
`CRON_TZ` jobs per instant.

Left out: seconds, except in the sleep rule, which is a choice where it depends
on the second; offsets that are not whole minutes; which jobs exist.

`WakeLoopInv` has the inductive invariant, `SchedulingProofs` the proofs.

### Slots: `JobSlots`

The counters of `JobSlots` and what `dispatch` and the job threads do with them.
The mutex makes `try_acquire` and drop atomic. `dispatch` is split where another
thread can get in: `Acquire` (or `Refuse`), then `SpawnThread` or `SpawnFails`.
`EndJob` is the thread's drop, whatever ended it. Counters are keyed by
the lossy user name, so two users may share one (`LossyName`); the map of them has an
entry only while it has a guard, which `Accounting` demands as well. `JobProofs`
has the proofs.

### Lifecycle: `Startup`

`main` of `crond.rs`, from opening the pid file to removing it, for several
processes. A step is a system call. An inode is identified by the number of
removals before it was created, which is exact because a file is created only
where none is. A lock belongs to the process whose `pc` is between `Lock` and
`Unlock`. `Die` is every end that is no shutdown: a kill, a crash, or the
early return when a signal handler cannot be registered. `HostReboot` empties
`/run`. Left out: `--run-at`, daemonising (which comes before the lock), and
which of the `@reboot` jobs a daemon had started when it died. `StartupInv` has
the inductive invariant, `StartupProofs` the proofs.

### Database: `Database`

`refresh` as a small machine: stat `/etc/crontab`, scan `cron.d`, check and scan
the spool, drop what vanished. `consider` is split where it looks at a file a
second time: between an open that fails (`OpenFails`) and the `symlink_metadata` by
name that keys the failure (`KeyFailed`), and between the `fstat` that gives the key
and the read of the content (`Accept`, `Read`). The other outcomes are one action each:
`Vanished`, `StatFails`, `Unchanged`, `LookupFails`, `Insecure`, `Orphan`. The environment
replaces, removes and rewrites files at any time, a new version may have the same key
as the old one, users come and go, and every call may fail.

Three calls are merged with their neighbours. The `fstat` with the open before it: the
descriptor stays that of the file opened, so what is renamed over it in between may as
well come after the step (the code then finds a file without links and refuses it, where
the model reads it; the next refresh meets the new file under its own key in both); what
is written into it in between may as well be written before.
The two lookups of a user, in the check of the owner and after it: a user that goes just
between them leaves an orphan in the code, and in the model a file that is refused or
still loaded. And the `metadata` of the spool directory with the listing of it.

The history variable `excuses` records why a path need not be up to date
(a call that failed in this refresh or was recorded, a key that two versions share, the
failure of an earlier version recorded under the key of this one), so that the
properties can say exactly what a refresh owes: everything else.

Left out: names that the filters reject are as good as absent; entries are
considered in any order instead of by name; the parser is reduced to its verdict
on the limits of `load_user`; a symlink that `O_NOFOLLOW` refuses counts as
`OpenFails`, and any file that is not regular has the fault `irregular`.
`DatabaseProofs` has the proofs.

### Jobs and mail: `Runner`, `Mailer`

`Runner` is `Runner::run` and `deliver` for one job. Four parties move: the
thread of the job (`pc`), the thread that writes the `%` input (`writer`), the
job's process, and a process it leaves in the background. Both pipes have a size;
`in_ends` and `out_ends` are the processes that hold their far ends. Every early
return before the job exists is `CannotStart`; afterwards each call that can fail
has an action of its own (`ReadFails`, `WaitFails`, `WriterFails`), also the two
`std::thread::spawn` that panic (`WriterCannotStart`, `MailHelperCannotStart`).
The processes read, write, close, fork and exit as they please. Delivery is
decided from `MAILTO`, `-n`, `-s` and `-m off`; the mailer itself is one step
with three results.

`Mailer` is that step: `Mailer::send` with its polling, deadline, kill, the two
helper threads and the two `recv_timeout`. It is a timed model: `Tick` happens
only when no thread of crond can do anything (`Quiet`), so what is shown about
`now` holds up to the time the threads need to compute. The processes are not
timed at all.

`Runner` holds the slot of `JobSlots`: `EndJob` there is the end of `run` here,
and `SlotCoversJob` says when that is. `MCJobs` has an instance of each; a behaviour is one
of the slots or of a job. The proofs are in `JobProofs` and
`MailerProofs`.

Left out: which account may run a job and with which environment (decisions
without state), the layout of messages and `CMDOUT` lines, address expansion, and
`Interrupted` reads, which are repeated. Output is counted in blocks, so the
notice about discarded output is not counted.

### The command: `CrontabCmd`, `CrontabFile`, `Privs`

`CrontabCmd` is `main` of `bin/crontab.rs` for several processes that share a
spool. A step is what a command does between two calls that others can notice:

| Actions | Code |
|---|---|
| `Begin` | the order of the options, `user_allowed` of `allow.rs` |
| `List`, `StatAndConfirm`, `Unlink` | `-l`, `-r` with or without `-i` |
| `TruncateHost`, `WriteHost`, `ClearHost`, `ShowHost` | `-n`, `-c` |
| `ReadInput` | the file as the caller, or standard input, and `check_syntax` |
| `MakeTmp`, `Fill`, `Persist`, `InstallFails` | `install`: temporary file, content and owner, rename |
| `ReadOriginal`, `MakeCopy`, `RunEditor`, `Reread`, `AskRetry`, `Close` | `-e` |
| `Die` | killed anywhere, or identities that cannot be changed |

A text is what `check_syntax` says of it. Any call may fail. Each process has
the four identities of the kernel (real, effective and saved ids, groups), which
`Privs` changes as `as_real_user` and `configure_child` do, one operator per system
call, with the kernel's rules about who may. `used` records the identity with
which a command touched files of its caller or the spool, or started the editor;
`unread` that one of the access lists could not be read when it asked. `Authorised` does
not look at options or lists: it asks of each change who started the command.

`CrontabFile` is the abstract specification: a register per user that is
installed and removed as a whole. `ReplacedAtomically` refines it; a file that is
incomplete, unchecked or owned by somebody else would be `broken`, which the
register never is. `CrontabCmdProofs` has the proofs, that of the refinement too.

Left out: messages, the choice of the editor and of the temporary directory.

### Zones: `ZoneCache`, `ZoneTime`

`ZoneCache` is `ZoneCache::get`, split where the file system can change between
two calls: probe the path, open and identify, read and store, else resolve the
string, which may probe and load `posixrules`. The environment rewrites files and
points paths at others meanwhile. The cache is its map and its order; `recency`
is the history of keys that it is judged by.

`ZoneTime` is what is done with a zone. `parse_posix` gets the parts of a string
(which may be missing or malformed) and fills in the rest, with
`posixrules_default` where there are no rules. `ByRules` is the computation of the rules
in the year of a time. `Guess`, `Down`, `Up` and `Halve` are the search of a table of
transitions: an index guessed from the average spacing, a walk of a few entries or
a bisection. The reference counts days (`JanFirst`, `DaysOf`) and takes the
change that came last.

Left out: characters of strings, bytes of TZif files, and times before 1970 by
rules.

`MCZones` has an instance of each. They share no variable: a behaviour is one of
the cache or a lookup. `ZoneProofs` has proofs about the cache and about the
search.

### Schedules: `Schedule`, `NextAfter`

`Schedule` has `get_range` as a machine over tokens (`Scan`), with the arithmetic of C
ints and of a C long that saturates; `Selected` is the loop that sets the bits, up to the
first of its turns that leaves the range or the field;
`get_list` joins ranges up to a blank (`ReadToken`, `EndRange`). `Meaning` says
separately, by the form of a range, which sets it may select. `CrontabProofs` shows
that they agree.

`NextAfter` has the schedules that five fields and the shortcuts give, `matches`, and
`next_after` as a search (`SkipMonth`, `SkipDay`, `SkipHour`, `SkipMinute`, `EndSearch`)
on a calendar whose sizes are constants: `DaysIn` has the days of each month and
`Before` the days before it. The reference looks at every moment of the calendar.
Left out: `@reboot`, for which both functions return at once.

`MCCrontab` has an instance of each, and of the parser below. They share no variable: a
behaviour is one of the parser, of the reader of a field or of a search.

### Parser: `Parser`

`Parser::run` with its reader: `get_char` and `unget_char` keep the line counter, `skip_comments`
is a loop (`SkipLine`, until `EndOfComments` or `TooMuchGarbage`), `Discard` has its limit, and
`ReadEnvstr` reads a line. `load_env` is its machine of eight states, in place: `env.buf` is
`envstr`, in which longer lines leave their ends, and the other parts of `env` are the local
variables. `EnvTurn` is a turn of its loop (`Opened` behind a quote, then `Match`). When
it is over (`EnvOver`), `LoadEnv` takes the line as an assignment (`IsAssignment`, `Trimmed`)
or `LoadEntry` goes back and reads it as a job, with `-` and `-n` options and the user
of a system crontab. The history variable `original` is the line as it was read, by
which `EnvMeaning` judges what became of it. Both readers of a crontab are there, `crontab`
(`check_syntax_counts`) and the daemon (`load_user_stop`), each with its way of counting.
A character is one byte. `get_list` reads a field, of which `*` is good and a word bad, and
`load_schedule` five of them or a shortcut, whose known names are the constant
`Shortcuts` (the ranges of a field are in `Schedule`). The loops that only read
(`while (is_blank(ch)) ch = get_char()` and its like) are
one step: `Reads` is the reader after so many characters, and `ReadWhile` stops at the
first of them that ends the loop. `CrontabProofs` has the proofs.

Left out: warnings, `RANDOM_DELAY`, the environment that a job gets, and where a
command is split at `%`.

## 3. Runs

| Run | Question | Bounds |
|---|---|---|
| `wake_loop` | fixed-time, wildcard and `CRON_TZ` jobs under every movement of the clock; no sleep hangs, no signal is lost | limits 2 and 4 for 5 and 180, offsets 0 and 3, 6 minutes, 3 shifts |
| `jobs` | slots: accounting and limits; runner: what becomes of the output, how long `run` lasts, no deadlock | 6 jobs, 3 users of which two share a name, limits 3 and 2; pipes and cap of 2 blocks, inputs up to 3, outputs up to 4, 30 entries |
| `startup` | what lock, pid file and marker guarantee | 3 processes, 2 removals per boot, any number of boots |
| `startup_single` | finding | the same |
| `mailer` | deadline, late answers, reports; `send` returns, helpers end | timeout 4, pauses up to 2, grace 1 tick; message 3, pipe 2 blocks |
| `database` | a spool file; `/etc/crontab` and a drop-in: up to date after each refresh, nothing unloaded without cause | 4 changes of the spool file, 2 of `/etc/crontab` or of a drop-in, 1 of either when there are both; 2 good contents, an insecure and an oversized one |
| `database_orphan`, `database_untried` | findings | a spool file, 2 changes |
| `crontab_cmd` | a crontab is replaced as a whole, by who may; edits are not lost; nothing is left behind; the right identity everywhere | 2 commands, one of which is anything, also with the name of another user; root and two users; plain, set-uid and set-gid |
| `crontab_cmd_lists` | finding | the same |
| `zones` | a returned zone is one its file had; the least recently used is evicted; a lookup gives the offset in effect, by a table (`FileTime`) or by rules (`LocalTime`) | 2 paths, 2 inodes, 3 lookups, 2 changes, capacity 2; days of 6 hours in 1972, 1999, 2000 and 2100; tables of up to 9 transitions |
| `crontab` | lines are read as the grammar says, behind any errors; line numbers; both readers agree; lists mean what their grammar says; `next_after` finds the first match | all files of up to 3 characters and of 4 without `#`, `*`, `@`; the time of a job (five stars or a shortcut) with up to 3 more; all of 3 lines out of 13; limits 3, 16, 17, 1, 1; a field from 1 to 3, C ints from -8 to 7, 6 tokens; 2 months, weeks and days of 2, 2 years |

A run checks the properties a change of the code can break. Others hold as well
and can be added to the same configurations: `TypeOK` of each module that has
one, `FixedUpToVirtual`, `FailuresCounted`, `RefusedOnlyWhenFull` and `OneVerdict`.

Why the bounds suffice. `plan` distinguishes five ranges of a difference, and
with limits 2 and 4 and 9 local minutes each range has an inner and both
boundary values, in any order of three shifts. The slot limits are reached
overall, by a user and by two users together. A third process is
what it takes for one to shut down, one to wait and one to come late. A file
needs one change to be stale, a second to come back, and the changes during a
read use the others. Inputs and messages are smaller than, equal to and larger
than a pipe, output exceeds the cap within a read and between two, and the
horizon of `mailer` (9 ticks) lies beyond the bound it checks (7). A second
command is what it takes to come between any two steps of an install, and a file
has one that is replaced, one that replaces it and one that is removed. With a
capacity of 2 and the keys of files, strings and new versions, entries are evicted,
replaced and used again. The years are a leap year, a common year, a century that
is a leap year and one that is not; the tables are dense (the guess is near),
sparse (it is far off, before the table and behind it) and unsorted. The short
C int lets a step leave it within the lists of 6 tokens. Four characters are
every combination of two pushed back; three more behind a time are every end of a job,
its `-n`, user or `=`; three lines are a line behind any two
others, and one assignment or job more than the limit of one; the line buffer is
larger than a job with five fields, and one line is larger than both limits. Deadlock is not checked
where the system may stop: after
SIGTERM, at the horizon, or when all dispatches, a job, a delivery, the commands,
the lookups or the file are done.

Fairness. In `wake_loop` time passes (`WF_vars(Tick)`), and
the daemon thread runs (`WF_vars(Daemon)`). The second is justified because the
thread blocks only in a sleep of at most a second, after which it looks at
the flags and the clock again. Nothing is assumed about signals or shifts. In
`jobs` and `mailer` the threads of crond run, which the kernel's
scheduler provides, since none of them waits for a lock. The runner assumes of
the job that it goes on with its work while it can (`JobProceeds`), writing first or reading
first; that is a condition on the
job under which `run` owes a return, not a promise of the code. Failing calls
and background processes are never fair.

## 4. Findings

Four contradict a document and have a run:

1. *Two daemons* (`startup_single`). The lock is released before the pid file
   is removed, and removed by name. A daemon that opened the file before locks
   the inode that is about to lose its name; the next one locks a new file.
2. *Orphans not retried* (`database_orphan`). A spool file owned by a user that
   has no passwd entry yet fails the ownership check before it gets to the
   branch that is retried, and stays in `bad`.
3. *A file not tried* (`database_untried`). When the open of a file fails, a second call
   takes the key by name. A file renamed into place in between, as `crontab` does, is
   recorded in `bad` with a failure that was not its own, and is not
   loaded until it changes again.
4. *An unreadable `cron.deny`* (`crontab_cmd_lists`). `README.md:139` says that every user
   but root is denied if either file exists but cannot be read. `user_allowed` does not
   look at `cron.deny` where there is a `cron.allow`.

The others are limits of what the code or a comment promises. To see one, add
the property in brackets to the configuration named.

5. *A jump of exactly three hours* (`JumpReplayed` in `MCWakeLoop.cfg`, with
   `MaxOffset = 4` and `Offsets = {0, 4}`). The difference that `plan` compares with
   `MAX_JUMP` contains the minute that passed, so a change of 180 minutes arrives as
   181 and is treated as a reset: the fixed-time jobs of the skipped minutes are
   not run.
6. *`@reboot` jobs lost* (`RebootNotLost` in `MCStartup.cfg`). The marker is
   created first, so a daemon that dies before it has started the jobs leaves a
   host on which they do not run in this boot.
7. *Background processes* (`ClosedOutputDoesNotHang` in `MCJobs.cfg`). The
   thread that writes the input is joined without a limit. A background process
   that closed its output, but not its input, keeps the slot when the input does
   not fit into a pipe. With an input that fits, `run` returns (`RunReturns`).
8. *No thread left* (`EveryFailureLogged` in `MCJobs.cfg`).
   `std::thread::spawn` panics where `dispatch` handles the same failure: a job
   goes on without a slot, or its output is dropped, and nothing is logged.
9. *One unreadable entry* (`ReadErrorKeepsTabs` in `MCDatabase.cfg`) unloads its
   crontab, although `scan_dir` keeps everything when the directory is unreadable.
10. *Rules of another file* (`FreshRulesAlways` in `MCZones.cfg`). A `posixrules`
   that could not be read is cached like one that is not there, and one that is
   pointed elsewhere between the probe and the load leaves the other's rules
   under its identity, until it changes again.
11. *Steps beyond a C int* (`ListMeaningAlways` in `MCCrontab.cfg`). An element of
   the field plus the step wraps below it, as in `1-59/2147483647`, and the list is
   rejected, though "a step larger than its range is accepted".

## 5. Proofs

All theorems hold for every value of the constants under the named assumptions
of the modules, which TLC evaluates in the runs. They are types (limits are
natural numbers, maps are typed, sets of texts or contents are disjoint) and these:

* `LimitAssumption`, `ClockAssumption`: catch-up within the jump limit, offsets from
  0 upward;
* `StartupAssumption`: finitely many processes;
* `RunnerAssumption`, `MailerAssumption`: a pipe holds a block, and neither the cap of
  the output nor the times are 0;
* `DatabaseAssumption`: the spool, `cron.d` and `/etc/crontab` are different places;
* `CommandAssumption`: root is a user, and a file that is absent or incomplete is no text;
* `ZoneAssumption`: what does not parse is none of the contents that do;
* `ParserAssumption`: files are sequences of characters, and no limit is 0;
* `ScheduleAssumption`: a field has two values at least, a C int holds those and the next,
  and a C long the C int;
* `CalendarAssumption`: months have days, `Before` adds them up, and the calendar is long
  enough for the limit of each search;
* `LookupAssumption`: a file has a type for each of its transitions, as
  `parse_tzif` sees to, and the spacing of the search is not 0.

`SchedulingProofs`, the main loop. `FixedUpToVirtual` and the others are not inductive: within an
evaluation they depend on how far the loop has come. `IInv` adds what is
known between wakes (`BetweenWakes`: the minute considered last is
`virtual_time`, and the wildcard jobs ran at most `MAX_JUMP` behind it), where
the loop stands within one (`WithinWake`: `FixedDone`, `WildDone`, `ZonedDone`
as functions of the position), and that a clock never set back is read later at
each wake (`ReadsLater`). Lemmas compute `plan` range by range; one lemma per
action shows that it preserves `IInv`. From `IInv` follow the type invariant, the
four safety properties, and, step by step, the refinement of `FixedMinutes`.

`SchedulingProofs`, the search of `NextAfter`. `SearchInv` says that no moment between the one asked
for and the one reached matches, and that the search is in the calendar, which it needs for its
limit to have a next month (`LimitFacts`). A jump keeps this if what it leaves out does
not match: `WithinMonth`, `WithinDay`, `WithinHour` and `WithinMinute` say that
what lies before its target is in the same month, day, hour or minute. They rest on
`MinuteOrder`, that the number of a minute orders the moments by month, day, hour and
minute, and this on `MonthOrder`, by induction over the months (see `ZoneProofs` below).

`JobProofs`, the slots. `Accounting` needs the limits on the counters and the
finiteness of the jobs not started beside it (`SlotInv`). That the map has an entry for
exactly the names with guards is what makes an absent entry and a count of 0 the same
(`Counted`). The lemmas `GuardAdded` and
`GuardDropped` count the guards in total and by name, `CountUpFacts` and
`CountDownFacts` say what the code does to the counters, and `Accounted` puts the
two together. `CapsRespected` then follows because the jobs of a user are
among those of its lossy name.

`StartupProofs`, from `StartupAssumption` (finitely many processes, a natural
bound). `OneMorePerUnlink` counts processes, but what a step preserves is which
file each has locked, so `IInv` states: the name stands for the newest inode and
nobody has a newer one open (`FilesInOrder`), the holders of locks have
different inodes (`LockExclusive`), and whoever wrote a pid keeps the others from
overwriting it (`PidKept`). The processes then map injectively to the at most
`unlinks + 1` inodes. `MarkerFirst` relates the marker to the daemons before and
after it; it holds as long as every marker could be created. Its core is that
before the first removal one process at most is between lock and
unlock (`OneActive`), hence one at most finds no marker.

`JobProofs`, the runner. `OutputConserved` is nearly inductive; the others say what is
true when `run` has returned and rest on what holds on the way there: who is past
reading has seen the last writer of the pipe go or an error (`OutputOver`), who is
past waiting has reaped the job (`JobOver`), and who returns has joined the writer
or logged that it could not (`Drained`).

`MailerProofs`. `OverInTime` bounds the time of the return, so `IInv` bounds how late the
caller may be at each place, and says that nobody sleeps beyond what wakes him
(`OnTime`). `SuccessMeansTaken` needs that a result which is waited for is
sent: if nobody held the mailer's input when it was reaped, the writer cannot
be stuck (`Judged`); `Feeding`, `Draining` and `Polled` say how far the threads are.

`DatabaseProofs`. `IInv` has a part that lasts from refresh to refresh and one that
grows within it. Lasting is that whatever is loaded, bad or open belongs to a version
of its file that existed with that key, and that a key has one verdict
(`TabTrue`, `BadTrue`, `OpenTrue`, `Verdicts`), but for a failure that was recorded
under the key of another version; passing is that each path behind the scan
is settled or excused (`Refreshed`, `Kept`). The four properties follow when
the scan has ended.

`CrontabCmdProofs`. A command is described by what it knows (`Good`): the ids of its
caller are those it began with (`SameIds`), it is past its options only if their order
is right (`Permitted`) and its text was checked (`Checked`), its temporary files are its own
(`Tidy`), an edited text is in the file, the copy or the editor (`Safe`), and its
identity is the one its place needs (`Privileged`). No step of a command disturbs another's.
With a spool that is whole, each step of `CrontabCmd` is one of `CrontabFile` or leaves the
register as it is (`ReplacedAtomically`). `Authorised` rests on
`Permitted`: only root gets past its options with the name of another user, or to the host.

`ZoneProofs`, the cache. Freshness needs that the entries are true of their keys (`FilesTrue`,
`StringsTrue`): while an inode is at the version that a key names, its content parses
to the entry. This survives a file that changes between `fstat` and
read because the key then names a version that is gone for good. For the eviction,
the order of the cache is, from its end, the front of the history of uses
(`Cached`); that is proved of sequences alone (`Removed`, `FrontedOld`,
`RecentAgain`, `RecentInsert`), hence for every capacity, 0 and 1 too.

`ZoneProofs`, the search. `LookupInv` does not need an order of the table: each step of
`Guess`, `Down`, `Up` and `Halve` leaves a transition that has passed below and one that has
not above, so that each index is within the table and what is found lies between.
In a sorted table that is the last one passed (`LastPassed`), whatever
`SPACING` and `WINDOW` are. The library's induction theorems cannot be used here, but
its theorem about minimal elements can (`FirstOfNaturals`).

`CrontabProofs`, the parser. A step reads any number of characters, gives some back and may
leave a line half read. Between two steps nothing is left that was given back (`Placed`), and the
line counter is that of the reader's place (`ReaderInv`): this is what `LinesTrue` lacks to be
inductive. `WhileReads` says that a loop stops at the first character that ends it. What
`entry` reads is shown to be of the line it began on (`Amid`, `OnLine`), also where a bad
word goes back and what ended it is there twice (`BadWord`); so `Discard` ends on that line,
with its newline read or not (`DiscardEnds`). `ReportInv` has the line of each diagnostic, and `CountInv` says that
without one each entry is a job of both readers, from which `CheckedIsLoaded` follows.

`CrontabProofs`, `load_env`. `EnvInv` says what the machine has read at each of its states (`EnvPlace`):
the name and where it ended, where the equals sign is, where the value began, and that the
buffer holds what was copied, while what is still to be read is untouched because the
machine never writes ahead of where it reads (`Within`). There is one lemma for a turn in each
state, and one for each state in which the loop can end (`EnvEnds`). They rest on facts about texts alone,
that a line is cut in one way only into a name and a value without their blanks
(`AssignmentAt`, `ValueFails`). A line whose last character opens the quotes of its name or
value (`OpensAtEnd`) is excepted: there the code reads on behind the end of the line,
into what a longer one left. Of such lines only the types of the buffer are proved (`TurnStays`).

`CrontabProofs`, the fields. `ListInv` says of the state of `get_range` which form the tokens read so
far have (`Understood`), one lemma per state and token. What a complete range selects is
then computed by form: `Turns` and `LoopMeaning` relate the turns of the loop, with their C ints that
wrap, to the multiples of the step between the ends. So `ListMeaning` holds for lists of any
length.

The inductive invariants hold in the small instances, too; those of `WakeLoop` and
`Startup` are in modules that `MCWakeLoop` and `MCStartup` extend, so that `IInv`
can be added to their configurations.

Only model-checked:

* liveness (`SignalsHonoured`, `WakeCompletes`, `RunReturns`, `SendReturns`):
  fairness and `ENABLED` are beyond the prover;
* `BadLinesCostNothingElse` of `Parser`: it counts the jobs of a whole file, so the proof would need
  what `entry` makes of every line, and an induction over the lines;
* `LocalTime`: the reference counts the days of the calendar with folds over
  sets, and the code has formulas, which agree in the years compared.

## 6. Plan

In this order; each module brings its properties, and theorems where named.

1. `BadLinesCostNothingElse`, from `EnvMeaning` and what `entry` makes of a single line.
2. `Scheduler`: `run_minute` with schedule match, `RANDOM_DELAY` and cluster
   mode, which reads the file that `set_host` writes; a composition of `WakeLoop`,
   `Database` and `JobSlots` on a single job.

## 7. Not modelled

* Logging (`logging.rs`): a connection, retried once, and a backoff; nothing else
  depends on a line that was lost.
* Configuration and command line: read once at start, no state afterwards. The
  one-shot mode `--run-at` does not run next to anything.
* How bytes become tokens: TZif files, characters of POSIX strings, of crontab
  lines and of passwd entries. What is made of the tokens is modelled.
* The environment of a job, `%` in its command, and which accounts may run one:
  functions of their input, without state and order.
* The layout of mails, log lines and messages.
