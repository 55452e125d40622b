------------------------------ MODULE WakeLoop ------------------------------
(***************************************************************************)
(* The main loop of crond (Scheduler::run_forever) with the planner it     *)
(* calls, plan, and the filter skip_repeated_wild.                         *)
(*                                                                         *)
(* The daemon counts time in minutes of LOCAL wall-clock time, utc + off.  *)
(* It sleeps to the next minute boundary, reads the clock once, and turns  *)
(* the difference to the last processed minute, virtual_time, into a list  *)
(* of evaluations.  Everything around it may move meanwhile: time passes   *)
(* while jobs are being started, the administrator steps the clock, the    *)
(* host is suspended, DST changes the offset, SIGHUP and SIGTERM arrive.   *)
(*                                                                         *)
(* Which jobs exist is left out.  One evaluation (Scheduler::run_minute)   *)
(* is recorded by which classes of jobs it considers: fixed-time jobs,     *)
(* wildcard jobs, and fixed-time jobs with CRON_TZ.                        *)
(***************************************************************************)
EXTENDS Integers, Sequences

CONSTANTS
    MAX_CATCHUP,   \* largest gap in which every missed minute is replayed
    MAX_JUMP,      \* largest jump treated as DST or an adjustment
    Offsets,       \* the UTC offsets (minutes) the local zone may have
    MaxOffset,     \* an upper bound of Offsets
    Horizon,       \* bound: the last UTC minute of a behaviour
    MaxShifts      \* bound: how often the clock is stepped or the offset changes

\* 5 and 3 * 60 in the code: a gap that is replayed fully is a tolerated jump.
ASSUME LimitAssumption ==
    /\ MAX_CATCHUP \in Nat \ {0}
    /\ MAX_JUMP \in Nat
    /\ MAX_CATCHUP <= MAX_JUMP

\* The offsets are counted from the smallest one, so that minutes are naturals.
ASSUME ClockAssumption ==
    /\ MaxOffset \in Nat
    /\ Offsets \subseteq 0..MaxOffset
    /\ Horizon \in Nat
    /\ MaxShifts \in Nat

UtcMinutes   == 0..Horizon
LocalMinutes == 0..(Horizon + MaxOffset)

\* No minute yet: the None of last_wild.
NoMinute == -1

VARIABLES
    utc, off,        \* environment: the system clock and the zone's offset
    shifts,          \* environment: clock shifts so far
    hup, term,       \* the flags set by the signal handlers
    pc,              \* where the daemon thread is in run_forever
    wake,            \* the deadline of the current sleep, a UTC minute
    virtual_time,    \* the last processed local minute
    prev_gmtoff,     \* the offset of the last wake that was not a step back
    last_wild,       \* the minute whose wildcard jobs ran last
    time_running,    \* the minute read at this wake ...
    gmtoff,          \* ... and the offset read with it
    new_virtual,     \* virtual_time after this wake
    work, next,      \* the planned evaluations and the position in them
    fixedRun,        \* history: the last minute of fixed-time jobs, and
                     \* how often in a row they were considered for it
    wildRun,         \* history: the same for the wildcard jobs
    zonedRuns,       \* history: evaluations of fixed-time CRON_TZ jobs per
                     \* UTC minute, recorded until the clock is set back
    steppedBack      \* history: the system clock has been set back

clockVars  == <<utc, off, shifts, steppedBack>>
signalVars == <<hup, term>>
loopVars   == <<virtual_time, prev_gmtoff, last_wild>>
wakeVars   == <<time_running, gmtoff, new_virtual, work, next>>
runVars    == <<fixedRun, wildRun, zonedRuns>>
vars == <<clockVars, signalVars, pc, wake, loopVars, wakeVars, runVars>>

-----------------------------------------------------------------------------
(* The planner.                                                            *)

Pass == {"All", "WildOnly", "FixedOnly"}

Step(m, p, o) == [minute |-> m, pass |-> p, offset |-> o]
Steps == [minute : LocalMinutes, pass : Pass, offset : {"Previous", "Current"}]

\* Slip: replayed minutes use the offset in effect now.
OffsetForNow(m, t) == "Current"

OffsetFor(m, t) == IF m >= t THEN "Current" ELSE "Previous"

\* Every minute after v up to t, oldest first.
Replay(v, t, p) == [i \in 1..(t - v) |-> Step(v + i, p, OffsetFor(v + i, t))]

\* Slip: the limit of the range is exclusive.
JumpedForwardLess(v, t) == MAX_CATCHUP < t - v /\ t - v < MAX_JUMP

\* The ranges of the difference that plan tells apart.
NormalTick(v, t)    == t - v = 1
WokeLate(v, t)      == 1 < t - v /\ t - v <= MAX_CATCHUP
JumpedForward(v, t) == MAX_CATCHUP < t - v /\ t - v <= MAX_JUMP
WentBack(v, t)      == -MAX_JUMP <= t - v /\ t - v <= 0

plan(v, t) ==
    LET Now(p) == <<Step(t, p, "Current")>>
    IN  CASE NormalTick(v, t)    -> [virtual |-> t, steps |-> Now("All")]
          [] WokeLate(v, t)      -> [virtual |-> t, steps |-> Replay(v, t, "All")]
          [] JumpedForward(v, t) -> [virtual |-> t,
                                     steps |-> Now("WildOnly") \o Replay(v, t, "FixedOnly")]
          [] WentBack(v, t)      -> [virtual |-> v, steps |-> Now("WildOnly")]
          [] OTHER               -> [virtual |-> t, steps |-> Now("All")]

updates_previous_offset(v, t) == ~WentBack(v, t)

\* Slips: minutes before the last one are skipped too; only the WildOnly passes
\* are recorded.
SkipsEarlierWild(s, lw) == s.pass = "WildOnly" /\ lw >= s.minute
LastWildOnlyAfter(s, lw) == IF s.pass = "WildOnly" THEN s.minute ELSE lw

\* skip_repeated_wild, taken one element at a time: the filter runs through
\* the work in order and keeps its state in last_wild, which nothing else
\* reads, so an element can be judged when the evaluation loop reaches it.
SkipsRepeatedWild(s, lw) == s.pass = "WildOnly" /\ lw = s.minute

LastWildAfter(s, lw) == IF s.pass = "FixedOnly" THEN lw ELSE s.minute

\* The jobs an evaluation considers: run_minute's filter on is_wild.
Wanted(p, wild) == p = "All" \/ (wild <=> p = "WildOnly")

\* The UTC minute at which run_minute matches the CRON_TZ jobs of a step.
VGmtoff(s)  == IF s.offset = "Previous" THEN prev_gmtoff ELSE gmtoff
Instant(s)  == s.minute - VGmtoff(s)

\* History: jobs considered for minute m after the minute in run.
Again(run, m) ==
    [minute |-> m, times |-> IF run.minute = m THEN run.times + 1 ELSE 1]

-----------------------------------------------------------------------------
(* The environment: time, the administrator, DST and the signals.  Once   *)
(* run_forever has returned there is nothing left to observe.              *)

Tick ==
    /\ pc # "stopped"
    /\ utc < Horizon
    /\ utc' = utc + 1
    /\ UNCHANGED <<off, shifts, steppedBack, signalVars, pc, wake, loopVars,
                   wakeVars, runVars>>

\* settimeofday, or a suspend that ends much later.
StepClock ==
    /\ pc # "stopped"
    /\ shifts < MaxShifts
    /\ \E u \in UtcMinutes \ {utc} :
          /\ utc' = u
          /\ steppedBack' = (steppedBack \/ u < utc)
    /\ shifts' = shifts + 1
    /\ zonedRuns' = IF steppedBack' THEN [u \in UtcMinutes |-> 0] ELSE zonedRuns
    /\ UNCHANGED <<off, signalVars, pc, wake, loopVars, wakeVars,
                   fixedRun, wildRun>>

\* DST begins or ends, or the zone of the host is changed.
ChangeOffset ==
    /\ pc # "stopped"
    /\ shifts < MaxShifts
    /\ off' \in Offsets \ {off}
    /\ shifts' = shifts + 1
    /\ UNCHANGED <<utc, steppedBack, signalVars, pc, wake, loopVars, wakeVars,
                   runVars>>

Sighup ==
    /\ pc # "stopped"
    /\ ~hup
    /\ hup' = TRUE
    /\ UNCHANGED <<clockVars, term, pc, wake, loopVars, wakeVars, runVars>>

Sigterm ==
    /\ ~term
    /\ term' = TRUE
    /\ UNCHANGED <<clockVars, hup, pc, wake, loopVars, wakeVars, runVars>>

-----------------------------------------------------------------------------
(* The daemon thread.                                                      *)

\* The head of the outer loop: stop, or compute the next deadline.
GoToSleep ==
    /\ pc = "top"
    /\ ~term
    /\ wake' = utc + 1
    /\ pc' = "sleeping"
    /\ UNCHANGED <<clockVars, signalVars, loopVars, wakeVars, runVars>>

\* Slip: the deadline has to be met exactly.
SleepEndsOnTime ==
    /\ pc = "sleeping"
    /\ \/ term \/ hup
       \/ utc = wake
       \/ utc <= wake - 2
    /\ pc' = "awake"
    /\ wake' = 0
    /\ UNCHANGED <<clockVars, signalVars, loopVars, wakeVars, runVars>>

\* The sleep loop looks at the flags and the clock at least every second.  It
\* gives up when more than 65 seconds are left: a clock two minutes before the
\* deadline may (depending on the second), an earlier one always does.
SleepEnds ==
    /\ pc = "sleeping"
    /\ \/ term \/ hup
       \/ utc >= wake
       \/ utc <= wake - 2
    /\ pc' = "awake"
    /\ wake' = 0              \* the deadline is not read again
    /\ UNCHANGED <<clockVars, signalVars, loopVars, wakeVars, runVars>>

Stop ==
    /\ pc \in {"top", "awake"}
    /\ term
    /\ pc' = "stopped"
    /\ UNCHANGED <<clockVars, signalVars, wake, loopVars, wakeVars, runVars>>

\* Slip: the flag is read, not swapped.
ReloadKeepsHup ==
    /\ pc = "awake"
    /\ ~term
    /\ hup
    /\ pc' = "top"
    /\ UNCHANGED <<clockVars, signalVars, wake, loopVars, wakeVars, runVars>>

\* SIGHUP: all crontabs are reloaded and the wake is NOT planned.
Reload ==
    /\ pc = "awake"
    /\ ~term
    /\ hup
    /\ hup' = FALSE
    /\ pc' = "top"
    /\ UNCHANGED <<clockVars, term, wake, loopVars, wakeVars, runVars>>

\* Read the clock and plan.  (The crontabs are refreshed in between.)
PlanWake ==
    /\ pc = "awake"
    /\ ~term /\ ~hup
    /\ LET t == utc + off
           p == plan(virtual_time, t)
       IN  /\ time_running' = t
           /\ gmtoff' = off
           /\ new_virtual' = p.virtual
           /\ work' = p.steps
    /\ next' = 1
    /\ pc' = "evaluating"
    /\ UNCHANGED <<clockVars, signalVars, wake, loopVars, runVars>>

SkipStep ==
    /\ pc = "evaluating"
    /\ next <= Len(work)
    /\ SkipsRepeatedWild(work[next], last_wild)
    /\ next' = next + 1
    /\ UNCHANGED <<clockVars, signalVars, pc, wake, loopVars, time_running,
                   gmtoff, new_virtual, work, runVars>>

\* run_minute: which jobs are considered.  Jobs with CRON_TZ are passed over
\* while the offset of the step differs from the one in effect.
RunStep ==
    /\ pc = "evaluating"
    /\ next <= Len(work)
    /\ ~SkipsRepeatedWild(work[next], last_wild)
    /\ LET s == work[next]
           m == s.minute
       IN  /\ last_wild' = LastWildAfter(s, last_wild)
           /\ fixedRun' = IF Wanted(s.pass, FALSE) THEN Again(fixedRun, m) ELSE fixedRun
           /\ wildRun' = IF Wanted(s.pass, TRUE) THEN Again(wildRun, m) ELSE wildRun
           /\ zonedRuns' = IF Wanted(s.pass, FALSE) /\ VGmtoff(s) = gmtoff /\ ~steppedBack
                           THEN [zonedRuns EXCEPT ![Instant(s)] = @ + 1]
                           ELSE zonedRuns
    /\ next' = next + 1
    /\ UNCHANGED <<clockVars, signalVars, pc, wake, virtual_time, prev_gmtoff,
                   time_running, gmtoff, new_virtual, work>>

FinishWake ==
    /\ pc = "evaluating"
    /\ next > Len(work)
    /\ prev_gmtoff' = IF updates_previous_offset(virtual_time, time_running)
                      THEN gmtoff ELSE prev_gmtoff
    /\ virtual_time' = new_virtual
    /\ work' = << >>
    /\ next' = 1
    /\ pc' = "top"
    /\ UNCHANGED <<clockVars, signalVars, wake, last_wild, time_running, gmtoff,
                   new_virtual, runVars>>

-----------------------------------------------------------------------------
Init ==
    /\ utc \in UtcMinutes
    /\ off \in Offsets
    /\ shifts = 0
    /\ hup = FALSE
    /\ term = FALSE
    /\ pc = "top"
    /\ wake = 0
    /\ virtual_time = utc + off
    /\ prev_gmtoff = off
    /\ last_wild = NoMinute
    /\ time_running = NoMinute
    /\ gmtoff = off
    /\ new_virtual = utc + off
    /\ work = << >>
    /\ next = 1
    /\ fixedRun = [minute |-> utc + off, times |-> 1]
    /\ wildRun = [minute |-> NoMinute, times |-> 0]
    /\ zonedRuns = [u \in UtcMinutes |-> 0]
    /\ steppedBack = FALSE

Clock   == Tick \/ StepClock \/ ChangeOffset
Signals == Sighup \/ Sigterm
Daemon  == \/ GoToSleep \/ SleepEnds \/ Stop \/ Reload
           \/ PlanWake \/ SkipStep \/ RunStep \/ FinishWake

Next == Clock \/ Signals \/ Daemon

Spec == Init /\ [][Next]_vars

\* Time passes, and the daemon thread is scheduled: no step of it waits for
\* anything but the clock, which the sleep loop polls every second.
Fairness == WF_vars(Tick) /\ WF_vars(Daemon)

FairSpec == Spec /\ Fairness

-----------------------------------------------------------------------------
(* Properties.                                                             *)

\* Type correctness of run_forever's state and of the history.
TypeOK ==
    /\ utc \in UtcMinutes
    /\ off \in Offsets
    /\ shifts \in 0..MaxShifts
    /\ steppedBack \in BOOLEAN
    /\ hup \in BOOLEAN
    /\ term \in BOOLEAN
    /\ pc \in {"top", "sleeping", "awake", "evaluating", "stopped"}
    /\ wake \in 0..(Horizon + 1)
    /\ virtual_time \in LocalMinutes
    /\ prev_gmtoff \in Offsets
    /\ last_wild \in LocalMinutes \cup {NoMinute}
    /\ time_running \in LocalMinutes \cup {NoMinute}
    /\ gmtoff \in Offsets
    /\ new_virtual \in LocalMinutes
    /\ work \in Seq(Steps)
    /\ next \in 1..(Len(work) + 1)
    /\ fixedRun \in [minute : LocalMinutes, times : Nat]
    /\ wildRun \in [minute : LocalMinutes \cup {NoMinute}, times : Nat]
    /\ zonedRuns \in [UtcMinutes -> Nat]

\* The fixed-time jobs are considered for one local minute after another, none
\* skipped and none repeated, except when a single wake finds the clock further
\* than MAX_JUMP from virtual_time (the promise of run_forever, FixedMinutes).
Promise == INSTANCE FixedMinutes WITH run <- fixedRun
FixedInOrder == Promise!Spec

\* Between two wakes no minute is outstanding: the fixed-time jobs have been
\* considered up to virtual_time, which is where the next plan starts.
FixedUpToVirtual ==
    pc # "evaluating" => fixedRun = [minute |-> virtual_time, times |-> 1]

\* After every wake the wildcard jobs have been run for the minute the daemon
\* woke in: neither plan nor skip_repeated_wild drops the current minute.
WildEveryWake ==
    pc # "evaluating" => wildRun.minute = time_running

\* Wildcard jobs are never run twice in a row for one local minute, although
\* only WildOnly steps are filtered and All steps are not.
WildNotRepeated == wildRun.times <= 1

\* While the system clock is not set back, the CRON_TZ jobs with fixed times
\* are evaluated at most once for each instant: replaying minutes across DST
\* changes with the offset Previous never reaches an instant again.
ZonedOnce ==
    \A u \in UtcMinutes : zonedRuns[u] <= 1

\* Every sleep whose deadline lies within the horizon ends, and its wake is
\* completed (or reloads, or stops): the loop never hangs.
WakeCompletes ==
    (pc = "sleeping" /\ wake <= Horizon) ~> (pc \in {"top", "stopped"})

\* No signal is lost, also one that arrives during the evaluations: SIGTERM ends the
\* loop, and SIGHUP is honoured unless the daemon stops first.
SignalsHonoured ==
    /\ term ~> (pc = "stopped")
    /\ hup ~> (~hup \/ pc = "stopped")

\* "When the clock jumps forward by up to 3 hours, such as at DST start,
\* fixed-time jobs run once" (README): a wake one minute after the last one, in
\* which the offset has grown by up to MAX_JUMP, considers every skipped minute.
JumpReplayed ==
    [][ /\ pc = "awake" /\ pc' = "evaluating"
        /\ utc - (virtual_time - prev_gmtoff) = 1
        /\ off - prev_gmtoff \in 1..MAX_JUMP
        => \A m \in (virtual_time + 1)..(utc + off) :
              \E i \in DOMAIN work' : work'[i].minute = m /\ work'[i].pass # "WildOnly"
      ]_vars
=============================================================================
