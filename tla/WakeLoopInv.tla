---------------------------- MODULE WakeLoopInv -----------------------------
(***************************************************************************)
(* The inductive invariant behind the properties of WakeLoop: what holds   *)
(* between two wakes, and where the evaluation loop stands within one.     *)
(***************************************************************************)
EXTENDS WakeLoop

\* plan's last arm: none of the other ranges.
Far(v, t) == ~(\/ NormalTick(v, t) \/ WokeLate(v, t)
               \/ JumpedForward(v, t) \/ WentBack(v, t))

\* The UTC minute of the last wake that moved virtual_time: the two are
\* assigned together, so virtual_time was read under prev_gmtoff.
LastRead == virtual_time - prev_gmtoff

\* The wildcard jobs last ran within MAX_JUMP behind virtual_time.
WildBehindVirtual ==
    /\ wildRun.minute = last_wild
    /\ last_wild # NoMinute =>
          /\ virtual_time - MAX_JUMP <= last_wild
          /\ last_wild <= virtual_time

\* While the clock was never set back a sleep ends after its deadline, or the
\* wake that follows is not planned.
ReadsLater ==
    ~steppedBack =>
        /\ 0 <= LastRead
        /\ LastRead <= utc
        /\ pc = "sleeping" => LastRead < wake /\ wake - 1 <= utc
        /\ pc = "awake" => LastRead < utc \/ hup \/ term
        /\ \A u \in UtcMinutes : pc # "evaluating" /\ LastRead < u => zonedRuns[u] = 0

\* What holds whenever no wake is being evaluated.
BetweenWakes ==
    /\ work = << >>
    /\ new_virtual = virtual_time
    /\ fixedRun = [minute |-> virtual_time, times |-> 1]
    /\ WildBehindVirtual
    /\ wildRun.minute = time_running

\* The minute up to which the fixed-time jobs have been considered when the
\* evaluation loop stands at position k.
FixedDoneAt(k) ==
    IF WentBack(virtual_time, time_running) THEN virtual_time
    ELSE IF WokeLate(virtual_time, time_running) THEN virtual_time + k - 1
    ELSE IF k = 1 THEN virtual_time
    ELSE IF JumpedForward(virtual_time, time_running) THEN virtual_time + k - 2
    ELSE time_running

\* The minute of the wildcard jobs at position k > 1.
WildDoneAt(k) ==
    IF WokeLate(virtual_time, time_running) THEN virtual_time + k - 1
    ELSE time_running

FixedDone == FixedDoneAt(next)
WildDone  == WildDoneAt(next)

\* No CRON_TZ job has been evaluated for an instant after this one.
ZonedDone ==
    IF WentBack(virtual_time, time_running) THEN LastRead
    ELSE IF next = Len(work) + 1 THEN time_running - gmtoff
    ELSE IF prev_gmtoff # gmtoff THEN LastRead
    ELSE FixedDone - gmtoff

\* What holds while the steps of a wake are being evaluated.
WithinWake ==
    /\ time_running # NoMinute
    /\ 0 <= time_running - gmtoff
    /\ time_running - gmtoff <= Horizon
    /\ work = plan(virtual_time, time_running).steps
    /\ new_virtual = plan(virtual_time, time_running).virtual
    /\ fixedRun = [minute |-> FixedDone, times |-> 1]
    /\ next = 1 => WildBehindVirtual
    /\ next > 1 => wildRun.minute = WildDone /\ last_wild = WildDone
    /\ ~steppedBack =>
          /\ LastRead < time_running - gmtoff
          /\ time_running - gmtoff <= utc
          /\ \A u \in UtcMinutes : ZonedDone < u => zonedRuns[u] = 0

\* The inductive invariant.
IInv ==
    /\ TypeOK
    /\ WildNotRepeated
    /\ ZonedOnce
    /\ ReadsLater
    /\ pc # "evaluating" => BetweenWakes
    /\ pc = "evaluating" => WithinWake
=============================================================================
