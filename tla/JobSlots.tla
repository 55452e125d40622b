------------------------------ MODULE JobSlots ------------------------------
(***************************************************************************)
(* The bounded accounting of running jobs: JobSlots, SlotGuard and the     *)
(* Scheduler::dispatch that reserves a slot, hands its guard to a job      *)
(* thread and counts the jobs it could not start.                          *)
(*                                                                         *)
(* One thread dispatches (the main loop, or one-shot mode); every job runs *)
(* in a thread of its own and drops its guard when it ends, however it     *)
(* ends.  The counters are shared and protected by a mutex, so that each   *)
(* try_acquire and each drop is one step.                                  *)
(***************************************************************************)
EXTENDS Integers, FiniteSets

CONSTANTS
    Jobs,            \* the dispatches of a behaviour, one member each
    Names,           \* user names as the counters know them
    job_user,        \* the user of a job, [Jobs -> Users]
    LossyName,       \* String::from_utf8_lossy, [Users -> Names]
    Users,
    MAX_TOTAL,       \* MAX_JOBS_TOTAL
    MAX_PER_USER     \* MAX_JOBS_PER_USER

ASSUME SlotAssumption ==
    /\ MAX_TOTAL \in Nat
    /\ MAX_PER_USER \in Nat
    /\ job_user \in [Jobs -> Users]
    /\ LossyName \in [Users -> Names]

VARIABLES
    total, per_user,     \* SlotCounts; per_user has the names with an entry
    state,               \* what has become of each job
    dispatch_failures,   \* jobs not started since the last take
    reported             \* history: the failures taken so far

slotVars == <<total, per_user, state, dispatch_failures, reported>>

States == {"new", "acquired", "running", "refused", "unspawned", "done"}

UserName(j) == LossyName[job_user[j]]

\* The live guards: held by dispatch until the thread owns it, then by it.
Holders    == {j \in Jobs : state[j] \in {"acquired", "running"}}
HoldersOf(n) == {j \in Holders : UserName(j) = n}

\* dispatch runs in one thread: no job is between its reservation and spawn.
DispatcherFree == \A j \in Jobs : state[j] # "acquired"

-----------------------------------------------------------------------------
(* The counters.                                                           *)

InUse(n) == IF n \in DOMAIN per_user THEN per_user[n] ELSE 0

\* Slip: one too many.
FullLate(n)  == total > MAX_TOTAL \/ InUse(n) > MAX_PER_USER

Full(n) == total >= MAX_TOTAL \/ InUse(n) >= MAX_PER_USER

CountUp(n) ==
    /\ total' = total + 1
    /\ per_user' = [x \in DOMAIN per_user \cup {n} |->
                       IF x = n THEN InUse(n) + 1 ELSE per_user[x]]

Saturating(k) == IF k = 0 THEN 0 ELSE k - 1

\* Slip: the entry stays when it reaches 0.
CountDownKeeps(n) ==
    /\ total' = Saturating(total)
    /\ per_user' = [x \in DOMAIN per_user |-> IF x = n THEN Saturating(per_user[n]) ELSE per_user[x]]

\* SlotGuard::drop: an entry that reaches 0 is removed from the map.
CountDown(n) ==
    /\ total' = Saturating(total)
    /\ per_user' = LET left == IF Saturating(InUse(n)) = 0
                               THEN DOMAIN per_user \ {n} ELSE DOMAIN per_user
                   IN  [x \in left |-> IF x = n THEN Saturating(per_user[n])
                                       ELSE per_user[x]]

-----------------------------------------------------------------------------
(* The dispatching thread.                                                 *)

\* try_acquire succeeds: the guard exists, the thread does not yet.
Acquire(j) ==
    /\ DispatcherFree
    /\ state[j] = "new"
    /\ ~Full(UserName(j))
    /\ CountUp(UserName(j))
    /\ state' = [state EXCEPT ![j] = "acquired"]
    /\ UNCHANGED <<dispatch_failures, reported>>

\* A limit is reached: the job is skipped, logged and counted.
Refuse(j) ==
    /\ DispatcherFree
    /\ state[j] = "new"
    /\ Full(UserName(j))
    /\ state' = [state EXCEPT ![j] = "refused"]
    /\ dispatch_failures' = dispatch_failures + 1
    /\ UNCHANGED <<total, per_user, reported>>

\* The guard moves into the thread.
SpawnThread(j) ==
    /\ state[j] = "acquired"
    /\ state' = [state EXCEPT ![j] = "running"]
    /\ UNCHANGED <<total, per_user, dispatch_failures, reported>>

\* No thread: the closure is dropped, and the guard with it.
SpawnFails(j) ==
    /\ state[j] = "acquired"
    /\ CountDown(UserName(j))
    /\ state' = [state EXCEPT ![j] = "unspawned"]
    /\ dispatch_failures' = dispatch_failures + 1
    /\ UNCHANGED reported

\* take_dispatch_failures, after the jobs of a minute are dispatched.
TakeFailures ==
    /\ DispatcherFree
    /\ dispatch_failures > 0
    /\ reported' = reported + dispatch_failures
    /\ dispatch_failures' = 0
    /\ UNCHANGED <<total, per_user, state>>

(* A job thread: Runner::run returned, failed or panicked.                 *)
EndJob(j) ==
    /\ state[j] = "running"
    /\ CountDown(UserName(j))
    /\ state' = [state EXCEPT ![j] = "done"]
    /\ UNCHANGED <<dispatch_failures, reported>>

-----------------------------------------------------------------------------
InitSlots ==
    /\ total = 0
    /\ per_user = [n \in {} |-> 0]
    /\ state = [j \in Jobs |-> "new"]
    /\ dispatch_failures = 0
    /\ reported = 0

NextSlots ==
    \/ \E j \in Jobs : \/ Acquire(j) \/ Refuse(j) \/ SpawnThread(j)
                       \/ SpawnFails(j) \/ EndJob(j)
    \/ TakeFailures

SlotsSpec == InitSlots /\ [][NextSlots]_slotVars

-----------------------------------------------------------------------------
(* Properties.                                                             *)

\* Type correctness of the counters.
SlotTypeOK ==
    /\ total \in Nat
    /\ DOMAIN per_user \subseteq Names
    /\ \A n \in DOMAIN per_user : per_user[n] \in Nat \ {0}
    /\ state \in [Jobs -> States]
    /\ dispatch_failures \in Nat
    /\ reported \in Nat

\* The counters always equal the guards that are alive, in total and per name: no
\* path of dispatch or of a job thread loses a slot or returns it twice.  The map
\* has an entry for each name with guards, and for no other: it does not grow with
\* the users that once had a job.
Accounting ==
    /\ IsFiniteSet(Holders)
    /\ total = Cardinality(Holders)
    /\ DOMAIN per_user = {n \in Names : HoldersOf(n) # {}}
    /\ \A n \in DOMAIN per_user : per_user[n] = Cardinality(HoldersOf(n))

\* Never more than the configured jobs at once, overall and for a real user,
\* although the counters know users only by their lossy names.
CapsRespected ==
    /\ Cardinality(Holders) <= MAX_TOTAL
    /\ \A u \in Users :
          Cardinality({j \in Holders : job_user[j] = u}) <= MAX_PER_USER

\* A job is refused only while the jobs alive really fill a limit: a slot that
\* was released is not missed by a later dispatch.
RefusedOnlyWhenFull ==
    [][\A j \in Jobs : state[j] = "new" /\ state'[j] = "refused" =>
          \/ Cardinality(Holders) >= MAX_TOTAL
          \/ Cardinality(HoldersOf(UserName(j))) >= MAX_PER_USER]_slotVars

\* Every job that was not started is counted once: one-shot mode derives its
\* exit status from the count.
FailuresCounted ==
    Cardinality({j \in Jobs : state[j] \in {"refused", "unspawned"}})
        = dispatch_failures + reported
=============================================================================
