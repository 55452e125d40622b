------------------------------- MODULE Mailer -------------------------------
(***************************************************************************)
(* One delivery (Mailer::send of mail.rs): the caller with its deadline,   *)
(* the two helper threads that feed the mailer and drain its stderr, the   *)
(* mailer's process and a process it leaves in the background.             *)
(*                                                                         *)
(* Time is counted in ticks.  It passes when no thread of crond has        *)
(* anything to do: what they compute takes no time, what they wait for     *)
(* does.  The processes are free to do anything at any time, or nothing.   *)
(***************************************************************************)
EXTENDS Integers, FiniteSets

CONSTANTS
    MessageSize,     \* blocks of the rendered message
    PipeSize,        \* blocks a pipe holds
    MaxNoise,        \* bound: blocks the processes write to stderr
    MAILER_TIMEOUT,  \* ticks until the mailer is killed
    MaxDelay,        \* ticks of the longest pause between two polls
    Grace,           \* ticks of recv_timeout
    Horizon          \* bound: where time stops

ASSUME MailerAssumption ==
    /\ MessageSize \in Nat /\ PipeSize \in Nat \ {0} /\ MaxNoise \in Nat
    /\ MAILER_TIMEOUT \in Nat \ {0} /\ MaxDelay \in Nat \ {0} /\ Grace \in Nat \ {0}
    /\ Horizon \in Nat

VARIABLES
    pc,            \* where send is
    now,
    wake,          \* until when the caller sleeps or waits for a helper
    delay,         \* the next pause
    result,        \* what send returns
    writer,        \* the helper that feeds stdin, and its result
    unfed,         \* blocks it has not written yet
    drain,         \* the helper that drains stderr
    in_pipe,
    err_pipe,
    alive,         \* the processes that run
    in_ends,       \* the processes that hold the read end of stdin
    err_ends,      \* the processes that hold the write end of stderr
    mailer,        \* the state of the mailer's process
    noise,         \* history: blocks written to stderr
    exited_at,     \* history: when the mailer ended by itself
    held           \* history: who held stdin when the end of the mailer was noticed

caller == <<pc, wake, delay, result, held>>
helpers == <<writer, unfed, drain>>
pipes == <<in_pipe, err_pipe>>
processes == <<alive, in_ends, err_ends, mailer, noise, exited_at>>
vars == <<caller, now, helpers, pipes, processes>>

PCs == {"starting", "polling", "checking", "sleeping", "take written", "take stderr", "done"}
Processes == {"mailer", "background"}
Results == {"none", "success", "failure", "not run", "timed out", "write error", "poll error", "panic"}
Never == -1

-----------------------------------------------------------------------------
(* What the threads of crond can do, and when they have to wait.           *)

CanWrite == writer = "writing" /\ (unfed = 0 \/ in_ends = {} \/ in_pipe < PipeSize)

\* Slip: stderr is read when the message has been written.
CanDrainAfterWriting == drain = "reading" /\ writer # "writing" /\ (err_pipe > 0 \/ err_ends = {})
CanDrain == drain = "reading" /\ (err_pipe > 0 \/ err_ends = {})

CallerWaits ==
    \/ pc = "done"
    \/ pc = "sleeping" /\ now < wake
    \/ pc = "take written" /\ writer = "writing" /\ now < wake
    \/ pc = "take stderr" /\ drain = "reading" /\ now < wake

Quiet == CallerWaits /\ ~CanWrite /\ ~CanDrain

-----------------------------------------------------------------------------
(* The caller.                                                             *)

Return(r) == pc' = "done" /\ result' = r

\* The mailer cannot be run.
CannotRun ==
    /\ pc = "starting"
    /\ Return("not run")
    /\ UNCHANGED <<wake, delay, held, now, helpers, pipes, processes>>

\* spawn, close our ends, start the helpers.
Spawn ==
    /\ pc = "starting"
    /\ pc' = "polling"
    /\ mailer' = "running"
    /\ alive' = {"mailer"} /\ in_ends' = {"mailer"} /\ err_ends' = {"mailer"}
    /\ writer' = "writing" /\ unfed' = MessageSize
    /\ drain' = "reading"
    /\ UNCHANGED <<wake, delay, result, held, now, pipes, noise, exited_at>>

\* std::thread::spawn panics when the system has no thread for a helper: the
\* caller unwinds, its ends are closed, the mailer goes on.
HelperCannotStart ==
    /\ pc = "starting"
    /\ Return("panic")
    /\ mailer' = "running"
    /\ alive' = {"mailer"} /\ in_ends' = {"mailer"} /\ err_ends' = {"mailer"}
    /\ \/ UNCHANGED <<writer, unfed>>
       \/ writer' = "writing" /\ unfed' = MessageSize
    /\ UNCHANGED <<wake, delay, held, now, drain, pipes, noise, exited_at>>

\* Slip: a mailer that has ended is noticed only before the deadline.
PollOnTime ==
    /\ pc = "polling"
    /\ IF mailer = "running" \/ now >= MAILER_TIMEOUT
       THEN /\ pc' = "checking"
            /\ UNCHANGED <<wake, result, held, mailer>>
       ELSE /\ pc' = "take written"
            /\ wake' = now + Grace
            /\ result' = mailer
            /\ held' = in_ends
            /\ mailer' = "reaped"
    /\ UNCHANGED <<delay, now, helpers, pipes, alive, in_ends, err_ends, noise, exited_at>>

\* try_wait reaps a mailer that has ended; its status is kept in result.
Poll ==
    /\ pc = "polling"
    /\ IF mailer = "running"
       THEN /\ pc' = "checking"
            /\ UNCHANGED <<wake, result, held, mailer>>
       ELSE /\ pc' = "take written"
            /\ wake' = now + Grace
            /\ result' = mailer
            /\ held' = in_ends
            /\ mailer' = "reaped"
    /\ UNCHANGED <<delay, now, helpers, pipes, alive, in_ends, err_ends, noise, exited_at>>

\* try_wait fails: send returns and leaves the mailer alone.
PollFails ==
    /\ pc = "polling"
    /\ Return("poll error")
    /\ UNCHANGED <<wake, delay, held, now, helpers, pipes, processes>>

\* Slip: the pauses are not capped.
LongerAndLonger(d) == 2 * d

\* The next pause.
Longer(d) == IF 2 * d < MaxDelay THEN 2 * d ELSE MaxDelay

\* Before the deadline: pause.
Pause ==
    /\ pc = "checking"
    /\ now < MAILER_TIMEOUT
    /\ pc' = "sleeping"
    /\ wake' = now + delay
    /\ delay' = Longer(delay)
    /\ UNCHANGED <<result, held, now, helpers, pipes, processes>>

WakeUp ==
    /\ pc = "sleeping"
    /\ now >= wake
    /\ pc' = "polling"
    /\ UNCHANGED <<wake, delay, result, held, now, helpers, pipes, processes>>

\* At the deadline: kill and wait.  What the mailer left behind goes on.
Kill ==
    /\ pc = "checking"
    /\ now >= MAILER_TIMEOUT
    /\ mailer' = "reaped"
    /\ alive' = alive \ {"mailer"}
    /\ in_ends' = in_ends \ {"mailer"}
    /\ err_ends' = err_ends \ {"mailer"}
    /\ Return("timed out")
    /\ UNCHANGED <<wake, delay, held, now, helpers, pipes, noise, exited_at>>

\* Slip: the result of the writer is taken only if it is there already.
TakeWrittenAtOnce ==
    /\ pc = "take written"
    /\ pc' = "take stderr"
    /\ wake' = now + Grace
    /\ result' = IF result = "success" /\ writer = "broken" THEN "write error" ELSE result
    /\ UNCHANGED <<delay, held, now, helpers, pipes, processes>>

\* wrx.recv_timeout: a failed write matters only if the mailer claims success,
\* and no answer counts as a good one.
TakeWritten ==
    /\ pc = "take written"
    /\ writer # "writing" \/ now >= wake
    /\ pc' = "take stderr"
    /\ wake' = now + Grace
    /\ result' = IF result = "success" /\ writer = "broken" THEN "write error" ELSE result
    /\ UNCHANGED <<delay, held, now, helpers, pipes, processes>>

\* Slip: the end of stderr is waited for without a limit.
TakeStderrForEver ==
    /\ pc = "take stderr"
    /\ drain # "reading"
    /\ Return(result)
    /\ UNCHANGED <<wake, delay, held, now, helpers, pipes, processes>>

\* erx.recv_timeout: what was kept of stderr goes into the error, if any.
TakeStderr ==
    /\ pc = "take stderr"
    /\ drain # "reading" \/ now >= wake
    /\ Return(result)
    /\ UNCHANGED <<wake, delay, held, now, helpers, pipes, processes>>

Caller == CannotRun \/ Spawn \/ Poll \/ Pause \/ WakeUp \/ Kill \/ TakeWritten \/ TakeStderr

-----------------------------------------------------------------------------
(* The helper threads.                                                     *)

\* write_all: the thread ends, and closes stdin, when all is written or nobody
\* can read.
Write ==
    /\ CanWrite
    /\ IF unfed = 0 THEN writer' = "written" /\ UNCHANGED <<unfed, in_pipe>>
       ELSE IF in_ends = {} THEN writer' = "broken" /\ UNCHANGED <<unfed, in_pipe>>
       ELSE unfed' = unfed - 1 /\ in_pipe' = in_pipe + 1 /\ UNCHANGED writer
    /\ UNCHANGED <<caller, now, drain, err_pipe, processes>>

\* Reads on until the end, however little of it is kept.
Drain ==
    /\ CanDrain
    /\ IF err_pipe > 0 THEN err_pipe' = 0 /\ UNCHANGED drain
                       ELSE drain' = "ended" /\ UNCHANGED err_pipe
    /\ UNCHANGED <<caller, now, writer, unfed, in_pipe, processes>>

Helpers == Write \/ Drain

-----------------------------------------------------------------------------
(* The processes and the time.                                             *)

Fork ==
    /\ "mailer" \in alive /\ "background" \notin alive
    /\ alive' = alive \cup {"background"}
    /\ in_ends' = IF "mailer" \in in_ends THEN in_ends \cup {"background"} ELSE in_ends
    /\ err_ends' = IF "mailer" \in err_ends THEN err_ends \cup {"background"} ELSE err_ends
    /\ UNCHANGED <<caller, now, helpers, pipes, mailer, noise, exited_at>>

CloseIn(p) ==
    /\ p \in in_ends
    /\ in_ends' = in_ends \ {p}
    /\ UNCHANGED <<caller, now, helpers, pipes, alive, err_ends, mailer, noise, exited_at>>

CloseErr(p) ==
    /\ p \in err_ends
    /\ err_ends' = err_ends \ {p}
    /\ UNCHANGED <<caller, now, helpers, pipes, alive, in_ends, mailer, noise, exited_at>>

ReadIn(p) ==
    /\ p \in in_ends
    /\ in_pipe > 0
    /\ in_pipe' = in_pipe - 1
    /\ UNCHANGED <<caller, now, helpers, err_pipe, processes>>

WriteErr(p) ==
    /\ p \in err_ends
    /\ drain # "none"
    /\ err_pipe < PipeSize /\ noise < MaxNoise
    /\ err_pipe' = err_pipe + 1
    /\ noise' = noise + 1
    /\ UNCHANGED <<caller, now, helpers, in_pipe, alive, in_ends, err_ends, mailer, exited_at>>

Exit(p) ==
    /\ p \in alive
    /\ alive' = alive \ {p}
    /\ in_ends' = in_ends \ {p}
    /\ err_ends' = err_ends \ {p}
    /\ IF p = "mailer" THEN mailer' \in {"success", "failure"} /\ exited_at' = now
                       ELSE UNCHANGED <<mailer, exited_at>>
    /\ UNCHANGED <<caller, now, helpers, pipes, noise>>

Tick ==
    /\ Quiet
    /\ now < Horizon
    /\ now' = now + 1
    /\ UNCHANGED <<caller, helpers, pipes, processes>>

-----------------------------------------------------------------------------
Init ==
    /\ pc = "starting"
    /\ now = 0 /\ wake = 0 /\ delay = 1
    /\ result = "none"
    /\ writer = "none" /\ unfed = 0
    /\ drain = "none"
    /\ in_pipe = 0 /\ err_pipe = 0
    /\ alive = {} /\ in_ends = {} /\ err_ends = {}
    /\ mailer = "none"
    /\ noise = 0 /\ exited_at = Never /\ held = {}

Next ==
    \/ Caller \/ PollFails \/ HelperCannotStart \/ Helpers \/ Tick
    \/ Fork
    \/ \E p \in Processes :
          CloseIn(p) \/ CloseErr(p) \/ ReadIn(p) \/ WriteErr(p) \/ Exit(p)

Spec == Init /\ [][Next]_vars

\* The threads run and time passes; the processes need not do anything.
FairSpec == Spec /\ WF_vars(Caller) /\ WF_vars(Write) /\ WF_vars(Drain) /\ WF_vars(Tick)

-----------------------------------------------------------------------------
(* Properties.                                                             *)

\* Type correctness.
TypeOK ==
    /\ pc \in PCs
    /\ now \in 0..Horizon
    /\ wake \in 0..(Horizon + MaxDelay + Grace)
    /\ delay \in 1..MaxDelay
    /\ result \in Results
    /\ writer \in {"none", "writing", "written", "broken"} /\ unfed \in 0..MessageSize
    /\ drain \in {"none", "reading", "ended"}
    /\ in_pipe \in 0..PipeSize /\ err_pipe \in 0..PipeSize
    /\ alive \subseteq Processes /\ in_ends \subseteq alive /\ err_ends \subseteq alive
    /\ mailer \in {"none", "running", "success", "failure", "reaped"}
    /\ noise \in 0..MaxNoise
    /\ exited_at \in {Never} \cup 0..Horizon
    /\ held \subseteq Processes

\* However the mailer and what it leaves behind behave, send is over soon after
\* the deadline ("so neither a mailer that stops reading nor one that floods
\* stderr can block us past the deadline"): one pause may run over it, and each
\* helper is waited for once.
OverInTime == pc # "done" => now <= MAILER_TIMEOUT - 1 + MaxDelay + 2 * Grace

\* While the mailer works, it never waits for crond: its stderr is drained and
\* as much of the message is there as the pipe holds.
NeverInTheWay ==
    Quiet => /\ err_pipe = 0
             /\ "mailer" \in in_ends => in_pipe = PipeSize \/ unfed = 0

\* A mailer that ended before the deadline has not timed out, however late its
\* end is noticed.
NoFalseTimeout ==
    result = "timed out" => exited_at = Never \/ exited_at >= MAILER_TIMEOUT

\* A success that is reported for a message that was not written means that a
\* process the mailer left behind held its input; otherwise the failed write is
\* reported, although the writer may learn of it only after the mailer's end.
SuccessMeansTaken == pc = "done" /\ result = "success" /\ unfed > 0 => held # {}

\* send returns, also when a process keeps the pipes for ever; its helper threads
\* end when the processes have ended.
SendReturns ==
    /\ <>(pc = "done")
    /\ <>[](alive = {}) => <>[](writer # "writing" /\ drain # "reading")
=============================================================================
