---------------------------- MODULE MailerProofs ----------------------------
(***************************************************************************)
(* Proofs about Mailer, for any timeout, pauses, sizes and horizon: send   *)
(* is over in time, crond is never in the mailer's way, and what is        *)
(* reported is what happened.                                              *)
(***************************************************************************)
EXTENDS Mailer, TLAPS

\* Before the mailer is spawned no time has passed.
Fresh ==
    pc = "starting" =>
        /\ now = 0 /\ result = "none"
        /\ alive = {} /\ exited_at = Never
        /\ writer = "none" /\ drain = "none"

\* The last moment at which the caller may still be polling.
LastPoll == MAILER_TIMEOUT - 1 + MaxDelay

\* How late it may be at each place; nobody oversleeps.
OnTime ==
    /\ pc \in {"polling", "checking"} => now <= LastPoll
    /\ pc \in {"sleeping", "take written", "take stderr"} => now <= wake
    /\ pc = "sleeping" => wake <= LastPoll
    /\ pc = "take written" => wake <= LastPoll + Grace
    /\ pc = "take stderr" => wake <= LastPoll + 2 * Grace

\* The writer stops only when it is through, or has no reader any more.
Feeding ==
    /\ writer \in {"none", "written"} => unfed = 0
    /\ writer = "broken" => in_ends = {}
    /\ pc \notin {"starting", "done"} => writer # "none"

\* So does the thread that drains stderr.
Draining ==
    /\ drain # "reading" => err_pipe = 0
    /\ drain = "ended" => err_ends = {}

\* The mailer was running at the last poll, and no time has passed since.
Polled ==
    /\ pc \in {"polling", "checking", "sleeping"} => mailer \in {"running", "success", "failure"}
    /\ mailer = "running" => exited_at = Never
    /\ pc = "checking" => exited_at \in {Never, now}
    /\ result = "timed out" => "mailer" \notin alive

\* If nobody held the input when the mailer was reaped, the writer is not waited
\* for in vain, and a success means that it was through.
Judged ==
    /\ pc = "take written" /\ held = {} => in_ends = {} /\ (writer = "writing" => now < wake)
    /\ pc \in {"take stderr", "done"} /\ result = "success" /\ held = {} => unfed = 0

\* The inductive invariant.
IInv == TypeOK /\ Fresh /\ OnTime /\ Feeding /\ Draining /\ Polled /\ Judged /\ NoFalseTimeout

-----------------------------------------------------------------------------
(* The actions.                                                            *)

\* Initially nothing runs and no time has passed.
LEMMA InitInv == Init => IInv
<1> SUFFICES ASSUME Init PROVE IInv
  OBVIOUS
<1>1. TypeOK
  BY MailerAssumption DEF Init, TypeOK, PCs, Results, Never
<1>2. Fresh /\ OnTime /\ Feeding /\ Draining
  BY DEF Init, Fresh, OnTime, Feeding, Draining
<1>3. Polled /\ Judged /\ NoFalseTimeout
  BY DEF Init, Polled, Judged, NoFalseTimeout
<1>4. QED
  BY <1>1, <1>2, <1>3 DEF IInv

\* The numbers that the times are made of.
LEMMA Durations ==
    /\ Grace \in Nat /\ Grace > 0 /\ MaxDelay \in Nat /\ MaxDelay > 0 /\ Horizon \in Nat
    /\ MAILER_TIMEOUT \in Nat /\ MAILER_TIMEOUT > 0 /\ LastPoll \in Nat
BY MailerAssumption DEF LastPoll

\* A wait for a helper that begins at d at the latest.
LEMMA WaitEnds ==
    ASSUME NEW t \in Nat, NEW d \in Nat, t <= Horizon, t <= d
    PROVE  /\ t + Grace \in 0..(Horizon + MaxDelay + Grace)
           /\ t + Grace <= d + Grace
           /\ t < t + Grace
BY Durations

\* The pauses get longer, and never longer than the longest.
LEMMA LongerType == \A d \in 1..MaxDelay : Longer(d) \in 1..MaxDelay
BY MailerAssumption DEF Longer

\* Spawning, or failing to.
LEMMA StartStep == ASSUME IInv, CannotRun \/ Spawn \/ HelperCannotStart PROVE IInv'
<1>1. CASE CannotRun
  <2>1. TypeOK'
    BY <1>1, MailerAssumption DEF CannotRun, Return, IInv, TypeOK, PCs, Results, caller, helpers, pipes, processes
  <2>2. OnTime'
    BY <1>1, MailerAssumption DEF CannotRun, Return, IInv, TypeOK, OnTime, LastPoll, Fresh, caller, helpers, pipes, processes
  <2>3. Fresh' /\ Feeding' /\ Draining'
    BY <1>1 DEF CannotRun, Return, IInv, TypeOK, Fresh, Feeding, Draining, caller, helpers, pipes, processes
  <2>4. Polled'
    BY <1>1 DEF CannotRun, Return, IInv, TypeOK, Fresh, Polled, Never, caller, helpers, pipes, processes
  <2>5. Judged' /\ NoFalseTimeout'
    BY <1>1, MailerAssumption DEF CannotRun, Return, IInv, TypeOK, Fresh, Feeding, Polled, Judged, NoFalseTimeout, Never, caller, helpers, pipes, processes
  <2>6. QED
    BY <2>1, <2>2, <2>3, <2>4, <2>5 DEF IInv
<1>2. CASE Spawn
  <2>1. TypeOK'
    BY <1>2, MailerAssumption DEF Spawn, IInv, TypeOK, PCs, Processes, caller, helpers, pipes, processes
  <2>2. OnTime'
    BY <1>2, MailerAssumption DEF Spawn, IInv, TypeOK, OnTime, LastPoll, Fresh, caller, helpers, pipes, processes
  <2>3. Fresh' /\ Feeding' /\ Draining'
    BY <1>2 DEF Spawn, IInv, TypeOK, Fresh, Feeding, Draining, caller, helpers, pipes, processes
  <2>4. Polled'
    BY <1>2 DEF Spawn, IInv, TypeOK, Fresh, Polled, Never, caller, helpers, pipes, processes
  <2>5. Judged' /\ NoFalseTimeout'
    BY <1>2, MailerAssumption DEF Spawn, IInv, TypeOK, Fresh, Feeding, Polled, Judged, NoFalseTimeout, Never, caller, helpers, pipes, processes
  <2>6. QED
    BY <2>1, <2>2, <2>3, <2>4, <2>5 DEF IInv
<1>3. CASE HelperCannotStart
  <2>1. TypeOK'
    <3>1. pc' \in PCs /\ result' \in Results
      BY <1>3 DEF HelperCannotStart, Return, PCs, Results
    <3>2. writer' \in {"none", "writing", "written", "broken"} /\ unfed' \in 0..MessageSize
      BY <1>3, MailerAssumption DEF HelperCannotStart, IInv, TypeOK
    <3>3. /\ alive' \subseteq Processes /\ in_ends' \subseteq alive' /\ err_ends' \subseteq alive'
          /\ mailer' = "running"
      BY <1>3 DEF HelperCannotStart, Processes
    <3>4. QED
      BY <1>3, <3>1, <3>2, <3>3 DEF HelperCannotStart, IInv, TypeOK, pipes
  <2>2. OnTime'
    BY <1>3, MailerAssumption DEF HelperCannotStart, Return, IInv, TypeOK, OnTime, LastPoll, Fresh, caller, helpers, pipes, processes
  <2>3. Fresh' /\ Feeding' /\ Draining'
    BY <1>3 DEF HelperCannotStart, Return, IInv, TypeOK, Fresh, Feeding, Draining, caller, helpers, pipes, processes
  <2>4. Polled'
    BY <1>3 DEF HelperCannotStart, Return, IInv, TypeOK, Fresh, Polled, Never, caller, helpers, pipes, processes
  <2>5. Judged' /\ NoFalseTimeout'
    BY <1>3, MailerAssumption DEF HelperCannotStart, Return, IInv, TypeOK, Fresh, Feeding, Polled, Judged, NoFalseTimeout, Never, caller, helpers, pipes, processes
  <2>6. QED
    BY <2>1, <2>2, <2>3, <2>4, <2>5 DEF IInv
<1>4. QED
  BY <1>1, <1>2, <1>3

\* Polling, pausing and killing.
LEMMA PollStep == ASSUME IInv, Poll \/ PollFails \/ Pause \/ WakeUp \/ Kill PROVE IInv'
<1>1. CASE Poll
  <2>1. CASE mailer = "running"
    <3>1. pc = "polling" /\ pc' = "checking" /\ UNCHANGED <<wake, delay, result, held, now, helpers, pipes, processes>>
      BY <1>1, <2>1 DEF Poll, processes
    <3>2. TypeOK' /\ Fresh' /\ Feeding' /\ Draining'
      BY <3>1 DEF IInv, TypeOK, PCs, Fresh, Feeding, Draining, caller, helpers, pipes, processes
    <3>3. OnTime' /\ Polled' /\ Judged' /\ NoFalseTimeout'
      BY <2>1, <3>1 DEF IInv, OnTime, LastPoll, Polled, Judged, NoFalseTimeout, caller, helpers, pipes, processes
    <3>4. QED
      BY <3>2, <3>3 DEF IInv
  <2>2. CASE mailer # "running"
    <3>1. /\ pc = "polling" /\ pc' = "take written"
          /\ wake' = now + Grace /\ result' = mailer /\ held' = in_ends /\ mailer' = "reaped"
          /\ UNCHANGED <<delay, now, helpers, pipes, alive, in_ends, err_ends, noise, exited_at>>
      BY <1>1, <2>2 DEF Poll
    <3>2. mailer \in {"success", "failure"}
      BY <2>2, <3>1 DEF IInv, Polled
    <3>3. now \in Nat /\ now <= Horizon /\ now <= LastPoll
      <4>1. now \in Nat /\ now <= Horizon
        BY Durations DEF IInv, TypeOK
      <4>2. pc = "polling" => now <= LastPoll
        BY DEF IInv, OnTime
      <4>3. QED
        BY <3>1, <4>1, <4>2
    <3>4. wake' \in 0..(Horizon + MaxDelay + Grace) /\ wake' <= LastPoll + Grace /\ now < wake'
      BY <3>1, <3>3, Durations, WaitEnds
    <3>5. TypeOK'
      BY <3>1, <3>2, <3>4 DEF IInv, TypeOK, PCs, Results, helpers, pipes
    <3>6. OnTime'
      <4>1. now' <= wake' /\ wake' <= LastPoll + Grace
        <5>1. now' = now
          BY <3>1
        <5>2. QED
          BY <5>1, <3>3, <3>4, Durations
      <4>2. QED
        BY <3>1, <4>1 DEF OnTime, LastPoll
    <3>7. Fresh' /\ Feeding' /\ Draining' /\ Polled'
      BY <3>1, <3>2 DEF IInv, Fresh, Feeding, Draining, Polled, helpers, pipes
    <3>8. Judged' /\ NoFalseTimeout'
      BY <3>1, <3>2, <3>4 DEF Judged, NoFalseTimeout
    <3>9. QED
      BY <3>5, <3>6, <3>7, <3>8 DEF IInv
  <2>3. QED
    BY <2>1, <2>2
<1>2. CASE PollFails
  <2>1. TypeOK'
    BY <1>2, MailerAssumption DEF PollFails, Return, IInv, TypeOK, PCs, Results, caller, helpers, pipes, processes
  <2>2. OnTime'
    BY <1>2, MailerAssumption DEF PollFails, Return, IInv, TypeOK, OnTime, LastPoll, Fresh, caller, helpers, pipes, processes
  <2>3. Fresh' /\ Feeding' /\ Draining'
    BY <1>2 DEF PollFails, Return, IInv, TypeOK, Fresh, Feeding, Draining, caller, helpers, pipes, processes
  <2>4. Polled'
    BY <1>2 DEF PollFails, Return, IInv, TypeOK, Fresh, Polled, Never, caller, helpers, pipes, processes
  <2>5. Judged' /\ NoFalseTimeout'
    BY <1>2, MailerAssumption DEF PollFails, Return, IInv, TypeOK, Fresh, Feeding, Polled, Judged, NoFalseTimeout, Never, caller, helpers, pipes, processes
  <2>6. QED
    BY <2>1, <2>2, <2>3, <2>4, <2>5 DEF IInv
<1>3. CASE Pause
  <2>1. TypeOK'
    BY <1>3, MailerAssumption, LongerType DEF Pause, IInv, TypeOK, PCs, caller, helpers, pipes, processes
  <2>2. OnTime'
    BY <1>3, MailerAssumption DEF Pause, IInv, TypeOK, OnTime, LastPoll, Fresh, caller, helpers, pipes, processes
  <2>3. Fresh' /\ Feeding' /\ Draining'
    BY <1>3 DEF Pause, IInv, TypeOK, Fresh, Feeding, Draining, caller, helpers, pipes, processes
  <2>4. Polled'
    BY <1>3 DEF Pause, IInv, TypeOK, Fresh, Polled, Never, caller, helpers, pipes, processes
  <2>5. Judged' /\ NoFalseTimeout'
    BY <1>3, MailerAssumption DEF Pause, IInv, TypeOK, Fresh, Feeding, Polled, Judged, NoFalseTimeout, Never, caller, helpers, pipes, processes
  <2>6. QED
    BY <2>1, <2>2, <2>3, <2>4, <2>5 DEF IInv
<1>4. CASE WakeUp
  <2>1. TypeOK'
    BY <1>4, MailerAssumption DEF WakeUp, IInv, TypeOK, PCs, caller, helpers, pipes, processes
  <2>2. OnTime'
    BY <1>4, MailerAssumption DEF WakeUp, IInv, TypeOK, OnTime, LastPoll, Fresh, caller, helpers, pipes, processes
  <2>3. Fresh' /\ Feeding' /\ Draining'
    BY <1>4 DEF WakeUp, IInv, TypeOK, Fresh, Feeding, Draining, caller, helpers, pipes, processes
  <2>4. Polled'
    BY <1>4 DEF WakeUp, IInv, TypeOK, Fresh, Polled, Never, caller, helpers, pipes, processes
  <2>5. Judged' /\ NoFalseTimeout'
    BY <1>4, MailerAssumption DEF WakeUp, IInv, TypeOK, Fresh, Feeding, Polled, Judged, NoFalseTimeout, Never, caller, helpers, pipes, processes
  <2>6. QED
    BY <2>1, <2>2, <2>3, <2>4, <2>5 DEF IInv
<1>5. CASE Kill
  <2>1. TypeOK'
    BY <1>5, MailerAssumption DEF Kill, Return, IInv, TypeOK, PCs, Results, caller, helpers, pipes, processes
  <2>2. OnTime'
    BY <1>5, MailerAssumption DEF Kill, Return, IInv, TypeOK, OnTime, LastPoll, Fresh, caller, helpers, pipes, processes
  <2>3. Fresh' /\ Feeding' /\ Draining'
    BY <1>5 DEF Kill, Return, IInv, TypeOK, Fresh, Feeding, Draining, caller, helpers, pipes, processes
  <2>4. Polled'
    BY <1>5 DEF Kill, Return, IInv, TypeOK, Fresh, Polled, Never, caller, helpers, pipes, processes
  <2>5. Judged' /\ NoFalseTimeout'
    BY <1>5, MailerAssumption DEF Kill, Return, IInv, TypeOK, Fresh, Feeding, Polled, Judged, NoFalseTimeout, Never, caller, helpers, pipes, processes
  <2>6. QED
    BY <2>1, <2>2, <2>3, <2>4, <2>5 DEF IInv
<1>6. QED
  BY <1>1, <1>2, <1>3, <1>4, <1>5

\* Waiting for the helpers.
LEMMA TakeStep == ASSUME IInv, TakeWritten \/ TakeStderr PROVE IInv'
<1>1. CASE TakeWritten
  <2>1. /\ pc = "take written" /\ pc' = "take stderr"
        /\ writer # "writing" \/ now >= wake
        /\ wake' = now + Grace
        /\ result' = IF result = "success" /\ writer = "broken" THEN "write error" ELSE result
        /\ UNCHANGED <<delay, held, now, helpers, pipes, processes>>
    BY <1>1 DEF TakeWritten
  <2>2. now \in Nat /\ wake \in Nat /\ now <= Horizon
    BY Durations DEF IInv, TypeOK
  <2>3. /\ wake' \in 0..(Horizon + MaxDelay + Grace)
        /\ now' <= wake' /\ wake' <= LastPoll + 2 * Grace
    <3>1. now <= wake /\ wake <= LastPoll + Grace
      BY <2>1 DEF IInv, OnTime
    <3>2. now <= LastPoll + Grace /\ LastPoll + Grace \in Nat
      BY <2>2, <3>1, Durations
    <3>3. wake' = now + Grace /\ now' = now
      BY <2>1
    <3>4. QED
      BY <2>2, <3>2, <3>3, WaitEnds, Durations
  <2>4. TypeOK'
    BY <2>1, <2>3 DEF IInv, TypeOK, PCs, Results, helpers, pipes, processes
  <2>5. OnTime'
    BY <2>1, <2>3 DEF OnTime, LastPoll
  <2>6. Fresh' /\ Feeding' /\ Draining' /\ Polled'
    BY <2>1 DEF IInv, Fresh, Feeding, Draining, Polled, helpers, pipes, processes
  <2>7. held = {} => writer # "writing"
    <3>1. ~(now >= wake /\ now < wake)
      BY <2>2
    <3>2. QED
      BY <2>1, <3>1 DEF IInv, Judged
  <2>8. writer \in {"written", "broken"} \/ held # {}
    BY <2>1, <2>7 DEF IInv, TypeOK, Feeding
  <2>9. Judged' /\ NoFalseTimeout'
    BY <2>1, <2>8 DEF IInv, Feeding, Judged, NoFalseTimeout, helpers, processes
  <2>10. QED
    BY <2>4, <2>5, <2>6, <2>9 DEF IInv
<1>2. CASE TakeStderr
  <2>1. TypeOK'
    BY <1>2, MailerAssumption DEF TakeStderr, Return, IInv, TypeOK, PCs, Results, caller, helpers, pipes, processes
  <2>2. OnTime'
    BY <1>2, MailerAssumption DEF TakeStderr, Return, IInv, TypeOK, OnTime, LastPoll, Fresh, caller, helpers, pipes, processes
  <2>3. Fresh' /\ Feeding' /\ Draining'
    BY <1>2 DEF TakeStderr, Return, IInv, TypeOK, Fresh, Feeding, Draining, caller, helpers, pipes, processes
  <2>4. Polled'
    BY <1>2 DEF TakeStderr, Return, IInv, TypeOK, Fresh, Polled, Never, caller, helpers, pipes, processes
  <2>5. Judged' /\ NoFalseTimeout'
    BY <1>2, MailerAssumption DEF TakeStderr, Return, IInv, TypeOK, Fresh, Feeding, Polled, Judged, NoFalseTimeout, Never, caller, helpers, pipes, processes
  <2>6. QED
    BY <2>1, <2>2, <2>3, <2>4, <2>5 DEF IInv
<1>3. QED
  BY <1>1, <1>2

\* The helper threads.
LEMMA HelperStep == ASSUME IInv, Write \/ Drain PROVE IInv'
<1>1. CASE Write
  <2>1. TypeOK'
    BY <1>1, MailerAssumption DEF Write, CanWrite, IInv, TypeOK, caller, helpers, pipes, processes
  <2>2. OnTime'
    BY <1>1, MailerAssumption DEF Write, CanWrite, IInv, TypeOK, OnTime, LastPoll, Fresh, caller, helpers, pipes, processes
  <2>3. Fresh' /\ Feeding' /\ Draining'
    BY <1>1 DEF Write, CanWrite, IInv, TypeOK, Fresh, Feeding, Draining, caller, helpers, pipes, processes
  <2>4. Polled'
    BY <1>1 DEF Write, CanWrite, IInv, TypeOK, Fresh, Polled, Never, caller, helpers, pipes, processes
  <2>5. Judged' /\ NoFalseTimeout'
    BY <1>1, MailerAssumption DEF Write, CanWrite, IInv, TypeOK, Fresh, Feeding, Polled, Judged, NoFalseTimeout, Never, caller, helpers, pipes, processes
  <2>6. QED
    BY <2>1, <2>2, <2>3, <2>4, <2>5 DEF IInv
<1>2. CASE Drain
  <2>1. TypeOK'
    BY <1>2, MailerAssumption DEF Drain, CanDrain, IInv, TypeOK, caller, helpers, pipes, processes
  <2>2. OnTime'
    BY <1>2, MailerAssumption DEF Drain, CanDrain, IInv, TypeOK, OnTime, LastPoll, Fresh, caller, helpers, pipes, processes
  <2>3. Fresh' /\ Feeding' /\ Draining'
    BY <1>2 DEF Drain, CanDrain, IInv, TypeOK, Fresh, Feeding, Draining, caller, helpers, pipes, processes
  <2>4. Polled'
    BY <1>2 DEF Drain, CanDrain, IInv, TypeOK, Fresh, Polled, Never, caller, helpers, pipes, processes
  <2>5. Judged' /\ NoFalseTimeout'
    BY <1>2, MailerAssumption DEF Drain, CanDrain, IInv, TypeOK, Fresh, Feeding, Polled, Judged, NoFalseTimeout, Never, caller, helpers, pipes, processes
  <2>6. QED
    BY <2>1, <2>2, <2>3, <2>4, <2>5 DEF IInv
<1>3. QED
  BY <1>1, <1>2

\* The processes.
LEMMA ProcessStep == 
    ASSUME IInv, NEW p \in Processes,
           Fork \/ CloseIn(p) \/ CloseErr(p) \/ ReadIn(p) \/ WriteErr(p) \/ Exit(p)
    PROVE  IInv'
<1>1. CASE Fork
  <2>1. TypeOK'
    BY <1>1, MailerAssumption DEF Fork, IInv, TypeOK, Processes, caller, helpers, pipes, processes
  <2>2. OnTime'
    BY <1>1, MailerAssumption DEF Fork, IInv, TypeOK, OnTime, LastPoll, Fresh, caller, helpers, pipes, processes
  <2>3. Fresh' /\ Feeding' /\ Draining'
    BY <1>1 DEF Fork, IInv, TypeOK, Fresh, Feeding, Draining, caller, helpers, pipes, processes
  <2>4. Polled'
    BY <1>1 DEF Fork, IInv, TypeOK, Fresh, Polled, Never, caller, helpers, pipes, processes
  <2>5. Judged' /\ NoFalseTimeout'
    BY <1>1, MailerAssumption DEF Fork, IInv, TypeOK, Fresh, Feeding, Polled, Judged, NoFalseTimeout, Never, caller, helpers, pipes, processes
  <2>6. QED
    BY <2>1, <2>2, <2>3, <2>4, <2>5 DEF IInv
<1>2. CASE CloseIn(p)
  <2>1. TypeOK'
    BY <1>2, MailerAssumption DEF CloseIn, IInv, TypeOK, caller, helpers, pipes, processes
  <2>2. OnTime'
    BY <1>2, MailerAssumption DEF CloseIn, IInv, TypeOK, OnTime, LastPoll, Fresh, caller, helpers, pipes, processes
  <2>3. Fresh' /\ Feeding' /\ Draining'
    BY <1>2 DEF CloseIn, IInv, TypeOK, Fresh, Feeding, Draining, caller, helpers, pipes, processes
  <2>4. Polled'
    BY <1>2 DEF CloseIn, IInv, TypeOK, Fresh, Polled, Never, caller, helpers, pipes, processes
  <2>5. Judged' /\ NoFalseTimeout'
    BY <1>2, MailerAssumption DEF CloseIn, IInv, TypeOK, Fresh, Feeding, Polled, Judged, NoFalseTimeout, Never, caller, helpers, pipes, processes
  <2>6. QED
    BY <2>1, <2>2, <2>3, <2>4, <2>5 DEF IInv
<1>3. CASE CloseErr(p)
  <2>1. TypeOK'
    BY <1>3, MailerAssumption DEF CloseErr, IInv, TypeOK, caller, helpers, pipes, processes
  <2>2. OnTime'
    BY <1>3, MailerAssumption DEF CloseErr, IInv, TypeOK, OnTime, LastPoll, Fresh, caller, helpers, pipes, processes
  <2>3. Fresh' /\ Feeding' /\ Draining'
    BY <1>3 DEF CloseErr, IInv, TypeOK, Fresh, Feeding, Draining, caller, helpers, pipes, processes
  <2>4. Polled'
    BY <1>3 DEF CloseErr, IInv, TypeOK, Fresh, Polled, Never, caller, helpers, pipes, processes
  <2>5. Judged' /\ NoFalseTimeout'
    BY <1>3, MailerAssumption DEF CloseErr, IInv, TypeOK, Fresh, Feeding, Polled, Judged, NoFalseTimeout, Never, caller, helpers, pipes, processes
  <2>6. QED
    BY <2>1, <2>2, <2>3, <2>4, <2>5 DEF IInv
<1>4. CASE ReadIn(p)
  <2>1. TypeOK'
    BY <1>4, MailerAssumption DEF ReadIn, IInv, TypeOK, caller, helpers, pipes, processes
  <2>2. OnTime'
    BY <1>4, MailerAssumption DEF ReadIn, IInv, TypeOK, OnTime, LastPoll, Fresh, caller, helpers, pipes, processes
  <2>3. Fresh' /\ Feeding' /\ Draining'
    BY <1>4 DEF ReadIn, IInv, TypeOK, Fresh, Feeding, Draining, caller, helpers, pipes, processes
  <2>4. Polled'
    BY <1>4 DEF ReadIn, IInv, TypeOK, Fresh, Polled, Never, caller, helpers, pipes, processes
  <2>5. Judged' /\ NoFalseTimeout'
    BY <1>4, MailerAssumption DEF ReadIn, IInv, TypeOK, Fresh, Feeding, Polled, Judged, NoFalseTimeout, Never, caller, helpers, pipes, processes
  <2>6. QED
    BY <2>1, <2>2, <2>3, <2>4, <2>5 DEF IInv
<1>5. CASE WriteErr(p)
  <2>1. TypeOK'
    BY <1>5, MailerAssumption DEF WriteErr, IInv, TypeOK, caller, helpers, pipes, processes
  <2>2. OnTime'
    BY <1>5, MailerAssumption DEF WriteErr, IInv, TypeOK, OnTime, LastPoll, Fresh, caller, helpers, pipes, processes
  <2>3. Fresh' /\ Feeding' /\ Draining'
    BY <1>5 DEF WriteErr, IInv, TypeOK, Fresh, Feeding, Draining, caller, helpers, pipes, processes
  <2>4. Polled'
    BY <1>5 DEF WriteErr, IInv, TypeOK, Fresh, Polled, Never, caller, helpers, pipes, processes
  <2>5. Judged' /\ NoFalseTimeout'
    BY <1>5, MailerAssumption DEF WriteErr, IInv, TypeOK, Fresh, Feeding, Polled, Judged, NoFalseTimeout, Never, caller, helpers, pipes, processes
  <2>6. QED
    BY <2>1, <2>2, <2>3, <2>4, <2>5 DEF IInv
<1>6. CASE Exit(p)
  <2>1. TypeOK'
    BY <1>6, MailerAssumption DEF Exit, IInv, TypeOK, Never, caller, helpers, pipes, processes
  <2>2. OnTime'
    BY <1>6, MailerAssumption DEF Exit, IInv, TypeOK, OnTime, LastPoll, Fresh, caller, helpers, pipes, processes
  <2>3. Fresh' /\ Feeding' /\ Draining'
    BY <1>6 DEF Exit, IInv, TypeOK, Fresh, Feeding, Draining, caller, helpers, pipes, processes
  <2>4. Polled'
    BY <1>6 DEF Exit, IInv, TypeOK, Fresh, Polled, Never, caller, helpers, pipes, processes
  <2>5. Judged' /\ NoFalseTimeout'
    BY <1>6, MailerAssumption DEF Exit, IInv, TypeOK, Fresh, Feeding, Polled, Judged, NoFalseTimeout, Never, caller, helpers, pipes, processes
  <2>6. QED
    BY <2>1, <2>2, <2>3, <2>4, <2>5 DEF IInv
<1>7. QED
  BY <1>1, <1>2, <1>3, <1>4, <1>5, <1>6

\* Time passes only while the caller waits and the helpers have nothing to do.
LEMMA TickStep == ASSUME IInv, Tick PROVE IInv'
<1>1. TypeOK'
  BY MailerAssumption DEF Tick, IInv, TypeOK, caller, helpers, pipes, processes
<1>2. OnTime'
  <2>1. UNCHANGED <<pc, wake>> /\ now' = now + 1 /\ now \in Nat /\ wake \in Nat
    BY Durations DEF Tick, caller, IInv, TypeOK
  <2>2. pc = "done" \/ (pc \in {"sleeping", "take written", "take stderr"} /\ now < wake)
    BY DEF Tick, Quiet, CallerWaits
  <2>3. now < wake => now' <= wake'
    BY <2>1
  <2>4. QED
    BY <2>1, <2>2, <2>3 DEF IInv, OnTime, LastPoll
<1>3. Fresh' /\ Feeding' /\ Draining'
  BY DEF Tick, Quiet, CallerWaits, IInv, Fresh, Feeding, Draining, caller, helpers, pipes, processes
<1>4. Polled' /\ NoFalseTimeout'
  BY DEF Tick, Quiet, CallerWaits, IInv, Polled, NoFalseTimeout, Never, caller, processes
<1>5. Judged'
  BY DEF Tick, Quiet, CanWrite, IInv, TypeOK, Judged, caller, helpers, processes
<1>6. QED
  BY <1>1, <1>2, <1>3, <1>4, <1>5 DEF IInv

-----------------------------------------------------------------------------

\* The inductive invariant holds in every reachable state.
THEOREM Invariance == Spec => []IInv
<1>1. ASSUME IInv, Next PROVE IInv'
  <2>1. CASE Caller \/ PollFails \/ HelperCannotStart
    BY <1>1, <2>1, StartStep, PollStep, TakeStep DEF Caller
  <2>2. CASE Helpers
    BY <1>1, <2>2, HelperStep DEF Helpers
  <2>3. CASE Tick
    BY <1>1, <2>3, TickStep
  <2>4. CASE Fork
    BY <1>1, <2>4, ProcessStep DEF Processes
  <2>5. ASSUME NEW p \in Processes, CloseIn(p) \/ CloseErr(p) \/ ReadIn(p) \/ WriteErr(p) \/ Exit(p)
        PROVE  IInv'
    BY <1>1, <2>5, ProcessStep
  <2>6. QED
    BY <1>1, <2>1, <2>2, <2>3, <2>4, <2>5 DEF Next
<1>2. ASSUME IInv, UNCHANGED vars PROVE IInv'
  <2>1. TypeOK'
    BY <1>2 DEF vars, caller, helpers, pipes, processes, IInv, TypeOK
  <2>2. Fresh' /\ OnTime' /\ Feeding' /\ Draining'
    BY <1>2 DEF vars, caller, helpers, pipes, processes, IInv, Fresh, OnTime, LastPoll, Never, Feeding, Draining
  <2>3. Polled' /\ Judged' /\ NoFalseTimeout'
    BY <1>2 DEF vars, caller, helpers, pipes, processes, IInv, Polled, Never, Judged, NoFalseTimeout
  <2>4. QED
    BY <2>1, <2>2, <2>3 DEF IInv
<1>3. QED
  BY InitInv, <1>1, <1>2, PTL DEF Spec

\* Type correctness of a delivery.
THEOREM TypeCorrect == Spec => []TypeOK
<1>1. IInv => TypeOK
  BY DEF IInv
<1>2. QED
  BY <1>1, Invariance, PTL

\* However the mailer and what it leaves behind behave, send is over one pause
\* and two waits after the deadline.
THEOREM OverInTimeHolds == Spec => []OverInTime
<1>1. IInv => OverInTime
  <2> SUFFICES ASSUME IInv, pc # "done" PROVE now <= MAILER_TIMEOUT - 1 + MaxDelay + 2 * Grace
    BY DEF OverInTime
  <2>1. now \in Nat /\ wake \in Nat
    BY Durations DEF IInv, TypeOK
  <2>2. now <= LastPoll + 2 * Grace
    <3>1. CASE pc = "starting"
      BY <3>1, Durations DEF IInv, Fresh
    <3>2. CASE pc \in {"polling", "checking"}
      <4>1. now <= LastPoll
        BY <3>2 DEF IInv, OnTime
      <4>2. QED
        BY <2>1, <4>1, Durations
    <3>3. CASE pc \in {"sleeping", "take written", "take stderr"}
      <4>1. now <= wake /\ (wake <= LastPoll \/ wake <= LastPoll + Grace \/ wake <= LastPoll + 2 * Grace)
        BY <3>3 DEF IInv, OnTime
      <4>2. QED
        BY <2>1, <4>1, Durations
    <3>4. QED
      BY <3>1, <3>2, <3>3 DEF IInv, TypeOK, PCs
  <2>3. QED
    BY <2>2 DEF LastPoll
<1>2. QED
  BY <1>1, Invariance, PTL

\* While crond has nothing to do, the mailer does not wait for it.
THEOREM NeverInTheWayHolds == Spec => []NeverInTheWay
<1>1. IInv => NeverInTheWay
  BY MailerAssumption DEF IInv, TypeOK, Feeding, Draining, NeverInTheWay, Quiet, CanWrite, CanDrain
<1>2. QED
  BY <1>1, Invariance, PTL

\* A mailer that ended before the deadline is not reported as timed out.
THEOREM NoFalseTimeoutHolds == Spec => []NoFalseTimeout
<1>1. IInv => NoFalseTimeout
  BY DEF IInv
<1>2. QED
  BY <1>1, Invariance, PTL

\* A success is reported for a message that was not taken only if somebody else
\* held the input.
THEOREM SuccessMeansTakenHolds == Spec => []SuccessMeansTaken
<1>1. IInv => SuccessMeansTaken
  BY MailerAssumption DEF IInv, TypeOK, Judged, SuccessMeansTaken
<1>2. QED
  BY <1>1, Invariance, PTL
=============================================================================
