-------------------------- MODULE SchedulingProofs --------------------------
(***************************************************************************)
(* When jobs run, for every value of the constants.  Of WakeLoop: the      *)
(* inductive invariant IInv of WakeLoopInv, the safety properties that     *)
(* follow from it, and the refinement of FixedMinutes.  Of NextAfter, with *)
(* which it shares nothing: the search passes no match.                    *)
(***************************************************************************)
EXTENDS WakeLoopInv, NextAfter, SequenceTheorems, WellFoundedInduction, TLAPS

USE LimitAssumption, ClockAssumption

-----------------------------------------------------------------------------
(* What plan returns in each of its ranges.                                *)

\* A replay lists the minutes after v up to t, one step each.
LEMMA ReplayFacts ==
    ASSUME NEW v \in LocalMinutes, NEW t \in LocalMinutes, v < t, NEW p \in Pass
    PROVE  /\ Replay(v, t, p) \in Seq(Steps)
           /\ Len(Replay(v, t, p)) = t - v
           /\ \A i \in 1..(t - v) :
                 Replay(v, t, p)[i] = Step(v + i, p, OffsetFor(v + i, t))
<1>1. \A i \in 1..(t - v) : Step(v + i, p, OffsetFor(v + i, t)) \in Steps
  BY DEF Step, Steps, OffsetFor, LocalMinutes
<1>2. t - v \in Nat
  BY DEF LocalMinutes
<1>3. QED
  BY <1>1, <1>2 DEF Replay

\* The five ranges exclude each other and cover every difference.
LEMMA Ranges ==
    ASSUME NEW v \in LocalMinutes, NEW t \in LocalMinutes
    PROVE  /\ NormalTick(v, t) => ~WokeLate(v, t) /\ ~JumpedForward(v, t) /\ ~WentBack(v, t)
           /\ WokeLate(v, t) => ~JumpedForward(v, t) /\ ~WentBack(v, t)
           /\ JumpedForward(v, t) => ~WentBack(v, t)
BY DEF NormalTick, WokeLate, JumpedForward, WentBack, LocalMinutes

\* A normal tick and a resync evaluate the current minute fully.
LEMMA PlanSingle ==
    ASSUME NEW v \in LocalMinutes, NEW t \in LocalMinutes,
           NormalTick(v, t) \/ Far(v, t)
    PROVE  plan(v, t) = [virtual |-> t, steps |-> <<Step(t, "All", "Current")>>]
BY Ranges DEF plan, Far

LEMMA PlanLate ==
    ASSUME NEW v \in LocalMinutes, NEW t \in LocalMinutes, WokeLate(v, t)
    PROVE  plan(v, t) = [virtual |-> t, steps |-> Replay(v, t, "All")]
BY Ranges DEF plan

LEMMA PlanJump ==
    ASSUME NEW v \in LocalMinutes, NEW t \in LocalMinutes, JumpedForward(v, t)
    PROVE  plan(v, t) = [virtual |-> t,
                         steps |-> <<Step(t, "WildOnly", "Current")>>
                                     \o Replay(v, t, "FixedOnly")]
BY Ranges DEF plan

LEMMA PlanBack ==
    ASSUME NEW v \in LocalMinutes, NEW t \in LocalMinutes, WentBack(v, t)
    PROVE  plan(v, t) = [virtual |-> v, steps |-> <<Step(t, "WildOnly", "Current")>>]
BY Ranges DEF plan

\* plan returns a list of evaluations and a local minute.
LEMMA PlanType ==
    ASSUME NEW v \in LocalMinutes, NEW t \in LocalMinutes
    PROVE  /\ plan(v, t).steps \in Seq(Steps)
           /\ plan(v, t).virtual \in LocalMinutes
           /\ Len(plan(v, t).steps) >= 1
<1>1. /\ <<Step(t, "All", "Current")>> \in Seq(Steps)
      /\ Len(<<Step(t, "All", "Current")>>) = 1
      /\ <<Step(t, "WildOnly", "Current")>> \in Seq(Steps)
      /\ Len(<<Step(t, "WildOnly", "Current")>>) = 1
  BY DEF Step, Steps, Pass
<1>2. "All" \in Pass /\ "WildOnly" \in Pass /\ "FixedOnly" \in Pass
  BY DEF Pass
<1>3. CASE NormalTick(v, t) \/ Far(v, t)
  <2>1. plan(v, t).steps = <<Step(t, "All", "Current")>> /\ plan(v, t).virtual = t
    BY <1>3, PlanSingle
  <2>2. QED
    BY <1>1, <2>1
<1>4. CASE WokeLate(v, t)
  <2>1. v < t /\ t - v >= 1
    BY <1>4 DEF WokeLate, LocalMinutes
  <2>2. QED
    BY <1>2, <1>4, <2>1, PlanLate, ReplayFacts
<1>5. CASE JumpedForward(v, t)
  <2> DEFINE head == <<Step(t, "WildOnly", "Current")>>
             tail == Replay(v, t, "FixedOnly")
  <2>1. v < t /\ t - v >= 1
    BY <1>5 DEF JumpedForward, LocalMinutes
  <2>2. tail \in Seq(Steps) /\ Len(tail) = t - v
    BY <1>2, <2>1, ReplayFacts
  <2>3. head \in Seq(Steps) /\ Len(head) = 1
    BY <1>1, <1>2
  <2>4. plan(v, t).steps = head \o tail /\ plan(v, t).virtual = t
    BY <1>5, PlanJump
  <2> HIDE DEF head, tail
  <2>5. head \o tail \in Seq(Steps) /\ Len(head \o tail) = Len(head) + Len(tail)
    BY <2>2, <2>3, ConcatProperties
  <2>6. QED
    BY <2>1, <2>2, <2>3, <2>4, <2>5
<1>6. CASE WentBack(v, t)
  <2>1. plan(v, t).steps = <<Step(t, "WildOnly", "Current")>> /\ plan(v, t).virtual = v
    BY <1>6, PlanBack
  <2>2. QED
    BY <1>1, <2>1
<1>7. QED
  BY <1>3, <1>4, <1>5, <1>6 DEF Far

\* virtual_time holds while the clock is behind it and moves otherwise.
LEMMA PlanVirtual ==
    ASSUME NEW v \in LocalMinutes, NEW t \in LocalMinutes
    PROVE  plan(v, t).virtual = IF WentBack(v, t) THEN v ELSE t
<1>1. CASE NormalTick(v, t) \/ Far(v, t)
  BY <1>1, PlanSingle, Ranges DEF Far
<1>2. CASE WokeLate(v, t)
  BY <1>2, PlanLate, Ranges
<1>3. CASE JumpedForward(v, t)
  <2> DEFINE steps == <<Step(t, "WildOnly", "Current")>> \o Replay(v, t, "FixedOnly")
  <2>1. plan(v, t) = [virtual |-> t, steps |-> steps]
    BY <1>3, PlanJump
  <2> HIDE DEF steps
  <2>2. QED
    BY <1>3, <2>1, Ranges
<1>4. CASE WentBack(v, t)
  BY <1>4, PlanBack
<1>5. QED
  BY <1>1, <1>2, <1>3, <1>4 DEF Far

\* The n-th evaluation of a plan.
LEMMA PlanSteps ==
    ASSUME NEW v \in LocalMinutes, NEW t \in LocalMinutes,
           NEW n \in 1..Len(plan(v, t).steps)
    PROVE  /\ NormalTick(v, t) \/ Far(v, t) =>
                 /\ Len(plan(v, t).steps) = 1
                 /\ plan(v, t).steps[n] = Step(t, "All", "Current")
           /\ WokeLate(v, t) =>
                 /\ Len(plan(v, t).steps) = t - v
                 /\ plan(v, t).steps[n] = Step(v + n, "All", OffsetFor(v + n, t))
           /\ JumpedForward(v, t) =>
                 /\ Len(plan(v, t).steps) = t - v + 1
                 /\ n = 1 => plan(v, t).steps[n] = Step(t, "WildOnly", "Current")
                 /\ n > 1 => plan(v, t).steps[n] =
                               Step(v + n - 1, "FixedOnly", OffsetFor(v + n - 1, t))
           /\ WentBack(v, t) =>
                 /\ Len(plan(v, t).steps) = 1
                 /\ plan(v, t).steps[n] = Step(t, "WildOnly", "Current")
<1>1. ASSUME NormalTick(v, t) \/ Far(v, t)
      PROVE  /\ Len(plan(v, t).steps) = 1
             /\ plan(v, t).steps[n] = Step(t, "All", "Current")
  BY <1>1, PlanSingle
<1>2. ASSUME WokeLate(v, t)
      PROVE  /\ Len(plan(v, t).steps) = t - v
             /\ plan(v, t).steps[n] = Step(v + n, "All", OffsetFor(v + n, t))
  <2>1. v < t
    BY <1>2 DEF WokeLate, LocalMinutes
  <2>2. QED
    BY <1>2, <2>1, PlanLate, ReplayFacts DEF Pass
<1>3. ASSUME JumpedForward(v, t)
      PROVE  /\ Len(plan(v, t).steps) = t - v + 1
             /\ n = 1 => plan(v, t).steps[n] = Step(t, "WildOnly", "Current")
             /\ n > 1 => plan(v, t).steps[n] =
                           Step(v + n - 1, "FixedOnly", OffsetFor(v + n - 1, t))
  <2> DEFINE head == <<Step(t, "WildOnly", "Current")>>
             tail == Replay(v, t, "FixedOnly")
  <2>1. v < t
    BY <1>3 DEF JumpedForward, LocalMinutes
  <2>2. /\ tail \in Seq(Steps)
        /\ Len(tail) = t - v
        /\ \A i \in 1..(t - v) :
              tail[i] = Step(v + i, "FixedOnly", OffsetFor(v + i, t))
    BY <2>1, ReplayFacts DEF Pass
  <2>3. head \in Seq(Steps) /\ Len(head) = 1 /\ head[1] = Step(t, "WildOnly", "Current")
    BY DEF Step, Steps, Pass
  <2>4. plan(v, t).steps = head \o tail
    BY <1>3, PlanJump
  <2> HIDE DEF head, tail
  <2>5. Len(plan(v, t).steps) = t - v + 1
    <3>1. Len(head \o tail) = Len(head) + Len(tail)
      BY <2>2, <2>3, ConcatProperties
    <3>2. QED
      BY <2>2, <2>3, <2>4, <3>1 DEF LocalMinutes
  <2>6. /\ n = 1 => plan(v, t).steps[n] = head[1]
        /\ n > 1 => plan(v, t).steps[n] = tail[n - 1] /\ n - 1 \in 1..(t - v)
    BY <2>2, <2>3, <2>4, <2>5 DEF LocalMinutes
  <2>7. ASSUME n > 1
        PROVE  v + (n - 1) = v + n - 1
    BY DEF LocalMinutes
  <2>8. QED
    BY <2>2, <2>3, <2>4, <2>5, <2>6, <2>7
<1>4. ASSUME WentBack(v, t)
      PROVE  /\ Len(plan(v, t).steps) = 1
             /\ plan(v, t).steps[n] = Step(t, "WildOnly", "Current")
  BY <1>4, PlanBack
<1>5. QED
  BY <1>1, <1>2, <1>3, <1>4

-----------------------------------------------------------------------------
(* The inductive invariant.                                                *)

LEMMA InitInv == Init => IInv
<1> SUFFICES ASSUME Init PROVE IInv
  OBVIOUS
<1>1. TypeOK
  <2>1. utc \in 0..Horizon /\ off \in 0..MaxOffset /\ off \in Offsets
    BY DEF Init, UtcMinutes
  <2>2. utc + off \in LocalMinutes
    BY <2>1 DEF LocalMinutes
  <2>3. work \in Seq(Steps) /\ next \in 1..(Len(work) + 1)
    BY DEF Init
  <2>4. zonedRuns \in [UtcMinutes -> Nat]
    BY DEF Init
  <2>5. hup \in BOOLEAN /\ term \in BOOLEAN /\ steppedBack \in BOOLEAN
    BY DEF Init
  <2>6. /\ fixedRun \in [minute : LocalMinutes, times : Nat]
        /\ wildRun \in [minute : LocalMinutes \cup {NoMinute}, times : Nat]
    BY <2>2 DEF Init
  <2>7. QED
    BY <2>1, <2>2, <2>3, <2>4, <2>5, <2>6 DEF Init, TypeOK, UtcMinutes
<1>2. WildNotRepeated /\ ZonedOnce
  BY DEF Init, WildNotRepeated, ZonedOnce
<1>3. ReadsLater
  BY DEF Init, ReadsLater, LastRead, UtcMinutes
<1>4. BetweenWakes
  BY DEF Init, BetweenWakes, WildBehindVirtual
<1>5. QED
  BY <1>1, <1>2, <1>3, <1>4 DEF Init, IInv

\* The environment leaves the daemon's state alone; what ReadsLater and
\* WithinWake say of utc survives because only a step back lowers it.
LEMMA EnvironmentInv ==
    ASSUME IInv, Clock \/ Signals
    PROVE  IInv'
<1>0. /\ TypeOK /\ WildNotRepeated /\ ZonedOnce /\ ReadsLater
      /\ pc # "evaluating" => BetweenWakes
      /\ pc = "evaluating" => WithinWake
  BY DEF IInv
<1>1. UNCHANGED <<pc, wake, loopVars, wakeVars, fixedRun, wildRun>>
  BY <1>0 DEF Clock, Signals, Tick, StepClock, ChangeOffset, Sighup, Sigterm, runVars
<1>2. /\ utc' \in UtcMinutes
      /\ off' \in Offsets
      /\ shifts' \in 0..MaxShifts
  <2>1. CASE Tick
    BY <1>0, <2>1 DEF Tick, TypeOK, UtcMinutes
  <2>2. CASE StepClock
    BY <1>0, <2>2 DEF StepClock, TypeOK
  <2>3. CASE ChangeOffset
    BY <1>0, <2>3 DEF ChangeOffset, TypeOK
  <2>4. CASE Signals
    BY <1>0, <2>4 DEF Signals, Sighup, Sigterm, clockVars, TypeOK
  <2>5. QED
    BY <1>0, <2>1, <2>2, <2>3, <2>4 DEF Clock
<1>3. /\ (hup => hup') /\ (term => term')
      /\ hup' \in BOOLEAN /\ term' \in BOOLEAN
  BY <1>0 DEF Clock, Signals, Tick, StepClock, ChangeOffset, Sighup, Sigterm, signalVars, TypeOK
<1>4. \/ steppedBack' = TRUE /\ zonedRuns' = [u \in UtcMinutes |-> 0]
      \/ steppedBack' = steppedBack /\ zonedRuns' = zonedRuns /\ utc <= utc'
  <2>1. CASE StepClock
    <3>1. PICK u \in UtcMinutes : /\ utc' = u
                                  /\ steppedBack' = (steppedBack \/ u < utc)
      BY <1>0, <2>1 DEF StepClock
    <3>2. zonedRuns' = IF steppedBack' THEN [x \in UtcMinutes |-> 0] ELSE zonedRuns
      BY <1>0, <2>1 DEF StepClock
    <3>3. CASE steppedBack \/ u < utc
      BY <1>0, <3>1, <3>2, <3>3
    <3>4. CASE ~(steppedBack \/ u < utc)
      <4>1. utc <= u
        BY <1>0, <3>4 DEF TypeOK, UtcMinutes
      <4>2. steppedBack = FALSE /\ steppedBack' = FALSE
        BY <1>0, <3>1, <3>4 DEF TypeOK
      <4>3. QED
        BY <1>0, <3>1, <3>2, <4>1, <4>2
    <3>5. QED
      BY <1>0, <3>3, <3>4
  <2>2. CASE ~StepClock
    BY <1>0, <2>2 DEF Clock, Signals, Tick, ChangeOffset, Sighup, Sigterm, clockVars, runVars,
                TypeOK, UtcMinutes
  <2>3. QED
    BY <1>0, <2>1, <2>2
<1>5. TypeOK'
  <2>1. steppedBack' \in BOOLEAN
    BY <1>0, <1>4, Zenon DEF TypeOK
  <2>2. zonedRuns' \in [UtcMinutes -> Nat]
    BY <1>0, <1>4 DEF TypeOK
  <2>3. QED
    BY <1>0, <1>1, <1>2, <1>3, <2>1, <2>2 DEF TypeOK, loopVars, wakeVars
<1>6. WildNotRepeated' /\ ZonedOnce'
  BY <1>0, <1>1, <1>4 DEF WildNotRepeated, ZonedOnce
<1>7. ReadsLater'
  <2> SUFFICES ASSUME ~steppedBack'
               PROVE  ReadsLater!2'
    BY <1>0 DEF ReadsLater
  <2>1. ~steppedBack /\ zonedRuns' = zonedRuns /\ utc <= utc'
    BY <1>0, <1>4
  <2>2. LastRead' = LastRead /\ LastRead \in Int /\ utc \in Int /\ utc' \in Int /\ wake \in Int
    BY <1>0, <1>1, <1>2 DEF loopVars, LastRead, TypeOK, UtcMinutes, LocalMinutes
  <2>3. /\ 0 <= LastRead /\ LastRead <= utc
        /\ pc = "sleeping" => LastRead < wake /\ wake - 1 <= utc
        /\ \A u \in UtcMinutes : pc # "evaluating" /\ LastRead < u => zonedRuns[u] = 0
    BY <1>0, <2>1 DEF ReadsLater
  <2>4. pc = "awake" => LastRead < utc \/ hup' \/ term'
    BY <1>0, <1>3, <2>1 DEF ReadsLater
  <2>5. pc = "awake" => LastRead < utc' \/ hup' \/ term'
    BY <1>0, <2>1, <2>2, <2>4
  <2>6. pc' = pc /\ wake' = wake
    BY <1>0, <1>1
  <2>7. 0 <= LastRead' /\ LastRead' <= utc'
    BY <1>0, <2>1, <2>2, <2>3
  <2>8. pc' = "sleeping" => LastRead' < wake' /\ wake' - 1 <= utc'
    BY <2>1, <2>2, <2>3, <2>6
  <2>9. QED
    BY <2>1, <2>2, <2>3, <2>5, <2>6, <2>7, <2>8
<1>8. pc # "evaluating" => BetweenWakes'
  BY <1>0, <1>1 DEF BetweenWakes, WildBehindVirtual, loopVars, wakeVars
<1>9. pc = "evaluating" => WithinWake'
  <2> SUFFICES ASSUME pc = "evaluating"
               PROVE  WithinWake'
    OBVIOUS
  <2>1. /\ FixedDone' = FixedDone /\ WildDone' = WildDone
        /\ ZonedDone' = ZonedDone /\ LastRead' = LastRead
        /\ WildBehindVirtual' <=> WildBehindVirtual
    BY <1>0, <1>1 DEF FixedDone, FixedDoneAt, WildDone, WildDoneAt, ZonedDone, LastRead, WildBehindVirtual, loopVars, wakeVars
  <2>2. ASSUME ~steppedBack'
        PROVE  ~steppedBack /\ zonedRuns' = zonedRuns /\ utc <= utc'
    BY <1>0, <1>4, <2>2
  <2>3. utc \in Int /\ utc' \in Int /\ time_running - gmtoff \in Int
    <3>1. utc \in Int /\ utc' \in Int
      BY <1>0, <1>2 DEF TypeOK, UtcMinutes
    <3>2. time_running \in LocalMinutes /\ gmtoff \in 0..MaxOffset
      BY <1>0 DEF TypeOK, WithinWake
    <3>3. QED
      BY <1>0, <3>1, <3>2 DEF LocalMinutes
  <2>4. WithinWake
    BY <1>0
  <2>5. ~steppedBack' =>
           /\ LastRead < time_running - gmtoff /\ time_running - gmtoff <= utc'
           /\ \A u \in UtcMinutes : ZonedDone < u => zonedRuns'[u] = 0
    BY <1>0, <2>2, <2>3, <2>4 DEF WithinWake
  <2>6. QED
    BY <1>0, <1>1, <2>1, <2>4, <2>5 DEF WithinWake, loopVars, wakeVars
<1>10. QED
  BY <1>1, <1>5, <1>6, <1>7, <1>8, <1>9 DEF IInv

\* Sleeping, stopping and reloading: virtual_time stays, the deadline moves.
LEMMA SleepInv ==
    ASSUME IInv, GoToSleep \/ SleepEnds \/ Stop \/ Reload
    PROVE  IInv'
<1>0. /\ TypeOK /\ WildNotRepeated /\ ZonedOnce /\ ReadsLater
      /\ pc # "evaluating" => BetweenWakes
      /\ pc = "evaluating" => WithinWake
  BY DEF IInv
<1>1. /\ UNCHANGED <<clockVars, loopVars, wakeVars, runVars>>
      /\ pc # "evaluating" /\ pc' # "evaluating"
  BY <1>0 DEF GoToSleep, SleepEnds, Stop, Reload
<1>2. /\ pc' \in {"top", "sleeping", "awake", "evaluating", "stopped"}
      /\ wake' \in 0..(Horizon + 1)
  BY <1>0 DEF GoToSleep, SleepEnds, Stop, Reload, TypeOK, UtcMinutes
<1>3. TypeOK'
  <2>1. hup' \in BOOLEAN /\ term' \in BOOLEAN
    BY <1>0, Zenon DEF GoToSleep, SleepEnds, Stop, Reload, signalVars, TypeOK
  <2>2. QED
    BY <1>0, <1>1, <1>2, <2>1 DEF clockVars, loopVars, wakeVars, runVars, TypeOK
<1>4. WildNotRepeated' /\ ZonedOnce'
  BY <1>0, <1>1 DEF WildNotRepeated, ZonedOnce, runVars
<1>5. ReadsLater'
  <2> SUFFICES ASSUME ~steppedBack'
               PROVE  ReadsLater!2'
    BY <1>0 DEF ReadsLater
  <2>1. ~steppedBack /\ LastRead' = LastRead /\ LastRead \in Int /\ utc \in Int
    BY <1>0, <1>1 DEF clockVars, loopVars, LastRead, TypeOK, UtcMinutes, LocalMinutes
  <2>2. /\ 0 <= LastRead' /\ LastRead' <= utc'
        /\ \A u \in UtcMinutes : LastRead' < u => zonedRuns'[u] = 0
    BY <1>0, <1>1, <2>1 DEF ReadsLater, clockVars, runVars
  <2>3. pc' = "sleeping" => LastRead' < wake' /\ wake' - 1 <= utc'
    BY <1>0, <1>1, <2>1 DEF ReadsLater, GoToSleep, SleepEnds, Stop, Reload, clockVars
  <2>4. ASSUME pc' = "awake"
        PROVE  LastRead' < utc' \/ hup' \/ term'
    <3>1. /\ SleepEnds /\ pc = "sleeping" /\ UNCHANGED <<utc, hup, term>>
          /\ term \/ hup \/ utc >= wake \/ utc <= wake - 2
      BY <1>0, <2>4, Zenon DEF GoToSleep, SleepEnds, Stop, Reload, clockVars, signalVars
    <3>2. LastRead < wake /\ wake - 1 <= utc /\ wake \in Int
      BY <1>0, <2>1, <3>1 DEF ReadsLater, TypeOK
    <3>3. utc >= wake \/ utc <= wake - 2 => LastRead' < utc
      BY <1>0, <2>1, <3>2
    <3>4. QED
      BY <1>0, <3>1, <3>3
  <2>5. QED
    BY <1>0, <2>2, <2>3, <2>4
<1>6. BetweenWakes'
  BY <1>0, <1>1 DEF BetweenWakes, WildBehindVirtual, loopVars, wakeVars, runVars
<1>7. QED
  BY <1>1, <1>3, <1>4, <1>5, <1>6 DEF IInv

\* A wake starts where the last one ended, at an instant later than LastRead.
LEMMA PlanWakeInv ==
    ASSUME IInv, PlanWake
    PROVE  IInv'
<1> DEFINE t == utc + off
           v == virtual_time
<1>1. /\ TypeOK /\ WildNotRepeated /\ ZonedOnce /\ ReadsLater /\ BetweenWakes
      /\ pc = "awake" /\ ~term /\ ~hup
  BY DEF IInv, PlanWake
<1>2. /\ time_running' = t /\ gmtoff' = off /\ new_virtual' = plan(v, t).virtual
      /\ work' = plan(v, t).steps /\ next' = 1 /\ pc' = "evaluating"
      /\ UNCHANGED <<clockVars, signalVars, wake, loopVars, runVars>>
  BY DEF PlanWake
<1>3. /\ utc \in 0..Horizon /\ off \in 0..MaxOffset /\ off \in Offsets
      /\ v \in LocalMinutes /\ prev_gmtoff \in 0..MaxOffset
  BY <1>1 DEF TypeOK, UtcMinutes
<1>4. t \in LocalMinutes /\ t - off = utc /\ t # NoMinute
  BY <1>3 DEF LocalMinutes, NoMinute
<1>5. /\ plan(v, t).steps \in Seq(Steps) /\ plan(v, t).virtual \in LocalMinutes
      /\ Len(plan(v, t).steps) \in Nat /\ Len(plan(v, t).steps) >= 1
  BY <1>3, <1>4, PlanType
<1>6. TypeOK'
  <2>1. hup' \in BOOLEAN /\ term' \in BOOLEAN /\ steppedBack' \in BOOLEAN
    BY <1>1, <1>2 DEF clockVars, signalVars, TypeOK
  <2>2. next' \in 1..(Len(work') + 1)
    BY <1>2, <1>5
  <2>3. QED
    BY <1>1, <1>2, <1>3, <1>4, <1>5, <2>1, <2>2 DEF clockVars, loopVars, runVars, TypeOK
<1>7. WildNotRepeated' /\ ZonedOnce'
  BY <1>1, <1>2 DEF WildNotRepeated, ZonedOnce, runVars
<1>8. ReadsLater'
  BY <1>1, <1>2 DEF ReadsLater, LastRead, clockVars, loopVars
<1>9. WithinWake'
  <2> HIDE DEF t, v
  <2>1. virtual_time' = v /\ prev_gmtoff' = prev_gmtoff /\ last_wild' = last_wild
    BY <1>2 DEF loopVars, v
  <2>2. FixedDone' = v
    BY <1>2, <1>3, <2>1 DEF FixedDone, FixedDoneAt, LocalMinutes
  <2>3. fixedRun' = [minute |-> FixedDone', times |-> 1]
    BY <1>1, <1>2, <2>2 DEF BetweenWakes, runVars, v
  <2>4. WildBehindVirtual'
    BY <1>1, <1>2 DEF BetweenWakes, WildBehindVirtual, loopVars, runVars
  <2>5. ASSUME ~steppedBack'
        PROVE  /\ LastRead' < time_running' - gmtoff'
               /\ time_running' - gmtoff' <= utc'
               /\ \A u \in UtcMinutes : ZonedDone' < u => zonedRuns'[u] = 0
    <3>1. ~steppedBack /\ utc' = utc /\ zonedRuns' = zonedRuns
      BY <1>2, <2>5 DEF clockVars, runVars
    <3>2. LastRead < utc /\ \A u \in UtcMinutes : LastRead < u => zonedRuns[u] = 0
      BY <1>1, <3>1 DEF ReadsLater
    <3>3. LastRead' = LastRead /\ LastRead = v - prev_gmtoff
      BY <2>1 DEF LastRead, v
    <3>4. time_running' - gmtoff' = utc
      BY <1>2, <1>4
    <3>5. next' # Len(work') + 1
      BY <1>2, <1>5
    <3>6. ZonedDone' = LastRead
      BY <1>2, <2>1, <2>2, <3>3, <3>5 DEF ZonedDone
    <3>7. QED
      BY <1>3, <3>1, <3>2, <3>3, <3>4, <3>6
  <2>6. time_running' # NoMinute /\ time_running' - gmtoff' = utc
    BY <1>2, <1>4
  <2>7. QED
    BY <1>2, <1>3, <2>1, <2>3, <2>4, <2>5, <2>6 DEF WithinWake
<1>10. QED
  BY <1>2, <1>6, <1>7, <1>8, <1>9 DEF IInv

\* The end of a wake: every planned step is behind.
LEMMA FinishWakeInv ==
    ASSUME IInv, FinishWake
    PROVE  IInv'
<1> DEFINE v == virtual_time
           t == time_running
           n == Len(work)
<1>1. /\ TypeOK /\ WildNotRepeated /\ ZonedOnce /\ WithinWake
      /\ pc = "evaluating" /\ next > n
  BY DEF IInv, FinishWake
<1>2. /\ virtual_time' = new_virtual /\ work' = << >> /\ next' = 1 /\ pc' = "top"
      /\ prev_gmtoff' = IF WentBack(v, t) THEN prev_gmtoff ELSE gmtoff
      /\ UNCHANGED <<clockVars, signalVars, wake, last_wild, time_running, gmtoff,
                     new_virtual, runVars>>
  BY DEF FinishWake, updates_previous_offset
<1>3. /\ v \in LocalMinutes /\ t \in LocalMinutes /\ gmtoff \in 0..MaxOffset
      /\ prev_gmtoff \in 0..MaxOffset /\ n \in Nat /\ next = n + 1
      /\ work = plan(v, t).steps /\ new_virtual = plan(v, t).virtual
  <2>1. work \in Seq(Steps) /\ next \in 1..(n + 1) /\ next > n
    BY <1>1 DEF TypeOK
  <2>2. n \in Nat /\ next = n + 1
    BY <2>1
  <2>3. QED
    BY <1>1, <2>2 DEF TypeOK, WithinWake
<1>4. n >= 1 /\ next > 1
  BY <1>3, PlanType
<1>5. /\ WokeLate(v, t) => n = t - v
      /\ JumpedForward(v, t) => n = t - v + 1
      /\ new_virtual = IF WentBack(v, t) THEN v ELSE t
  <2>1. n \in 1..Len(plan(v, t).steps)
    BY <1>3, <1>4
  <2>2. QED
    BY <1>3, <2>1, PlanSteps, PlanVirtual
<1>6. FixedDone = new_virtual /\ WildDone = t
  BY <1>3, <1>4, <1>5, Ranges DEF FixedDone, FixedDoneAt, WildDone, WildDoneAt, LocalMinutes
<1>7. TypeOK'
  <2>1. hup' \in BOOLEAN /\ term' \in BOOLEAN /\ steppedBack' \in BOOLEAN
    BY <1>1, <1>2 DEF clockVars, signalVars, TypeOK
  <2>2. work' \in Seq(Steps) /\ next' \in 1..(Len(work') + 1)
    BY <1>2
  <2>3. prev_gmtoff' \in Offsets
    BY <1>1, <1>2 DEF TypeOK
  <2>4. QED
    BY <1>1, <1>2, <2>1, <2>2, <2>3 DEF clockVars, runVars, TypeOK
<1>8. WildNotRepeated' /\ ZonedOnce'
  BY <1>1, <1>2 DEF WildNotRepeated, ZonedOnce, runVars
<1>9. BetweenWakes'
  <2>1. wildRun.minute = t /\ last_wild = t
    BY <1>1, <1>4, <1>6 DEF WithinWake
  <2>2. new_virtual - MAX_JUMP <= t /\ t <= new_virtual
    BY <1>3, <1>5 DEF WentBack, LocalMinutes
  <2>3. fixedRun = [minute |-> new_virtual, times |-> 1]
    BY <1>1, <1>6 DEF WithinWake
  <2>4. QED
    BY <1>2, <2>1, <2>2, <2>3 DEF BetweenWakes, WildBehindVirtual, runVars
<1>10. ReadsLater'
  <2> SUFFICES ASSUME ~steppedBack'
               PROVE  ReadsLater!2'
    BY DEF ReadsLater
  <2>1. ~steppedBack /\ utc' = utc /\ zonedRuns' = zonedRuns /\ pc' = "top"
    BY <1>2 DEF clockVars, runVars
  <2>2. /\ LastRead < t - gmtoff /\ t - gmtoff <= utc /\ 0 <= LastRead
        /\ \A u \in UtcMinutes : ZonedDone < u => zonedRuns[u] = 0
    BY <1>1, <2>1 DEF WithinWake, IInv, ReadsLater
  <2>3. ZonedDone = LastRead' /\ LastRead' \in {LastRead, t - gmtoff}
    BY <1>2, <1>3, <1>5 DEF ZonedDone, LastRead
  <2>4. LastRead \in Int /\ t - gmtoff \in Int /\ utc \in Int
    BY <1>1, <1>3 DEF LastRead, LocalMinutes, TypeOK, UtcMinutes
  <2>5. 0 <= LastRead' /\ LastRead' <= utc
    BY <2>2, <2>3, <2>4
  <2>6. QED
    BY <2>1, <2>2, <2>3, <2>5
<1>11. QED
  BY <1>2, <1>7, <1>8, <1>9, <1>10 DEF IInv

\* The step the evaluation loop stands at, against what has been done so far:
\* a step for the fixed-time jobs is for the next minute or a resync, one for
\* the wildcard jobs never for their last minute (unless it is filtered).
LEMMA CurrentStep ==
    ASSUME TypeOK, WithinWake, next <= Len(work)
    PROVE  LET v == virtual_time
               t == time_running
               s == work[next]
           IN  /\ s.minute \in LocalMinutes
               /\ s.offset = "Current" => s.minute = t
               /\ Wanted(s.pass, FALSE) =>
                     /\ \/ s.minute = FixedDone + 1
                        \/ /\ Far(v, t) /\ next = Len(work)
                           /\ s.minute = t /\ FixedDone = v
                     /\ ~WentBack(v, t)
                     /\ s.offset = (IF next = Len(work) THEN "Current" ELSE "Previous")
               /\ Wanted(s.pass, TRUE) =>
                     s.pass = "WildOnly" \/ last_wild # s.minute
               /\ s.pass = "WildOnly" =>
                     /\ next = 1 /\ s.minute = t /\ ~WokeLate(v, t)
                     /\ next < Len(work) \/ WentBack(v, t)
               /\ s.pass = "FixedOnly" => next > 1
               /\ FixedDoneAt(next + 1) =
                     (IF Wanted(s.pass, FALSE) THEN s.minute ELSE FixedDone)
               /\ Wanted(s.pass, TRUE) => WildDoneAt(next + 1) = s.minute
               /\ ~Wanted(s.pass, TRUE) => WildDoneAt(next + 1) = WildDone
<1> DEFINE v == virtual_time
           t == time_running
           n == Len(work)
           s == work[next]
<1>1. /\ v \in LocalMinutes /\ t \in LocalMinutes /\ v \in Int /\ t \in Int /\ 0 <= t
      /\ work = plan(v, t).steps /\ work \in Seq(Steps)
      /\ next \in 1..n /\ n \in Nat
  BY DEF TypeOK, WithinWake, LocalMinutes
<1>2. s \in Steps
  BY <1>1
<1>3. s.minute \in LocalMinutes
  BY <1>2 DEF Steps
<1>4. next = 1 => \/ last_wild = NoMinute
                  \/ last_wild \in Int /\ v - MAX_JUMP <= last_wild /\ last_wild <= v
  BY DEF TypeOK, WithinWake, WildBehindVirtual, LocalMinutes
<1>5. next > 1 => last_wild = WildDone
  BY DEF WithinWake
<1>6. CASE NormalTick(v, t) \/ Far(v, t)
  <2>1. n = 1 /\ next = 1 /\ s = Step(t, "All", "Current")
    BY <1>1, <1>6, PlanSteps
  <2>2. FixedDone = v /\ ~WentBack(v, t)
    BY <1>1, <1>6, <2>1, Ranges DEF FixedDone, FixedDoneAt, Far
  <2>3. t = v + 1 \/ Far(v, t)
    BY <1>1, <1>6 DEF NormalTick
  <2>4. last_wild # t
    BY <1>1, <1>4, <1>6, <2>1
       DEF Far, NormalTick, WokeLate, WentBack, JumpedForward, NoMinute
  <2>5. s.minute = t /\ s.offset = "Current" /\ s.pass = "All"
    BY <2>1 DEF Step
  <2>6. FixedDoneAt(next + 1) = t /\ WildDoneAt(next + 1) = t
    BY <1>6, <2>1, Ranges, <1>1 DEF FixedDoneAt, WildDoneAt, Far
  <2>7. Wanted(s.pass, FALSE) /\ Wanted(s.pass, TRUE)
    BY <2>5 DEF Wanted
  <2>8. QED
    BY <1>1, <1>3, <2>1, <2>2, <2>3, <2>4, <2>5, <2>6, <2>7
<1>7. CASE WokeLate(v, t)
  <2>1. n = t - v /\ s = Step(v + next, "All", OffsetFor(v + next, t))
    BY <1>1, <1>7, PlanSteps
  <2>2. /\ FixedDone = v + next - 1 /\ WildDone = v + next - 1
        /\ ~WentBack(v, t)
    BY <1>1, <1>7, Ranges DEF FixedDone, FixedDoneAt, WildDone, WildDoneAt
  <2>3. v + next >= t <=> next = n
    BY <1>1, <2>1
  <2>4. last_wild # v + next
    BY <1>1, <1>4, <1>5, <2>2 DEF NoMinute, LocalMinutes
  <2>5. /\ s.minute = v + next /\ s.pass = "All"
        /\ s.offset = (IF next = n THEN "Current" ELSE "Previous")
    BY <2>1, <2>3 DEF Step, OffsetFor
  <2>6. FixedDoneAt(next + 1) = v + next /\ WildDoneAt(next + 1) = v + next
    BY <1>1, <1>7, <2>2 DEF FixedDoneAt, WildDoneAt
  <2>7. Wanted(s.pass, FALSE) /\ Wanted(s.pass, TRUE)
    BY <2>5 DEF Wanted
  <2>8. s.minute = FixedDone + 1 /\ (next = n => s.minute = t)
    BY <1>1, <2>1, <2>2, <2>5
  <2>9. QED
    BY <1>3, <2>2, <2>4, <2>5, <2>6, <2>7, <2>8
<1>8. CASE JumpedForward(v, t)
  <2>1. /\ n = t - v + 1 /\ n > 1
        /\ next = 1 => s = Step(t, "WildOnly", "Current")
        /\ next > 1 => s = Step(v + next - 1, "FixedOnly", OffsetFor(v + next - 1, t))
    <3>1. next \in 1 .. Len(plan(v, t).steps) /\ n = Len(plan(v, t).steps) /\ s = plan(v, t).steps[next]
      BY <1>1
    <3>2. /\ n = t - v + 1
          /\ next = 1 => s = Step(t, "WildOnly", "Current")
          /\ next > 1 => s = Step(v + next - 1, "FixedOnly", OffsetFor(v + next - 1, t))
      BY <1>1, <1>8, <3>1, PlanSteps
    <3>3. n > 1
      BY <1>1, <1>8, <3>2, LimitAssumption DEF JumpedForward
    <3>4. QED
      BY <3>2, <3>3
  <2>2. /\ next > 1 => FixedDone = v + next - 2
        /\ ~WentBack(v, t) /\ ~WokeLate(v, t)
    BY <1>1, <1>8, Ranges DEF FixedDone, FixedDoneAt
  <2>3. v + next - 1 >= t <=> next = n
    BY <1>1, <2>1
  <2>4. CASE next = 1
    <3>1. s.pass = "WildOnly" /\ s.minute = t /\ s.offset = "Current"
      BY <2>1, <2>4 DEF Step
    <3>2. /\ FixedDoneAt(next + 1) = v /\ FixedDone = v
          /\ WildDoneAt(next + 1) = t
      BY <1>1, <1>8, <2>2, <2>4 DEF FixedDone, FixedDoneAt, WildDoneAt
    <3>3. ~Wanted(s.pass, FALSE) /\ Wanted(s.pass, TRUE)
      BY <3>1 DEF Wanted
    <3>4. QED
      BY <1>3, <2>1, <2>2, <2>4, <3>1, <3>2, <3>3
  <2>5. CASE next > 1
    <3>1. /\ s.pass = "FixedOnly" /\ s.minute = v + next - 1
          /\ s.offset = (IF next = n THEN "Current" ELSE "Previous")
      BY <2>1, <2>3, <2>5 DEF Step, OffsetFor
    <3>2. /\ s.minute = FixedDone + 1
          /\ next = n => s.minute = t
          /\ FixedDoneAt(next + 1) = s.minute
          /\ WildDoneAt(next + 1) = WildDone
      BY <1>1, <1>8, <2>1, <2>2, <2>5, <3>1 DEF FixedDoneAt, WildDone, WildDoneAt
    <3>3. Wanted(s.pass, FALSE) /\ ~Wanted(s.pass, TRUE)
      BY <3>1 DEF Wanted
    <3>4. QED
      BY <1>3, <2>2, <2>5, <3>1, <3>2, <3>3
  <2>6. next = 1 \/ next > 1
    BY <1>1
  <2>7. QED
    BY <2>4, <2>5, <2>6
<1>9. CASE WentBack(v, t)
  <2>1. n = 1 /\ next = 1 /\ s = Step(t, "WildOnly", "Current")
    BY <1>1, <1>9, PlanSteps
  <2>2. s.pass = "WildOnly" /\ s.minute = t /\ s.offset = "Current"
    BY <2>1 DEF Step
  <2>3. /\ FixedDoneAt(next + 1) = v /\ FixedDone = v
        /\ WildDoneAt(next + 1) = t /\ ~WokeLate(v, t)
    BY <1>1, <1>9, <2>1, Ranges DEF FixedDone, FixedDoneAt, WildDoneAt
  <2>4. ~Wanted(s.pass, FALSE) /\ Wanted(s.pass, TRUE)
    BY <2>2 DEF Wanted
  <2>5. QED
    BY <1>3, <1>9, <2>1, <2>2, <2>3, <2>4
<1>10. QED
  BY <1>6, <1>7, <1>8, <1>9 DEF Far

\* A filtered step: the wildcard jobs have just run for this very minute.
LEMMA SkipStepInv ==
    ASSUME IInv, SkipStep
    PROVE  IInv'
<1> DEFINE v == virtual_time
           t == time_running
           s == work[next]
<1>1. /\ TypeOK /\ WildNotRepeated /\ ZonedOnce /\ ReadsLater /\ WithinWake
      /\ pc = "evaluating" /\ next <= Len(work)
      /\ s.pass = "WildOnly" /\ last_wild = s.minute
  BY DEF IInv, SkipStep, SkipsRepeatedWild
<1>2. /\ next' = next + 1
      /\ UNCHANGED <<clockVars, signalVars, pc, wake, loopVars, time_running, gmtoff,
                     new_virtual, work, runVars>>
  BY DEF SkipStep
<1>3. next = 1 /\ s.minute = t /\ ~WokeLate(v, t)
  BY <1>1, CurrentStep
<1>4. /\ v \in LocalMinutes /\ t \in LocalMinutes /\ v \in Int /\ t \in Int /\ 0 <= t
      /\ Len(work) \in Nat
  BY <1>1 DEF TypeOK, WithinWake, LocalMinutes
<1>5. last_wild <= v /\ v - MAX_JUMP <= last_wild /\ wildRun.minute = t
  BY <1>1, <1>3, <1>4 DEF WithinWake, WildBehindVirtual, NoMinute
<1>6. WentBack(v, t)
  BY <1>1, <1>3, <1>4, <1>5 DEF WentBack
<1>7. TypeOK'
  <2>1. hup' \in BOOLEAN /\ term' \in BOOLEAN /\ steppedBack' \in BOOLEAN
    BY <1>1, <1>2 DEF clockVars, signalVars, TypeOK
  <2>2. next' \in 1..(Len(work') + 1)
    BY <1>1, <1>2, <1>3, <1>4
  <2>3. QED
    BY <1>1, <1>2, <2>1, <2>2 DEF clockVars, loopVars, runVars, TypeOK
<1>8. WildNotRepeated' /\ ZonedOnce'
  BY <1>1, <1>2 DEF WildNotRepeated, ZonedOnce, runVars
<1>9. ReadsLater'
  BY <1>1, <1>2 DEF ReadsLater, LastRead, clockVars, signalVars, loopVars, runVars
<1>10. WithinWake'
  <2>1. /\ FixedDone' = v /\ FixedDone = v
        /\ ZonedDone' = LastRead /\ ZonedDone = LastRead /\ LastRead' = LastRead
    BY <1>2, <1>6 DEF FixedDone, FixedDoneAt, ZonedDone, LastRead, loopVars
  <2>2. WildDone' = t
    BY <1>2, <1>3 DEF WildDone, WildDoneAt, loopVars
  <2>3. next' = 2
    BY <1>2, <1>3
  <2>4. wildRun' = wildRun /\ last_wild' = last_wild /\ fixedRun' = fixedRun
    BY <1>2 DEF loopVars, runVars
  <2>5. QED
    BY <1>1, <1>2, <1>3, <1>5, <2>1, <2>2, <2>3, <2>4
       DEF WithinWake, clockVars, loopVars, runVars
<1>11. QED
  BY <1>1, <1>2, <1>7, <1>8, <1>9, <1>10 DEF IInv

\* One evaluation: the fixed-time jobs advance by one minute or resync, the
\* wildcard jobs move to another minute, the CRON_TZ jobs to a later instant.
LEMMA RunStepInv ==
    ASSUME IInv, RunStep
    PROVE  IInv'
<1> DEFINE v == virtual_time
           t == time_running
           n == Len(work)
           s == work[next]
           m == s.minute
<1>1. /\ TypeOK /\ WildNotRepeated /\ ZonedOnce /\ ReadsLater /\ WithinWake
      /\ pc = "evaluating" /\ next <= n /\ ~SkipsRepeatedWild(s, last_wild)
  BY DEF IInv, RunStep
<1>2. /\ next' = next + 1
      /\ last_wild' = LastWildAfter(s, last_wild)
      /\ fixedRun' = IF Wanted(s.pass, FALSE) THEN Again(fixedRun, m) ELSE fixedRun
      /\ wildRun' = IF Wanted(s.pass, TRUE) THEN Again(wildRun, m) ELSE wildRun
      /\ zonedRuns' = IF Wanted(s.pass, FALSE) /\ VGmtoff(s) = gmtoff /\ ~steppedBack
                      THEN [zonedRuns EXCEPT ![Instant(s)] = @ + 1]
                      ELSE zonedRuns
      /\ UNCHANGED <<clockVars, signalVars, pc, wake, virtual_time, prev_gmtoff,
                     time_running, gmtoff, new_virtual, work>>
  BY DEF RunStep, clockVars
<1>3. /\ v \in LocalMinutes /\ t \in LocalMinutes /\ v \in Int /\ t \in Int /\ 0 <= t
      /\ gmtoff \in Int /\ prev_gmtoff \in Int
      /\ work = plan(v, t).steps /\ work \in Seq(Steps)
      /\ next \in 1..n /\ n \in Nat
  BY <1>1 DEF TypeOK, WithinWake, LocalMinutes
<1>4. s \in Steps /\ m \in LocalMinutes /\ m \in Int /\ m # NoMinute
  <2>1. s \in Steps
    BY <1>3
  <2>2. m \in LocalMinutes
    BY <2>1 DEF Steps
  <2>3. QED
    BY <2>1, <2>2 DEF LocalMinutes, NoMinute
<1>5. /\ s.offset = "Current" => m = t
      /\ Wanted(s.pass, FALSE) =>
            /\ \/ m = FixedDone + 1
               \/ Far(v, t) /\ next = n /\ m = t /\ FixedDone = v
            /\ ~WentBack(v, t)
            /\ s.offset = (IF next = n THEN "Current" ELSE "Previous")
      /\ Wanted(s.pass, TRUE) => s.pass = "WildOnly" \/ last_wild # m
      /\ s.pass = "WildOnly" =>
            next = 1 /\ m = t /\ ~WokeLate(v, t) /\ (next < n \/ WentBack(v, t))
      /\ s.pass = "FixedOnly" => next > 1
      /\ FixedDoneAt(next + 1) = (IF Wanted(s.pass, FALSE) THEN m ELSE FixedDone)
      /\ Wanted(s.pass, TRUE) => WildDoneAt(next + 1) = m
      /\ ~Wanted(s.pass, TRUE) => WildDoneAt(next + 1) = WildDone
  BY <1>1, CurrentStep
<1>6. /\ FixedDone' = IF Wanted(s.pass, FALSE) THEN m ELSE FixedDone
      /\ WildDone' = IF Wanted(s.pass, TRUE) THEN m ELSE WildDone
      /\ LastRead' = LastRead
  BY <1>2, <1>5 DEF FixedDone, FixedDoneAt, WildDone, WildDoneAt, LastRead
<1>7. FixedDone \in Int /\ (Wanted(s.pass, FALSE) => FixedDone # m)
  <2>1. FixedDone \in Int
    BY <1>3 DEF FixedDone, FixedDoneAt
  <2>2. Far(v, t) => v # t
    BY <1>3 DEF Far, WentBack
  <2>3. FixedDone # FixedDone + 1
    BY <2>1
  <2>4. QED
    BY <1>5, <2>1, <2>2, <2>3
<1>8. fixedRun' = [minute |-> FixedDone', times |-> 1]
  BY <1>1, <1>2, <1>6, <1>7 DEF WithinWake, Again
<1>9. /\ wildRun.minute = last_wild
      /\ wildRun.times \in Nat /\ wildRun.times <= 1
      /\ wildRun \in [minute : LocalMinutes \cup {NoMinute}, times : Nat]
  BY <1>1, <1>3 DEF WithinWake, WildBehindVirtual, WildNotRepeated, TypeOK
<1>10. /\ WildNotRepeated'
       /\ wildRun'.minute = WildDone' /\ last_wild' = WildDone'
       /\ wildRun' \in [minute : LocalMinutes \cup {NoMinute}, times : Nat]
       /\ last_wild' \in LocalMinutes \cup {NoMinute}
  <2>1. CASE Wanted(s.pass, TRUE)
    <3>1. last_wild # m
      BY <1>1, <1>5, <2>1 DEF SkipsRepeatedWild
    <3>2. wildRun' = [minute |-> m, times |-> 1]
      BY <1>2, <1>9, <2>1, <3>1 DEF Again
    <3>3. last_wild' = m /\ WildDone' = m
      BY <1>2, <1>6, <2>1 DEF LastWildAfter, Wanted
    <3>4. QED
      BY <1>4, <3>2, <3>3 DEF WildNotRepeated
  <2>2. CASE ~Wanted(s.pass, TRUE)
    <3>1. s.pass = "FixedOnly"
      BY <1>4, <2>2 DEF Wanted, Steps, Pass
    <3>2. next > 1
      BY <1>5, <3>1
    <3>3. wildRun' = wildRun /\ last_wild' = last_wild /\ WildDone' = WildDone
      BY <1>2, <1>6, <2>2, <3>1 DEF LastWildAfter
    <3>4. wildRun.minute = WildDone /\ last_wild = WildDone
      BY <1>1, <3>2 DEF WithinWake
    <3>5. QED
      BY <1>1, <1>9, <3>3, <3>4 DEF WildNotRepeated, TypeOK
  <2>3. QED
    BY <2>1, <2>2
\* The CRON_TZ jobs: nothing was evaluated at or after the step's instant.
<1>11. ASSUME ~steppedBack
       PROVE  /\ LastRead < t - gmtoff /\ 0 <= LastRead
              /\ LastRead \in Int /\ t - gmtoff \in Int
              /\ \A u \in UtcMinutes : ZonedDone < u => zonedRuns[u] = 0
              /\ t - gmtoff <= utc /\ t - gmtoff <= Horizon
  BY <1>1, <1>3, <1>11 DEF WithinWake, ReadsLater, LastRead
<1>12. ~Wanted(s.pass, FALSE) => ZonedDone' = ZonedDone
  <2> SUFFICES ASSUME ~Wanted(s.pass, FALSE)
               PROVE  ZonedDone' = ZonedDone
    OBVIOUS
  <2>1. s.pass = "WildOnly"
    BY <1>4 DEF Wanted, Steps, Pass
  <2>2. FixedDone' = FixedDone /\ LastRead' = LastRead
    BY <1>6
  <2>3. WentBack(v, t) \/ next < n
    BY <1>5, <2>1
  <2>4. next # n + 1 /\ (next < n => next + 1 # n + 1)
    BY <1>3
  <2>5. QED
    BY <1>2, <2>2, <2>3, <2>4 DEF ZonedDone
<1>13. ASSUME Wanted(s.pass, FALSE), VGmtoff(s) # gmtoff
       PROVE  ZonedDone' = ZonedDone
  <2>1. s.offset = "Previous" /\ prev_gmtoff # gmtoff /\ next # n /\ ~WentBack(v, t)
    BY <1>4, <1>5, <1>13 DEF VGmtoff, Steps
  <2>2. next # n + 1 /\ next + 1 # n + 1
    BY <1>3, <2>1
  <2>3. QED
    BY <1>2, <1>6, <2>1, <2>2 DEF ZonedDone
<1>14. ASSUME Wanted(s.pass, FALSE), VGmtoff(s) = gmtoff, ~steppedBack
       PROVE  ZonedDone' = Instant(s) /\ ZonedDone < Instant(s)
  <2>1. Instant(s) = m - gmtoff /\ ~WentBack(v, t) /\ FixedDone' = m /\ next # n + 1
    BY <1>3, <1>5, <1>6, <1>14 DEF Instant
  <2>2. ZonedDone = IF prev_gmtoff # gmtoff THEN LastRead ELSE FixedDone - gmtoff
    BY <2>1 DEF ZonedDone
  <2>3. LastRead < t - gmtoff /\ LastRead = v - prev_gmtoff
    BY <1>11, <1>14 DEF LastRead
  <2>4. CASE s.offset = "Current"
    <3>1. next = n /\ m = t
      BY <1>5, <1>14, <2>4
    <3>2. ZonedDone' = t - gmtoff
      BY <1>2, <2>1, <3>1 DEF ZonedDone
    <3>3. ZonedDone < t - gmtoff
      BY <1>3, <1>5, <1>7, <1>14, <2>2, <2>3, <3>1
    <3>4. QED
      BY <2>1, <3>1, <3>2, <3>3
  <2>5. CASE s.offset = "Previous"
    <3>1. prev_gmtoff = gmtoff /\ next # n /\ m = FixedDone + 1
      BY <1>5, <1>14, <2>5 DEF VGmtoff
    <3>2. next + 1 # n + 1
      BY <1>3, <3>1
    <3>3. ZonedDone' = m - gmtoff
      BY <1>2, <2>1, <3>1, <3>2 DEF ZonedDone
    <3>4. ZonedDone < m - gmtoff
      BY <1>3, <1>7, <2>2, <3>1
    <3>5. QED
      BY <2>1, <3>3, <3>4
  <2>6. QED
    BY <1>4, <2>4, <2>5 DEF Steps
<1>15. /\ ZonedOnce'
       /\ zonedRuns' \in [UtcMinutes -> Nat]
       /\ ~steppedBack => \A u \in UtcMinutes : ZonedDone' < u => zonedRuns'[u] = 0
  <2>1. CASE Wanted(s.pass, FALSE) /\ VGmtoff(s) = gmtoff /\ ~steppedBack
    <3> DEFINE i == Instant(s)
    <3>1. /\ ZonedDone' = i /\ ZonedDone < i
          /\ zonedRuns' = [zonedRuns EXCEPT ![i] = @ + 1]
          /\ zonedRuns \in [UtcMinutes -> Nat]
      BY <1>1, <1>2, <1>14, <2>1 DEF TypeOK
    <3>2. \A u \in UtcMinutes : ZonedDone < u => zonedRuns[u] = 0
      BY <1>11, <2>1
    <3>3. \A u \in UtcMinutes : zonedRuns[u] <= 1
      BY <1>1 DEF ZonedOnce
    <3>4. i \in Int /\ ZonedDone \in Int
      BY <1>3, <1>4, <1>7, <1>11, <2>1 DEF Instant, ZonedDone
    <3> HIDE DEF i
    <3>5. zonedRuns' \in [UtcMinutes -> Nat]
      <4>1. zonedRuns' = [u \in UtcMinutes |-> IF u = i THEN zonedRuns[u] + 1 ELSE zonedRuns[u]]
        BY <3>1
      <4>2. \A u \in UtcMinutes : zonedRuns[u] \in Nat /\ zonedRuns[u] + 1 \in Nat
        BY <3>1
      <4>3. QED
        BY <4>1, <4>2
    <3>6. \A u \in UtcMinutes : zonedRuns'[u] = IF u = i THEN 1 ELSE zonedRuns[u]
      BY <3>1, <3>2
    <3>7. \A u \in UtcMinutes : i < u => zonedRuns'[u] = 0
      BY <3>1, <3>2, <3>4, <3>6 DEF UtcMinutes
    <3>8. QED
      BY <3>1, <3>3, <3>5, <3>6, <3>7 DEF ZonedOnce
  <2>2. CASE ~(Wanted(s.pass, FALSE) /\ VGmtoff(s) = gmtoff /\ ~steppedBack)
    <3>1. zonedRuns' = zonedRuns
      BY <1>2, <2>2
    <3>2. ~steppedBack => ZonedDone' = ZonedDone
      BY <1>12, <1>13, <2>2
    <3>3. QED
      BY <1>1, <1>11, <3>1, <3>2 DEF ZonedOnce, TypeOK
  <2>3. QED
    BY <2>1, <2>2
<1>16. TypeOK'
  <2>1. hup' \in BOOLEAN /\ term' \in BOOLEAN /\ steppedBack' \in BOOLEAN
    BY <1>1, <1>2 DEF clockVars, signalVars, TypeOK
  <2>2. next' \in 1..(Len(work') + 1)
    BY <1>2, <1>3
  <2>3. fixedRun' \in [minute : LocalMinutes, times : Nat]
    <3>1. CASE Wanted(s.pass, FALSE)
      BY <1>4, <1>6, <1>8, <3>1
    <3>2. CASE ~Wanted(s.pass, FALSE)
      BY <1>1, <1>2, <3>2 DEF TypeOK
    <3>3. QED
      BY <3>1, <3>2
  <2>4. QED
    BY <1>1, <1>2, <1>10, <1>15, <2>1, <2>2, <2>3 DEF clockVars, TypeOK
<1>17. ReadsLater'
  BY <1>1, <1>2, <1>6 DEF ReadsLater, clockVars
<1>18. WithinWake'
  <2>1. next' # 1
    BY <1>2, <1>3
  <2>2. ~steppedBack' =>
            /\ LastRead' < time_running' - gmtoff'
            /\ time_running' - gmtoff' <= utc'
            /\ \A u \in UtcMinutes : ZonedDone' < u => zonedRuns'[u] = 0
    BY <1>2, <1>6, <1>11, <1>15 DEF clockVars
  <2>3. QED
    BY <1>1, <1>2, <1>8, <1>10, <2>1, <2>2 DEF WithinWake
<1>19. QED
  BY <1>1, <1>2, <1>10, <1>15, <1>16, <1>17, <1>18 DEF IInv

-----------------------------------------------------------------------------
(* The theorems.                                                           *)

\* IInv is an invariant of the main loop.
THEOREM Invariance == Spec => []IInv
<1>1. Init => IInv
  BY InitInv
<1>2. IInv /\ [Next]_vars => IInv'
  <2> SUFFICES ASSUME IInv, [Next]_vars
               PROVE  IInv'
    OBVIOUS
  <2>1. CASE Clock \/ Signals
    BY <2>1, EnvironmentInv
  <2>2. CASE Daemon
    BY <2>2, SleepInv, PlanWakeInv, SkipStepInv, RunStepInv, FinishWakeInv DEF Daemon
  <2>3. CASE UNCHANGED vars
    BY <2>3 DEF vars, clockVars, signalVars, loopVars, wakeVars, runVars, IInv, TypeOK,
                WildNotRepeated, ZonedOnce, ReadsLater, LastRead, BetweenWakes,
                WildBehindVirtual, WithinWake, FixedDone, FixedDoneAt, WildDone,
                WildDoneAt, ZonedDone
  <2>4. QED
    BY <2>1, <2>2, <2>3 DEF Next
<1>3. QED
  BY <1>1, <1>2, PTL DEF Spec

\* Every variable of run_forever keeps its type: in particular virtual_time
\* and the planned minutes stay local minutes.
THEOREM TypeCorrect == Spec => []TypeOK
<1>1. IInv => TypeOK
  BY DEF IInv
<1>2. QED
  BY <1>1, Invariance, PTL

\* Between two wakes the fixed-time jobs have been considered exactly up to
\* virtual_time.
THEOREM FixedUpToVirtualHolds == Spec => []FixedUpToVirtual
<1>1. IInv => FixedUpToVirtual
  BY DEF IInv, BetweenWakes, FixedUpToVirtual
<1>2. QED
  BY <1>1, Invariance, PTL

\* Every wake runs the wildcard jobs of the minute it woke in.
THEOREM WildEveryWakeHolds == Spec => []WildEveryWake
<1>1. IInv => WildEveryWake
  BY DEF IInv, BetweenWakes, WildEveryWake
<1>2. QED
  BY <1>1, Invariance, PTL

\* The wildcard jobs are never run twice in a row for one local minute.
THEOREM WildNotRepeatedHolds == Spec => []WildNotRepeated
<1>1. IInv => WildNotRepeated
  BY DEF IInv
<1>2. QED
  BY <1>1, Invariance, PTL

\* The fixed-time CRON_TZ jobs never see an instant twice while the system
\* clock is not set back.
THEOREM ZonedOnceHolds == Spec => []ZonedOnce
<1>1. IInv => ZonedOnce
  BY DEF IInv
<1>2. QED
  BY <1>1, Invariance, PTL

\* run_forever implements FixedMinutes: every evaluation of the fixed-time jobs
\* is for the next minute, or restarts further than MAX_JUMP away.
THEOREM FixedInOrderHolds == Spec => FixedInOrder
<1>1. Init => Promise!Init
  BY DEF Init, Promise!Init, Promise!Served, UtcMinutes
<1>2. IInv /\ [Next]_vars => [Promise!Next]_fixedRun
  <2> SUFFICES ASSUME IInv, [Next]_vars, fixedRun' # fixedRun
               PROVE  Promise!Next
    OBVIOUS
  <2> DEFINE v == virtual_time
             t == time_running
             s == work[next]
             m == s.minute
  <2>1. RunStep
    BY DEF Next, Clock, Signals, Daemon, Tick, StepClock, ChangeOffset, Sighup, Sigterm,
           GoToSleep, SleepEnds, Stop, Reload, PlanWake, SkipStep, FinishWake, vars, runVars
  <2>2. TypeOK /\ WithinWake /\ next <= Len(work)
    BY <2>1 DEF IInv, RunStep
  <2>3. Wanted(s.pass, FALSE) /\ fixedRun' = Again(fixedRun, m)
    BY <2>1 DEF RunStep
  <2>4. fixedRun = [minute |-> FixedDone, times |-> 1]
    BY <2>2 DEF WithinWake
  <2>5. /\ v \in Int /\ t \in Int /\ m \in Int /\ FixedDone \in Int
        /\ \/ m = FixedDone + 1
           \/ Far(v, t) /\ m = t /\ FixedDone = v
    <3>1. v \in Int /\ t \in Int /\ FixedDone \in Int
      BY <2>2 DEF TypeOK, WithinWake, LocalMinutes, FixedDone, FixedDoneAt
    <3>2. /\ m \in LocalMinutes
          /\ \/ m = FixedDone + 1
             \/ Far(v, t) /\ m = t /\ FixedDone = v
      BY <2>2, <2>3, CurrentStep
    <3>3. QED
      BY <3>1, <3>2 DEF LocalMinutes
  <2>6. Far(v, t) => v # t /\ (t - v = 1 \/ t - v > MAX_JUMP \/ v - t > MAX_JUMP)
    BY <2>5 DEF Far, NormalTick, WokeLate, JumpedForward, WentBack
  <2>7. fixedRun' = [minute |-> m, times |-> 1]
    BY <2>3, <2>4, <2>5, <2>6 DEF Again
  <2>8. CASE m = FixedDone + 1
    BY <2>4, <2>7, <2>8 DEF Promise!Next, Promise!Serve, Promise!Served
  <2>9. CASE m - FixedDone > MAX_JUMP \/ FixedDone - m > MAX_JUMP
    BY <2>4, <2>5, <2>7, <2>9 DEF Promise!Next, Promise!Restart, Promise!Served
  <2>10. QED
    BY <2>5, <2>6, <2>8, <2>9
<1>3. QED
  BY <1>1, <1>2, Invariance, PTL DEF Spec, FixedInOrder, Promise!Spec

-----------------------------------------------------------------------------
(* The calendar: minutes count its moments, in their order.                *)

\* A set of natural numbers has a first element.
LEMMA FirstOfNaturals ==
    ASSUME NEW T \in SUBSET Nat, T # {}
    PROVE  \E x \in T : \A y \in T : x <= y
<1> DEFINE R == OpToRel(<, Nat)
<1>1. \A x, y \in Nat : x < y => <<x, y>> \in R
  BY DEF OpToRel
<1>2. IsWellFoundedOn(R, Nat)
  BY NatLessThanWellFounded
<1> HIDE DEF R
<1>3. PICK x \in T : \A y \in T : ~(<<y, x>> \in R)
  BY <1>2, WFMin
<1>4. ASSUME NEW y \in T PROVE x <= y
  <2>1. x \in Nat /\ y \in Nat
    OBVIOUS
  <2>2. ~(<<y, x>> \in R)
    BY <1>3
  <2>3. ~(y < x)
    BY <1>1, <2>1, <2>2
  <2>4. QED
    BY <2>1, <2>3
<1>5. QED
  BY <1>4

\* A month ends before any later one begins.
LEMMA MonthOrder ==
    ASSUME NEW j \in 0 .. LastMonth, NEW k \in 0 .. LastMonth, j < k
    PROVE  Before[j] + DaysIn[j] <= Before[k]
<1> DEFINE Late == {l \in 0 .. LastMonth : j < l /\ ~(Before[j] + DaysIn[j] <= Before[l])}
<1>1. SUFFICES ASSUME Late # {} PROVE FALSE
  OBVIOUS
<1>2. LastMonth \in Nat /\ \A l \in 0 .. LastMonth : Before[l] \in Nat /\ DaysIn[l] \in Nat \ {0}
  BY CalendarAssumption
<1>3. PICK l \in Late : \A i \in Late : l <= i
  <2>1. Late \in SUBSET Nat
    BY <1>2
  <2> HIDE DEF Late
  <2>2. QED
    BY <1>1, <2>1, FirstOfNaturals
<1>4. l \in 1 .. LastMonth /\ l - 1 \in 0 .. LastMonth /\ j < l /\ Before[l] = Before[l - 1] + DaysIn[l - 1]
  BY <1>2, CalendarAssumption
<1>5. CASE l - 1 = j
  <2>1. Before[l] = Before[j] + DaysIn[j] /\ Before[l] \in Nat
    BY <1>2, <1>4, <1>5
  <2>2. QED
    BY <2>1
<1>6. CASE j < l - 1
  <2>1. l - 1 \notin Late
    BY <1>2, <1>3, <1>4
  <2>2. Before[j] + DaysIn[j] <= Before[l - 1]
    BY <1>4, <1>6, <2>1
  <2>3. Before[j] + DaysIn[j] <= Before[l]
    BY <1>2, <1>4, <2>2
  <2>4. QED
    BY <2>3
<1>7. QED
  BY <1>2, <1>4, <1>5, <1>6

\* The place of a digit: a number before it is the greater one.
LEMMA Digits ==
    ASSUME NEW w \in Nat \ {0}, NEW a \in Nat, NEW b \in Nat, NEW p \in 0 .. w - 1, NEW q \in 0 .. w - 1,
           a * w + p <= b * w + q
    PROVE  a <= b /\ (a = b => p <= q)
<1>1. CASE b < a
  <2>1. a - b - 1 \in Nat
    BY <1>1
  <2>2. (a - b - 1) * w \in Nat
    BY <2>1
  <2>3. a * w = b * w + w + (a - b - 1) * w
    OBVIOUS
  <2>4. a * w \in Nat /\ b * w \in Nat
    OBVIOUS
  <2>5. QED
    BY <2>2, <2>3, <2>4
<1>2. CASE a = b
  <2>1. a * w \in Nat
    OBVIOUS
  <2>2. QED
    BY <1>2, <2>1
<1>3. QED
  BY <1>1, <1>2

\* The days of the calendar, and the hours.
Day(x)  == Before[x.k] + x.d
Hour(x) == Day(x) * Hours + x.h

\* What a moment of the calendar is made of.
LEMMA MomentFacts ==
    ASSUME NEW x \in Moments
    PROVE  /\ x.k \in 0 .. LastMonth /\ x.d \in 1 .. DaysIn[x.k]
           /\ x.h \in 0 .. Hours - 1 /\ x.m \in 0 .. Minutes - 1
           /\ x = Moment(x.k, x.d, x.h, x.m)
           /\ Before[x.k] \in Nat /\ DaysIn[x.k] \in Nat \ {0}
           /\ Day(x) \in Nat /\ Hour(x) \in Nat /\ Minute(x) \in Nat
           /\ Minute(x) = Hour(x) * Minutes + x.m
<1>1. PICK k \in 0 .. LastMonth : x \in [k : {k}, d : 1 .. DaysIn[k], h : AllHours, m : AllMinutes]
  BY DEF Moments
<1>2. /\ x.k \in 0 .. LastMonth /\ x.d \in 1 .. DaysIn[x.k]
      /\ x.h \in 0 .. Hours - 1 /\ x.m \in 0 .. Minutes - 1
      /\ x = Moment(x.k, x.d, x.h, x.m)
  BY <1>1 DEF AllHours, AllMinutes, Moment
<1>3. Before[x.k] \in Nat /\ DaysIn[x.k] \in Nat \ {0} /\ Hours \in Nat \ {0} /\ Minutes \in Nat \ {0}
  BY <1>2, CalendarAssumption
<1>4. Day(x) \in Nat
  BY <1>2, <1>3 DEF Day
<1>5. Hour(x) \in Nat
  BY <1>2, <1>3, <1>4 DEF Hour
<1>6. Minute(x) = Hour(x) * Minutes + x.m
  BY DEF Minute, Hour, Day
<1>7. Minute(x) \in Nat
  BY <1>2, <1>3, <1>5, <1>6
<1>8. QED
  BY <1>2, <1>3, <1>4, <1>5, <1>6, <1>7

\* And what makes one.
LEMMA MomentIn ==
    ASSUME NEW k \in 0 .. LastMonth, NEW d \in 1 .. DaysIn[k],
           NEW h \in 0 .. Hours - 1, NEW m \in 0 .. Minutes - 1
    PROVE  /\ Moment(k, d, h, m) \in Moments
           /\ Moment(k, d, h, m).k = k /\ Moment(k, d, h, m).d = d
           /\ Moment(k, d, h, m).h = h /\ Moment(k, d, h, m).m = m
<1>1. Moment(k, d, h, m) \in [k : {k}, d : 1 .. DaysIn[k], h : AllHours, m : AllMinutes]
  BY DEF Moment, AllHours, AllMinutes
<1>2. Moment(k, d, h, m) \in Moments
  BY <1>1 DEF Moments
<1>3. QED
  BY <1>2 DEF Moment

\* Of two moments the earlier one is so at the first place where they differ.
LEMMA MinuteOrder ==
    ASSUME NEW x \in Moments, NEW y \in Moments, Minute(x) <= Minute(y)
    PROVE  /\ x.k <= y.k
           /\ x.k = y.k => x.d <= y.d
           /\ x.k = y.k /\ x.d = y.d => x.h <= y.h
           /\ x.k = y.k /\ x.d = y.d /\ x.h = y.h => x.m <= y.m
<1>1. /\ x.k \in 0 .. LastMonth /\ x.d \in 1 .. DaysIn[x.k]
      /\ x.h \in 0 .. Hours - 1 /\ x.m \in 0 .. Minutes - 1
      /\ Before[x.k] \in Nat /\ DaysIn[x.k] \in Nat \ {0}
      /\ Day(x) \in Nat /\ Hour(x) \in Nat
      /\ Minute(x) = Hour(x) * Minutes + x.m
  BY MomentFacts
<1>2. /\ y.k \in 0 .. LastMonth /\ y.d \in 1 .. DaysIn[y.k]
      /\ y.h \in 0 .. Hours - 1 /\ y.m \in 0 .. Minutes - 1
      /\ Before[y.k] \in Nat /\ DaysIn[y.k] \in Nat \ {0}
      /\ Day(y) \in Nat /\ Hour(y) \in Nat
      /\ Minute(y) = Hour(y) * Minutes + y.m
  BY MomentFacts
<1>3. Hours \in Nat \ {0} /\ Minutes \in Nat \ {0} /\ LastMonth \in Nat
  BY CalendarAssumption
<1>4. Hour(x) <= Hour(y) /\ (Hour(x) = Hour(y) => x.m <= y.m)
  BY <1>1, <1>2, <1>3, Digits
<1>5. Hour(x) = Day(x) * Hours + x.h /\ Hour(y) = Day(y) * Hours + y.h
  BY DEF Hour
<1>6. Day(x) <= Day(y) /\ (Day(x) = Day(y) => x.h <= y.h)
  BY <1>1, <1>2, <1>3, <1>4, <1>5, Digits
<1>7. Day(x) = Before[x.k] + x.d /\ Day(y) = Before[y.k] + y.d
  BY DEF Day
<1>8. x.k <= y.k
  <2>1. CASE y.k < x.k
    <3>1. Before[y.k] + DaysIn[y.k] <= Before[x.k]
      BY <1>1, <1>2, <2>1, MonthOrder
    <3>2. QED
      BY <1>1, <1>2, <1>6, <1>7, <3>1
  <2>2. QED
    BY <1>1, <1>2, <1>3, <2>1
<1>9. x.k = y.k => x.d <= y.d
  BY <1>1, <1>2, <1>6, <1>7
<1>10. x.k = y.k /\ x.d = y.d => Day(x) = Day(y)
  BY <1>7
<1>11. x.k = y.k /\ x.d = y.d /\ x.h = y.h => Hour(x) = Hour(y)
  BY <1>5, <1>10
<1>12. QED
  BY <1>4, <1>6, <1>8, <1>9, <1>10, <1>11

-----------------------------------------------------------------------------
(* The jumps.                                                              *)

\* Types of the places of a moment, as numbers.
LEMMA Places ==
    ASSUME NEW x \in Moments
    PROVE  /\ x.k \in Nat /\ x.d \in Nat /\ x.h \in Nat /\ x.m \in Nat /\ x.d >= 1
           /\ x.k <= LastMonth /\ x.d <= DaysIn[x.k] /\ x.h < Hours /\ x.m < Minutes
           /\ DaysIn[x.k] \in Nat /\ Minute(x) \in Nat
           /\ {LastMonth, Hours, Minutes} \subseteq Nat
<1>1. /\ x.k \in 0 .. LastMonth /\ x.d \in 1 .. DaysIn[x.k]
      /\ x.h \in 0 .. Hours - 1 /\ x.m \in 0 .. Minutes - 1
      /\ DaysIn[x.k] \in Nat \ {0} /\ Minute(x) \in Nat
  BY MomentFacts
<1>2. LastMonth \in Nat /\ Hours \in Nat \ {0} /\ Minutes \in Nat \ {0}
  BY CalendarAssumption
<1>3. QED
  BY <1>1, <1>2

\* Moments that agree at each place are the same.
LEMMA SameMoment ==
    ASSUME NEW x \in Moments, NEW y \in Moments, x.k = y.k, x.d = y.d, x.h = y.h, x.m = y.m
    PROVE  x = y
BY MomentFacts

\* The first minute of the next month, if the calendar has one.
NextMonth(x) == Moment(x.k + 1, 1, 0, 0)

\* A skipped month ends where the next one begins, or with the calendar.
LEMMA NextMonthFacts ==
    ASSUME NEW x \in Moments, x.k < LastMonth
    PROVE  /\ NextMonth(x) \in Moments
           /\ NextMonth(x).k = x.k + 1 /\ NextMonth(x).d = 1 /\ NextMonth(x).h = 0 /\ NextMonth(x).m = 0
<1>1. x.k + 1 \in 0 .. LastMonth
  BY Places
<1>2. 1 \in 1 .. DaysIn[x.k + 1] /\ 0 \in 0 .. Hours - 1 /\ 0 \in 0 .. Minutes - 1
  BY <1>1, CalendarAssumption
<1>3. QED
  BY <1>1, <1>2, MomentIn DEF NextMonth

\* What comes before the next month is in this one.
LEMMA WithinMonth ==
    ASSUME NEW x \in Moments, x.k < LastMonth, NEW y \in Moments, Minute(x) <= Minute(y)
    PROVE  /\ Minute(x) < Minute(NextMonth(x))
           /\ Minute(y) < Minute(NextMonth(x)) => y.k = x.k
<1> DEFINE z == NextMonth(x)
<1>1. z \in Moments /\ z.k = x.k + 1 /\ z.d = 1 /\ z.h = 0 /\ z.m = 0
  BY NextMonthFacts
<1> HIDE DEF z
<1>2. Minute(x) < Minute(z)
  <2>1. CASE Minute(z) <= Minute(x)
    <3>1. z.k <= x.k
      BY <1>1, <2>1, MinuteOrder
    <3>2. QED
      BY <1>1, <3>1, Places
  <2>2. QED
    BY <1>1, <2>1, Places
<1>3. ASSUME Minute(y) < Minute(z) PROVE y.k = x.k
  <2>1. x.k <= y.k /\ Minute(y) <= Minute(z) /\ Minute(y) # Minute(z)
    BY <1>1, <1>3, MinuteOrder, Places
  <2>2. /\ y.k <= z.k
        /\ y.k = z.k => y.d <= z.d
        /\ y.k = z.k /\ y.d = z.d => y.h <= z.h
        /\ y.k = z.k /\ y.d = z.d /\ y.h = z.h => y.m <= z.m
    BY <1>1, <2>1, MinuteOrder
  <2>3. CASE y.k = z.k
    <3>1. y.d = z.d /\ y.h = z.h /\ y.m = z.m
      BY <1>1, <2>2, <2>3, Places
    <3>2. y = z
      BY <1>1, <2>3, <3>1, SameMoment
    <3>3. QED
      BY <2>1, <3>2
  <2>4. QED
    BY <1>1, <2>1, <2>2, <2>3, Places
<1>4. QED
  BY <1>2, <1>3 DEF z

\* What comes before the next day is on this one.
LEMMA WithinDay ==
    ASSUME NEW x \in Moments, x.k < LastMonth, NEW y \in Moments, Minute(x) <= Minute(y)
    PROVE  /\ NextDay(x) \in Moments /\ Minute(x) < Minute(NextDay(x))
           /\ Minute(y) < Minute(NextDay(x)) => y.k = x.k /\ y.d = x.d
<1>1. CASE ~(x.d < DaysIn[x.k])
  <2>1. NextDay(x) = NextMonth(x)
    BY <1>1 DEF NextDay, NextMonth
  <2>2. x.d = DaysIn[x.k]
    BY <1>1, Places
  <2>3. y.k = x.k => x.d <= y.d /\ y.d <= DaysIn[x.k]
    BY MinuteOrder, Places
  <2>4. y.k = x.k => y.d = x.d
    BY <2>2, <2>3, Places
  <2>5. QED
    BY <2>1, <2>4, NextMonthFacts, WithinMonth
<1>2. CASE x.d < DaysIn[x.k]
  <2> DEFINE z == Moment(x.k, x.d + 1, 0, 0)
  <2>1. NextDay(x) = z
    BY <1>2 DEF NextDay
  <2>2. z \in Moments /\ z.k = x.k /\ z.d = x.d + 1 /\ z.h = 0 /\ z.m = 0
    <3>1. x.k \in 0 .. LastMonth
      BY MomentFacts
    <3>2. x.d + 1 \in 1 .. DaysIn[x.k]
      BY <1>2, Places
    <3>3. 0 \in 0 .. Hours - 1 /\ 0 \in 0 .. Minutes - 1
      BY CalendarAssumption
    <3>4. QED
      BY <3>1, <3>2, <3>3, MomentIn
  <2> HIDE DEF z
  <2>3. Minute(x) < Minute(z)
    <3>1. CASE Minute(z) <= Minute(x)
      <4>1. z.d <= x.d
        BY <2>2, <3>1, MinuteOrder
      <4>2. QED
        BY <2>2, <4>1, Places
    <3>2. QED
      BY <2>2, <3>1, Places
  <2>4. ASSUME Minute(y) < Minute(z) PROVE y.k = x.k /\ y.d = x.d
    <3>1. /\ x.k <= y.k /\ (x.k = y.k => x.d <= y.d)
          /\ Minute(y) <= Minute(z) /\ Minute(y) # Minute(z)
      BY <2>2, <2>4, MinuteOrder, Places
    <3>2. /\ y.k <= z.k
          /\ y.k = z.k => y.d <= z.d
          /\ y.k = z.k /\ y.d = z.d => y.h <= z.h
          /\ y.k = z.k /\ y.d = z.d /\ y.h = z.h => y.m <= z.m
      BY <2>2, <3>1, MinuteOrder
    <3>3. y.k = x.k
      BY <2>2, <3>1, <3>2, Places
    <3>4. CASE y.d = z.d
      <4>1. y.h = z.h /\ y.m = z.m
        BY <2>2, <3>2, <3>3, <3>4, Places
      <4>2. y = z
        BY <2>2, <3>3, <3>4, <4>1, SameMoment
      <4>3. QED
        BY <3>1, <4>2
    <3>5. QED
      BY <2>2, <3>1, <3>2, <3>3, <3>4, Places
  <2>5. QED
    BY <2>1, <2>2, <2>3, <2>4
<1>3. QED
  BY <1>1, <1>2

\* What comes before the next hour is in this one.
LEMMA WithinHour ==
    ASSUME NEW x \in Moments, x.k < LastMonth, NEW y \in Moments, Minute(x) <= Minute(y)
    PROVE  /\ NextHour(x) \in Moments /\ Minute(x) < Minute(NextHour(x))
           /\ Minute(y) < Minute(NextHour(x)) => y.k = x.k /\ y.d = x.d /\ y.h = x.h
<1>1. CASE ~(x.h + 1 < Hours)
  <2>1. NextHour(x) = NextDay(x)
    BY <1>1 DEF NextHour
  <2>2. x.h + 1 = Hours
    BY <1>1, Places
  <2>3. y.k = x.k /\ y.d = x.d => x.h <= y.h /\ y.h < Hours
    BY MinuteOrder, Places
  <2>4. y.k = x.k /\ y.d = x.d => y.h = x.h
    BY <2>2, <2>3, Places
  <2>5. QED
    BY <2>1, <2>4, WithinDay
<1>2. CASE x.h + 1 < Hours
  <2> DEFINE z == Moment(x.k, x.d, x.h + 1, 0)
  <2>1. NextHour(x) = z
    BY <1>2 DEF NextHour
  <2>2. z \in Moments /\ z.k = x.k /\ z.d = x.d /\ z.h = x.h + 1 /\ z.m = 0
    <3>1. x.k \in 0 .. LastMonth /\ x.d \in 1 .. DaysIn[x.k]
      BY MomentFacts
    <3>2. x.h + 1 \in 0 .. Hours - 1
      BY <1>2, Places
    <3>3. 0 \in 0 .. Minutes - 1
      BY CalendarAssumption
    <3>4. QED
      BY <3>1, <3>2, <3>3, MomentIn
  <2> HIDE DEF z
  <2>3. Minute(x) < Minute(z)
    <3>1. CASE Minute(z) <= Minute(x)
      <4>1. z.h <= x.h
        BY <2>2, <3>1, MinuteOrder
      <4>2. QED
        BY <2>2, <4>1, Places
    <3>2. QED
      BY <2>2, <3>1, Places
  <2>4. ASSUME Minute(y) < Minute(z) PROVE y.k = x.k /\ y.d = x.d /\ y.h = x.h
    <3>1. /\ x.k <= y.k /\ (x.k = y.k => x.d <= y.d) /\ (x.k = y.k /\ x.d = y.d => x.h <= y.h)
          /\ Minute(y) <= Minute(z) /\ Minute(y) # Minute(z)
      BY <2>2, <2>4, MinuteOrder, Places
    <3>2. /\ y.k <= z.k
          /\ y.k = z.k => y.d <= z.d
          /\ y.k = z.k /\ y.d = z.d => y.h <= z.h
          /\ y.k = z.k /\ y.d = z.d /\ y.h = z.h => y.m <= z.m
      BY <2>2, <3>1, MinuteOrder
    <3>3. y.k = x.k /\ y.d = x.d
      BY <2>2, <3>1, <3>2, Places
    <3>4. CASE y.h = z.h
      <4>1. y.m = z.m
        BY <2>2, <3>2, <3>3, <3>4, Places
      <4>2. y = z
        BY <2>2, <3>3, <3>4, <4>1, SameMoment
      <4>3. QED
        BY <3>1, <4>2
    <3>5. QED
      BY <2>2, <3>1, <3>2, <3>3, <3>4, Places
  <2>5. QED
    BY <2>1, <2>2, <2>3, <2>4
<1>3. QED
  BY <1>1, <1>2

\* Nothing comes before the next minute.
LEMMA WithinMinute ==
    ASSUME NEW x \in Moments, x.k < LastMonth, NEW y \in Moments, Minute(x) <= Minute(y)
    PROVE  /\ NextMinute(x) \in Moments /\ Minute(x) < Minute(NextMinute(x))
           /\ Minute(y) < Minute(NextMinute(x)) => y = x
<1>1. CASE ~(x.m + 1 < Minutes)
  <2>1. NextMinute(x) = NextHour(x)
    BY <1>1 DEF NextMinute
  <2>2. x.m + 1 = Minutes
    BY <1>1, Places
  <2>3. y.k = x.k /\ y.d = x.d /\ y.h = x.h => x.m <= y.m /\ y.m < Minutes
    BY MinuteOrder, Places
  <2>4. y.k = x.k /\ y.d = x.d /\ y.h = x.h => y.m = x.m
    BY <2>2, <2>3, Places
  <2>5. QED
    BY <2>1, <2>4, WithinHour, SameMoment
<1>2. CASE x.m + 1 < Minutes
  <2> DEFINE z == Moment(x.k, x.d, x.h, x.m + 1)
  <2>1. NextMinute(x) = z
    <3>1. x = Moment(x.k, x.d, x.h, x.m)
      BY MomentFacts
    <3>2. [x EXCEPT !.m = @ + 1] = z
      BY <3>1 DEF Moment
    <3>3. QED
      BY <1>2, <3>2 DEF NextMinute
  <2>2. z \in Moments /\ z.k = x.k /\ z.d = x.d /\ z.h = x.h /\ z.m = x.m + 1
    <3>1. x.k \in 0 .. LastMonth /\ x.d \in 1 .. DaysIn[x.k] /\ x.h \in 0 .. Hours - 1
      BY MomentFacts
    <3>2. x.m + 1 \in 0 .. Minutes - 1
      BY <1>2, Places
    <3>3. QED
      BY <3>1, <3>2, MomentIn
  <2> HIDE DEF z
  <2>3. Minute(x) < Minute(z)
    <3>1. CASE Minute(z) <= Minute(x)
      <4>1. z.m <= x.m
        BY <2>2, <3>1, MinuteOrder
      <4>2. QED
        BY <2>2, <4>1, Places
    <3>2. QED
      BY <2>2, <3>1, Places
  <2>4. ASSUME Minute(y) < Minute(z) PROVE y = x
    <3>1. /\ x.k <= y.k /\ (x.k = y.k => x.d <= y.d) /\ (x.k = y.k /\ x.d = y.d => x.h <= y.h)
          /\ x.k = y.k /\ x.d = y.d /\ x.h = y.h => x.m <= y.m
      BY MinuteOrder
    <3>2. Minute(y) <= Minute(z) /\ Minute(y) # Minute(z)
      BY <2>2, <2>4, Places
    <3>3. /\ y.k <= z.k
          /\ y.k = z.k => y.d <= z.d
          /\ y.k = z.k /\ y.d = z.d => y.h <= z.h
          /\ y.k = z.k /\ y.d = z.d /\ y.h = z.h => y.m <= z.m
      BY <2>2, <3>2, MinuteOrder
    <3>4. y.k = x.k /\ y.d = x.d /\ y.h = x.h
      BY <2>2, <3>1, <3>3, Places
    <3>5. y.m # z.m
      BY <2>2, <3>2, <3>4, SameMoment
    <3>6. y.m = x.m
      BY <2>2, <3>1, <3>3, <3>4, <3>5, Places
    <3>7. QED
      BY <3>4, <3>6, SameMoment
  <2>5. QED
    BY <2>1, <2>2, <2>3, <2>4
<1>3. QED
  BY <1>1, <1>2

-----------------------------------------------------------------------------
(* The search passes no match.                                             *)

\* What the search has passed does not match, and it stays in the calendar.
SearchInv ==
    /\ after \in Moments /\ after.k + Months * Years < LastMonth
    /\ reached \in Moments /\ Minute(after) < Minute(reached)
    /\ result \in {"searching", "found"} => Unmatched(Minute(reached))
    /\ NextIsFirst

\* The limit is a moment, from which on there is another month.
LEMMA LimitFacts ==
    ASSUME SearchInv
    PROVE  limit \in Moments /\ limit.k < LastMonth
<1> DEFINE k == after.k + Months * Years
<1> DEFINE d == IF after.d > DaysIn[k] THEN DaysIn[k] ELSE after.d
<1>1. after \in Moments /\ k < LastMonth
  BY DEF SearchInv
<1>2. k \in Nat
  <2>1. Months \in Nat /\ Years \in Nat /\ after.k \in Nat
    BY <1>1, Places, CalendarAssumption
  <2>2. Months * Years \in Nat
    BY <2>1
  <2>3. QED
    BY <2>1, <2>2
<1> HIDE DEF k
<1>3. k \in 0 .. LastMonth /\ DaysIn[k] \in Nat \ {0}
  <2>1. LastMonth \in Nat /\ DaysIn \in [0 .. LastMonth -> Nat \ {0}]
    BY CalendarAssumption
  <2>2. k \in 0 .. LastMonth
    BY <1>1, <1>2, <2>1
  <2>3. QED
    BY <2>1, <2>2
<1>4. d \in 1 .. DaysIn[k] /\ after.h \in 0 .. Hours - 1 /\ after.m \in 0 .. Minutes - 1
  BY <1>1, <1>3, Places, MomentFacts
<1>5. limit = Moment(k, d, after.h, after.m)
  <2>1. after = Moment(after.k, after.d, after.h, after.m)
    BY <1>1, MomentFacts
  <2>2. limit = [after EXCEPT !.k = k, !.d = IF @ > DaysIn[k] THEN DaysIn[k] ELSE @]
    BY DEF limit, k
  <2>3. QED
    BY <2>1, <2>2 DEF Moment
<1> HIDE DEF d
<1>6. QED
  BY <1>1, <1>3, <1>4, <1>5, MomentIn

\* Within the limit there is another month.
LEMMA InCalendar ==
    ASSUME SearchInv, InTime
    PROVE  reached.k < LastMonth
<1>1. reached \in Moments /\ limit \in Moments /\ limit.k < LastMonth
  BY LimitFacts DEF SearchInv
<1>2. reached.k <= limit.k
  BY <1>1, MinuteOrder DEF InTime
<1>3. QED
  BY <1>1, <1>2, Places

\* A jump over minutes that do not match keeps the invariant.
LEMMA JumpKeeps ==
    ASSUME SearchInv, result = "searching", NEW z \in Moments, Jump(z), Minute(reached) < Minute(z),
           \A y \in Moments : Minute(reached) <= Minute(y) /\ Minute(y) < Minute(z) => ~matches(spec, y)
    PROVE  SearchInv'
<1>1. reached' = z /\ result' = result /\ spec' = spec /\ after' = after
  BY DEF Jump
<1>2. /\ after \in Moments /\ after.k + Months * Years < LastMonth
      /\ reached \in Moments /\ Minute(after) < Minute(reached) /\ Unmatched(Minute(reached))
  BY DEF SearchInv
<1>3. Minute(after) < Minute(z)
  BY <1>2, Places
<1>4. ASSUME NEW y \in Moments, Minute(after) < Minute(y), Minute(y) < Minute(z)
      PROVE  ~matches(spec, y)
  <2>1. CASE Minute(y) < Minute(reached)
    BY <1>2, <1>4, <2>1 DEF Unmatched
  <2>2. CASE Minute(reached) <= Minute(y)
    BY <1>4, <2>2
  <2>3. QED
    BY <1>2, <2>1, <2>2, Places
<1>5. Minute(after)' = Minute(after) /\ Minute(reached)' = Minute(z)
  BY <1>1 DEF Minute
<1>6. Unmatched(Minute(reached))'
  <2>1. ASSUME NEW y \in Moments, Minute(after) < Minute(y), Minute(y) < Minute(reached')
        PROVE  ~matches(spec, y)
    BY <1>1, <1>4, <2>1
  <2>2. QED
    BY <1>1, <2>1 DEF Unmatched, Minute, matches, day_matches, weekday, month
<1>7. NextIsFirst'
  BY <1>1 DEF NextIsFirst
<1>8. QED
  BY <1>1, <1>2, <1>3, <1>5, <1>6, <1>7 DEF SearchInv

\* A month that is not asked for has no match.
LEMMA SkipMonthKeeps ==
    ASSUME SearchInv, SkipMonth
    PROVE  SearchInv'
<1>1. reached \in Moments /\ reached.k < LastMonth /\ result = "searching"
  BY InCalendar DEF SkipMonth, SearchInv
<1>2. Jump(NextMonth(reached)) /\ month(reached) \notin spec.months
  BY DEF SkipMonth, NextMonth
<1>3. ASSUME NEW y \in Moments, Minute(reached) <= Minute(y), Minute(y) < Minute(NextMonth(reached))
      PROVE  ~matches(spec, y)
  <2>1. y.k = reached.k
    BY <1>1, <1>3, WithinMonth
  <2>2. QED
    BY <1>2, <2>1 DEF matches, month
<1>4. NextMonth(reached) \in Moments /\ Minute(reached) < Minute(NextMonth(reached))
  <2>1. Minute(reached) <= Minute(reached)
    BY <1>1, Places
  <2>2. QED
    BY <1>1, <2>1, NextMonthFacts, WithinMonth
<1>5. QED
  BY <1>1, <1>2, <1>3, <1>4, JumpKeeps

\* A day that does not match has none.
LEMMA SkipDayKeeps ==
    ASSUME SearchInv, SkipDay
    PROVE  SearchInv'
<1>1. reached \in Moments /\ reached.k < LastMonth /\ result = "searching" /\ Minute(reached) <= Minute(reached)
  BY InCalendar, Places DEF SkipDay, SearchInv
<1>2. Jump(NextDay(reached)) /\ ~day_matches(spec, reached)
  BY DEF SkipDay
<1>3. ASSUME NEW y \in Moments, Minute(reached) <= Minute(y), Minute(y) < Minute(NextDay(reached))
      PROVE  ~matches(spec, y)
  <2>1. y.k = reached.k /\ y.d = reached.d
    BY <1>1, <1>3, WithinDay
  <2>2. QED
    BY <1>2, <2>1 DEF matches, day_matches, weekday
<1>4. NextDay(reached) \in Moments /\ Minute(reached) < Minute(NextDay(reached))
  BY <1>1, WithinDay
<1>5. QED
  BY <1>1, <1>2, <1>3, <1>4, JumpKeeps

\* An hour that is not asked for has none.
LEMMA SkipHourKeeps ==
    ASSUME SearchInv, SkipHour
    PROVE  SearchInv'
<1>1. reached \in Moments /\ reached.k < LastMonth /\ result = "searching" /\ Minute(reached) <= Minute(reached)
  BY InCalendar, Places DEF SkipHour, SearchInv
<1>2. Jump(NextHour(reached)) /\ reached.h \notin spec.hours
  BY DEF SkipHour
<1>3. ASSUME NEW y \in Moments, Minute(reached) <= Minute(y), Minute(y) < Minute(NextHour(reached))
      PROVE  ~matches(spec, y)
  BY <1>1, <1>2, <1>3, WithinHour DEF matches
<1>4. NextHour(reached) \in Moments /\ Minute(reached) < Minute(NextHour(reached))
  BY <1>1, WithinHour
<1>5. QED
  BY <1>1, <1>2, <1>3, <1>4, JumpKeeps

\* A minute that is not asked for is none.
LEMMA SkipMinuteKeeps ==
    ASSUME SearchInv, SkipMinute
    PROVE  SearchInv'
<1>1. reached \in Moments /\ reached.k < LastMonth /\ result = "searching" /\ Minute(reached) <= Minute(reached)
  BY InCalendar, Places DEF SkipMinute, SearchInv
<1>2. Jump(NextMinute(reached)) /\ reached.m \notin spec.minutes
  BY DEF SkipMinute
<1>3. ASSUME NEW y \in Moments, Minute(reached) <= Minute(y), Minute(y) < Minute(NextMinute(reached))
      PROVE  ~matches(spec, y)
  BY <1>1, <1>2, <1>3, WithinMinute DEF matches
<1>4. NextMinute(reached) \in Moments /\ Minute(reached) < Minute(NextMinute(reached))
  BY <1>1, WithinMinute
<1>5. QED
  BY <1>1, <1>2, <1>3, <1>4, JumpKeeps

\* The search ends at a match, or behind the limit.
LEMMA EndSearchKeeps ==
    ASSUME SearchInv, EndSearch
    PROVE  SearchInv'
<1>1. reached' = reached /\ spec' = spec /\ after' = after /\ result = "searching"
  BY DEF EndSearch
<1>2. /\ after \in Moments /\ reached \in Moments /\ limit \in Moments
      /\ Minute(after) < Minute(reached) /\ Unmatched(Minute(reached))
  BY <1>1, LimitFacts DEF SearchInv
<1>3. Minute(reached)' = Minute(reached) /\ Minute(after)' = Minute(after) /\ Minute(limit)' = Minute(limit)
  BY <1>1 DEF Minute, limit
<1>4. \A n : Unmatched(n)' = Unmatched(n)
  BY <1>1 DEF Unmatched, Minute, matches, day_matches, weekday, month
<1>5. Unmatched(Minute(reached))'
  BY <1>1, <1>2, <1>4
<1>6. NextIsFirst'
  <2>1. CASE InTime /\ matches(spec, reached) /\ result' = "found"
    <3>1. matches(spec, reached)'
      BY <1>1, <2>1 DEF matches, day_matches, weekday, month
    <3>2. QED
      BY <1>2, <1>3, <1>5, <2>1, <3>1 DEF NextIsFirst
  <2>2. CASE ~InTime /\ result' = "none"
    <3>1. Minute(limit) + 1 <= Minute(reached)
      BY <1>2, <2>2, Places DEF InTime
    <3>2. Unmatched(Minute(limit) + 1)
      <4>1. ASSUME NEW y \in Moments, Minute(after) < Minute(y), Minute(y) < Minute(limit) + 1
            PROVE  Minute(y) < Minute(reached)
        BY <1>2, <3>1, <4>1, Places
      <4>2. QED
        BY <1>2, <4>1 DEF Unmatched
    <3>3. Unmatched(Minute(limit) + 1)'
      BY <1>1, <1>3, <1>4, <3>2
    <3>4. QED
      BY <2>2, <3>3 DEF NextIsFirst
  <2>3. QED
    BY <2>1, <2>2 DEF EndSearch
<1>7. QED
  BY <1>1, <1>2, <1>3, <1>5, <1>6 DEF SearchInv

\* A search begins one minute after the moment asked for.
LEMMA InitSearchKeeps == InitSearch => SearchInv
<1> SUFFICES ASSUME InitSearch PROVE SearchInv
  OBVIOUS
<1>1. PICK f \in FirstDays, h \in AllHours, m \in AllMinutes : after = Moment(f[1], f[2], h, m)
  BY DEF InitSearch
<1>2. f[1] \in Nat /\ f[1] + Months * Years < LastMonth /\ f[2] \in 1 .. DaysIn[f[1]] /\ LastMonth \in Nat
  BY CalendarAssumption
<1>3. f[1] < LastMonth
  <2>1. Months * Years \in Nat
    BY CalendarAssumption
  <2>2. QED
    BY <1>2, <2>1
<1>4. f[1] \in 0 .. LastMonth
  BY <1>2, <1>3
<1>5. after \in Moments /\ after.k = f[1]
  BY <1>1, <1>2, <1>4, MomentIn DEF AllHours, AllMinutes
<1>6. Minute(after) <= Minute(after) /\ reached = NextMinute(after) /\ result = "searching"
  BY <1>5, Places DEF InitSearch
<1>7. reached \in Moments /\ Minute(after) < Minute(reached)
  BY <1>3, <1>5, <1>6, WithinMinute
<1>8. Unmatched(Minute(reached))
  <2>1. ASSUME NEW y \in Moments, Minute(after) < Minute(y), Minute(y) < Minute(reached)
        PROVE  FALSE
    <3>1. Minute(after) <= Minute(y)
      BY <1>5, <2>1, Places
    <3>2. y = after
      BY <1>3, <1>5, <1>6, <2>1, <3>1, WithinMinute
    <3>3. QED
      BY <1>5, <2>1, <3>2, Places
  <2>2. QED
    BY <2>1 DEF Unmatched
<1>9. QED
  BY <1>2, <1>5, <1>6, <1>7, <1>8 DEF SearchInv, NextIsFirst

\* The search stays in the calendar and passes no match, jump by jump.
THEOREM SearchInvariance == SearchSpec => []SearchInv
<1>1. InitSearch => SearchInv
  BY InitSearchKeeps
<1>2. SearchInv /\ [NextSearch]_search => SearchInv'
  <2> SUFFICES ASSUME SearchInv, [NextSearch]_search PROVE SearchInv'
    OBVIOUS
  <2>1. CASE SkipMonth
    BY <2>1, SkipMonthKeeps
  <2>2. CASE SkipDay
    BY <2>2, SkipDayKeeps
  <2>3. CASE SkipHour
    BY <2>3, SkipHourKeeps
  <2>4. CASE SkipMinute
    BY <2>4, SkipMinuteKeeps
  <2>5. CASE EndSearch
    BY <2>5, EndSearchKeeps
  <2>6. CASE UNCHANGED search
    BY <2>6 DEF search, SearchInv, NextIsFirst, Unmatched, Minute, limit, matches, day_matches, weekday, month
  <2>7. QED
    BY <2>1, <2>2, <2>3, <2>4, <2>5, <2>6 DEF NextSearch
<1>3. QED
  BY <1>1, <1>2, PTL DEF SearchSpec

\* In every calendar and for every schedule next_after finds the first match, or there is
\* none up to the limit.
THEOREM NextIsFirstHolds == SearchSpec => []NextIsFirst
<1>1. SearchInv => NextIsFirst
  BY DEF SearchInv
<1>2. QED
  BY <1>1, SearchInvariance, PTL
=============================================================================
