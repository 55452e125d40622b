----------------------------- MODULE JobProofs ------------------------------
(***************************************************************************)
(* Proofs about a job.  Of JobSlots, for any dispatches, users and limits: *)
(* the counters equal the guards alive, and no limit is exceeded.  Of      *)
(* Runner, with which it shares nothing, for any entry, pipes and cap: no  *)
(* output is lost count of, the slot covers the job, and output that       *)
(* somebody is meant to get leaves a trace.                                *)
(***************************************************************************)
EXTENDS JobSlots, Runner, FiniteSetTheorems, TLAPS

-----------------------------------------------------------------------------
(* JobSlots.                                                               *)

NotStarted == {j \in Jobs : state[j] \in {"refused", "unspawned"}}

\* Accounting for every name, also those that the map doesn't have.
Counted ==
    /\ IsFiniteSet(Holders)
    /\ total = Cardinality(Holders)
    /\ \A n \in Names : InUse(n) = Cardinality(HoldersOf(n))

\* The inductive invariant: beside the properties, the counters stay within
\* the limits, which is what try_acquire checks them against.
SlotInv ==
    /\ SlotTypeOK
    /\ Counted
    /\ total <= MAX_TOTAL
    /\ \A n \in Names : InUse(n) <= MAX_PER_USER
    /\ IsFiniteSet(NotStarted)
    /\ FailuresCounted

\* Every job is known to the counters by a name.
LEMMA UserNameType == \A j \in Jobs : UserName(j) \in Names
BY SlotAssumption DEF UserName

\* What CountUp does to the counters, seen through InUse.
LEMMA CountUpFacts ==
    ASSUME SlotTypeOK, NEW n \in Names, CountUp(n)
    PROVE  /\ total' = total + 1
           /\ InUse(n)' = InUse(n) + 1
           /\ \A x \in Names \ {n} : InUse(x)' = InUse(x)
           /\ DOMAIN per_user' \subseteq Names
           /\ \A x \in DOMAIN per_user' : per_user'[x] \in Nat \ {0}
BY DEF CountUp, InUse, SlotTypeOK

\* What CountDown does while the name is in use.
LEMMA CountDownFacts ==
    ASSUME SlotTypeOK, NEW n \in Names, CountDown(n), total > 0, InUse(n) > 0
    PROVE  /\ total' = total - 1
           /\ InUse(n)' = InUse(n) - 1
           /\ \A x \in Names \ {n} : InUse(x)' = InUse(x)
           /\ DOMAIN per_user' \subseteq Names
           /\ \A x \in DOMAIN per_user' : per_user'[x] \in Nat \ {0}
<1>1. n \in DOMAIN per_user /\ per_user[n] \in Nat \ {0} /\ InUse(n) = per_user[n]
  BY DEF InUse, SlotTypeOK
<1>2. Saturating(total) = total - 1 /\ Saturating(per_user[n]) = per_user[n] - 1
  BY <1>1 DEF Saturating, SlotTypeOK
<1>3. CASE per_user[n] = 1
  <2>1. per_user' = [x \in DOMAIN per_user \ {n} |-> per_user[x]]
    BY <1>1, <1>2, <1>3 DEF CountDown
  <2>2. QED
    BY <1>1, <1>2, <1>3, <2>1 DEF CountDown, InUse, SlotTypeOK
<1>4. CASE per_user[n] # 1
  <2>1. per_user' = [x \in DOMAIN per_user |-> IF x = n THEN per_user[n] - 1 ELSE per_user[x]]
    BY <1>1, <1>2, <1>4 DEF CountDown
  <2>2. QED
    BY <1>1, <1>2, <1>4, <2>1 DEF CountDown, InUse, SlotTypeOK
<1>5. QED
  BY <1>3, <1>4

\* A job that gets a guard is counted once, under its name.
LEMMA GuardAdded ==
    ASSUME SlotTypeOK, Counted, NEW j \in Jobs, state[j] = "new",
           state' = [state EXCEPT ![j] = "acquired"]
    PROVE  /\ IsFiniteSet(Holders')
           /\ Cardinality(Holders') = Cardinality(Holders) + 1
           /\ Cardinality(HoldersOf(UserName(j))') = Cardinality(HoldersOf(UserName(j))) + 1
           /\ \A x \in Names \ {UserName(j)} : HoldersOf(x)' = HoldersOf(x)
<1>1. Holders' = Holders \cup {j} /\ j \notin Holders
  BY DEF Holders, SlotTypeOK, States
<1>2. /\ HoldersOf(UserName(j))' = HoldersOf(UserName(j)) \cup {j}
      /\ j \notin HoldersOf(UserName(j))
      /\ \A x \in Names \ {UserName(j)} : HoldersOf(x)' = HoldersOf(x)
  BY <1>1 DEF HoldersOf, UserName, Holders
<1>3. IsFiniteSet(Holders) /\ IsFiniteSet(HoldersOf(UserName(j)))
  BY FS_Subset DEF Counted, HoldersOf
<1>4. QED
  BY <1>1, <1>2, <1>3, FS_AddElement

\* A job that drops its guard was counted, and no longer is.
LEMMA GuardDropped ==
    ASSUME SlotTypeOK, Counted, NEW j \in Jobs, j \in Holders,
           NEW r \in {"unspawned", "done"}, state' = [state EXCEPT ![j] = r]
    PROVE  /\ IsFiniteSet(Holders')
           /\ Cardinality(Holders') = Cardinality(Holders) - 1
           /\ Cardinality(HoldersOf(UserName(j))') = Cardinality(HoldersOf(UserName(j))) - 1
           /\ \A x \in Names \ {UserName(j)} : HoldersOf(x)' = HoldersOf(x)
           /\ total > 0 /\ InUse(UserName(j)) > 0
<1>1. Holders' = Holders \ {j}
  BY DEF Holders, SlotTypeOK, States
<1>2. /\ HoldersOf(UserName(j))' = HoldersOf(UserName(j)) \ {j}
      /\ j \in HoldersOf(UserName(j))
      /\ \A x \in Names \ {UserName(j)} : HoldersOf(x)' = HoldersOf(x)
  BY <1>1 DEF HoldersOf, UserName, Holders
<1>3. IsFiniteSet(Holders) /\ IsFiniteSet(HoldersOf(UserName(j)))
  BY FS_Subset DEF Counted, HoldersOf
<1>4. Cardinality(Holders) > 0 /\ Cardinality(HoldersOf(UserName(j))) > 0
  BY <1>2, <1>3, FS_EmptySet, FS_CardinalityType
<1>5. QED
  BY <1>1, <1>2, <1>3, <1>4, FS_RemoveElement, UserNameType DEF Counted

-----------------------------------------------------------------------------
(* The dispatches that were not started.                                   *)

\* A refused or unspawned job is counted once more than before.
LEMMA FailureAdded ==
    ASSUME SlotTypeOK, IsFiniteSet(NotStarted), FailuresCounted,
           NEW j \in Jobs, j \notin NotStarted,
           NEW r \in {"refused", "unspawned"}, state' = [state EXCEPT ![j] = r],
           dispatch_failures' = dispatch_failures + 1, UNCHANGED reported
    PROVE  IsFiniteSet(NotStarted') /\ FailuresCounted'
<1>1. NotStarted' = NotStarted \cup {j}
  BY DEF NotStarted, SlotTypeOK, States
<1>2. /\ IsFiniteSet(NotStarted')
      /\ Cardinality(NotStarted') = Cardinality(NotStarted) + 1
  BY <1>1, FS_AddElement
<1>3. Cardinality(NotStarted) = dispatch_failures + reported
  BY DEF FailuresCounted, NotStarted
<1>4. Cardinality(NotStarted)' = dispatch_failures' + reported'
  BY <1>2, <1>3 DEF SlotTypeOK
<1>5. QED
  BY <1>2, <1>4 DEF FailuresCounted, NotStarted

\* A step between states that are no failures leaves the count alone.
LEMMA FailuresKept ==
    ASSUME SlotTypeOK, IsFiniteSet(NotStarted), FailuresCounted,
           NEW j \in Jobs, j \notin NotStarted,
           NEW r \in {"acquired", "running", "done"}, state' = [state EXCEPT ![j] = r],
           UNCHANGED <<dispatch_failures, reported>>
    PROVE  IsFiniteSet(NotStarted') /\ FailuresCounted'
<1>1. NotStarted' = NotStarted
  BY DEF NotStarted, SlotTypeOK, States
<1>2. QED
  BY <1>1 DEF FailuresCounted, NotStarted

\* The counters are accounted for after a guard came or went.
LEMMA Accounted ==
    ASSUME SlotTypeOK, Counted, NEW n \in Names, NEW d \in {1, -1},
           total' = total + d, InUse(n)' = InUse(n) + d,
           \A x \in Names \ {n} : InUse(x)' = InUse(x),
           IsFiniteSet(Holders'),
           Cardinality(Holders') = Cardinality(Holders) + d,
           Cardinality(HoldersOf(n)') = Cardinality(HoldersOf(n)) + d,
           \A x \in Names \ {n} : HoldersOf(x)' = HoldersOf(x)
    PROVE  Counted'
<1>1. total' = Cardinality(Holders')
  BY DEF Counted
<1>2. ASSUME NEW x \in Names
      PROVE  InUse(x)' = Cardinality(HoldersOf(x)')
  <2>1. CASE x = n
    BY <2>1 DEF Counted
  <2>2. CASE x # n
    BY <2>2 DEF Counted
  <2>3. QED
    BY <2>1, <2>2
<1>3. QED
  BY <1>1, <1>2 DEF Counted

-----------------------------------------------------------------------------
(* The invariant is inductive.                                             *)

\* At first nothing runs and nothing failed.
LEMMA SlotInit == InitSlots => SlotInv
<1> SUFFICES ASSUME InitSlots PROVE SlotInv
  OBVIOUS
<1>1. SlotTypeOK
  BY DEF InitSlots, SlotTypeOK, States
<1>2. /\ Holders = {} /\ NotStarted = {}
      /\ \A n \in Names : HoldersOf(n) = {} /\ InUse(n) = 0
  BY DEF InitSlots, Holders, NotStarted, HoldersOf, InUse
<1>3. Counted
  BY <1>2, FS_EmptySet DEF InitSlots, Counted
<1>4. FailuresCounted /\ IsFiniteSet(NotStarted)
  <2>1. IsFiniteSet(NotStarted) /\ Cardinality(NotStarted) = 0
    BY <1>2, FS_EmptySet
  <2>2. dispatch_failures + reported = 0
    BY DEF InitSlots
  <2>3. QED
    BY <2>1, <2>2 DEF FailuresCounted, NotStarted
<1>5. QED
  BY <1>1, <1>2, <1>3, <1>4, SlotAssumption DEF InitSlots, SlotInv

\* A guard is counted where both limits allow it.
LEMMA AcquireInv ==
    ASSUME SlotInv, NEW j \in Jobs, Acquire(j)
    PROVE  SlotInv'
<1> DEFINE n == UserName(j)
<1>1. /\ SlotTypeOK /\ Counted /\ total <= MAX_TOTAL
      /\ \A x \in Names : InUse(x) <= MAX_PER_USER
      /\ IsFiniteSet(NotStarted) /\ FailuresCounted
  BY DEF SlotInv
<1>2. n \in Names
  BY UserNameType
<1>3. /\ state[j] = "new" /\ ~Full(n) /\ CountUp(n)
      /\ state' = [state EXCEPT ![j] = "acquired"]
      /\ UNCHANGED <<dispatch_failures, reported>>
  BY DEF Acquire
<1>4. /\ total' = total + 1
      /\ InUse(n)' = InUse(n) + 1
      /\ \A x \in Names \ {n} : InUse(x)' = InUse(x)
      /\ DOMAIN per_user' \subseteq Names
      /\ \A x \in DOMAIN per_user' : per_user'[x] \in Nat \ {0}
  BY <1>1, <1>2, <1>3, CountUpFacts
<1>5. SlotTypeOK'
  <2>1. total' \in Nat /\ dispatch_failures' \in Nat /\ reported' \in Nat
    BY <1>1, <1>3, <1>4 DEF SlotTypeOK
  <2>2. state' \in [Jobs -> States]
    BY <1>1, <1>3 DEF SlotTypeOK, States
  <2>3. QED
    BY <1>4, <2>1, <2>2 DEF SlotTypeOK
<1>6. Counted'
  <2>1. /\ IsFiniteSet(Holders')
        /\ Cardinality(Holders') = Cardinality(Holders) + 1
        /\ Cardinality(HoldersOf(n)') = Cardinality(HoldersOf(n)) + 1
        /\ \A x \in Names \ {n} : HoldersOf(x)' = HoldersOf(x)
    BY <1>1, <1>3, GuardAdded
  <2> HIDE DEF n
  <2>2. QED
    BY <1>1, <1>2, <1>4, <2>1, Accounted
<1>7. total' <= MAX_TOTAL
  BY <1>1, <1>3, <1>4, SlotAssumption DEF Full, SlotTypeOK
<1>8. \A x \in Names : InUse(x)' <= MAX_PER_USER
  <2>1. InUse(n) \in Nat
    BY <1>1, <1>2 DEF InUse, SlotTypeOK
  <2>2. InUse(n)' <= MAX_PER_USER
    BY <2>1, <1>3, <1>4, SlotAssumption DEF Full
  <2>3. QED
    BY <2>2, <1>1, <1>4
<1>9. IsFiniteSet(NotStarted') /\ FailuresCounted'
  BY <1>1, <1>3, FailuresKept DEF NotStarted
<1>10. QED
  BY <1>5, <1>6, <1>7, <1>8, <1>9 DEF SlotInv

\* A refused dispatch changes the count of failures only.
LEMMA RefuseInv ==
    ASSUME SlotInv, NEW j \in Jobs, Refuse(j)
    PROVE  SlotInv'
<1>1. /\ SlotTypeOK /\ Counted /\ total <= MAX_TOTAL
      /\ \A x \in Names : InUse(x) <= MAX_PER_USER
      /\ IsFiniteSet(NotStarted) /\ FailuresCounted
  BY DEF SlotInv
<1>2. /\ state[j] = "new"
      /\ state' = [state EXCEPT ![j] = "refused"]
      /\ dispatch_failures' = dispatch_failures + 1
      /\ UNCHANGED <<total, per_user, reported>>
  BY DEF Refuse
<1>3. SlotTypeOK'
  BY <1>1, <1>2 DEF SlotTypeOK, States
<1>4. Holders' = Holders
  BY <1>1, <1>2 DEF Holders, SlotTypeOK, States
<1>5. \A x \in Names : InUse(x)' = InUse(x) /\ HoldersOf(x)' = HoldersOf(x)
  BY <1>2, <1>4 DEF InUse, HoldersOf, UserName
<1>6. Counted'
  BY <1>1, <1>2, <1>4, <1>5 DEF Counted
<1>7. IsFiniteSet(NotStarted') /\ FailuresCounted'
  BY <1>1, <1>2, FailureAdded DEF NotStarted
<1>8. QED
  BY <1>1, <1>2, <1>3, <1>5, <1>6, <1>7 DEF SlotInv

\* The guard goes to the thread.
LEMMA SpawnThreadInv ==
    ASSUME SlotInv, NEW j \in Jobs, SpawnThread(j)
    PROVE  SlotInv'
<1>1. /\ SlotTypeOK /\ Counted /\ total <= MAX_TOTAL
      /\ \A x \in Names : InUse(x) <= MAX_PER_USER
      /\ IsFiniteSet(NotStarted) /\ FailuresCounted
  BY DEF SlotInv
<1>2. /\ state[j] = "acquired"
      /\ state' = [state EXCEPT ![j] = "running"]
      /\ UNCHANGED <<total, per_user, dispatch_failures, reported>>
  BY DEF SpawnThread
<1>3. SlotTypeOK'
  BY <1>1, <1>2 DEF SlotTypeOK, States
<1>4. Holders' = Holders
  BY <1>1, <1>2 DEF Holders, SlotTypeOK, States
<1>5. \A x \in Names : InUse(x)' = InUse(x) /\ HoldersOf(x)' = HoldersOf(x)
  BY <1>2, <1>4 DEF InUse, HoldersOf, UserName
<1>6. Counted'
  BY <1>1, <1>2, <1>4, <1>5 DEF Counted
<1>7. IsFiniteSet(NotStarted') /\ FailuresCounted'
  BY <1>1, <1>2, FailuresKept DEF NotStarted
<1>8. QED
  BY <1>1, <1>2, <1>3, <1>5, <1>6, <1>7 DEF SlotInv

\* Both ways a guard is dropped: with its thread, or for want of one.
LEMMA DropInv ==
    ASSUME SlotInv, NEW j \in Jobs, j \in Holders, CountDown(UserName(j)),
           NEW r \in {"unspawned", "done"}, state' = [state EXCEPT ![j] = r],
           dispatch_failures' \in Nat, reported' \in Nat
    PROVE  /\ SlotTypeOK'
           /\ Counted'
           /\ total' <= MAX_TOTAL
           /\ \A x \in Names : InUse(x)' <= MAX_PER_USER
<1> DEFINE n == UserName(j)
<1>1. /\ SlotTypeOK /\ Counted /\ total <= MAX_TOTAL
      /\ \A x \in Names : InUse(x) <= MAX_PER_USER
  BY DEF SlotInv
<1>2. n \in Names
  BY UserNameType
<1>3. /\ IsFiniteSet(Holders')
      /\ Cardinality(Holders') = Cardinality(Holders) - 1
      /\ Cardinality(HoldersOf(n)') = Cardinality(HoldersOf(n)) - 1
      /\ \A x \in Names \ {n} : HoldersOf(x)' = HoldersOf(x)
      /\ total > 0 /\ InUse(n) > 0
  BY <1>1, GuardDropped
<1> HIDE DEF n
<1>4. /\ total' = total - 1
      /\ InUse(n)' = InUse(n) - 1
      /\ \A x \in Names \ {n} : InUse(x)' = InUse(x)
      /\ DOMAIN per_user' \subseteq Names
      /\ \A x \in DOMAIN per_user' : per_user'[x] \in Nat \ {0}
  BY <1>1, <1>2, <1>3, CountDownFacts DEF n
<1>5. SlotTypeOK'
  <2>1. total' \in Nat
    BY <1>1, <1>3, <1>4 DEF SlotTypeOK
  <2>2. state' \in [Jobs -> States]
    BY <1>1 DEF SlotTypeOK, States
  <2>3. QED
    BY <1>4, <2>1, <2>2 DEF SlotTypeOK
<1>6. Counted'
  <2>1. /\ total' = total + (-1) /\ InUse(n)' = InUse(n) + (-1)
        /\ Cardinality(Holders') = Cardinality(Holders) + (-1)
        /\ Cardinality(HoldersOf(n)') = Cardinality(HoldersOf(n)) + (-1)
    <3>1. InUse(n) \in Nat /\ total \in Nat
      BY <1>1 DEF InUse, SlotTypeOK
    <3>2. /\ Cardinality(Holders) = total /\ Cardinality(HoldersOf(n)) = InUse(n)
      BY <1>1, <1>2 DEF Counted
    <3>3. QED
      BY <3>1, <3>2, <1>3, <1>4
  <2>2. QED
    BY <1>1, <1>2, <1>3, <1>4, <2>1, Accounted
<1>7. total' <= MAX_TOTAL
  BY <1>1, <1>4, SlotAssumption DEF SlotTypeOK
<1>8. \A x \in Names : InUse(x)' <= MAX_PER_USER
  <2>1. InUse(n) \in Nat
    BY <1>1 DEF InUse, SlotTypeOK
  <2>2. InUse(n)' <= MAX_PER_USER
    BY <2>1, <1>1, <1>2, <1>4, SlotAssumption
  <2>3. QED
    BY <2>2, <1>1, <1>4
<1>9. QED
  BY <1>5, <1>6, <1>7, <1>8

\* Without a thread the guard is dropped and the failure counted.
LEMMA SpawnFailsInv ==
    ASSUME SlotInv, NEW j \in Jobs, SpawnFails(j)
    PROVE  SlotInv'
<1>1. SlotTypeOK /\ IsFiniteSet(NotStarted) /\ FailuresCounted
  BY DEF SlotInv
<1>2. /\ state[j] = "acquired" /\ CountDown(UserName(j))
      /\ state' = [state EXCEPT ![j] = "unspawned"]
      /\ dispatch_failures' = dispatch_failures + 1
      /\ UNCHANGED reported
  BY DEF SpawnFails
<1>3. j \in Holders /\ dispatch_failures' \in Nat /\ reported' \in Nat
  BY <1>1, <1>2 DEF Holders, SlotTypeOK
<1>4. /\ SlotTypeOK' /\ Counted' /\ total' <= MAX_TOTAL
      /\ \A x \in Names : InUse(x)' <= MAX_PER_USER
  BY <1>2, <1>3, DropInv
<1>5. IsFiniteSet(NotStarted') /\ FailuresCounted'
  BY <1>1, <1>2, FailureAdded DEF NotStarted
<1>6. QED
  BY <1>4, <1>5 DEF SlotInv

\* The thread drops its guard.
LEMMA EndJobInv ==
    ASSUME SlotInv, NEW j \in Jobs, EndJob(j)
    PROVE  SlotInv'
<1>1. SlotTypeOK /\ IsFiniteSet(NotStarted) /\ FailuresCounted
  BY DEF SlotInv
<1>2. /\ state[j] = "running" /\ CountDown(UserName(j))
      /\ state' = [state EXCEPT ![j] = "done"]
      /\ UNCHANGED <<dispatch_failures, reported>>
  BY DEF EndJob
<1>3. j \in Holders /\ dispatch_failures' \in Nat /\ reported' \in Nat
  BY <1>1, <1>2 DEF Holders, SlotTypeOK
<1>4. /\ SlotTypeOK' /\ Counted' /\ total' <= MAX_TOTAL
      /\ \A x \in Names : InUse(x)' <= MAX_PER_USER
  BY <1>2, <1>3, DropInv
<1>5. IsFiniteSet(NotStarted') /\ FailuresCounted'
  BY <1>1, <1>2, FailuresKept DEF NotStarted
<1>6. QED
  BY <1>4, <1>5 DEF SlotInv

\* The main loop takes the failures over.
LEMMA TakeFailuresInv ==
    ASSUME SlotInv, TakeFailures
    PROVE  SlotInv'
<1>1. /\ SlotTypeOK /\ Counted /\ total <= MAX_TOTAL
      /\ \A x \in Names : InUse(x) <= MAX_PER_USER
      /\ IsFiniteSet(NotStarted) /\ FailuresCounted
  BY DEF SlotInv
<1>2. /\ reported' = reported + dispatch_failures
      /\ dispatch_failures' = 0
      /\ UNCHANGED <<total, per_user, state>>
  BY DEF TakeFailures
<1>3. SlotTypeOK'
  BY <1>1, <1>2 DEF SlotTypeOK
<1>4. /\ Holders' = Holders /\ NotStarted' = NotStarted
      /\ \A x \in Names : InUse(x)' = InUse(x) /\ HoldersOf(x)' = HoldersOf(x)
  BY <1>2 DEF Holders, NotStarted, InUse, HoldersOf, UserName
<1>5. Counted'
  BY <1>1, <1>2, <1>4 DEF Counted
<1>6. FailuresCounted'
  BY <1>1, <1>2, <1>4 DEF FailuresCounted, NotStarted, SlotTypeOK
<1>7. QED
  BY <1>1, <1>2, <1>3, <1>4, <1>5, <1>6 DEF SlotInv

\* The invariant holds in every reachable state, for every set of dispatches,
\* every user and every pair of limits.
THEOREM SlotInvariance == SlotsSpec => []SlotInv
<1>1. InitSlots => SlotInv
  BY SlotInit
<1>2. SlotInv /\ [NextSlots]_slotVars => SlotInv'
  <2> SUFFICES ASSUME SlotInv, [NextSlots]_slotVars PROVE SlotInv'
    OBVIOUS
  <2>1. ASSUME NEW j \in Jobs, Acquire(j) PROVE SlotInv'
    BY <2>1, AcquireInv
  <2>2. ASSUME NEW j \in Jobs, Refuse(j) PROVE SlotInv'
    BY <2>2, RefuseInv
  <2>3. ASSUME NEW j \in Jobs, SpawnThread(j) PROVE SlotInv'
    BY <2>3, SpawnThreadInv
  <2>4. ASSUME NEW j \in Jobs, SpawnFails(j) PROVE SlotInv'
    BY <2>4, SpawnFailsInv
  <2>5. ASSUME NEW j \in Jobs, EndJob(j) PROVE SlotInv'
    BY <2>5, EndJobInv
  <2>6. CASE TakeFailures
    BY <2>6, TakeFailuresInv
  <2>7. CASE UNCHANGED slotVars
    BY <2>7 DEF slotVars, SlotInv, SlotTypeOK, Counted, FailuresCounted, NotStarted,
                Holders, HoldersOf, UserName, InUse
  <2>8. QED
    BY <2>1, <2>2, <2>3, <2>4, <2>5, <2>6, <2>7 DEF NextSlots
<1>3. QED
  BY <1>1, <1>2, PTL DEF SlotsSpec

-----------------------------------------------------------------------------
(* The properties.                                                         *)

\* The counters are natural numbers, entries of known names, never 0.
THEOREM SlotTypeCorrect == SlotsSpec => []SlotTypeOK
<1>1. SlotInv => SlotTypeOK
  BY DEF SlotInv
<1>2. QED
  BY <1>1, SlotInvariance, PTL

\* The counters equal the guards alive, and the map has the names that have some
\* (daemon.rs: try_acquire and drop): no entry is 0.
THEOREM AccountingHolds == SlotsSpec => []Accounting
<1>1. SlotInv => Accounting
  <2> SUFFICES ASSUME SlotInv PROVE Accounting
    OBVIOUS
  <2>1. SlotTypeOK /\ Counted
    BY DEF SlotInv
  <2>2. ASSUME NEW n \in Names
        PROVE  n \in DOMAIN per_user <=> HoldersOf(n) # {}
    <3>1. IsFiniteSet(HoldersOf(n)) /\ InUse(n) = Cardinality(HoldersOf(n))
      BY <2>1, FS_Subset DEF Counted, HoldersOf
    <3>2. HoldersOf(n) = {} <=> InUse(n) = 0
      BY <3>1, FS_EmptySet
    <3>3. n \in DOMAIN per_user <=> InUse(n) # 0
      BY <2>1 DEF SlotTypeOK, InUse
    <3>4. QED
      BY <3>2, <3>3
  <2>3. DOMAIN per_user \subseteq Names
    BY <2>1 DEF SlotTypeOK
  <2>4. DOMAIN per_user = {n \in Names : HoldersOf(n) # {}}
    BY <2>2, <2>3
  <2>5. \A n \in DOMAIN per_user : per_user[n] = Cardinality(HoldersOf(n))
    BY <2>1, <2>3 DEF Counted, InUse
  <2>6. QED
    BY <2>1, <2>4, <2>5 DEF Accounting, Counted
<1>2. QED
  BY <1>1, SlotInvariance, PTL

\* Every job not started is counted exactly once.
THEOREM FailuresCountedHolds == SlotsSpec => []FailuresCounted
<1>1. SlotInv => FailuresCounted
  BY DEF SlotInv
<1>2. QED
  BY <1>1, SlotInvariance, PTL

\* Neither limit is exceeded: a user's jobs are among those of its lossy name.
THEOREM CapsRespectedHolds == SlotsSpec => []CapsRespected
<1>1. SlotInv => CapsRespected
  <2> SUFFICES ASSUME SlotInv PROVE CapsRespected
    OBVIOUS
  <2>1. /\ SlotTypeOK /\ Counted /\ total <= MAX_TOTAL
        /\ \A x \in Names : InUse(x) <= MAX_PER_USER
    BY DEF SlotInv
  <2>2. Cardinality(Holders) <= MAX_TOTAL
    BY <2>1 DEF Counted
  <2>3. ASSUME NEW u \in Users
        PROVE  Cardinality({j \in Holders : job_user[j] = u}) <= MAX_PER_USER
    <3> DEFINE mine == {j \in Holders : job_user[j] = u}
               n == LossyName[u]
    <3>1. n \in Names
      BY SlotAssumption
    <3>2. mine \subseteq HoldersOf(n)
      BY DEF HoldersOf, UserName
    <3>3. IsFiniteSet(HoldersOf(n))
      BY <2>1, FS_Subset DEF HoldersOf, Counted
    <3>4. /\ IsFiniteSet(mine)
          /\ Cardinality(mine) <= Cardinality(HoldersOf(n))
      BY <3>2, <3>3, FS_Subset
    <3>5. Cardinality(HoldersOf(n)) <= MAX_PER_USER
      BY <2>1, <3>1 DEF Counted
    <3>6. Cardinality(mine) \in Nat /\ Cardinality(HoldersOf(n)) \in Nat
      BY <3>3, <3>4, FS_CardinalityType
    <3>7. QED
      BY <3>4, <3>5, <3>6, SlotAssumption
  <2>4. QED
    BY <2>2, <2>3 DEF CapsRespected
<1>2. QED
  BY <1>1, SlotInvariance, PTL

\* A refusal always has its reason in the jobs that are alive.
THEOREM RefusedOnlyWhenFullHolds == SlotsSpec => RefusedOnlyWhenFull
<1> DEFINE Reason(j) == \/ Cardinality(Holders) >= MAX_TOTAL
                        \/ Cardinality(HoldersOf(UserName(j))) >= MAX_PER_USER
           Refusals == \A j \in Jobs :
                          state[j] = "new" /\ state'[j] = "refused" => Reason(j)
<1>1. ASSUME SlotInv, [NextSlots]_slotVars PROVE Refusals
  <2> SUFFICES ASSUME NEW j \in Jobs, state[j] = "new", state'[j] = "refused"
               PROVE  Reason(j)
    OBVIOUS
  <2>1. state \in [Jobs -> States] /\ Counted
    BY <1>1 DEF SlotInv, SlotTypeOK
  <2>2. Refuse(j)
    BY <1>1, <2>1 DEF NextSlots, slotVars, Acquire, Refuse, SpawnThread, SpawnFails, EndJob, TakeFailures
  <2>3. Full(UserName(j))
    BY <2>2 DEF Refuse
  <2>4. QED
    BY <2>1, <2>3, UserNameType DEF Full, Counted
<1>2. SlotInv /\ [NextSlots]_slotVars => [Refusals]_slotVars
  BY <1>1
<1>3. QED
  BY <1>2, SlotInvariance, PTL DEF SlotsSpec, RefusedOnlyWhenFull

-----------------------------------------------------------------------------
(* Runner.                                                                 *)

Read == {"waiting", "joining", "delivering", "done"}

\* Nothing has happened before the job is spawned.
Fresh == pc = "starting" => alive = {} /\ written = 0 /\ traces = {}

\* Whoever is past the reading saw the last writer go, or an error.
OutputOver == pc \in Read => out_ends = {} \/ traces \cap {"read error", "wait error"} # {}

\* Whoever is past the waiting saw the job go, or an error.
JobOver ==
    /\ pc \in {"joining", "delivering"} => "job" \notin alive
    /\ pc = "done" => "job" \notin alive \/ "wait error" \in traces

\* What is left in the pipe was not read because of an error.
Drained == pc \in Read \ {"done"} => out_pipe = 0 \/ "read error" \in traces

\* The inductive invariant.
IInv == TypeOK /\ OutputConserved /\ Fresh /\ OutputOver /\ JobOver /\ Drained /\ NoSilentLoss

-----------------------------------------------------------------------------
(* Type correctness and the account of the output.                         *)

\* Initially nothing has been written.
LEMMA InitInv == Init => IInv
<1> SUFFICES ASSUME Init PROVE IInv
  OBVIOUS
<1>1. TypeOK
  BY RunnerAssumption DEF Init, TypeOK, PCs, Writers
<1>2. OutputConserved /\ NoSilentLoss
  BY DEF Init, OutputConserved, NoSilentLoss
<1>3. Fresh /\ OutputOver /\ JobOver /\ Drained
  BY DEF Init, Fresh, OutputOver, JobOver, Drained, Read
<1>4. QED
  BY <1>1, <1>2, <1>3 DEF IInv

\* A read divides what it takes from the pipe into what is kept and what is not.
LEMMA ReadOutputCounts ==
    ASSUME TypeOK, OutputConserved, ReadOutput
    PROVE  /\ kept' \in 0..MAX_OUTPUT /\ discarded' \in 0..MaxWritten /\ out_pipe' \in 0..PipeSize
           /\ OutputConserved'
<1>1. PICK n \in 1..out_pipe :
         LET keep == IF n <= Room THEN n ELSE Room
         IN  /\ kept' = kept + keep
             /\ discarded' = discarded + (n - keep)
             /\ out_pipe' = out_pipe - n
  BY DEF ReadOutput
<1>2. /\ kept \in 0..MAX_OUTPUT /\ discarded \in Nat /\ out_pipe \in 0..PipeSize /\ n \in Nat \ {0}
      /\ MAX_OUTPUT \in Nat /\ PipeSize \in Nat /\ MaxWritten \in Nat /\ n <= out_pipe
      /\ written \in 0..MaxWritten /\ written' = written
      /\ kept + discarded + out_pipe = written
  BY RunnerAssumption DEF TypeOK, OutputConserved, ReadOutput
<1>3. CASE n <= Room
  <2>1. kept' = kept + n /\ discarded' = discarded /\ out_pipe' = out_pipe - n
    BY <1>1, <1>2, <1>3
  <2>2. discarded = 0
    BY <1>2, <1>3 DEF Room, OutputConserved
  <2>3. QED
    BY <1>2, <1>3, <2>1, <2>2 DEF Room, OutputConserved
<1>4. CASE ~(n <= Room)
  <2>1. kept' = MAX_OUTPUT /\ discarded' = discarded + (n - (MAX_OUTPUT - kept)) /\ out_pipe' = out_pipe - n
    BY <1>1, <1>2, <1>4 DEF Room
  <2>2. QED
    BY <1>2, <1>4, <2>1 DEF Room, OutputConserved
<1>5. QED
  BY <1>3, <1>4

\* An action of the job's thread, but for the reads and the end of a delivery.
LEMMA ThreadStep ==
    ASSUME IInv,
           \/ CannotStart \/ Spawn \/ WriterCannotStart
           \/ ReadEof \/ ReadFails \/ WaitChild \/ WaitFails \/ JoinWriter \/ MailHelperCannotStart
    PROVE  IInv'
<1> USE DEF IInv, TypeOK, OutputConserved, Fresh, OutputOver, JobOver, Drained, NoSilentLoss,
            Read, PCs, processes, thread, feed
<1>1. CASE CannotStart
  BY <1>1 DEF CannotStart, Trace, Traces
<1>2. CASE Spawn
  BY <1>2, RunnerAssumption DEF Spawn, EntryType, Writers, Processes
<1>3. CASE WriterCannotStart
  BY <1>3 DEF WriterCannotStart, Processes
<1>4. CASE ReadEof
  BY <1>4 DEF ReadEof
<1>5. CASE ReadFails
  BY <1>5 DEF ReadFails, Trace, Traces
<1>6. CASE WaitChild
  BY <1>6 DEF WaitChild
<1>7. CASE WaitFails
  BY <1>7 DEF WaitFails, Trace, Traces
<1>8. CASE JoinWriter
  BY <1>8 DEF JoinWriter, Trace, Traces
<1>9. CASE MailHelperCannotStart
  BY <1>9 DEF MailHelperCannotStart
<1>10. QED
  BY <1>1, <1>2, <1>3, <1>4, <1>5, <1>6, <1>7, <1>8, <1>9

\* Reading the output.
LEMMA ReadOutputStep == ASSUME IInv, ReadOutput PROVE IInv'
<1>1. TypeOK' /\ OutputConserved'
  BY ReadOutputCounts DEF IInv, TypeOK, ReadOutput, feed, processes
<1>2. Fresh' /\ OutputOver' /\ JobOver' /\ Drained' /\ NoSilentLoss'
  BY DEF IInv, ReadOutput, Fresh, OutputOver, JobOver, Drained, NoSilentLoss, Read, processes
<1>3. QED
  BY <1>1, <1>2 DEF IInv

\* The delivery: whatever was kept and is wanted leaves a trace, and if nothing
\* was kept then nothing was written, or it was not read because of an error.
LEMMA DeliverStep == ASSUME IInv, Deliver PROVE IInv'
<1>1. traces \subseteq traces' /\ traces' \subseteq Traces
  BY DEF Deliver, Trace, Traces, IInv, TypeOK
<1>2. TypeOK' /\ OutputConserved' /\ Fresh' /\ OutputOver' /\ JobOver' /\ Drained'
  BY <1>1 DEF Deliver, IInv, TypeOK, OutputConserved, Fresh, OutputOver, JobOver, Drained, PCs, Read,
              feed, processes
<1>3. ASSUME written' > 0, Wanted' PROVE traces' # {}
  <2>1. Wanted /\ written > 0
    BY <1>3 DEF Wanted, Deliver, processes
  <2>2. CASE kept = 0
    <3>1. discarded = 0 /\ out_pipe # 0
      BY <2>1, <2>2, RunnerAssumption DEF IInv, TypeOK, OutputConserved
    <3>2. pc = "delivering"
      BY DEF Deliver
    <3>3. "read error" \in traces
      BY <3>1, <3>2 DEF IInv, Drained, Read
    <3>4. QED
      BY <1>1, <3>3
  <2>3. CASE kept # 0 /\ Mailing
    BY <2>1, <2>3, RunnerAssumption DEF Deliver, Wanted, Trace, IInv, TypeOK, EntryType
  <2>4. CASE kept # 0 /\ ~Mailing
    <3>1. entry.destination = "syslog" \/ entry.mailto = "unsafe"
      BY <2>1, <2>4, RunnerAssumption DEF Wanted, Mailing, IInv, TypeOK, EntryType, Destinations
    <3>2. QED
      BY <2>4, <3>1 DEF Deliver
  <2>5. QED
    BY <2>2, <2>3, <2>4
<1>4. QED
  BY <1>2, <1>3 DEF IInv, NoSilentLoss

-----------------------------------------------------------------------------
(* The writer and the processes.                                           *)

\* Writing and reading the input changes nothing that the rest depends on.
LEMMA InputStep ==
    ASSUME IInv, WriteBlock \/ WriterEnds \/ WriterBroken \/ WriterFails
                 \/ \E p \in Processes : ReadIn(p)
    PROVE  IInv'
<1>1. /\ UNCHANGED <<entry, thread, out_pipe, processes, written>>
      /\ writer' \in Writers /\ unfed' \in Nat /\ in_pipe' \in 0..PipeSize
  BY RunnerAssumption
  DEF WriteBlock, WriterEnds, WriterBroken, WriterFails, ReadIn, IInv, TypeOK, Writers, thread, feed,
      processes
<1>2. QED
  BY <1>1 DEF IInv, TypeOK, OutputConserved, Fresh, OutputOver, JobOver, Drained, NoSilentLoss, Wanted,
              thread, processes

\* The processes come and go.  Nobody gets a write end that was not the job's.
LEMMA ProcessStep ==
    ASSUME IInv, NEW p \in Processes,
           Fork \/ CloseIn(p) \/ CloseOut(p) \/ WriteOut(p) \/ Exit(p)
    PROVE  IInv'
<1> USE DEF IInv, TypeOK, OutputConserved, Fresh, OutputOver, JobOver, Drained, NoSilentLoss, Wanted,
            Read, Processes, processes, thread, feed
<1>1. CASE Fork
  BY <1>1 DEF Fork
<1>2. CASE CloseIn(p)
  BY <1>2 DEF CloseIn
<1>3. CASE CloseOut(p)
  BY <1>3 DEF CloseOut
<1>4. CASE WriteOut(p)
  BY <1>4, RunnerAssumption DEF WriteOut
<1>5. CASE Exit(p)
  BY <1>5 DEF Exit
<1>6. QED
  BY <1>1, <1>2, <1>3, <1>4, <1>5

-----------------------------------------------------------------------------

\* The inductive invariant holds in every reachable state.
THEOREM Invariance == Spec => []IInv
<1>1. ASSUME IInv, Next PROVE IInv'
  <2>1. CASE ReadOutput
    BY <1>1, <2>1, ReadOutputStep
  <2>2. CASE Deliver
    BY <1>1, <2>2, DeliverStep
  <2>3. CASE \/ CannotStart \/ Spawn \/ WriterCannotStart
             \/ ReadEof \/ ReadFails \/ WaitChild \/ WaitFails \/ JoinWriter \/ MailHelperCannotStart
    BY <1>1, <2>3, ThreadStep
  <2>4. CASE Feed \/ WriterFails
    BY <1>1, <2>4, InputStep DEF Feed
  <2>5. CASE Fork
    BY <1>1, <2>5, ProcessStep DEF Processes
  <2>6. ASSUME NEW p \in Processes, CloseIn(p) \/ CloseOut(p) \/ ReadIn(p) \/ WriteOut(p) \/ Exit(p)
        PROVE  IInv'
    BY <1>1, <2>6, ProcessStep, InputStep
  <2>7. QED
    BY <1>1, <2>1, <2>2, <2>3, <2>4, <2>5, <2>6 DEF Next, Run
<1>2. ASSUME IInv, UNCHANGED vars PROVE IInv'
  BY <1>2 DEF vars, thread, feed, processes, IInv, TypeOK, OutputConserved, Fresh, OutputOver, JobOver,
              Drained, NoSilentLoss, Wanted
<1>3. QED
  BY InitInv, <1>1, <1>2, PTL DEF Spec

\* Type correctness of the runner.
THEOREM TypeCorrect == Spec => []TypeOK
<1>1. IInv => TypeOK
  BY DEF IInv
<1>2. QED
  BY <1>1, Invariance, PTL

\* Each block written is kept, counted as discarded or still in the pipe, and
\* none is discarded while there is room, for every size of the pipe, the cap and
\* the reads.
THEOREM OutputConservedHolds == Spec => []OutputConserved
<1>1. IInv => OutputConserved
  BY DEF IInv
<1>2. QED
  BY <1>1, Invariance, PTL

\* The slot is held until the job has ended and its output is closed, unless an
\* error said otherwise.
THEOREM SlotCoversJobHolds == Spec => []SlotCoversJob
<1>1. IInv => SlotCoversJob
  BY DEF IInv, OutputOver, JobOver, SlotCoversJob, Read
<1>2. QED
  BY <1>1, Invariance, PTL

\* Output that somebody is meant to get leaves a trace.
THEOREM NoSilentLossHolds == Spec => []NoSilentLoss
<1>1. IInv => NoSilentLoss
  BY DEF IInv
<1>2. QED
  BY <1>1, Invariance, PTL
=============================================================================
