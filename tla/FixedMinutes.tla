---------------------------- MODULE FixedMinutes ----------------------------
(***************************************************************************)
(* What crond promises its fixed-time jobs, whatever happens to the clock: *)
(* they are considered for one local minute after another, none left out   *)
(* and none repeated.  Only when the clock has been moved further than     *)
(* MAX_JUMP may the sequence be given up and restarted elsewhere.          *)
(***************************************************************************)
EXTENDS Integers

CONSTANT MAX_JUMP

VARIABLE run      \* the last minute served, and how often in a row

Served(m) == [minute |-> m, times |-> 1]

Init ==
    /\ run.minute \in Int
    /\ run = Served(run.minute)

Serve == run' = Served(run.minute + 1)

Restart ==
    /\ run'.minute \in Int
    /\ \/ run'.minute - run.minute > MAX_JUMP
       \/ run.minute - run'.minute > MAX_JUMP
    /\ run' = Served(run'.minute)

Next == Serve \/ Restart

Spec == Init /\ [][Next]_run
=============================================================================
