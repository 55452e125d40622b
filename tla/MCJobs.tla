------------------------------- MODULE MCJobs -------------------------------
(* Small instances of JobSlots and of Runner, which share no state: one of  *)
(* the two moves.  The slots: three users, two of which share a lossy name, *)
(* three slots in all and two per name, for six jobs.  The runner: inputs   *)
(* that are absent, empty, fit into a pipe or not, and every rule of        *)
(* delivery.                                                                *)
EXTENDS JobSlots, Runner, TLC

CONSTANTS j1, j2, j3, j4, j5, j6, a, b1, b2, A, B

MCJobs  == {j1, j2, j3, j4, j5, j6}
MCUsers == {a, b1, b2}
MCNames == {A, B}
MCjob_user == (j1 :> a) @@ (j2 :> a) @@ (j3 :> a)
              @@ (j4 :> b1) @@ (j5 :> b1) @@ (j6 :> b2)
MCLossyName == (a :> A) @@ (b1 :> B) @@ (b2 :> B)

-----------------------------------------------------------------------------

Entry(command, stdin, mailto, n, dest) ==
    [command |-> command, stdin |-> stdin, mailto |-> mailto,
     mail_on_failure_only |-> n, destination |-> dest]

\* Delivery depends neither on the input nor on what the command does first.
MCEntries ==
    {Entry("writes first", NoInput, mailto, n, dest) :
        mailto \in {"unset", "empty", "safe", "unsafe"}, n \in BOOLEAN, dest \in Destinations}
    \cup
    {Entry(command, stdin, "unset", FALSE, "mail") :
        command \in {"writes first", "reads first"}, stdin \in {0, 2, 3}}

-----------------------------------------------------------------------------

MCInit == InitSlots /\ Init

NoJobYet == \A j \in Jobs : state[j] = "new"

NotRun == pc = "starting" /\ entry = Entry("writes first", 0, "unset", FALSE, "mail")

\* A runner that is left out of a behaviour owes nothing there: it is not treated fairly.
MCNext == \/ NoJobYet /\ Next /\ UNCHANGED slotVars
          \/ NotRun /\ NextSlots /\ UNCHANGED vars

MCSpec == /\ MCInit /\ [][MCNext]_<<slotVars, vars>>
          /\ WF_vars(Run) /\ WF_vars(Feed) /\ WF_vars(JobProceeds)
=============================================================================
