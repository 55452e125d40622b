------------------------------- MODULE Runner -------------------------------
(***************************************************************************)
(* One job (Runner::run of job.rs) between the thread that runs it, the    *)
(* thread that writes its standard input, the job's process and a process  *)
(* it leaves in the background.                                            *)
(*                                                                         *)
(* Input and output are counted in blocks.  The processes do as they       *)
(* please: they read, write, fork, close their ends and exit in any order. *)
(***************************************************************************)
EXTENDS Integers, FiniteSets

CONSTANTS
    Entries,       \* the crontab entries considered, see EntryType
    PipeSize,      \* blocks a pipe holds
    MAX_OUTPUT,    \* blocks of output kept for delivery
    MaxWritten     \* bound: blocks of output written by all processes

NoInput == -1

Destinations == {"mail", "syslog", "off"}

\* What of the entry, its environment and the options matters here: the "%"
\* input, MAILTO, "-n", where output goes, and what the command does first.
EntryType ==
    [command : {"writes first", "reads first"}, stdin : {NoInput} \cup Nat, mailto : {"unset", "empty", "safe", "unsafe"},
     mail_on_failure_only : BOOLEAN, destination : Destinations]

ASSUME RunnerAssumption ==
    /\ Entries \subseteq EntryType
    /\ PipeSize \in Nat \ {0}
    /\ MAX_OUTPUT \in Nat \ {0}
    /\ MaxWritten \in Nat

VARIABLES
    entry,         \* the job
    pc,            \* where the thread of the job is in run
    kept,          \* output.len(), without the notice
    discarded,
    writer,        \* the thread that feeds the input
    unfed,         \* blocks it has not written yet
    in_pipe,       \* blocks in the pipe to the job
    out_pipe,      \* blocks in the pipe from the job
    alive,         \* the processes that run
    in_ends,       \* the processes that hold the read end of the input
    out_ends,      \* the processes that hold the write end of the output
    status,        \* how the job's process ended
    written,       \* history: blocks of output written
    traces         \* history: what was mailed or logged about the job

processes == <<alive, in_ends, out_ends, status>>
thread == <<pc, kept, discarded, traces>>
feed == <<writer, unfed>>
vars == <<entry, thread, feed, in_pipe, out_pipe, processes, written>>

PCs == {"starting", "reading", "waiting", "joining", "delivering", "done", "panicked"}
Ended == {"done", "panicked"}
Writers == {"none", "writing", "finished", "broken", "failed"}
Processes == {"job", "background"}
Traces == {"not started", "read error", "wait error", "stdin error", "CMDOUT",
           "UNSAFE", "mailed", "MAIL status", "MAIL ERROR"}

Trace(t) == traces' = traces \cup {t}

-----------------------------------------------------------------------------
(* The thread of the job.                                                  *)

\* Every early return before the job exists, with its line in the log: unknown
\* user, missing privilege, expired account, groups, pipes, fork, chdir, exec.
CannotStart ==
    /\ pc = "starting"
    /\ pc' = "done"
    /\ Trace("not started")
    /\ UNCHANGED <<entry, kept, discarded, feed, in_pipe, out_pipe, processes, written>>

\* Slip: crond keeps its copy of the write end (no drop of the Command).
SpawnKeepsEnds ==
    /\ pc = "starting"
    /\ pc' = "reading"
    /\ alive' = {"job"}
    /\ out_ends' = {"job", "crond"}
    /\ in_ends' = IF entry.stdin = NoInput THEN {} ELSE {"job"}
    /\ writer' = IF entry.stdin = NoInput THEN "none" ELSE "writing"
    /\ unfed' = IF entry.stdin = NoInput THEN 0 ELSE entry.stdin
    /\ UNCHANGED <<entry, kept, discarded, traces, in_pipe, out_pipe, status, written>>

\* spawn, close our ends, start the writer.  Without "%" input the job reads
\* from /dev/null.
Spawn ==
    /\ pc = "starting"
    /\ pc' = "reading"
    /\ alive' = {"job"}
    /\ out_ends' = {"job"}
    /\ in_ends' = IF entry.stdin = NoInput THEN {} ELSE {"job"}
    /\ writer' = IF entry.stdin = NoInput THEN "none" ELSE "writing"
    /\ unfed' = IF entry.stdin = NoInput THEN 0 ELSE entry.stdin
    /\ UNCHANGED <<entry, kept, discarded, traces, in_pipe, out_pipe, status, written>>

\* std::thread::spawn panics when the system has no thread for the writer: the
\* thread of the job unwinds, its ends are closed, the job goes on.
WriterCannotStart ==
    /\ pc = "starting"
    /\ entry.stdin # NoInput
    /\ pc' = "panicked"
    /\ alive' = {"job"} /\ out_ends' = {"job"} /\ in_ends' = {"job"}
    /\ UNCHANGED <<entry, kept, discarded, traces, feed, in_pipe, out_pipe, status, written>>

Room == MAX_OUTPUT - kept

\* Slips: a block that does not fit is dropped as a whole; the output is read
\* when the input has been written.
ReadOutputAllOrNothing ==
    /\ pc = "reading"
    /\ \E n \in 1..out_pipe :
        LET keep == IF n <= Room THEN n ELSE 0
        IN  /\ kept' = kept + keep
            /\ discarded' = discarded + (n - keep)
            /\ out_pipe' = out_pipe - n
    /\ UNCHANGED <<entry, pc, traces, feed, in_pipe, processes, written>>
ReadOutputAfterInput ==
    /\ pc = "reading"
    /\ writer # "writing"
    /\ \E n \in 1..out_pipe :
        LET keep == IF n <= Room THEN n ELSE Room
        IN  /\ kept' = kept + keep
            /\ discarded' = discarded + (n - keep)
            /\ out_pipe' = out_pipe - n
    /\ UNCHANGED <<entry, pc, traces, feed, in_pipe, processes, written>>

\* One read; what is beyond the cap is drained.
ReadOutput ==
    /\ pc = "reading"
    /\ \E n \in 1..out_pipe :
        LET keep == IF n <= Room THEN n ELSE Room
        IN  /\ kept' = kept + keep
            /\ discarded' = discarded + (n - keep)
            /\ out_pipe' = out_pipe - n
    /\ UNCHANGED <<entry, pc, traces, feed, in_pipe, processes, written>>

\* Slip: the end of the output is taken for the end of the job.
ReadEofEndsJob ==
    /\ pc = "reading"
    /\ out_pipe = 0 /\ out_ends = {}
    /\ pc' = "joining"
    /\ UNCHANGED <<entry, kept, discarded, traces, feed, in_pipe, out_pipe, processes, written>>

\* read returns 0: the pipe is empty and nobody can write to it any more.
ReadEof ==
    /\ pc = "reading"
    /\ out_pipe = 0 /\ out_ends = {}
    /\ pc' = "waiting"
    /\ UNCHANGED <<entry, kept, discarded, traces, feed, in_pipe, out_pipe, processes, written>>

\* Slip: a read error is not reported.
ReadFailsSilently ==
    /\ pc = "reading"
    /\ pc' = "waiting"
    /\ UNCHANGED <<entry, kept, discarded, traces, feed, in_pipe, out_pipe, processes, written>>

\* read fails: the error is logged, and the reader is dropped like at the end.
ReadFails ==
    /\ pc = "reading"
    /\ pc' = "waiting"
    /\ Trace("read error")
    /\ UNCHANGED <<entry, kept, discarded, feed, in_pipe, out_pipe, processes, written>>

\* child.wait() returns the status of the job's own process.
WaitChild ==
    /\ pc = "waiting"
    /\ "job" \notin alive
    /\ pc' = "joining"
    /\ UNCHANGED <<entry, kept, discarded, traces, feed, in_pipe, out_pipe, processes, written>>

\* wait fails: run returns, and the output is not delivered.
WaitFails ==
    /\ pc = "waiting"
    /\ pc' = "done"
    /\ Trace("wait error")
    /\ UNCHANGED <<entry, kept, discarded, feed, in_pipe, out_pipe, processes, written>>

\* The writer is joined; a job that did not read all of its input is no error.
JoinWriter ==
    /\ pc = "joining"
    /\ writer # "writing"
    /\ pc' = "delivering"
    /\ IF writer = "failed" THEN Trace("stdin error") ELSE UNCHANGED traces
    /\ UNCHANGED <<entry, kept, discarded, feed, in_pipe, out_pipe, processes, written>>

Mailing == entry.mailto \in {"unset", "safe"} /\ entry.destination = "mail"

\* deliver.  The mailer succeeds, or it fails, or it cannot be run (or the
\* credentials for it not be resolved); all but the first is logged.
Deliver ==
    /\ pc = "delivering"
    /\ pc' = "done"
    /\ LET syslog == IF entry.destination = "syslog" THEN {"CMDOUT"} ELSE {}
           unsafe == IF entry.mailto = "unsafe" THEN {"UNSAFE"} ELSE {}
       IN  IF kept = 0 THEN UNCHANGED traces
           ELSE IF ~Mailing \/ (entry.mail_on_failure_only /\ status = "success")
           THEN traces' = traces \cup syslog \cup unsafe
           ELSE \E t \in {"mailed", "MAIL status", "MAIL ERROR"} : Trace(t)
    /\ UNCHANGED <<entry, kept, discarded, feed, in_pipe, out_pipe, processes, written>>

\* Mailer::send starts its helpers with the same call.
MailHelperCannotStart ==
    /\ pc = "delivering"
    /\ kept > 0 /\ Mailing /\ ~(entry.mail_on_failure_only /\ status = "success")
    /\ pc' = "panicked"
    /\ UNCHANGED <<entry, kept, discarded, traces, feed, in_pipe, out_pipe, processes, written>>

Run == CannotStart \/ Spawn \/ ReadOutput \/ ReadEof \/ WaitChild
       \/ JoinWriter \/ Deliver

-----------------------------------------------------------------------------
(* The thread that writes the input (write_all).                           *)

WriteBlock ==
    /\ writer = "writing" /\ unfed > 0
    /\ in_ends # {} /\ in_pipe < PipeSize
    /\ unfed' = unfed - 1
    /\ in_pipe' = in_pipe + 1
    /\ UNCHANGED <<entry, thread, writer, out_pipe, processes, written>>

\* Everything is written: the thread ends and closes the pipe.
WriterEnds ==
    /\ writer = "writing" /\ unfed = 0
    /\ writer' = "finished"
    /\ UNCHANGED <<entry, thread, unfed, in_pipe, out_pipe, processes, written>>

\* Nobody can read it any more.
WriterBroken ==
    /\ writer = "writing" /\ unfed > 0
    /\ in_ends = {}
    /\ writer' = "broken"
    /\ UNCHANGED <<entry, thread, unfed, in_pipe, out_pipe, processes, written>>

\* Any other error, or a panic.
WriterFails ==
    /\ writer = "writing"
    /\ writer' = "failed"
    /\ UNCHANGED <<entry, thread, unfed, in_pipe, out_pipe, processes, written>>

Feed == WriteBlock \/ WriterEnds \/ WriterBroken

-----------------------------------------------------------------------------
(* The processes.                                                          *)

\* The job leaves a process in the background, which inherits its ends.
Fork ==
    /\ "job" \in alive /\ "background" \notin alive
    /\ alive' = alive \cup {"background"}
    /\ in_ends' = IF "job" \in in_ends THEN in_ends \cup {"background"} ELSE in_ends
    /\ out_ends' = IF "job" \in out_ends THEN out_ends \cup {"background"} ELSE out_ends
    /\ UNCHANGED <<entry, thread, feed, in_pipe, out_pipe, status, written>>

CloseIn(p) ==
    /\ p \in alive \cap in_ends
    /\ in_ends' = in_ends \ {p}
    /\ UNCHANGED <<entry, thread, feed, in_pipe, out_pipe, alive, out_ends, status, written>>

CloseOut(p) ==
    /\ p \in alive \cap out_ends
    /\ out_ends' = out_ends \ {p}
    /\ UNCHANGED <<entry, thread, feed, in_pipe, out_pipe, alive, in_ends, status, written>>

ReadIn(p) ==
    /\ p \in alive \cap in_ends
    /\ in_pipe > 0
    /\ in_pipe' = in_pipe - 1
    /\ UNCHANGED <<entry, thread, feed, out_pipe, processes, written>>

WriteOut(p) ==
    /\ p \in alive \cap out_ends
    /\ pc = "reading"
    /\ out_pipe < PipeSize /\ written < MaxWritten
    /\ out_pipe' = out_pipe + 1
    /\ written' = written + 1
    /\ UNCHANGED <<entry, thread, feed, in_pipe, processes>>

Exit(p) ==
    /\ p \in alive
    /\ alive' = alive \ {p}
    /\ in_ends' = in_ends \ {p}
    /\ out_ends' = out_ends \ {p}
    /\ IF p = "job" THEN status' \in {"success", "failure"} ELSE UNCHANGED status
    /\ UNCHANGED <<entry, thread, feed, in_pipe, out_pipe, written>>

\* The job has read its input to the end, has written all it had to write.
InputRead == "job" \in in_ends => writer # "writing" /\ in_pipe = 0
OutputWritten == "job" \in out_ends => written = MaxWritten \/ pc # "reading"

\* A job that gets on with its work: one that writes its output before it reads
\* its input, or one that reads first.
JobProceeds ==
    \/ ReadIn("job") /\ (entry.command = "writes first" => OutputWritten)
    \/ WriteOut("job") /\ (entry.command = "reads first" => InputRead)
    \/ Exit("job") /\ InputRead /\ OutputWritten

-----------------------------------------------------------------------------
Init ==
    /\ entry \in Entries
    /\ pc = "starting"
    /\ kept = 0 /\ discarded = 0
    /\ writer = "none" /\ unfed = 0
    /\ in_pipe = 0 /\ out_pipe = 0
    /\ alive = {} /\ in_ends = {} /\ out_ends = {}
    /\ status = "none"
    /\ written = 0
    /\ traces = {}

Next ==
    \/ Run \/ ReadFails \/ WaitFails
    \/ WriterCannotStart \/ MailHelperCannotStart
    \/ Feed \/ WriterFails
    \/ Fork
    \/ \E p \in Processes :
          CloseIn(p) \/ CloseOut(p) \/ ReadIn(p) \/ WriteOut(p) \/ Exit(p)

Spec == Init /\ [][Next]_vars

\* The threads of crond run, and the job goes on with its work as long as it can.  A process in the background may live, and
\* hold its ends, for ever.
FairSpec == Spec /\ WF_vars(Run) /\ WF_vars(Feed) /\ WF_vars(JobProceeds)

-----------------------------------------------------------------------------
(* Properties.                                                             *)

\* Type correctness.
TypeOK ==
    /\ entry \in Entries
    /\ pc \in PCs
    /\ kept \in 0..MAX_OUTPUT
    /\ discarded \in 0..MaxWritten
    /\ writer \in Writers
    /\ unfed \in Nat
    /\ in_pipe \in 0..PipeSize
    /\ out_pipe \in 0..PipeSize
    /\ alive \subseteq Processes /\ in_ends \subseteq alive /\ out_ends \subseteq alive
    /\ status \in {"none", "success", "failure"}
    /\ written \in 0..MaxWritten
    /\ traces \subseteq Traces

\* Whatever the sizes of the reads: each block written, by the job or by what it
\* left behind, is kept, counted as discarded or still in the pipe, and none is
\* discarded while there is room.
OutputConserved ==
    /\ kept + discarded + out_pipe = written
    /\ discarded > 0 => kept = MAX_OUTPUT

\* The slot, which the thread holds until run returns, covers the job: its
\* process has ended and nobody can write to its output any more, unless
\* crond was told otherwise by an error or the thread panicked.
SlotCoversJob ==
    pc = "done" =>
        /\ "job" \notin alive \/ "wait error" \in traces
        /\ out_ends = {} \/ traces \cap {"read error", "wait error"} # {}

\* Somebody is meant to get the output: it is not switched off, the entry has an
\* addressee, and "-n" does not apply.
Wanted ==
    /\ entry.destination # "off"
    /\ entry.mailto # "empty"
    /\ entry.mail_on_failure_only => status = "failure"

\* Output that somebody is meant to get leaves a trace, whichever call fails: it
\* is mailed, or the log has it or has the reason.
NoSilentLoss == pc = "done" /\ written > 0 /\ Wanted => traces # {}

\* "Every failure is logged here, once" (run): a job that is left alone, and
\* output that is wanted and not delivered, leave a trace however run ends.
EveryFailureLogged ==
    pc \in Ended /\ ("job" \in alive \/ (written > 0 /\ Wanted)) => traces # {}

\* What still runs, if anything, is in the background and has closed its output.
Detached == "job" \notin alive /\ Processes \cap out_ends = {}

\* run returns when nothing is left in the background: it never waits for the job
\* while the job waits for it, however much the two write.  And a process left in
\* the background that has closed its output does not hold it up, even if it never
\* ends, when the input fits into a pipe.
RunReturns ==
    /\ <>[]("background" \notin alive) => <>(pc \in Ended)
    /\ <>[]Detached /\ entry.stdin <= PipeSize => <>(pc \in Ended)

\* The same for every input ("background children do not hang on closed
\* output", name of a test in job.rs).
ClosedOutputDoesNotHang ==
    <>[]Detached => <>(pc \in Ended)
=============================================================================
