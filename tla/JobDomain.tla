----------------------------- MODULE JobDomain -----------------------------
(***************************************************************************)
(* The job entity of internal/worker/domain/job.go: the statuses, the two  *)
(* status predicates and the four transitions.  A job is a record of the   *)
(* fields the other components decide on; command, arguments, limits and   *)
(* timestamps are data nobody branches on and are left out, except that    *)
(* "ended" says whether EndTime is set.                                    *)
(***************************************************************************)
EXTENDS Integers

Initializing == "INITIALIZING"
Running      == "RUNNING"
Completed    == "COMPLETED"
Failed       == "FAILED"
Stopped      == "STOPPED"

JobStatus == {Initializing, Running, Completed, Failed, Stopped}

\* What IsCompleted tests.
FinalStatus == {Completed, Failed, Stopped}

\* The job a StartJob call builds before it has a process.
NewJob == [Status |-> Initializing, Pid |-> 0, ExitCode |-> 0, ended |-> FALSE]

IsRunning(job) == job.Status = Running

IsCompleted(job) == job.Status \in FinalStatus

\* MarkAsRunning, which leaves the job alone when it reports an error.
MarkAsRunning(job, pid) ==
    IF job.Status = Initializing /\ pid > 0
    THEN [job EXCEPT !.Status = Running, !.Pid = pid]
    ELSE job

Complete(job, exitCode) ==
    [job EXCEPT !.Status = Completed, !.ExitCode = exitCode, !.ended = TRUE]

Fail(job, exitCode) ==
    [job EXCEPT !.Status = Failed, !.ExitCode = exitCode, !.ended = TRUE]

\* Mutant: the end time is not set.
StopWithoutEndTime(job) == [job EXCEPT !.Status = Stopped, !.ExitCode = -1]

Stop(job) ==
    [job EXCEPT !.Status = Stopped, !.ExitCode = -1, !.ended = TRUE]

\* DeepCopy, field by field.
DeepCopy(job) ==
    [Status |-> job.Status, Pid |-> job.Pid, ExitCode |-> job.ExitCode, ended |-> job.ended]
=============================================================================
