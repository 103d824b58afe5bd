---------------------------- MODULE JobLifecycle ----------------------------
(***************************************************************************)
(* The life of one job in the Linux worker: StartJob, StopJob and          *)
(* monitorJob of core/linux/worker.go, the process manager they call       *)
(* (process/manager.go) and the cgroup cleanup they start                  *)
(* (resource/cgroup.go).  Job ids come from an atomic counter and jobs     *)
(* share nothing else here, so one job is enough.                          *)
(*                                                                         *)
(* Actors: the StartJob call, the goroutine LaunchProcess starts, the      *)
(* monitor goroutine, StopJob calls (Stoppers), one cgroup-cleanup         *)
(* goroutine per caller of CleanupCgroup, and the job's process itself,    *)
(* which with its kernel state is the environment.                         *)
(*                                                                         *)
(* The store is the record "job": UpdateJob replaces it in one step.       *)
(* Publishing and closing subscribers are TaskPubSub's subject; here they  *)
(* are the time between that step and the caller's next one.               *)
(***************************************************************************)
EXTENDS JobDomain, FiniteSets

CONSTANTS
    Stoppers,    \* StopJob calls
    ErrorCodes,  \* exit codes other than 0 that the process may return
    WaitMayFail  \* cmd.Wait may return an error that is not an ExitError

ASSUME LifecycleAssumption ==
    /\ ErrorCodes \subseteq Int \ {0}
    /\ WaitMayFail \in BOOLEAN
    /\ "start" \notin Stoppers
    /\ "monitor" \notin Stoppers

Owners == {"start", "monitor"} \cup Stoppers

\* The process id the kernel gives the job, and the exit code Go reports for
\* a process ended by a signal.
ThePid   == 1
Signaled == -1

VARIABLES
    job,      \* the store's record of the job, NoJob before CreateNewJob
    startPc,  \* where StartJob is
    launcher, \* launchInGoroutine
    proc,     \* the process: "none", "alive", "zombie", "reaped"
    signal,   \* the strongest signal sent to it: "none", "term", "kill"
    exitCode, \* what it exited with
    initPc,   \* how far the process is in RunJobInit, or that it runs the command
    inCgroup, \* the process is in the job's cgroup
    cgroup,   \* the job's cgroup directory exists
    monPc,    \* where monitorJob is
    stopPc,   \* where each StopJob is
    stopJob,  \* the copy of the record each StopJob works from
    method,   \* CleanupResult.Method of each StopJob
    cleaner   \* where the cleanup goroutine of each owner is

kernelVars == <<proc, signal, exitCode, initPc, inCgroup>>
startVars  == <<startPc, launcher>>
stopVars   == <<stopPc, stopJob, method>>
vars       == <<job, startVars, kernelVars, cgroup, monPc, stopVars, cleaner>>

NoJob == [Status |-> "none", Pid |-> 0, ExitCode |-> 0, ended |-> FALSE]

ExitCodes == ErrorCodes \cup {0, Signaled}

Jobs == [Status : JobStatus, Pid : {0, ThePid}, ExitCode : ExitCodes, ended : BOOLEAN]

StartPc   == {"idle", "create", "store", "launch", "launching", "join", "running",
              "spawn", "ok", "fail", "failclean", "failed", "rejected"}
StopPc    == {"idle", "check", "term", "wait", "kill", "verify", "update", "cleanup",
              "ok", "refused"}
Methods   == {"", "already_dead", "graceful", "forced", "force_failed"}
InitPc    == {"assign", "verify", "load", "isolate", "exec", "command"}
CleanerPc == {"none", "begin", "read", "kill", "remove", "done"}

\* Types, and a job that is over has an end time: every path to a final status
\* goes through Complete, Fail or Stop.
TypeOK ==
    /\ job \in Jobs \cup {NoJob}
    /\ job.ended <=> IsCompleted(job)
    /\ startPc \in StartPc
    /\ launcher \in {"none", "starting", "started", "error"}
    /\ proc \in {"none", "alive", "zombie", "reaped"}
    /\ signal \in {"none", "term", "kill"}
    /\ exitCode \in ExitCodes
    /\ initPc \in InitPc
    /\ inCgroup \in BOOLEAN
    /\ cgroup \in BOOLEAN
    /\ monPc \in {"none", "wait", "copy", "cleanup", "done"}
    /\ stopPc \in [Stoppers -> StopPc]
    /\ stopJob \in [Stoppers -> Jobs \cup {NoJob}]
    /\ method \in [Stoppers -> Methods]
    /\ cleaner \in [Owners -> CleanerPc]

Init ==
    /\ job = NoJob
    /\ startPc = "idle"
    /\ launcher = "none"
    /\ proc = "none"
    /\ signal = "none"
    /\ exitCode = 0
    /\ initPc = "assign"
    /\ inCgroup = FALSE
    /\ cgroup = FALSE
    /\ monPc = "none"
    /\ stopPc = [k \in Stoppers |-> "idle"]
    /\ stopJob = [k \in Stoppers |-> NoJob]
    /\ method = [k \in Stoppers |-> ""]
    /\ cleaner = [o \in Owners |-> "none"]

-----------------------------------------------------------------------------
(* The process and the kernel *)

\* isProcessAlive: kill(pid, 0) succeeds until the process is reaped.
IsProcessAlive == proc \in {"alive", "zombie"}

\* kill(pid, sig) of a process that exists; a zombie takes it without effect.
Deliver(sig) ==
    signal' = IF proc = "alive" /\ signal # "kill" THEN sig ELSE signal

ProcEnds(code) ==
    /\ proc' = "zombie"
    /\ exitCode' = code
    /\ inCgroup' = FALSE
    /\ UNCHANGED <<job, startVars, signal, initPc, cgroup, monPc, stopVars, cleaner>>

\* The command exits by itself.  It is process 1 of its namespace, so a SIGTERM
\* acts only through a handler of its own, which chooses the exit code.
ProcExit ==
    /\ proc = "alive"
    /\ initPc = "command"
    /\ signal # "kill"
    /\ \E code \in ErrorCodes \cup {0} : ProcEnds(code)

ProcKilled ==
    /\ proc = "alive"
    /\ signal = "kill"
    /\ ProcEnds(Signaled)

-----------------------------------------------------------------------------
(* The process runs RunJobInit of internal/modes/server.go, then the command *)

InitGoto(from, to) ==
    /\ proc = "alive"
    /\ initPc = from
    /\ initPc' = to
    /\ UNCHANGED <<job, startVars, proc, signal, exitCode, cgroup, monPc, stopVars, cleaner>>

\* assignToCgroup writes to JOB_CGROUP_PATH, which the worker sets to the cgroup
\* root; the process has no cgroup namespace, so this is not its job's cgroup.
AssignToCgroup == InitGoto("assign", "verify") /\ inCgroup' = FALSE

\* verifyCgroupAssignment looks only for the prefix every cgroup v2 path has.
VerifyCgroupAssignment == InitGoto("verify", "load") /\ UNCHANGED inCgroup

LoadConfigFromEnv == InitGoto("load", "isolate") /\ UNCHANGED inCgroup

\* isolation.Setup: private mounts and a /proc of its own.
SetupIsolation == InitGoto("isolate", "exec") /\ UNCHANGED inCgroup

\* jobexec.Execute replaces the process image.
Execute == InitGoto("exec", "command") /\ UNCHANGED inCgroup

\* Mutant: the error of RunJobInit is logged and the process exits normally.
InitFailsQuietly ==
    /\ proc = "alive"
    /\ initPc # "command"
    /\ signal # "kill"
    /\ ProcEnds(0)

\* Any of these steps, or the loading of the configuration before them, may
\* fail, and main exits with 1; the Go runtime exits on a SIGTERM, too.
InitFails ==
    /\ proc = "alive"
    /\ initPc # "command"
    /\ signal # "kill"
    /\ \E code \in ErrorCodes : ProcEnds(code)

-----------------------------------------------------------------------------
(* StartJob *)

\* The request is refused, or it passes the context check, validation and
\* command resolution.
StartRequest ==
    /\ startPc = "idle"
    /\ startPc' \in {"create", "rejected"}
    /\ UNCHANGED <<job, launcher, kernelVars, cgroup, monPc, stopVars, cleaner>>

\* cgroup.Create: the directory is made, or the job is refused.
CreateCgroup ==
    /\ startPc = "create"
    /\ \/ startPc' = "store" /\ cgroup' = TRUE
       \/ startPc' = "rejected" /\ UNCHANGED cgroup
    /\ UNCHANGED <<job, launcher, kernelVars, monPc, stopVars, cleaner>>

CreateNewJob ==
    /\ startPc = "store"
    /\ job' = NewJob
    /\ startPc' = "launch"
    /\ UNCHANGED <<launcher, kernelVars, cgroup, monPc, stopVars, cleaner>>

\* startProcessSingleBinary up to LaunchProcess's select; Executable and
\* validateLaunchConfig may fail before the goroutine is started.
LaunchProcess ==
    /\ startPc = "launch"
    /\ \/ startPc' = "launching" /\ launcher' = "starting"
       \/ startPc' = "fail" /\ UNCHANGED launcher
    /\ UNCHANGED <<job, kernelVars, cgroup, monPc, stopVars, cleaner>>

\* launchInGoroutine: cmd.Start succeeds or fails, whether or not
\* LaunchProcess still waits for the result.
LaunchInGoroutine ==
    /\ launcher = "starting"
    /\ \/ launcher' = "started" /\ proc' = "alive"
       \/ launcher' = "error" /\ UNCHANGED proc
    /\ UNCHANGED <<job, startPc, signal, exitCode, initPc, inCgroup, cgroup, monPc,
                   stopVars, cleaner>>

\* case result := <-resultChan
LaunchResult ==
    /\ startPc = "launching"
    /\ \/ launcher = "started" /\ startPc' = "join"
       \/ launcher = "error" /\ startPc' = "fail"
    /\ UNCHANGED <<job, launcher, kernelVars, cgroup, monPc, stopVars, cleaner>>

\* case <-ctx.Done() or the start timeout: the goroutine goes on alone.
LaunchAbandoned ==
    /\ startPc = "launching"
    /\ startPc' = "fail"
    /\ UNCHANGED <<job, launcher, kernelVars, cgroup, monPc, stopVars, cleaner>>

\* Mutant: the monitor is started before the job is marked as running.
AddProcessToCgroupAndMonitor ==
    /\ startPc = "join"
    /\ startPc' = "running"
    /\ inCgroup' \in {inCgroup, proc = "alive"}
    /\ monPc' = "wait"
    /\ UNCHANGED <<job, launcher, proc, signal, exitCode, initPc, cgroup, stopVars,
                   cleaner>>

\* addProcessToCgroup; a failed write is only logged.
AddProcessToCgroup ==
    /\ startPc = "join"
    /\ startPc' = "running"
    /\ inCgroup' \in {inCgroup, proc = "alive"}
    /\ UNCHANGED <<job, launcher, proc, signal, exitCode, initPc, cgroup, monPc,
                   stopVars, cleaner>>

\* updateJobAsRunning: status and process id are forced if MarkAsRunning
\* refuses.
UpdateJobAsRunning ==
    /\ startPc = "running"
    /\ job' = [MarkAsRunning(NewJob, ThePid) EXCEPT !.Status = Running, !.Pid = ThePid]
    /\ startPc' = "spawn"
    /\ UNCHANGED <<launcher, kernelVars, cgroup, monPc, stopVars, cleaner>>

\* go w.monitorJob, and StartJob returns.
StartMonitor ==
    /\ startPc = "spawn"
    /\ startPc' = "ok"
    /\ monPc' = "wait"
    /\ UNCHANGED <<job, launcher, kernelVars, cgroup, stopVars, cleaner>>

\* cleanupFailedJob: the record, then the cgroup.
FailStart ==
    /\ startPc = "fail"
    /\ job' = Fail(NewJob, -1)
    /\ startPc' = "failclean"
    /\ UNCHANGED <<launcher, kernelVars, cgroup, monPc, stopVars, cleaner>>

\* CleanupCgroup starts its goroutine and returns.
CleanupCgroup(o) == cleaner' = [cleaner EXCEPT ![o] = "begin"]

FailStartCleanup ==
    /\ startPc = "failclean"
    /\ startPc' = "failed"
    /\ CleanupCgroup("start")
    /\ UNCHANGED <<job, launcher, kernelVars, cgroup, monPc, stopVars>>

-----------------------------------------------------------------------------
(* monitorJob *)

\* The copy of the job that StartJob hands to the monitor: marked as running,
\* but the process id went into another copy.
monitorCopy == [NewJob EXCEPT !.Status = Running]

\* cmd.Wait, first half: the process is reaped.
MonitorReap ==
    /\ monPc = "wait"
    /\ proc = "zombie"
    /\ proc' = "reaped"
    /\ monPc' = "copy"
    /\ UNCHANGED <<job, startVars, signal, exitCode, initPc, inCgroup, cgroup,
                   stopVars, cleaner>>

\* Mutant: only success is recorded.
FinalJobSuccessOnly(waitFailed) ==
    IF exitCode = 0 THEN Complete(monitorCopy, 0) ELSE monitorCopy

\* The record the monitor writes: an error that is not an ExitError selects
\* neither branch.
FinalJob(waitFailed) ==
    CASE waitFailed -> monitorCopy
      [] ~waitFailed /\ exitCode = 0 -> Complete(monitorCopy, 0)
      [] OTHER -> Fail(monitorCopy, exitCode)

\* Mutant: a job that StopJob has already ended is not written again, and the
\* monitor leaves without cleaning up.
MonitorUpdateOnce ==
    /\ monPc = "copy"
    /\ job' = IF IsCompleted(job) THEN job ELSE FinalJob(FALSE)
    /\ monPc' = IF IsCompleted(job) THEN "done" ELSE "cleanup"
    /\ UNCHANGED <<startVars, kernelVars, cgroup, stopVars, cleaner>>

\* cmd.Wait, second half (the output is copied), and store.UpdateJob.
MonitorUpdate ==
    /\ monPc = "copy"
    /\ \E waitFailed \in {FALSE, WaitMayFail} : job' = FinalJob(waitFailed)
    /\ monPc' = "cleanup"
    /\ UNCHANGED <<startVars, kernelVars, cgroup, stopVars, cleaner>>

MonitorCleanup ==
    /\ monPc = "cleanup"
    /\ monPc' = "done"
    /\ CleanupCgroup("monitor")
    /\ UNCHANGED <<job, startVars, kernelVars, cgroup, stopVars>>

-----------------------------------------------------------------------------
(* StopJob *)

StopGoto(k, pc) == stopPc' = [stopPc EXCEPT ![k] = pc]

\* The store's GetJob: a copy of the record.
GetJob == DeepCopy(job)

\* GetJob finds a running job, or the call is refused.
StopGetJob(k) ==
    /\ stopPc[k] = "idle"
    /\ IF IsRunning(GetJob)
       THEN StopGoto(k, "check") /\ stopJob' = [stopJob EXCEPT ![k] = GetJob]
       ELSE StopGoto(k, "refused") /\ UNCHANGED stopJob
    /\ UNCHANGED <<job, startVars, kernelVars, cgroup, monPc, method, cleaner>>

\* CleanupProcess has its result.
CleanupResult(k, m) ==
    /\ method' = [method EXCEPT ![k] = m]
    /\ StopGoto(k, "update")

\* The call goes on without a result yet.
CleanupContinues(k, pc) == StopGoto(k, pc) /\ UNCHANGED method

\* cleanupProcessAndGroup, which CleanupProcess skips when the record has no
\* process id.
CheckAlive(k) ==
    /\ stopPc[k] = "check"
    /\ CASE stopJob[k].Pid = 0 -> CleanupResult(k, "")
         [] stopJob[k].Pid # 0 /\ ~IsProcessAlive -> CleanupResult(k, "already_dead")
         [] OTHER -> CleanupContinues(k, "term")
    /\ UNCHANGED <<job, startVars, kernelVars, cgroup, monPc, stopJob, cleaner>>

\* attemptGracefulShutdown: SIGTERM, which fails once the process is reaped.
SendSIGTERM(k) ==
    /\ stopPc[k] = "term"
    /\ \/ IsProcessAlive /\ Deliver("term") /\ StopGoto(k, "wait")
       \/ ~IsProcessAlive /\ StopGoto(k, "kill") /\ UNCHANGED signal
    /\ UNCHANGED <<job, startVars, proc, exitCode, initPc, inCgroup, cgroup, monPc,
                   stopJob, method, cleaner>>

\* Mutant: the graceful timeout counts as a graceful end.
GracefulWaitTrusting(k) ==
    /\ stopPc[k] = "wait"
    /\ CleanupResult(k, "graceful")
    /\ UNCHANGED <<job, startVars, kernelVars, cgroup, monPc, stopJob, cleaner>>

\* attemptGracefulShutdown: the check after the sleep.
GracefulWait(k) ==
    /\ stopPc[k] = "wait"
    /\ \/ ~IsProcessAlive /\ CleanupResult(k, "graceful")
       \/ IsProcessAlive /\ CleanupContinues(k, "kill")
    /\ UNCHANGED <<job, startVars, kernelVars, cgroup, monPc, stopJob, cleaner>>

\* forceKillProcess: SIGKILL.
SendSIGKILL(k) ==
    /\ stopPc[k] = "kill"
    /\ \/ IsProcessAlive /\ Deliver("kill") /\ CleanupContinues(k, "verify")
       \/ ~IsProcessAlive /\ CleanupResult(k, "force_failed") /\ UNCHANGED signal
    /\ UNCHANGED <<job, startVars, proc, exitCode, initPc, inCgroup, cgroup, monPc,
                   stopJob, cleaner>>

\* forceKillProcess: the check after the sleep; a zombie is still there.
VerifyKilled(k) ==
    /\ stopPc[k] = "verify"
    /\ CleanupResult(k, IF IsProcessAlive THEN "force_failed" ELSE "forced")
    /\ UNCHANGED <<job, startVars, kernelVars, cgroup, monPc, stopJob, cleaner>>

\* Mutant: a forced stop counts as a stop, whatever became of the process.
StoppedJobForced(j, m) == IF m = "already_dead" THEN Complete(j, 0) ELSE Stop(j)

\* The record updateJobStatus derives from the method.
StoppedJob(j, m) ==
    CASE m = "graceful" -> Stop(j)
      [] m = "already_dead" -> Complete(j, 0)
      [] OTHER -> Fail(j, -1)

\* Mutant: the cgroup cleanup is started before the record is updated.
UpdateJobStatusLate(k) ==
    /\ stopPc[k] = "update"
    /\ \/ cleaner[k] = "none" /\ CleanupCgroup(k) /\ UNCHANGED <<job, stopPc>>
       \/ cleaner[k] # "none" /\ job' = StoppedJob(stopJob[k], method[k])
          /\ StopGoto(k, "cleanup") /\ UNCHANGED cleaner
    /\ UNCHANGED <<startVars, kernelVars, cgroup, monPc, stopJob, method>>

\* updateJobStatus, from the copy read at the start of the call.
UpdateJobStatus(k) ==
    /\ stopPc[k] = "update"
    /\ job' = StoppedJob(stopJob[k], method[k])
    /\ StopGoto(k, "cleanup")
    /\ UNCHANGED <<startVars, kernelVars, cgroup, monPc, stopJob, method, cleaner>>

StopCleanup(k) ==
    /\ stopPc[k] = "cleanup"
    /\ StopGoto(k, "ok")
    /\ CleanupCgroup(k)
    /\ UNCHANGED <<job, startVars, kernelVars, cgroup, monPc, stopJob, method>>

-----------------------------------------------------------------------------
(* cleanupJobCgroup *)

CleanerGoto(o, pc) == cleaner' = [cleaner EXCEPT ![o] = pc]

\* The directory is gone already, or the goroutine goes on.
CleanerStat(o) ==
    /\ cleaner[o] = "begin"
    /\ CleanerGoto(o, IF cgroup THEN "read" ELSE "done")
    /\ UNCHANGED <<job, startVars, kernelVars, cgroup, monPc, stopVars>>

\* cgroup.procs lists the process while it lives there: SIGTERM.
CleanerRead(o) ==
    /\ cleaner[o] = "read"
    /\ \/ inCgroup /\ Deliver("term") /\ CleanerGoto(o, "kill")
       \/ ~inCgroup /\ CleanerGoto(o, "remove") /\ UNCHANGED signal
    /\ UNCHANGED <<job, startVars, proc, exitCode, initPc, inCgroup, cgroup, monPc,
                   stopVars>>

\* SIGKILL 100 ms later; when the process is gone by then the function
\* returns and leaves the directory.
CleanerKill(o) ==
    /\ cleaner[o] = "kill"
    /\ \/ IsProcessAlive /\ Deliver("kill") /\ CleanerGoto(o, "remove")
       \/ ~IsProcessAlive /\ CleanerGoto(o, "done") /\ UNCHANGED signal
    /\ UNCHANGED <<job, startVars, proc, exitCode, initPc, inCgroup, cgroup, monPc,
                   stopVars>>

\* cgroupPathRemoveAll: a cgroup with a live process cannot be removed, and
\* the failure is only logged.
CleanerRemove(o) ==
    /\ cleaner[o] = "remove"
    /\ cgroup' = (cgroup /\ inCgroup)
    /\ CleanerGoto(o, "done")
    /\ UNCHANGED <<job, startVars, kernelVars, monPc, stopVars>>

-----------------------------------------------------------------------------

StartStep ==
    \/ CreateCgroup \/ CreateNewJob \/ LaunchProcess \/ LaunchResult
    \/ AddProcessToCgroup \/ UpdateJobAsRunning \/ StartMonitor
    \/ FailStart \/ FailStartCleanup

InitStep ==
    \/ AssignToCgroup \/ VerifyCgroupAssignment \/ LoadConfigFromEnv
    \/ SetupIsolation \/ Execute

MonitorStep == MonitorReap \/ MonitorUpdate \/ MonitorCleanup

StopStep(k) ==
    \/ CheckAlive(k) \/ SendSIGTERM(k) \/ GracefulWait(k) \/ SendSIGKILL(k)
    \/ VerifyKilled(k) \/ UpdateJobStatus(k) \/ StopCleanup(k)

CleanerStep(o) == CleanerStat(o) \/ CleanerRead(o) \/ CleanerKill(o) \/ CleanerRemove(o)

\* Every call has returned and every goroutine is over; what is left of the
\* process nobody waits for.
Quiet ==
    /\ startPc \in {"ok", "failed", "rejected"}
    /\ launcher # "starting"
    /\ monPc \in {"none", "done"}
    /\ \A k \in Stoppers : stopPc[k] \in {"ok", "refused"}
    /\ \A o \in Owners : cleaner[o] \in {"none", "done"}

Next ==
    \/ StartRequest \/ StartStep \/ LaunchInGoroutine \/ LaunchAbandoned
    \/ MonitorStep
    \/ \E k \in Stoppers : StopGetJob(k) \/ StopStep(k)
    \/ \E o \in Owners : CleanerStep(o)
    \/ ProcExit \/ ProcKilled \/ InitStep \/ InitFails
    \/ Quiet /\ UNCHANGED vars

Spec == Init /\ [][Next]_vars

(***************************************************************************)
(* Fairness: goroutines run, sleeps end, and the kernel carries out a      *)
(* SIGKILL.  A process need not get on or exit by itself, and nobody need  *)
(* call StartJob or StopJob.                                               *)
(***************************************************************************)
Fairness ==
    /\ WF_vars(StartStep)
    /\ WF_vars(LaunchInGoroutine)
    /\ WF_vars(MonitorStep)
    /\ \A k \in Stoppers : WF_vars(StopStep(k))
    /\ \A o \in Owners : WF_vars(CleanerStep(o))
    /\ WF_vars(ProcKilled)

FairSpec == Spec /\ Fairness

-----------------------------------------------------------------------------
(* Properties *)

\* A job that is over is never INITIALIZING or RUNNING again, although three
\* goroutines write the record from private copies made at different times.
OverStaysOver == [][IsCompleted(job) => IsCompleted(job')]_vars

\* While the record says RUNNING a monitor has yet to write its outcome, or is
\* about to be started: no interleaving of start, stop and exit leaves a
\* RUNNING job that nobody watches.
RunningIsWatched ==
    IsRunning(job) => startPc = "spawn" \/ monPc \in {"wait", "copy"}

\* When StopJob reports success the process has ended or a SIGKILL is on its
\* way: no path through the graceful and forced kill leaves it untouched.
StopEndsProcess ==
    \A k \in Stoppers : stopPc[k] = "ok" => proc # "alive" \/ signal = "kill"

\* The goroutine that kills everything in the job's cgroup is started only
\* once the record is final: a job shown as RUNNING is not being torn down.
CleanupOnlyWhenOver ==
    \A o \in Owners : cleaner[o] # "none" => IsCompleted(job)

\* A job recorded as COMPLETED has run its command: no failure on the way to it,
\* in the worker or in the process, is taken for success.  The exception is a
\* StopJob that came too late and does not look at the exit code.
CompletedJobsRan ==
    job.Status = Completed =>
        initPc = "command" \/ \E k \in Stoppers : method[k] = "already_dead"

\* The cgroup directory of a job that is over is removed, although a cleanup
\* that races with the process's end gives up and leaves it.
CgroupReclaimed == IsCompleted(job) ~> ~cgroup

-----------------------------------------------------------------------------
(* What a client may rely on *)

\* A zombie has ended.
PromisedProcess ==
    CASE proc = "none" -> "none"
      [] proc = "alive" -> "live"
      [] OTHER -> "over"

Promised == INSTANCE JobPromise WITH status <- job.Status, process <- PromisedProcess

\* Whatever the goroutines of StartJob, StopJob and the monitor do to the record
\* and the process, a client sees a job that keeps to JobPromise: one process,
\* no RUNNING without it, no COMPLETED or STOPPED before its end.
KeepsPromise == Promised!Safe

\* Every start comes to an end, and every process that exits ends its job's
\* record, whoever else is starting or stopping it.
EndsAsPromised == Promised!Live

-----------------------------------------------------------------------------
(* What the documentation says and the code does not do *)

\* API.md, status values: COMPLETED means exit code 0.  When all is quiet, a
\* job recorded as COMPLETED had exit code 0.
CompletedMeansSuccess == Quiet /\ job.Status = Completed => exitCode = 0

\* DESIGN.md 6.2: cleanup happens even on failures.  A start that failed leaves
\* no process behind.
FailedStartLeavesNothing == Quiet /\ startPc = "failed" => proc # "alive"

\* DESIGN.md 3.2: the job process joins the job's cgroup, where its limits are.
\* A process that was put there stays there until it ends.
StaysInCgroup == [][inCgroup /\ proc' = "alive" => inCgroup']_vars
=============================================================================
