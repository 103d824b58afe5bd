---------------------------- MODULE WorkerServer ----------------------------
(***************************************************************************)
(* The worker as a service: it boots, serves, drains on a signal, crashes, *)
(* is cleared away by systemd (etc/worker.service) and starts again with   *)
(* its counter at zero, while the processes of its jobs, their cgroup      *)
(* directories and the command line clients have lives of their own.       *)
(*                                                                         *)
(* A job is named by the run of the worker that accepted it and its id.    *)
(* JobLifecycle has every step of one job inside one run; here a job is    *)
(* followed across runs, at the steps where a crash makes a difference.    *)
(*                                                                         *)
(* Premise: the unit file is etc/worker.service and the cgroup base        *)
(* directory is the default one, the directory its ExecStopPost clears.    *)
(* Validate accepts any absolute path, and with another one, or with the   *)
(* unit of docs/DEPLOYMENT.md, job directories outlive the worker.         *)
(***************************************************************************)
EXTENDS Naturals, FiniteSets

CONSTANTS
    Runners,   \* "cli run" invocations
    Callers,   \* users of "cli stop", "status" and "list", who call again and again
    Loggers,   \* users of "cli log", likewise
    MaxRuns,   \* bound: how often the worker is started
    MaxIds,    \* bound: how many ids it gives in one run
    Nobody     \* the owner of an id not given yet

ASSUME ServerAssumption == MaxRuns \in Nat \ {0} /\ MaxIds \in Nat \ {0}

\* The users of different commands are told apart, and nobody is none of them.
ASSUME ClientsAssumption ==
    /\ Runners \cap (Callers \cup Loggers) = {}
    /\ Nobody \notin Runners

Clients == Runners \cup Callers \cup Loggers
Ids     == 1 .. MaxIds
Jobs    == (1 .. MaxRuns) \X Ids
Owners  == {"worker"} \cup Callers

VARIABLES
    worker,  \* where the process is, from "off" through "serving" to "gone"
    run,     \* how many times it was started
    counter, \* jobCounter
    job,     \* for each job its owner, its handler or monitor, status and process
    dirs,    \* ids whose cgroup directory exists
    cleanup, \* the two goroutines of each CleanupCgroup
    rpc,     \* where each client's call is: made or yet to be made, handled, answered
    target   \* the job a stop or log handler works on, while there is one

NoJob  == <<0, 0>>
vars   == <<worker, run, counter, job, dirs, cleanup, rpc, target>>

\* pc is where StartJob or the monitor is, status what the store says of the job,
\* place the cgroup of its process: the service's own, the job's, or the root.
NewRecord == [owner |-> Nobody, pc |-> "none", status |-> "none", proc |-> "none",
              place |-> "service", assigned |-> FALSE, killed |-> FALSE]

NoCleanup == [outer |-> "none", inner |-> "none"]

TypeOK ==
    /\ worker \in {"off", "boot", "loaded", "created", "listening", "serving", "deaf",
                   "draining", "gone"}
    /\ run \in 0 .. MaxRuns
    /\ counter \in 0 .. MaxIds
    /\ job \in [Jobs -> [owner    : Runners \cup {Nobody},
                         pc       : {"none", "create", "launch", "join", "watch"},
                         status   : {"none", "init", "running", "over"},
                         proc     : {"none", "alive", "over"},
                         place    : {"service", "job", "root"},
                         assigned : BOOLEAN,
                         killed   : BOOLEAN]]
    /\ dirs \subseteq Ids
    /\ cleanup \in [Jobs \X Owners ->
                        [outer : {"none", "wait"}, inner : {"none", "stat", "kill", "remove", "send"}]]
    /\ rpc \in [Clients -> {"queued", "handled", "ok", "error"}]
    /\ \A c \in Clients \ Runners : rpc[c] \in {"queued", "handled"}
    /\ target \in [Clients -> Jobs \cup {NoJob}]

Init ==
    /\ worker = "off"
    /\ run = 0
    /\ counter = 0
    /\ job = [j \in Jobs |-> NewRecord]
    /\ dirs = {}
    /\ cleanup = [k \in Jobs \X Owners |-> NoCleanup]
    /\ rpc = [c \in Clients |-> "queued"]
    /\ target = [c \in Clients |-> NoJob]

-----------------------------------------------------------------------------
(* The process of the worker *)

Up == worker \in {"listening", "serving", "deaf", "draining"}

\* New connections are accepted.
Accepting == worker \in {"listening", "serving"}

\* A job this worker process knows.
Mine(j) == Up /\ j[1] = run

Goto(w) == worker' = w /\ UNCHANGED <<run, counter, job, dirs, cleanup, rpc, target>>

\* systemd starts the service; the counter and the store are fresh.
Start ==
    /\ worker = "off"
    /\ run < MaxRuns
    /\ worker' = "boot"
    /\ run' = run + 1
    /\ counter' = 0
    /\ UNCHANGED <<job, dirs, cleanup, rpc, target>>

\* main: without a valid configuration the process ends.
Main == worker = "boot" /\ (Goto("loaded") \/ Goto("gone"))

\* NewStore and NewWorker, whose setup of the cgroup controllers only warns.
NewPlatformWorker == worker = "loaded" /\ Goto("created")

\* An error before Serve is started, of the certificates or the port, ends the
\* process.
StartGRPCServer == worker = "created" /\ (Goto("listening") \/ Goto("gone"))

\* signal.Notify: only from here on is a signal a request to drain.
RunServer == worker = "listening" /\ Goto("serving")

\* Serve returns an error, which its goroutine logs; main goes on waiting for
\* a signal.
ServeFails == worker = "serving" /\ Goto("deaf")

\* The command returns; the other users' next call follows.
Returns(c, answer) == [rpc EXCEPT ![c] = IF c \in Runners THEN answer ELSE "queued"]

\* The answer reaches a client that still waits for it.
Answered(c, answer) == IF rpc[c] = "handled" THEN Returns(c, answer) ELSE rpc

\* The process is gone, with its handlers, goroutines and connections: a client
\* whose call was being handled gets an error.
Dies ==
    /\ worker' = "gone"
    /\ job' = [j \in Jobs |->
                  IF j[1] = run THEN [job[j] EXCEPT !.pc = "none", !.status = "none"] ELSE job[j]]
    /\ cleanup' = [k \in Jobs \X Owners |-> NoCleanup]
    /\ rpc' = [c \in Clients |-> Answered(c, "error")[c]]
    /\ target' = [c \in Clients |-> NoJob]
    /\ UNCHANGED <<run, counter, dirs>>

\* A panic, the kernel, or systemd after its stop timeout.
Crash == Up /\ Dies

\* SIGINT or SIGTERM; while nobody listens for it, it kills.
Signal ==
    \/ worker = "listening" /\ Dies
    \/ worker \in {"serving", "deaf"} /\ Goto("draining")

\* Handlers at work: GracefulStop waits for them.
Handling ==
    \/ \E j \in Jobs : j[1] = run /\ job[j].pc \in {"create", "launch", "join"}
    \/ \E c \in Callers \cup Loggers : rpc[c] = "handled" \/ target[c] # NoJob

\* GracefulStop returns and main ends; monitors and cleanups are not waited for.
GracefulStop == worker = "draining" /\ ~Handling /\ Dies

\* Live processes below the service's cgroup, and in one job's directory.
Alive(j)    == job[j].proc = "alive"
Ended(r)    == [r EXCEPT !.proc = "over", !.place = "service", !.assigned = FALSE, !.killed = FALSE]
InDir(i, f) == {j \in Jobs : j[2] = i /\ f[j].proc = "alive" /\ f[j].place = "job"}

\* Mutant: KillMode=process, and ExecStopPost removes what is empty.
SystemdKillsMainOnly ==
    /\ worker = "gone"
    /\ worker' = "off"
    /\ dirs' = {i \in dirs : InDir(i, job) # {}}
    /\ UNCHANGED <<run, counter, job, cleanup, rpc, target>>

\* Mutant: no ExecStopPost.
SystemdLeavesDirectories ==
    /\ worker = "gone"
    /\ worker' = "off"
    /\ job' = [j \in Jobs |-> IF Alive(j) /\ job[j].place # "root"
                              THEN Ended(job[j]) ELSE job[j]]
    /\ UNCHANGED <<run, counter, dirs, cleanup, rpc, target>>

\* systemd kills what is left in the service's control group, and ExecStopPost
\* removes the empty job directories, which the base directory of the premise
\* puts where it looks.
SystemdStops ==
    /\ worker = "gone"
    /\ worker' = "off"
    /\ job' = [j \in Jobs |-> IF Alive(j) /\ job[j].place # "root"
                              THEN Ended(job[j]) ELSE job[j]]
    /\ dirs' = {i \in dirs : InDir(i, job') # {}}
    /\ UNCHANGED <<run, counter, cleanup, rpc, target>>

-----------------------------------------------------------------------------
(* Command line clients *)

\* NewJobClient: the connection is made when the server accepts it, and calls
\* wait for that.  A user calls again when the handler of the last call is over.
Connects(c) == Accepting /\ rpc[c] = "queued" /\ target[c] = NoJob

\* Mutant: the deadline is set when the connection stands.
DeadlineOnceConnected(c) ==
    /\ rpc[c] = "handled"
    /\ rpc' = Returns(c, "error")
    /\ UNCHANGED <<worker, run, counter, job, dirs, cleanup, target>>

\* Mutant: the client calls again when the answer does not come.
DeadlineRetries(c) ==
    /\ rpc[c] \in {"queued", "handled"}
    /\ rpc' = IF rpc[c] = "handled" THEN [rpc EXCEPT ![c] = "queued"] ELSE Returns(c, "error")
    /\ UNCHANGED <<worker, run, counter, job, dirs, cleanup, target>>

\* Ten seconds are over, whether or not the server ever got the call; what a
\* handler has begun it goes on with.  Or there are no certificates to call with.
Deadline(c) ==
    /\ rpc[c] \in {"queued", "handled"}
    /\ rpc' = Returns(c, "error")
    /\ UNCHANGED <<worker, run, counter, job, dirs, cleanup, target>>

\* status and list: the store is read, then the client gets the answer.
Ask(c) ==
    /\ Connects(c)
    /\ rpc' = [rpc EXCEPT ![c] = "handled"]
    /\ UNCHANGED <<worker, run, counter, job, dirs, cleanup, target>>

AnswerAsk(c) ==
    /\ rpc[c] = "handled"
    /\ target[c] = NoJob
    /\ rpc' = Returns(c, "ok")
    /\ UNCHANGED <<worker, run, counter, job, dirs, cleanup, target>>

\* Mutant: streams are accepted while the server drains.
OpenLogWhileDraining(c) ==
    /\ Up
    /\ rpc[c] = "queued"
    /\ \E j \in Jobs : /\ Mine(j) /\ job[j].status # "none"
                       /\ target' = [target EXCEPT ![c] = j]
    /\ rpc' = [rpc EXCEPT ![c] = "handled"]
    /\ UNCHANGED <<worker, run, counter, job, dirs, cleanup>>

\* GetJobLogs of a job the store knows; otherwise the client gets an error.
OpenLog(c) ==
    /\ Connects(c)
    /\ \/ \E j \in Jobs : /\ Mine(j) /\ job[j].status # "none"
                          /\ target' = [target EXCEPT ![c] = j]
                          /\ rpc' = [rpc EXCEPT ![c] = "handled"]
       \/ UNCHANGED target /\ rpc' = Returns(c, "error")
    /\ UNCHANGED <<worker, run, counter, job, dirs, cleanup>>

\* The stream ends with the job.
EndLog(c) ==
    /\ target[c] # NoJob
    /\ job[target[c]].status = "over"
    /\ target' = [target EXCEPT ![c] = NoJob]
    /\ rpc' = Answered(c, "ok")
    /\ UNCHANGED <<worker, run, counter, job, dirs, cleanup>>

\* Ctrl-C cancels the stream; the client ends well, and the handler with it.
Interrupt(c) ==
    /\ rpc[c] = "handled"
    /\ rpc' = Returns(c, "ok")
    /\ target' = [target EXCEPT ![c] = NoJob]
    /\ UNCHANGED <<worker, run, counter, job, dirs, cleanup>>

-----------------------------------------------------------------------------
(* RunJob: StartJob at the steps between which a crash matters *)

\* Mutant: the id is taken twice on the way.
AcceptRunTwoIds(c) ==
    /\ Connects(c)
    /\ counter < MaxIds
    /\ counter' = counter + 2
    /\ job' = [job EXCEPT ![<<run, counter'>>] =
                  [NewRecord EXCEPT !.owner = c, !.pc = "create"]]
    /\ rpc' = [rpc EXCEPT ![c] = "handled"]
    /\ UNCHANGED <<worker, run, dirs, cleanup, target>>

\* The call reaches the worker and gets the next id, or is refused; a refused
\* call has used an id up, too.
AcceptRun(c) ==
    /\ Connects(c)
    /\ counter < MaxIds
    /\ counter' = counter + 1
    /\ \/ /\ job' = [job EXCEPT ![<<run, counter'>>] =
                        [NewRecord EXCEPT !.owner = c, !.pc = "create"]]
          /\ rpc' = [rpc EXCEPT ![c] = "handled"]
       \/ UNCHANGED job /\ rpc' = Returns(c, "error")
    /\ UNCHANGED <<worker, run, dirs, cleanup, target>>

\* CleanupCgroup starts its two goroutines and returns.
CleanupCgroup(j, o) == cleanup' = [cleanup EXCEPT ![<<j, o>>] = [outer |-> "wait", inner |-> "stat"]]

\* MkdirAll, which takes a directory that exists for success, and CreateNewJob;
\* or the call fails.
CreateCgroup(j) ==
    /\ Mine(j)
    /\ job[j].pc = "create"
    /\ \/ /\ dirs' = dirs \cup {j[2]}
          /\ job' = [job EXCEPT ![j].pc = "launch", ![j].status = "init"]
          /\ UNCHANGED rpc
       \/ /\ job' = [job EXCEPT ![j].pc = "none"]
          /\ rpc' = Answered(job[j].owner, "error")
          /\ UNCHANGED dirs
    /\ UNCHANGED <<worker, run, counter, cleanup, target>>

\* The child is started in the worker's own cgroup; or the launch fails or is
\* given up, in which case the child may be started all the same.
Launch(j) ==
    /\ Mine(j)
    /\ job[j].pc = "launch"
    /\ \/ /\ job' = [job EXCEPT ![j].pc = "join", ![j].proc = "alive"]
          /\ UNCHANGED <<rpc, cleanup>>
       \/ /\ \E p \in {"none", "alive"} :
                 job' = [job EXCEPT ![j].pc = "none", ![j].status = "over", ![j].proc = p]
          /\ CleanupCgroup(j, "worker")
          /\ rpc' = Answered(job[j].owner, "error")
    /\ UNCHANGED <<worker, run, counter, dirs, target>>

\* addProcessToCgroup, which may fail, updateJobAsRunning, the monitor starts,
\* and the client is told.
Join(j) ==
    /\ Mine(j)
    /\ job[j].pc = "join"
    /\ \E p \in {job[j].place, "job"} :
           job' = [job EXCEPT ![j].pc = "watch", ![j].status = "running",
                              ![j].place = IF Alive(j) /\ j[2] \in dirs THEN p ELSE @]
    /\ rpc' = Answered(job[j].owner, "ok")
    /\ UNCHANGED <<worker, run, counter, dirs, cleanup, target>>

\* The child, assignToCgroup: to the root of the hierarchy.
ChildAssigns(j) ==
    /\ Alive(j)
    /\ ~job[j].assigned
    /\ job' = [job EXCEPT ![j].place = "root", ![j].assigned = TRUE]
    /\ UNCHANGED <<worker, run, counter, dirs, cleanup, rpc, target>>

\* The child fails or the command ends, by itself or killed.
ProcEnds(j) ==
    /\ Alive(j)
    /\ job' = [job EXCEPT ![j] = Ended(@)]
    /\ UNCHANGED <<worker, run, counter, dirs, cleanup, rpc, target>>

\* monitorJob: the record, then the cgroup.
MonitorJob(j) ==
    /\ Mine(j)
    /\ job[j].pc = "watch"
    /\ job[j].proc = "over"
    /\ job' = [job EXCEPT ![j].pc = "none", ![j].status = "over"]
    /\ CleanupCgroup(j, "worker")
    /\ UNCHANGED <<worker, run, counter, dirs, rpc, target>>

-----------------------------------------------------------------------------
(* StopJob *)

\* The id the user typed names a running job of this run, or the call fails.
\* A process that is still there gets SIGTERM and SIGKILL.
AcceptStop(c) ==
    /\ Connects(c)
    /\ \E i \in Ids :
           IF job[<<run, i>>].status = "running"
           THEN /\ target' = [target EXCEPT ![c] = <<run, i>>]
                /\ rpc' = [rpc EXCEPT ![c] = "handled"]
                /\ job' = [job EXCEPT ![<<run, i>>].killed = @ \/ Alive(<<run, i>>)]
           ELSE /\ rpc' = Returns(c, "error")
                /\ UNCHANGED <<job, target>>
    /\ UNCHANGED <<worker, run, counter, dirs, cleanup>>

\* updateJobStatus, CleanupCgroup and the answer, whether or not the process
\* has ended.
FinishStop(c) ==
    /\ target[c] # NoJob
    /\ job' = [job EXCEPT ![target[c]].status = "over"]
    /\ CleanupCgroup(target[c], c)
    /\ rpc' = Answered(c, "ok")
    /\ target' = [target EXCEPT ![c] = NoJob]
    /\ UNCHANGED <<worker, run, counter, dirs>>

-----------------------------------------------------------------------------
(* CleanupCgroup: the inner goroutine works, the outer one waits for it *)

InnerGoto(k, pc) == cleanup' = [cleanup EXCEPT ![k].inner = pc]

CleanerStat(k) ==
    /\ cleanup[k].inner = "stat"
    /\ InnerGoto(k, IF k[1][2] \in dirs THEN "kill" ELSE "send")
    /\ UNCHANGED <<worker, run, counter, job, dirs, rpc, target>>

\* Everything in cgroup.procs gets SIGTERM, 100 ms, SIGKILL; a process that ends
\* in these 100 ms makes the function return without removing the directory.
CleanerKill(k) ==
    LET procs == InDir(k[1][2], job) IN
    /\ cleanup[k].inner = "kill"
    /\ \/ /\ job' = [j \in Jobs |-> IF j \in procs THEN [job[j] EXCEPT !.killed = TRUE]
                                                   ELSE job[j]]
          /\ InnerGoto(k, "remove")
       \/ \E j \in procs : /\ job' = [job EXCEPT ![j] = Ended(@)]
                           /\ InnerGoto(k, "send")
    /\ UNCHANGED <<worker, run, counter, dirs, rpc, target>>

\* A directory with a live process in it cannot be removed.
CleanerRemove(k) ==
    /\ cleanup[k].inner = "remove"
    /\ dirs' = IF InDir(k[1][2], job) = {} THEN dirs \ {k[1][2]} ELSE dirs
    /\ InnerGoto(k, "send")
    /\ UNCHANGED <<worker, run, counter, job, rpc, target>>

\* done is unbuffered: its send needs an outer goroutine that still waits.
CleanerDone(k) ==
    /\ cleanup[k] = [outer |-> "wait", inner |-> "send"]
    /\ cleanup' = [cleanup EXCEPT ![k] = NoCleanup]
    /\ UNCHANGED <<worker, run, counter, job, dirs, rpc, target>>

\* Mutant: the timeout cancels the work.
CleanerTimeoutCancels(k) ==
    /\ cleanup[k].outer = "wait"
    /\ cleanup' = [cleanup EXCEPT ![k] = NoCleanup]
    /\ UNCHANGED <<worker, run, counter, job, dirs, rpc, target>>

\* The configured timeout: the outer goroutine leaves, the inner one works on
\* and then stays in its send for as long as the worker runs.
CleanerTimeout(k) ==
    /\ cleanup[k].outer = "wait"
    /\ cleanup' = [cleanup EXCEPT ![k].outer = "none"]
    /\ UNCHANGED <<worker, run, counter, job, dirs, rpc, target>>

-----------------------------------------------------------------------------

CleanerStep(k) == CleanerStat(k) \/ CleanerKill(k) \/ CleanerRemove(k) \/ CleanerDone(k)

HandlerStep(j) == CreateCgroup(j) \/ Launch(j) \/ Join(j)

Next ==
    \/ Start \/ Main \/ NewPlatformWorker \/ StartGRPCServer \/ RunServer
    \/ ServeFails \/ Crash \/ Signal \/ GracefulStop \/ SystemdStops
    \/ \E c \in Runners \cup Callers : Deadline(c)
    \/ \E c \in Runners : AcceptRun(c)
    \/ \E c \in Callers : Ask(c) \/ AnswerAsk(c) \/ AcceptStop(c) \/ FinishStop(c)
    \/ \E c \in Loggers : OpenLog(c) \/ EndLog(c) \/ Interrupt(c)
    \/ \E j \in Jobs : HandlerStep(j) \/ ChildAssigns(j) \/ ProcEnds(j) \/ MonitorJob(j)
    \/ \E k \in Jobs \X Owners : CleanerStep(k) \/ CleanerTimeout(k)

Spec == Init /\ [][Next]_vars

(***************************************************************************)
(* Fairness: handlers, goroutines and timers run, a killed process ends,   *)
(* an idle server stops when it drains.  Nobody has to call, to leave a    *)
(* stream, to send a signal or to restart the worker, and it may crash.    *)
(***************************************************************************)
Fairness ==
    /\ WF_vars(GracefulStop)
    /\ \A c \in Runners \cup Callers : WF_vars(Deadline(c))
    /\ \A c \in Callers : WF_vars(FinishStop(c) \/ AnswerAsk(c))
    /\ \A c \in Loggers : WF_vars(EndLog(c))
    /\ \A j \in Jobs : /\ WF_vars(HandlerStep(j))
                       /\ WF_vars(MonitorJob(j))
                       /\ WF_vars(job[j].killed /\ ProcEnds(j))
    /\ \A k \in Jobs \X Owners : WF_vars(CleanerStep(k))

FairSpec == Spec /\ Fairness

-----------------------------------------------------------------------------
(* Properties *)

\* One "cli run" starts at most one job, however the worker crashes, drains or
\* is restarted under it; a client that was told its job started has one, and
\* that job's process was started.
OneJobPerRequest ==
    \A c \in Runners :
        LET own == {j \in Jobs : job[j].owner = c}
        IN  /\ Cardinality(own) <= 1
            /\ rpc[c] = "ok" => \E j \in own : job[j].proc # "none"

\* Ids and directory names are used again after a restart.  Still, whatever is
\* alive in the worker's cgroups was started by this run, so that a cleanup,
\* which kills all it finds in its directory, kills nothing of another job: a
\* survivor of an earlier run can only be in the root cgroup.  (Under the
\* premise above: the job directories are in the service's control group.)
NoForeignProcess ==
    \A j \in Jobs : Alive(j) /\ job[j].place # "root" => j[1] = run

\* A job directory found by MkdirAll is the job's own: none is left over from an
\* earlier run when an id is given again.  (Under the premise above: ExecStopPost
\* has cleared the base directory.)
FreshDirectory ==
    \A j \in Jobs : Mine(j) /\ job[j].pc = "create" => j[2] \notin dirs

\* Every "cli run" returns, also when the worker is down, deaf or draining: the
\* client waits for a connection and for the answer, but not for ever.
RunsReturn ==
    \A c \in Runners : rpc[c] = "queued" ~> rpc[c] \in {"ok", "error"}

\* After a signal the worker ends once its last log stream is closed: new calls
\* do not keep it up, and nothing but an open stream can hold GracefulStop.
DrainEnds ==
    worker = "draining" /\ (\A c \in Loggers : target[c] = NoJob) ~> worker # "draining"

\* The directory of a job that is over is removed if the worker keeps running:
\* neither the cleanup timeout nor a cleanup that races with the process's end
\* leaves it.
Reclaimed ==
    LET Left == \E j \in Jobs : Mine(j) /\ job[j].status = "over" /\ j[2] \in dirs
    IN  Left ~> ~Left
=============================================================================
