# job-worker in TLA+

Models of job-worker, a gRPC service that runs commands as isolated Linux
processes: what its goroutines do to a job's record, its output and its
process, how a request becomes an executed command, and what survives a crash
and a restart. They are checked with TLC on small instances and, for the
safety core, proved with TLAPS for every instance.

Source paths below are relative to `src/`.

## 1. The system

| Component | Source | State it keeps | Operations |
|---|---|---|---|
| Job entity | `internal/worker/domain/job.go` | status, pid, exit code, end time | `MarkAsRunning`, `Complete`, `Fail`, `Stop`, `IsRunning`, `IsCompleted`, `DeepCopy` |
| Task | `internal/worker/state/task.go` | the job record (`jobMu`), the output buffer (`bufferMu`), the map of subscriber channels (`subMu`), a context | `Subscribe`, `removeSubscriber`, `UpdateJob`, `Publish`, `WriteToBuffer`, `GetBuffer`, `Shutdown` |
| Store | `internal/worker/state/store.go` | map from job id to task | `CreateNewJob`, `UpdateJob`, `GetJob`, `ListJobs`, `WriteToBuffer`, `GetOutput`, `SendUpdatesToClient` |
| Worker | `internal/worker/core/linux/worker.go` | the job counter | `StartJob`, `StopJob`, the goroutine `monitorJob` |
| Process manager | `internal/worker/core/linux/process/manager.go` | none | `LaunchProcess` (with a goroutine), `CleanupProcess`, validation and resolution of commands |
| Cgroup manager | `internal/worker/core/linux/resource/cgroup.go` | whether controllers are set up; directories and limits in cgroupfs | `EnsureControllers`, `Create`, `Set*Limit`, `CleanupCgroup` (with two goroutines) |
| gRPC service | `internal/worker/server/grpc_service.go`, `mappers`, `adapters` | none | `RunJob`, `GetJobStatus`, `StopJob`, `ListJobs`, `GetJobLogs` |
| Authorization | `internal/worker/auth` | none | `Authorized`: role of the client certificate against the operation |
| Job init mode | `internal/modes`, `isolation`, `jobexec` | the child process before `exec` | cgroup assignment, mount of `/proc`, `exec` of the command |
| Isolation attributes | `internal/worker/core/linux/unprivileged` | none | the namespaces a child is cloned into |
| Server lifecycle | `internal/modes/server.go`, `internal/worker/server/grpc_server.go`, `cmd/worker`, `etc/worker.service` | listener, signal channel | boot, serve, graceful stop; systemd's stop and restart |
| Configuration | `pkg/config` | the effective configuration | defaults, file, environment, validation |
| Logging | `pkg/logger` | a level per logger | `New`, `WithFields`, `SetLevel`, `log` |
| Client | `internal/cli`, `pkg/client` | none | one command per RPC, with a deadline or a stream |

How they meet. `RunJob` calls `Worker.StartJob`, which creates the cgroup,
stores the job, launches this same binary in init mode and leaves a
`monitorJob` goroutine waiting for it. The goroutines with which `os/exec`
copies the process's stdout and stderr write every chunk into the task's
buffer and publish it to all subscribers. `GetJobLogs` sends the buffer, then
subscribes to the task and forwards what is published. `StopJob` signals the
process and writes the record; the monitor writes it when the process is
reaped; either then starts a goroutine that empties and removes the cgroup.
All of this runs concurrently in one process; nothing is persisted, so a
restarted worker counts its jobs from one again, while processes and cgroup
directories of the last run are systemd's to clear away.

What is hard:

- a task has three locks, and channels are used and closed outside them: who
  closes a channel, and who may still send on it;
- the history of a stream and its live part come from two reads;
- a slow or stalled client must not hold up the job's output;
- start, stop and monitor each write the whole record from a private copy;
- the launch, the graceful stop and every cleanup race with a timeout;
- a process can exit, and be reaped, between any two steps of a stop;
- the child is the worker's own binary, and all that makes it a child is its
  environment, which is the worker's with more behind it;
- a limit passes through flags, request, defaults, file, environment and several
  control files, most of whose errors are ignored;
- clients give up while their handlers go on, and wait for a worker that is
  gone, deaf or draining.

What makes it correct: the worker never panics on a channel; a stream carries
the job's output once, in order, to its end; publishing always returns; a job
goes from INITIALIZING through RUNNING to one final status that is true of its
process; a job that is over leaves no process and no cgroup; what is executed
is what was asked for; one request makes one job; nothing of an earlier run is
taken for a new job's.

`PROJECT.json` lists the hazards, each at its source line, with the properties
that cover it.

## 2. Modules

| Module | What it is |
|---|---|
| `JobDomain` | the job entity: statuses and transitions as operators on records |
| `TaskPubSub` | one task with its writers, status updaters and `GetJobLogs` handlers |
| `JobLifecycle` | one job: `StartJob`, the launch goroutine, `monitorJob`, `StopJob` calls, cgroup cleanups, the process from its init mode to its exit |
| `JobPromise` | what a client may rely on of one job; `JobLifecycle` implements it |
| `JobService` | the handlers and their authorization over the store of several jobs and its lock |
| `Logging`, `ConfigLoad`, `ResourceLimits` | levels and loggers; the effective configuration; controllers and limits: operators |
| `RunRequest` | one `cli run` from the command line to the exec, over these operators |
| `WorkerServer` | the worker as a service: boot, drain, crash, restart, its clients, and jobs across runs |
| `MCTaskPubSub`, `MCJobLifecycle`, `MCJobService`, `MCRunRequest`, `MCWorkerServer` | instances for TLC |
| `Overlays` | setting some entries of a record, an environment or a directory |
| `TaskPubSubProofs`, `StreamProofs`, `JobLifecycleProofs`, `JobServiceProofs`, `RunRequestProofs`, `WorkerServerProofs` | theorems and proofs |

`TaskPubSub` and `JobLifecycle` look at one job from two sides, its output and
its record; `JobService` looks at several jobs and takes from the other two
what a job's goroutines may write and that a publication returns. `RunRequest`
follows the data that `JobLifecycle` leaves out through the same steps.
`WorkerServer` takes the steps of `JobLifecycle` together where nothing can
come between them that matters to a restart, and adds what is outside one run.

### TaskPubSub

Every critical section is one action; code between two of them is where other
goroutines interleave.

| Code | Model |
|---|---|
| `t.subscribers` | `subscribers`, the set of streams whose channel is in the map (a handler subscribes once, so a stream names its channel) |
| a channel of capacity 2 | `chan[s]`, a sequence of at most `ChanCap` updates, and `closed` |
| `removeSubscriber` | `RemoveSubscriber` (the locked part) and `RemoverClose` (the `close` after the unlock), for each of the three callers: deferred unsubscribe, context goroutine, slow-subscriber goroutine |
| `Publish` | `PublishSnapshot` copies the map under the lock; then for every channel one of `PublishSend`, `PublishTimeout`, `PublishCancelled`, or `PublishPanic` |
| `store.UpdateJob` | `UpdateJob`, the publication, then for a final status `ShutdownCancel` and `ShutdownClose` |
| `WriteToBuffer` | buffer, then publication |
| `GetJobLogs`, `GetOutput`, `SendUpdatesToClient` | `GetBuffer`, `GetIsRunning`, the send of the history (`SendFinal`, `Attach*`), `Subscribe`, and one action per case of the loop |
| a panic | `crash`: a panic in any goroutine ends the process, and nothing follows it |

Chunks are pairs (writer, number). Bytes, log lines and counters are left out.
The task tells statuses apart only by `IsRunning`, `IsCompleted` and the test
of the streaming loop, so each updater writes one final status that stands for
all it might write; `JobLifecycle` has them all. The client's context and the
stream's context are one and the same here.

### JobLifecycle

The store is the variable `job`, which `UpdateJob` replaces in one step. Each
of start, monitor and stop keeps the private copy the code keeps: the
monitor's copy was marked as running but carries no process id, because
`updateJobAsRunning` sets it in another copy (`monitorCopy`).

The process and the kernel are the environment. A process is `alive`, then
`zombie`, then `reaped` by the monitor's `cmd.Wait`; `kill(pid, 0)` succeeds
until it is reaped. A SIGTERM may be ignored, a SIGKILL is carried out later.
`cgroup` says that the job's directory exists, `inCgroup` that the process is
in it: a directory with a process cannot be removed.

Where the code sleeps and then looks (`GracefulWait`, `VerifyKilled`), any
number of other steps can come first. `LaunchAbandoned` is the request's
cancellation or the 10 s timeout: the launch goroutine goes on without it.

The process starts as `RunJobInit` (`initPc`): it assigns itself to a cgroup,
verifies that, loads its configuration, sets up mounts and executes the
command; any step may fail, and the process then exits with an error code
(`InitFails`). `AssignToCgroup` clears `inCgroup`: the worker passes
`/sys/fs/cgroup` as `JOB_CGROUP_PATH` and the clone flags have no cgroup
namespace, so this is the root.

Command checks are one nondeterministic refusal (`StartRequest`). Limits,
environment and what isolation does to mounts are in `RunRequest`.

### JobPromise

The abstract specification of one job: `status` as a client reads it and
whether its `process` lives. `JobLifecycle` is mapped onto it by the record's
status and by `PromisedProcess` (a zombie has ended). It is what the code
keeps, which is less than the documented state machine: a launch that was given
up may still start its process (`Launch` of a FAILED job), and `Conclude` may
replace a final status by another one, FAILED by STOPPED in the ordinary course
of a graceful stop. What it does promise: at most one process, no RUNNING
before there is one, COMPLETED and STOPPED only after its end, no way back, and
an end to every start and every record of a process that ended.

### JobService

| Code | Model |
|---|---|
| `st.tasks` | `tasks`, the status of each job or `Absent` |
| `st.mutex` | `readers` and `pending`: `WriteToBuffer` and `ListJobs` hold the read lock over two steps, `CreateNewJob` announces itself (`LockStore`) and enters when the readers have left, and meanwhile no reader enters (`CanRead`). `GetJob` and the lookups of `UpdateJob` and `GetOutput` hold the lock in one step |
| `extractClientRole`, `isOperationAllowed`, `Authorized` | operators of the same names on a certificate's organizational units |
| a handler | `Receive` with the authorization, then the steps up to the answer; `pc[c]` says where it is, `resp[c]` what it answered |
| `jobCounter` | `jobCounter`, at most `MaxJobs`; `NoMoreIds` is the model's bound |

The process of a job is left to `JobLifecycle`: `Launch` succeeds or fails,
`StopUpdate` and `MonitorJob` write any status they can write there when
`cmd.Wait` reports exit errors only.

`extractClientRole` answers `UnknownRole` for a certificate without a role,
while the comment above that line says "default to viewer role for backward
compatibility"; the model follows the code, which refuses every operation.

### RunRequest, with ConfigLoad, ResourceLimits and Logging

| Code | Model |
|---|---|
| `runRun` | `RunRun` on a sequence of tokens (words, the three limits with a number or `Junk`, unknown flags); `Scanned` is how far its loop gets |
| `LoadConfig` | `LoadConfig(files, env)`: `LoadFromFile` takes the first file that exists, `LoadFromEnv` overrides it, `Validate` refuses. A configuration is a function on the fields something depends on |
| `validateCommand`, `validateArguments` | the same, on names that stand for classes of strings |
| `ResolveCommand`, `resolveCommandPath` | `Resolve` with the two lists of places; `fs` is the set of executables, to which some are added and from which some are removed while a request is under way |
| `createJobDomain`, `buildJobEnvironmentSingleBinary`, `LoadConfigFromEnv` | operators of the same names; an environment is a record of its configuration variables and the `JOB_*` ones, those of the worker's own environment included |
| `EnsureControllers`, `Create`, `Set*Limit` | `EnabledControllers` decides which control files are `present`; the kernel leaves some out (`Missing`: `cpu.max` without bandwidth control) and refuses others (`Refused`; the rest is `accepted`); the four formats of `io.max` count as four files; `Create` yields what was written, with the arithmetic of the code, and `CreateCgroupFails` is its error |
| `initializeLogging` | `InitializeLogging`: the set of its outcomes, each a level and the lines printed whatever the level. With a file as `Logging.Output` the `MkdirAll` of its directory may fail, which `log.Printf` reports on standard error |
| `main`, `RunJobInit`, `isolation`, `jobexec` | one action per step of the child; `proc` says which `/proc` the worker and the child see, and `SeenBy` how a mount event spreads when `makePrivate` failed |
| `pkg/logger`, `log` | a logger is its level, `output` the set of levels of the child's own lines in the job's output; a line of the standard `log` package is `Plain` |

What the models show beside the properties: `cli run` with nothing but limits
sends the first flag as the command (the error "must specify a command" cannot
be reached); a value that does not parse is ignored on the command line and in
the environment alike; `Validate` looks at neither the I/O limit nor the
cleanup timeout; loggers made by `logger.New` (worker, process and cgroup
manager) stay at INFO whatever is configured; a log file is never opened, only
its directory is made, and a failure of that is printed into the output of
every job; `MaxConcurrentJobs`,
`JobTimeout`, `ValidateCommands` and the TLS version are read and never
enforced.

### WorkerServer

| Code | Model |
|---|---|
| `main`, `NewPlatformWorker`, `StartGRPCServer`, `RunServer` | `Main` to `RunServer`, each a point at which the process may end; `ServeFails` is the logged error of `Serve` |
| SIGTERM, `GracefulStop` | `Signal` drains if `signal.Notify` has run and kills otherwise; `GracefulStop` waits for `Handling` |
| a crash | `Crash`, at any point: handlers, goroutines, connections and the store are gone, processes and directories stay |
| `etc/worker.service` | `SystemdStops`: what is left in the service's control group is killed (systemd's default kill mode), `ExecStopPost` removes the empty job directories; `Start` |
| a job | a record named by the worker's run and the job's id, with the handler or monitor (`pc`), `status`, process and the cgroup it is in (`place`) |
| `CleanupCgroup` | `outer` and `inner` goroutine: `CleanerTimeout` ends the first, and the second then stays in its send on the unbuffered channel |
| `cli run`, `stop`, `status`, `list`, `log` | `rpc[c]`: waiting for a connection or the handler's answer; `Deadline` and `Interrupt` end the wait of the client, `Interrupt` also the handler |

The child moves itself to the root of the cgroup hierarchy (`ChildAssigns`, as
in `JobLifecycle`), where neither systemd nor a later cleanup finds it: this is
the one exception `NoForeignProcess` states.

The module has a premise: the worker runs under `etc/worker.service` with the
default `BaseDir`, which is the path that unit's `ExecStopPost` clears and is
inside the service's control group. `Validate` accepts every absolute path, and
the unit that `docs/DEPLOYMENT.md:193` shows has no `ExecStopPost`: job
directories then outlive the worker, and neither `FreshDirectory` nor, for a
directory outside the control group, `NoForeignProcess` is claimed.

Ids start at 1 again after a restart, although `internal/worker/domain/job.go:27` calls them unique.

## 3. Runs

| Run | Question | Result |
|---|---|---|
| `pubsub` | can a channel be closed twice, by any order of removers and Shutdown; can live output be repeated or reordered | no |
| `pubsub_two_clients` | can a client's stream be ended by another client, or by a status that is not final | no |
| `pubsub_live` | can a client that never reads block the writer or a status change; does every stream end after Shutdown | it cannot; it does, for clients that read or leave |
| `lifecycle` | can a job that is over be shown as running again; can a RUNNING job be unwatched; can a successful StopJob leave the process untouched; can a cleanup kill a job shown as running; can a failed init be taken for success; does it implement `JobPromise`; is every cgroup directory removed | no; yes |
| `service` | can a caller without an admin unit start or stop a job; can two starts get one job; can a stop answer with a status that is not final; can calls wait for each other or for a job's output without end | no |
| `request` | can the child become a second server; can it execute something else than was asked for, or under other limits; can its own log lines get into the job's output, or its mounts into the worker's `/proc` | no, with the exceptions the properties state |
| `server` | can one request start two jobs; can a restarted worker, under `etc/worker.service`, meet processes or directories of the last run under its new ids; can a `cli run` hang, a drain go on without an open stream, a directory stay because its cleanup timed out | no |
| `pubsub_panic` | is a disconnection handled gracefully (`docs/API.md:260`) | no: `Publish` may send on a channel closed since its snapshot |
| `pubsub_lost` | all history, then all live output (`docs/API.md:257`) | no: a chunk between the two reads is lost |
| `lifecycle_completed` | does COMPLETED mean exit code 0 (`docs/API.md:304`) | no: a stop that comes too late writes it over FAILED |
| `lifecycle_orphan` | does a failed start clean up (`docs/DESIGN.md:280`) | no: an abandoned launch may still start its process |
| `lifecycle_confined` | does the child join its cgroup (`docs/DESIGN.md:71`) | no: it can leave the one the worker put it in for the root |

The last five are expected violations; the findings in `PROJECT.json` quote
what the documentation says.

`WaitMayFail` is FALSE in every run: `cmd.Wait` fails with another error than
an `ExitError` only when copying the output fails, and the writers behind
stdout and stderr never do. The code has the branch and chooses no status in
it, so with `WaitMayFail = TRUE` the job stays RUNNING and `EndsAsPromised`
does not hold.

Bounds, and why they are enough.

- `pubsub`: one client, one writer of two chunks, one StopJob beside start and
  monitor, and the code's capacity 2. Four updates meet a channel of two, so
  it fills, times out and is removed; all three removers and two Shutdowns of
  one channel can race. Channels share only the map, so the second client adds
  only what it does to a publisher, which is the next run.
- `pubsub_two_clients`: two clients with capacity 1, so that one chunk and one
  status already fill a channel, and one can be slow or leave while the other
  is served.
- `pubsub_live`: one client, capacity 1, a chunk and three status updates.
- `lifecycle*`: two StopJob calls, so that a stop races with the monitor, the
  start and another stop; one failing exit code. `Stoppers` is empty in
  `lifecycle_orphan`, where no stop is involved.
- `service`: two callers and two jobs, so that starts, stops, reads and the
  output of another job meet at the lock; certificates with a role behind
  another unit, with two roles, with none, and no certificate at all.
- `request`: ten command lines, six states of the configuration files (one
  logs into a file), three environments (empty, with leftovers of another job
  and a mode, with numbers of their own), five executables in every combination,
  with and without `cpu.max`, and four choices of control files the kernel
  refuses, among them the first one, two and three formats of `io.max`.
  `MaxJobArgs` is 2 where the code has 100, so that a request can exceed it.
- `server`: two starts of the worker (`MaxRuns`) and one id in each (`MaxIds`),
  so that the second run reuses the id of the first; two `cli run`s, so that
  the second finds the first one's remains, one user of the other calls and
  one of `log`. Two ids in a run would add nothing that crosses runs: jobs of
  one run meet in `JobService`.
- Clients, writers and stoppers are symmetric model values; symmetry is not
  used in the runs that check liveness.

Fairness. In `TaskPubSub` the Go scheduler and the timers of `Publish` and
`Shutdown` make the steps of publishers, updaters, removers and handlers
weakly fair; writing, calling UpdateJob, connecting and leaving are the
environment's choice. `PublishReturns` assumes nothing of clients.
`StreamsEnd` is stated for clients that eventually take what they are sent or
go away (`ClientFairness`): gRPC's `Send` blocks on flow control otherwise. In
`JobLifecycle` goroutines run, sleeps end and the kernel carries out SIGKILL;
no process need exit by itself and nobody need call StartJob or StopJob. In
`JobService` handlers run and a publication returns, which is what
`PublishReturns` shows of `TaskPubSub`; jobs may write output for ever. Go's
`RWMutex` lets readers in after a writer; in the model the bound on ids ends
the sequence of writers.

In `WorkerServer` handlers, monitors and cleanup goroutines run, the ten
seconds of a deadline pass, a killed process ends and an idle server that
drains stops. Nobody has to call, to leave a stream, to send a signal or to
restart the worker, and it may crash at any time; `Reclaimed` is about workers
that do not.

Deadlock is checked in every run but `server`, where a worker that has used up
its starts stays off. Elsewhere the states in which the system may stop are the
explicit `Terminated`, `Quiet` and `Over`.

## 4. Proofs

Every invariant and every action property that a run checks is also proved by
TLAPS, for any sets of streams, writers, stops and clients, any number of
chunks, jobs and runs, any capacity, any exit codes, command lines,
configuration files and environments. The proofs rest on named assumptions
about the constants, which TLC evaluates on every run:

- `ConstantsAssumption`, `LifecycleAssumption`, `ServiceAssumption` (types of the
  constants, names apart) and `ClientsAssumption` (a `run` command is not
  another command of the client's);
- `ArgvsAssumption`: a command line is a sequence of tokens; `NumbersAssumption`:
  a number in a file is one (the fields of `Config` are typed), one in the
  environment is one or does not parse; `ExecutablesAssumption`: a bare name is
  not the path of an executable.

`TaskPubSubProofs`:

- `TypeCorrect`: `Spec => []TypeOK`. `TypeOK` bounds every channel by its
  capacity. It is not inductive alone: that a handler in `SendData` has a chunk
  in hand is needed to type what it sends (`InHand`).
- `ChannelHasOneCloser`, `ClosedAtMostOnce`: `Spec => []OneCloser` and
  `Spec => []CloseOnce`. `CloseOnce` says that no close panics, which no action
  shows by itself. The reason is `OneCloser`: a channel is in the map, or in
  the hands of exactly one remover that took it out under the lock, or closed,
  and none of these before its handler has subscribed. `CloseInv` is the type
  invariant with both, and is inductive.

`StreamProofs`, about the same specification:

- `StreamEndsForAReason`: `Spec => []StreamEndExplained`. A handler that found
  its channel closed learns nothing of why; the reason is in another goroutine's
  past. `EndInv` therefore follows the reason: an updater gets to `Shutdown`
  only after it wrote a final status (`WritesOnce`), the context's end and a
  final update in a channel imply such a write (`EndsAnnounced`), whoever takes
  a channel out of the map does so for one of three reasons (`TakenExplained`),
  and the deferred unsubscribe and the result come last (`HandlerPhases`).
- `ChunksArriveInOrder`: `Spec => []LiveInOrder`. `OrderInv` extends the order
  of what was sent by what the handler has in hand and what is in the channel
  (`Ordered`), and says that all of it is older than what its writer has yet to
  offer to this stream (`AllBehind`), which a writer's next chunk needs. That
  chunks may be missing does not matter: the order survives every drop.

`JobLifecycleProofs`:

- `TypeCorrect`: `Spec => []TypeOK`, which includes that a record is final
  exactly when it has an end time.
- Under `WaitMayFail = FALSE` (an assumption of the theorems, see section 3): `RunningJobsAreWatched`, `CleanupWaitsForTheEnd`,
  `StopJobEndsProcess` and the action property `JobsStayOver`. The inductive
  invariant `Safety` adds to these properties `StartOrder` (how far StartJob
  is fixes what the record, the process and the monitor can be),
  `WritersAreFinal` (StopJob and the monitor write only once StartJob has
  written its last record, and what they write is final) and `StopProgress`
  (what each point of a stop knows about the process).

- `CompletedMeansRan`, without that assumption: a COMPLETED job ran its
  command, unless a StopJob found its process dead. `RanInv` adds that an exit
  code 0 comes only from the command.

- `SafePromiseKept`, under `WaitMayFail = FALSE`: `Spec => KeepsPromise`, the
  refinement of the safe half of `JobPromise`. Initial states map to its
  initial state and every step to one of its steps or a stutter (`PromiseStep`,
  one case per action that writes the record or the process). `PromiseInv` adds
  to `Safety` what the mapping needs: the process exists exactly when the
  launcher has started it, a start that failed has recorded FAILED and one that
  succeeded RUNNING or more, and a stop that reports a graceful end or a dead
  process has seen it reaped.

`JobServiceProofs`, for any callers, certificates and number of jobs:

- `TypeCorrect`; `OnlyAdminsActAlways`, from what `Authorized` lets through
  (`AdminUnit`), as a call keeps its certificate until it is answered.
- `IdsStayFresh` and the action property `StopsAnswerFinal`, from one
  inductive invariant, `IndInv`. Ids above the counter are unused
  (`CounterBounds`) and no two starts share one (`StartersDiffer`), so a job
  that is being started is `Absent` or INITIALIZING until its own RunJob writes
  (`StartingStatus`). Jobs that the monitor or a stop works on are past that
  (`BegunStatus`), so nobody writes RUNNING over their final status.

`RunRequestProofs`:

- `TypeCorrect` and `LimitsAreAsAsked`: `Spec => []LimitsAsAsked`, from `Inv`,
  which keeps at each stage what the stage before established: the configured
  limits are numbers, the request is what `RunRun` says of the line, the job is
  what `createJobDomain` says of the request, the limits are what `Create`
  wrote. The rest are lemmas about operators. `SameFlags` and `AskedIsParsed`:
  the flags the loop of `runRun` gets to are those before the first word, as an
  unknown one would have refused the line; its proof takes the least position
  that is no limit. `NumberLoaded`: a configured limit is a number whichever of
  default, file and environment it comes from. `Created`: what the writes of
  `Create` amount to, for any present and accepted files. `QuotaExact`,
  `MemoryGap`, `WeightClipped`: the arithmetic.
- `JobsNeverServe` and `RequestIsExecuted`: `Spec => []ChildNeverServes` and
  `Spec => []ExecutesTheRequest`, from `ChildInv`: the child sees the
  environment the worker built, and has read the request from it before it
  executes anything. `RoundTrip` says that the arguments survive the numbered
  variables, `ModeFromEnv` that the mode in the environment decides over any
  file, `ResolveFinds` that an absolute command resolves to itself or not at
  all.
- `WorkerProcIsKept` and `OutputIsClean`: `Spec => []WorkerKeepsProc` and
  `Spec => []CleanOutput`, from `IsolationInv`: mounts are made private exactly
  when the child leaves `isolate`, and from the start of the child on its output
  holds no line below its level, no warning that was not due and no line without
  a level unless its configuration names a log file. `QuietLogging` is why: a
  level that `Validate` let through is one `ParseLevel` knows, so that the other
  line of `initializeLogging` is never printed.

`WorkerServerProofs`, for any clients, numbers of runs and ids, under the premise
of section 2 (`etc/worker.service`, default base directory):

- `TypeCorrect`, `NothingForeignIsKilled` (`NoForeignProcess`),
  `DirectoriesAreFresh` (`FreshDirectory`) and `OneJobEach`
  (`OneJobPerRequest`), from one inductive invariant, `ServerInv`. A job not yet
  given its id has a new record and nobody's target (`FreshInv`), so that a
  new start takes over nothing. A handler has an owner and the process that its
  step implies (`HandlerInv`). No client owns two jobs, or one before its call
  was taken (`OwnerInv`). What systemd leaves behind is in the root cgroup
  (`ProcessInv`), and directories belong to ids this run has given
  (`DirectoryInv`): both hold of a new run only because the stop before it
  cleared the rest away. Most actions change one job in a way that `Follows`
  describes, and `Moves` shows once that such a step keeps the invariant.

Only model-checked: liveness (`PublishReturns`, `StreamsEnd`, `EndsAsPromised`,
`CgroupReclaimed`, `CallsReturn`, `RunsReturn`, `DrainEnds`, `Reclaimed`), as
the prover has no rules for fairness and ENABLED. `KeepsPromise` is proved
under `WaitMayFail = FALSE`, as it is checked.

## 5. What is not modelled

- Reuse of process ids after a process is reaped, and processes the job's
  command starts besides its own.
- A negative cleanup timeout, which `Validate` lets through and which makes
  every StopJob fail in `validateCleanupRequest`.
- Code that nothing calls: most helpers of `process/manager.go` below
  `ResolveCommand` (`CreateSysProcAttr`, `BuildJobEnvironment`,
  `WaitForProcess` and others), the package `modes/validation`, and of
  `pkg/config` all getters and helpers but `GetServerAddress`.
- Code whose value is only logged or joined: `Job.Duration`, which
  `GetJobStatus` logs, and `GetServerAddress`.
- The goroutine a timed-out cleanup leaves in its send, as a leak: the model has
  it, and no property forbids it.
- Deployments without `etc/worker.service`, or with another `BaseDir` than the
  one its `ExecStopPost` names.
- Formatting, the command line client's output, the parsing of YAML and
  certificates, TLS.
- The wrappers of system calls in `pkg/platform`, apart from the calls the
  actions stand for, and the stubs for other platforms.
- Generated code (`api/gen`) and the fakes used by tests, which are the larger
  part of the repository's lines.

## 6. Plan

1. For each claim that a run refutes, a theorem with the condition under which
   it does hold: `CompletedMeansSuccess` without a StopJob,
   `FailedStartLeavesNothing` without an abandoned launch, `NoSendOnClosed` for
   streams that nobody removes while a publication is under way.
2. An output stream as a subsequence in order, as an abstract specification
   that `TaskPubSub` implements; `OrderInv` is what its proof needs.
3. Reuse of process ids: a second process in `JobLifecycle`.
