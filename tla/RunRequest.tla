----------------------------- MODULE RunRequest -----------------------------
(***************************************************************************)
(* One "cli run" from what the user types to the command that is executed: *)
(* runRun of internal/cli/run.go, the data half of StartJob (validation,   *)
(* resolution, defaults, limits, environment), and the child, which is the *)
(* same binary again: main, LoadConfig, RunJobInit, isolation, exec.       *)
(*                                                                         *)
(* Who else acts: somebody may edit the configuration file or add and      *)
(* remove executables at any time.  Statuses, signals and timeouts are     *)
(* JobLifecycle's subject; here a request is refused, fails or goes on.    *)
(***************************************************************************)
EXTENDS ConfigLoad, ResourceLimits

CONSTANTS
    FileLists,   \* what the configuration paths may hold
    BaseEnvs,    \* environments the worker may be started with
    Argvs,       \* what the user may type after "cli run"
    Executables, \* the executables that can exist
    Available,   \* controllers the kernel may offer
    Missing,     \* control files it may leave out
    Refused,     \* control files whose writes it may refuse
    MaxJobArgs,  \* the limits of process/manager.go
    NoRequest, NoJob, NoExec

VARIABLES
    files,       \* the configuration files, in the order they are tried
    base,        \* the environment of the worker and the name of its binary
    fs,          \* the executables that exist
    cfg,         \* the worker's configuration
    pc,          \* where the request is
    argv,        \* what the user typed
    request,     \* the RunJobReq the client sent
    job,         \* the job StartJob built: command, arguments, limits
    present,     \* the control files in the job's cgroup
    accepted,    \* those the kernel lets the worker write
    limits,      \* what was written into them
    env,         \* the environment the worker gave the child
    child,       \* where the child is
    childCfg,    \* the child's configuration
    childLogger, \* its global logger
    output,      \* the child's own log lines in the job's output
    jobConfig,   \* what the child read from its environment
    private,     \* whether the child's mounts were made private
    proc,        \* which /proc the worker and the child see
    executed     \* the path and arguments of the exec

requestVars == <<cfg, pc, argv, request, job, present, accepted, limits>>
childVars   == <<env, child, childCfg, childLogger, output, jobConfig, private, proc, executed>>
vars        == <<files, base, fs, requestVars, childVars>>

-----------------------------------------------------------------------------
(* The command line *)

\* A token is a word, one of the three limits or an unknown "--" flag; its text
\* is what it is as a word, its value the number behind the "=".
Limits == {"cpu", "mem", "io"}

\* The command line is a list of such tokens; a number that parses is one, in
\* the files of the configuration (their fields are typed) as in the environment.
ASSUME ArgvsAssumption ==
    Argvs \subseteq Seq([kind : Limits \cup {"word", "unknown"}, text : STRING,
                         val : Int \cup {Junk}])

ASSUME NumbersAssumption ==
    /\ Junk \notin Int
    /\ \A list \in FileLists : \A i \in DOMAIN list :
           i \in Nat /\ \A f \in NumFields \cap DOMAIN list[i].sets : list[i].sets[f] \in Int
    /\ \A b \in BaseEnvs : \A f \in NumFields \cap DOMAIN b.conf :
           b.conf[f] \in Int \cup {Junk}

\* Positions the loop of runRun gets to: up to the first word or unknown flag.
Scanned(a) == {i \in DOMAIN a : \A k \in 1 .. i - 1 : a[k].kind \in Limits}

\* The last well-formed value of a flag; parseIntFlag's errors are dropped.
ValueOf(a, limit) ==
    LET good == {i \in Scanned(a) : a[i].kind = limit /\ a[i].val # Junk}
    IN  IF good = {} THEN 0 ELSE a[Max(good)].val

\* Where the command starts: at the first word, and at the first token when
\* there are only limits, although the code has an error for that case.
CommandStart(a) ==
    LET words == {i \in Scanned(a) : a[i].kind = "word"}
    IN  IF words = {} THEN 1 ELSE Min(words)

RunRun(a) ==
    LET rest == SubSeq(a, CommandStart(a), Len(a))
    IN  IF a = <<>> \/ \E i \in Scanned(a) : a[i].kind = "unknown"
        THEN NoRequest
        ELSE [command |-> rest[1].text,
              args    |-> [i \in 1 .. Len(rest) - 1 |-> rest[i + 1].text],
              limits  |-> [l \in Limits |-> ValueOf(a, l)]]

-----------------------------------------------------------------------------
(* Validation and resolution *)

NotFound == "not found"

\* What LookPath and the search below are about: a name and a relative path.
Unresolved == {"name", "./rel"}

\* A bare name is no executable's path, and the mark of a failed search neither.
ASSUME ExecutablesAssumption == Executables \cap {"name", NotFound} = {}

IsAbs(command) == command \in Executables \ {"./rel"}

ValidateCommand(command) == command \notin {"", "dangerous", "too long"}

ValidateArguments(args) ==
    /\ Len(args) <= MaxJobArgs
    /\ \A i \in DOMAIN args : args[i] \notin {"too long", "null byte"}

CommonPaths ==
    <<"/bin/c", "/usr/bin/c", "/usr/local/bin/c", "/sbin/c", "/usr/sbin/c">>

ChildCommonPaths == Append(CommonPaths, "/usr/local/sbin/c")

\* exec.LookPath: a relative path is looked up where it points and is returned
\* as it is.
LookPath(command) ==
    CASE command = "name" /\ "/opt/bin/c" \in fs -> "/opt/bin/c"
      [] command = "./rel" /\ "./rel" \in fs -> "./rel"
      [] OTHER -> NotFound

\* ResolveCommand of the process manager and resolveCommandPath of the child,
\* which differ in the places they try last.
Resolve(command, common) ==
    LET there == {i \in DOMAIN common : common[i] \in fs}
    IN  CASE IsAbs(command) -> IF command \in fs THEN command ELSE NotFound
          [] command \in Unresolved /\ LookPath(command) # NotFound -> LookPath(command)
          [] command \in Unresolved /\ LookPath(command) = NotFound /\ there # {} ->
                common[Min(there)]
          [] OTHER -> NotFound

-----------------------------------------------------------------------------
(* The environment of the child *)

\* A limit that is not positive is replaced by the configured default.
WithDefault(value, default) == IF value <= 0 THEN default ELSE value

CreateJobDomain(req, command) ==
    [command |-> command,
     args    |-> req.args,
     limits  |-> [cpu |-> WithDefault(req.limits["cpu"], cfg.CPULimit),
                  mem |-> WithDefault(req.limits["mem"], cfg.MemoryLimit),
                  io  |-> WithDefault(req.limits["io"], cfg.IOLimit)]]

\* Mutant: the job's variables come first and the worker's own win.
BuildJobEnvironmentFirst(b, j) ==
    [conf    |-> Overlay(b.conf, Entry("Mode", "init")),
     id      |-> "1",
     command |-> j.command,
     count   |-> Len(j.args),
     arg     |-> Overlay([i \in 0 .. Len(j.args) - 1 |-> j.args[i + 1]], b.arg)]

\* buildJobEnvironmentSingleBinary: appended to the worker's environment, and
\* the last of two equal names wins.
BuildJobEnvironmentSingleBinary(b, j) ==
    [conf    |-> Overlay(Entry("Mode", "init"), b.conf),
     id      |-> "1",
     command |-> j.command,
     count   |-> Len(j.args),
     arg     |-> Overlay([i \in 0 .. Len(j.args) - 1 |-> j.args[i + 1]], b.arg)]

\* Mutant: the argument count is off by one.
LoadConfigFromEnvOffByOne(e) ==
    [command |-> e.command,
     args    |-> [i \in 1 .. e.count |-> IF i \in DOMAIN e.arg THEN e.arg[i] ELSE ""]]

\* LoadConfigFromEnv; a variable that is not set reads as the empty string.
LoadConfigFromEnv(e) ==
    IF e.id = "" \/ e.command = "" THEN NoJob
    ELSE [command |-> e.command,
          args    |-> [i \in 1 .. e.count |->
                          IF i - 1 \in DOMAIN e.arg THEN e.arg[i - 1] ELSE ""]]

\* CreateIsolatedSysProcAttr: the namespaces the child is cloned into.
CreateIsolatedSysProcAttr == {"pid", "mnt", "ipc", "uts"}

-----------------------------------------------------------------------------

TypeOK ==
    /\ files \in FileLists
    /\ base \in BaseEnvs
    /\ fs \subseteq Executables
    /\ cfg = NoConfig \/ DOMAIN cfg = Fields
    /\ pc \in {"boot", "down", "ready", "sent", "create", "launch", "launched",
               "failed", "refused"}
    /\ argv \in Argvs \cup {<<>>}
    /\ job # NoJob => job.command \in Executables
    /\ present \subseteq AllControlFiles
    /\ accepted \subseteq present
    /\ DOMAIN limits \subseteq accepted
    /\ child \in {"none", "main", "server", "assign", "load", "isolate", "remount",
                  "verify", "exec", "command", "exited"}
    /\ childCfg = NoConfig \/ DOMAIN childCfg = Fields
    /\ childLogger \in LogLevels
    /\ output \subseteq LogLines
    /\ private \in {"not yet", "yes", "failed"}
    /\ proc \in [{"worker", "child"} -> {"host", "none", "job"}]

Init ==
    /\ files \in FileLists
    /\ base \in BaseEnvs
    /\ fs \in SUBSET Executables
    /\ cfg = NoConfig
    /\ pc = "boot"
    /\ argv = <<>>
    /\ request = NoRequest
    /\ job = NoJob
    /\ present = {} /\ accepted = {} /\ limits = <<>>
    /\ env = base
    /\ child = "none"
    /\ childCfg = NoConfig
    /\ childLogger = GlobalLogger
    /\ output = {}
    /\ jobConfig = NoJob
    /\ private = "not yet"
    /\ proc = [p \in {"worker", "child"} |-> "host"]
    /\ executed = NoExec

-----------------------------------------------------------------------------
(* The surroundings *)

\* Somebody edits the configuration.
EditConfig ==
    /\ child \in {"none", "main"}
    /\ pc \in {"launch", "launched"}
    /\ files' \in FileLists \ {files}
    /\ UNCHANGED <<base, fs, requestVars, childVars>>

\* An executable is installed or removed; before StartJob looks, any set of them
\* is there from the beginning.
ChangeExecutables ==
    /\ pc \in {"create", "launch", "launched"}
    /\ child \notin {"server", "command", "exited"}
    /\ \E f \in Executables : fs' \in {fs \cup {f}, fs \ {f}} \ {fs}
    /\ UNCHANGED <<files, base, requestVars, childVars>>

-----------------------------------------------------------------------------
(* The worker and the client *)

\* main: without a configuration, and in init mode without a job, the process
\* exits.
Boot ==
    /\ pc = "boot"
    /\ cfg' = LoadConfig(files, base.conf)
    /\ pc' = IF cfg' = NoConfig \/ cfg'.Mode = "init" THEN "down" ELSE "ready"
    /\ UNCHANGED <<files, base, fs, argv, request, job, present, accepted, limits, childVars>>

\* cli run
TypeCommand ==
    /\ pc = "ready"
    /\ argv' \in Argvs
    /\ request' = RunRun(argv')
    /\ pc' = IF request' = NoRequest THEN "refused" ELSE "sent"
    /\ UNCHANGED <<files, base, fs, cfg, job, present, accepted, limits, childVars>>

\* StartJob up to createJobDomain.
StartJob ==
    /\ pc = "sent"
    /\ LET resolved == Resolve(request.command, CommonPaths)
       IN  IF /\ ValidateCommand(request.command)
              /\ ValidateArguments(request.args)
              /\ resolved # NotFound
           THEN job' = CreateJobDomain(request, resolved) /\ pc' = "create"
           ELSE UNCHANGED job /\ pc' = "refused"
    /\ UNCHANGED <<files, base, fs, cfg, argv, request, present, accepted, limits, childVars>>

\* The directory of the cgroup is outside the base directory or cannot be made.
CreateCgroupFails == pc' = "failed" /\ UNCHANGED <<present, accepted, limits>>

\* cgroup.Create: what EnsureControllers could enable, and a kernel without
\* bandwidth control, decide which control files it finds.
CreateCgroup ==
    /\ pc = "create"
    /\ \/ /\ \E workerMoved \in BOOLEAN, available \in Available, missing \in Missing :
                present' = UNION {ControlFiles(c) :
                               c \in EnabledControllers(cfg.Controllers, available, workerMoved)}
                           \ missing
          /\ \E refused \in Refused : accepted' = present' \ refused
          /\ limits' = Create(present', accepted', job.limits)
          /\ pc' = "launch"
       \/ CreateCgroupFails
    /\ UNCHANGED <<files, base, fs, cfg, argv, request, job, childVars>>

\* validateLaunchConfig: the path of the binary or the environment is unusable.
ValidateLaunchConfigFails == pc' = "failed" /\ UNCHANGED <<env, child>>

\* startProcessSingleBinary
Launch ==
    /\ pc = "launch"
    /\ \/ /\ env' = BuildJobEnvironmentSingleBinary(base, job)
          /\ child' = "main"
          /\ pc' = "launched"
       \/ ValidateLaunchConfigFails
    /\ UNCHANGED <<files, base, fs, cfg, argv, request, job, present, accepted, limits,
                   childCfg, childLogger, output, jobConfig, private, proc, executed>>

-----------------------------------------------------------------------------
(* The child *)

\* main logs the error of RunJobInit and exits.
ChildFails ==
    /\ child' = "exited"
    /\ output' = Log(WithFields(childLogger), ERROR, output)

\* A step that logs at DEBUG level and goes on.
ChildGoes(to) ==
    /\ child' = to
    /\ output' = Log(WithFields(childLogger), DEBUG, output)

\* main: the configuration is loaded again, from the files as they are now and
\* the environment the worker built.
ChildMain ==
    /\ child = "main"
    /\ LET c == LoadConfig(files, env.conf)
       IN  \/ /\ c = NoConfig
              /\ child' = "exited"
              /\ output' = output \cup {Plain}
              /\ UNCHANGED <<childCfg, childLogger>>
           \/ /\ c # NoConfig
              /\ childCfg' = c
              /\ \E logging \in InitializeLogging(c) :
                     /\ childLogger' = logging.level
                     /\ output' = Log(WithFields(childLogger'), DEBUG, output \cup logging.lines)
              /\ child' = IF c.Mode = "init" THEN "assign" ELSE "server"
    /\ UNCHANGED <<files, base, fs, requestVars, env, jobConfig, private, proc, executed>>

\* assignToCgroup and verifyCgroupAssignment, either of which may fail.
ChildAssign ==
    /\ child = "assign"
    /\ ChildGoes("load") \/ ChildFails
    /\ UNCHANGED <<files, base, fs, requestVars, env, childCfg, childLogger,
                   jobConfig, private, proc, executed>>

ChildLoad ==
    /\ child = "load"
    /\ jobConfig' = LoadConfigFromEnv(env)
    /\ IF jobConfig' = NoJob THEN ChildFails ELSE ChildGoes("isolate")
    /\ UNCHANGED <<files, base, fs, requestVars, env, childCfg, childLogger,
                   private, proc, executed>>

\* setupLinux: only process 1 of a namespace goes on; a failed makePrivate is
\* logged and ignored.
MakePrivate ==
    /\ child = "isolate"
    /\ IF "pid" \notin CreateIsolatedSysProcAttr
       THEN ChildGoes("exec") /\ UNCHANGED private
       ELSE \/ private' = "yes" /\ ChildGoes("remount")
            \/ private' = "failed" /\ child' = "remount"
               /\ output' = Log(WithFields(childLogger), WARN, output)
    /\ UNCHANGED <<files, base, fs, requestVars, env, childCfg, childLogger,
                   jobConfig, proc, executed>>

\* A mount event on /proc: it stays in the child's namespace once its mounts
\* are private.
SeenBy == IF private = "yes" THEN {"child"} ELSE {"worker", "child"}

MountProc(what) == [p \in {"worker", "child"} |-> IF p \in SeenBy THEN what ELSE proc[p]]

\* Mutant: /proc is remounted before the mounts are made private.
RemountProcFirst ==
    /\ child = "isolate"
    /\ proc' = MountProc("job")
    /\ ChildGoes("exec")
    /\ UNCHANGED <<files, base, fs, requestVars, env, childCfg, childLogger,
                   jobConfig, private, executed>>

\* remountProc: the old /proc is unmounted, or not, and the mount of the new
\* one may fail.
RemountProc ==
    /\ child = "remount"
    /\ \/ proc' = MountProc("job") /\ ChildGoes("verify")
       \/ proc' \in {proc, MountProc("none")} /\ ChildFails
    /\ UNCHANGED <<files, base, fs, requestVars, env, childCfg, childLogger,
                   jobConfig, private, executed>>

\* verifyIsolation only looks, at the name of process 1 and at how many
\* processes there are; it never fails.
VerifyIsolation ==
    /\ child = "verify"
    /\ IF proc["child"] = "job" /\ base.binary # "worker"
       THEN child' = "exec" /\ output' = Log(WithFields(childLogger), WARN, output)
       ELSE ChildGoes("exec")
    /\ UNCHANGED <<files, base, fs, requestVars, env, childCfg, childLogger,
                   jobConfig, private, proc, executed>>

\* executeLinux: the command is resolved once more and replaces the process,
\* unless the exec fails.
ChildExecute ==
    /\ child = "exec"
    /\ LET path == Resolve(jobConfig.command, ChildCommonPaths)
       IN  \/ ChildFails /\ UNCHANGED executed
           \/ /\ path # NotFound
              /\ executed' = [path |-> path, argv0 |-> jobConfig.command, args |-> jobConfig.args]
              /\ ChildGoes("command")
    /\ UNCHANGED <<files, base, fs, requestVars, env, childCfg, childLogger,
                   jobConfig, private, proc>>

-----------------------------------------------------------------------------

Over ==
    \/ pc \in {"down", "refused", "failed"}
    \/ child \in {"server", "command", "exited"}

ChildNext ==
    \/ ChildMain \/ ChildAssign \/ ChildLoad
    \/ MakePrivate \/ RemountProc \/ VerifyIsolation \/ ChildExecute

Next ==
    \/ EditConfig \/ ChangeExecutables
    \/ Boot \/ TypeCommand \/ StartJob \/ CreateCgroup \/ Launch
    \/ ChildNext
    \/ Over /\ UNCHANGED vars

Spec == Init /\ [][Next]_vars

-----------------------------------------------------------------------------
(* Properties *)

\* A job's process never becomes a second server, whatever mode the file or
\* the worker's own environment asks for and however the file is edited
\* between the worker's start and the job's.
ChildNeverServes == child # "server"

\* What is executed is what was asked for: the arguments the user typed, under
\* the name the job records, and the very file that was validated if it has an
\* absolute path; leftovers of another job in the worker's environment and
\* executables that come and go do not matter.
ExecutesTheRequest ==
    executed # NoExec =>
        /\ executed.args = request.args
        /\ executed.argv0 = job.command
        /\ IsAbs(job.command) => executed.path = job.command

\* The limit the user asked for, read off the command line: the last well-formed
\* value before the command, or the configured default.
AskedFor(limit, default) ==
    LET good == {i \in DOMAIN argv : /\ argv[i].kind = limit
                                     /\ argv[i].val # Junk
                                     /\ \A k \in 1 .. i : argv[k].kind # "word"}
        value == argv[CHOOSE i \in good : \A k \in good : k <= i].val
    IN  IF good # {} /\ value > 0 THEN value ELSE default

\* What stands in a control file of the job's cgroup is what was asked for: the
\* percentage of the period, or as a weight where the kernel has no quotas; the
\* megabytes with a soft limit just below them; the bytes per second.  What was
\* asked for is written wherever the kernel accepts it, and the fixed number of
\* operations only where it accepts no bytes.
LimitsAsAsked ==
    pc = "launch" =>
        LET cpu == AskedFor("cpu", cfg.CPULimit)
            mem == AskedFor("mem", cfg.MemoryLimit)
            io  == AskedFor("io", cfg.IOLimit)
        IN  /\ "cpu.max" \in DOMAIN limits => limits["cpu.max"] * 100 = cpu * Period
            /\ "cpu.weight" \in DOMAIN limits =>
                   /\ limits["cpu.weight"] \in 1 .. MaxWeight
                   /\ cpu <= MaxWeight => limits["cpu.weight"] = cpu
            /\ "memory.max" \in DOMAIN limits => limits["memory.max"] \div Mega = mem
            /\ {"memory.max", "memory.high"} \subseteq DOMAIN limits =>
                   LET gap == limits["memory.max"] - limits["memory.high"]
                   IN  gap > 0 /\ gap <= limits["memory.max"] \div 10 + 1
            /\ \A f \in IOBytes \cap DOMAIN limits : limits[f] = io
            /\ "io.iops" \in DOMAIN limits => IOBytes \cap accepted = {}
            /\ cpu > 0 /\ "cpu.max" \in accepted => "cpu.max" \in DOMAIN limits
            /\ mem > 0 /\ "memory.max" \in accepted => "memory.max" \in DOMAIN limits
            /\ io > 0 /\ IOBytes \cap accepted # {} => IOBytes \cap DOMAIN limits # {}

\* The child logs to the job's own output.  When the command takes over, none of
\* the worker's lines are in it, unless the level is DEBUG or one of three was
\* due: the warnings about makePrivate and about the name of process 1, and, at
\* any level, the line about the directory of a log file, which only a
\* configuration that names such a file can bring about.
CleanOutput ==
    child = "command" /\ childLogger > DEBUG =>
        /\ output \subseteq {WARN, Plain}
        /\ WARN \in output => private = "failed" \/ base.binary # "worker"
        /\ Plain \in output => LogsToFile(childCfg)

\* Setting up a job's /proc does not touch the worker's, except when the
\* ignored makePrivate had failed.
WorkerKeepsProc == proc["worker"] # "host" => private = "failed"
=============================================================================
