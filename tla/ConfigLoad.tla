----------------------------- MODULE ConfigLoad -----------------------------
(***************************************************************************)
(* pkg/config: how the effective configuration comes from the defaults,    *)
(* the first configuration file that exists and the environment.           *)
(*                                                                         *)
(* A configuration is a record of the fields the program or Validate       *)
(* decides on; the certificate paths are one field.  A file and an         *)
(* environment are partial: records of the fields they set.  A variable    *)
(* set to the empty string counts as not set.                              *)
(***************************************************************************)
EXTENDS Logging, Overlays, Sequences, FiniteSetsExt

CONSTANTS
    Junk,     \* a text that does not parse as a number or a duration
    NoConfig  \* LoadConfig reported an error

\* Fields loadFromEnv parses; of the others it takes any text.
NumFields  == {"Port", "CPULimit", "MemoryLimit", "IOLimit", "MaxJobs", "CleanupTimeout"}
TextFields == {"Mode", "CertPaths", "BaseDir", "Controllers", "Level", "Output"}
Fields     == NumFields \cup TextFields

DefaultConfig ==
    [Port |-> 50051, Mode |-> "server",
     CPULimit |-> 100, MemoryLimit |-> 512, IOLimit |-> 0, MaxJobs |-> 100,
     CertPaths |-> "set", BaseDir |-> "absolute",
     Controllers |-> {"cpu", "memory", "io", "pids"}, CleanupTimeout |-> 5,
     Level |-> "INFO", Output |-> "stdout"]

\* A configuration file: what reading it gives, and what it sets.
AbsentFile  == [state |-> "absent", sets |-> <<>>]
BrokenFile  == [state |-> "broken", sets |-> <<>>]
File(sets)  == [state |-> "ok", sets |-> sets]

\* loadFromFile: the first path that exists decides, and one that cannot be
\* read or parsed is an error, not a reason to try the next.
LoadFromFile(cfg, files) ==
    LET present == {i \in DOMAIN files : files[i].state # "absent"}
        first   == files[Min(present)]
    IN  CASE present = {} -> cfg
          [] present # {} /\ first.state = "broken" -> NoConfig
          [] OTHER -> Overlay(first.sets, cfg)

\* loadFromEnv: a number or duration that does not parse is ignored.
LoadFromEnv(cfg, env) ==
    [f \in Fields |->
        IF f \in DOMAIN env /\ (f \in NumFields => env[f] # Junk) THEN env[f] ELSE cfg[f]]

MaxPort == 65535

\* Validate, which looks at neither the I/O limit nor the cleanup timeout.
Validate(cfg) ==
    /\ cfg.Port \in 1 .. MaxPort
    /\ cfg.Mode \in {"server", "init"}
    /\ cfg.CPULimit >= 0
    /\ cfg.MemoryLimit >= 0
    /\ cfg.MaxJobs >= 1
    /\ cfg.CertPaths # ""
    /\ cfg.BaseDir = "absolute"
    /\ cfg.Level \in {"DEBUG", "INFO", "WARN", "ERROR", "debug", "info", "warn", "error"}

LoadConfig(files, env) ==
    LET fromFile == LoadFromFile(DefaultConfig, files)
        cfg      == LoadFromEnv(fromFile, env)
    IN  IF fromFile = NoConfig \/ ~Validate(cfg) THEN NoConfig ELSE cfg

\* The log is to go into a file, whose directory initializeLogging then makes
\* (the file itself is never opened: the lines stay on standard output).
LogsToFile(cfg) == cfg.Output \notin {"stdout", ""}

\* initializeLogging: what it may come to, as the level of the global logger and
\* what is printed whatever that level is.  An unknown level is complained about,
\* and so is a directory that cannot be made.
InitializeLogging(cfg) ==
    LET known  == ParseLevel(cfg.Level) # UnknownLevel
        always == IF known THEN {} ELSE {Plain}
    IN  [level : {IF known THEN ParseLevel(cfg.Level) ELSE INFO},
         lines : {always} \cup (IF LogsToFile(cfg) THEN {{Plain}} ELSE {})]
=============================================================================
