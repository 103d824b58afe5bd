CONSTANTS
    Junk = Junk
    NoConfig = NoConfig
    NoRequest = NoRequest
    NoJob = NoJob
    NoExec = NoExec
    FileLists <- mcFileLists
    BaseEnvs <- mcBaseEnvs
    Argvs <- mcArgvs
    Executables <- mcExecutables
    Available <- mcAvailable
    Missing <- mcMissing
    Refused <- mcRefused
    MaxJobArgs = 2
SPECIFICATION Spec
INVARIANTS
    TypeOK
    ChildNeverServes
    ExecutesTheRequest
    LimitsAsAsked
    CleanOutput
    WorkerKeepsProc
