SPECIFICATION FairSpec
CONSTANTS
    r1 = r1
    r2 = r2
    Runners = {r1, r2}
    k1 = k1
    Callers = {k1}
    l1 = l1
    Loggers = {l1}
    MaxRuns = 2
    MaxIds = 1
    Nobody = Nobody
CHECK_DEADLOCK FALSE
INVARIANTS
    TypeOK
    OneJobPerRequest
    NoForeignProcess
    FreshDirectory
PROPERTIES
    RunsReturn
    DrainEnds
    Reclaimed
