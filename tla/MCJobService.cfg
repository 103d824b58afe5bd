SPECIFICATION FairSpec
CONSTANTS
    c1 = c1
    c2 = c2
    Clients = {c1, c2}
    NoCert = NoCert
    Certs <- SomeCerts
    MaxJobs = 2
INVARIANT TypeOK
INVARIANT OnlyAdminsAct
INVARIANT IdsAreFresh
PROPERTY StopAnswersFinal
PROPERTY CallsReturn
