\* Waiting and shutdown under fairness, with branch GC and unlock prompts.
CONSTANTS
    MaxConn = 2
    Key <- MCKey
    Requests <- HostOnly
    NoRequest = NoRequest
    MaxClients = 2
    MaxCrashes = 0
    SharedSSH = TRUE
    BranchGC = TRUE
    Faults = {}
SPECIFICATION FairSpec
PROPERTIES
    KillsOnlyAfterGrace
    StopCompletes
    RequestsSettle
