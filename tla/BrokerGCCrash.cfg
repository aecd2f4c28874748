\* A branch GC helper outlives a killed broker.
CONSTANTS
    MaxConn = 2
    Key <- MCKey
    Requests <- DailyOnly
    NoRequest = NoRequest
    MaxClients = 2
    MaxCrashes = 1
    SharedSSH = FALSE
    BranchGC = TRUE
    Faults = {}
SPECIFICATION Spec
INVARIANT
    GCExclusive
