\* The shared SSH service exits.
CONSTANTS
    MaxConn = 2
    Key <- MCKey
    Requests <- DailyOnly
    NoRequest = NoRequest
    MaxClients = 2
    MaxCrashes = 0
    SharedSSH = TRUE
    BranchGC = FALSE
    Faults = {"ssh-exit"}
SPECIFICATION Spec
PROPERTY
    KillsOnlyAfterGrace
