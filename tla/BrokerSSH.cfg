\* Shared SSH preparation: rejected unlocks, a service that does not start, and
\* one that exits and ends the loop, beside branch GC.
CONSTANTS
    MaxConn = 2
    Key <- MCKey
    Requests <- DailyAndProbe
    NoRequest = NoRequest
    MaxClients = 2
    MaxCrashes = 0
    SharedSSH = TRUE
    BranchGC = TRUE
    Faults = {"ssh-exit", "ssh-start", "helper"}
SPECIFICATION Spec
INVARIANTS
    GCExclusive
