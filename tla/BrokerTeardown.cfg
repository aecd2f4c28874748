\* Teardown of abandoned executions across failures and a crash, with the
\* second connection at the client limit.
CONSTANTS
    MaxConn = 2
    Key <- MCKey
    Requests <- BothTiers
    NoRequest = NoRequest
    MaxClients = 1
    MaxCrashes = 1
    SharedSSH = FALSE
    BranchGC = FALSE
    Faults = {"guardian", "helper"}
SPECIFICATION FairSpec
PROPERTY
    GoneClientsTornDown
