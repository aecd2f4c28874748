\* Replacement barrier across tiers, failures and one crash of the broker.
CONSTANTS
    MaxConn = 2
    Key <- MCKey
    Requests <- BothTiers
    NoRequest = NoRequest
    MaxClients = 2
    MaxCrashes = 1
    SharedSSH = FALSE
    BranchGC = FALSE
    Faults = {"guardian", "helper", "cgroup"}
SPECIFICATION Spec
INVARIANTS
    TypeOK
    ReplacementBarrier
    OwnedWorkloads
    ExitedAfterTeardown
    RecordedWorkloads
PROPERTY
    ImplementsSlots
