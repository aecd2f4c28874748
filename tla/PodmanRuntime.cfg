SPECIFICATION FairSpec
CONSTANTS
    Session = {s1, s2}
    Stopper = stopper
    Collector = collector
    Nobody = nobody
    Faults <- AllFaults
    MaxFaults = 3
INVARIANTS TypeOK LocksHeld
PROPERTIES AgentKeepsRuntime GraceKept TasksKept ImplementsLease IdleStops AttachSettles
