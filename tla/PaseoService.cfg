SPECIFICATION FairSpec
CONSTANTS
    Service = {s1, s2}
    Dirs = 2
    MaxSignals = 2
    MaxFaults = 2
INVARIANTS TypeOK OneDaemon
PROPERTIES ImplementsHome Settles Cleaned
