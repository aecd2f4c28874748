SPECIFICATION FairSpec
CONSTANTS
    Branches = 2
    GC = {g1, g2}
    MaxChanges = 2
    MaxFaults = 1
INVARIANTS TypeOK
PROPERTIES ActiveKept TreesKept WorkKept Collected
