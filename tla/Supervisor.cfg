\* Namespaces and host guardians, stray kills and two SIGTERMs.
CONSTANTS
    Leader = leader
    Others = {p, q}
    MaxTerms = 2
    Kills = {"owner", "outer", "init"}
SPECIFICATION FairSpec
CHECK_DEADLOCK FALSE
INVARIANTS
    TypeOK
    StatusAfterTeardown
PROPERTIES
    ImplementsExecution
    GraceBeforeKill
    OrphansEnd
