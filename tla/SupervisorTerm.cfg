\* SIGTERM between the check of stopping and waitpid.
CONSTANTS
    Leader = leader
    Others = {p}
    MaxTerms = 1
    Kills = {}
SPECIFICATION FairSpec
CHECK_DEADLOCK FALSE
PROPERTY
    TermEndsWorkload
