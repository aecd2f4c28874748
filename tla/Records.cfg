SPECIFICATION FairSpec
CONSTANTS
    Pids = 2
    MaxClock = 3
    MaxBoots = 2
    MaxFaults = 2
INVARIANTS TypeOK Recorded GroupRecorded
PROPERTIES AnswersTrue ForgottenEnds Recovers
CHECK_DEADLOCK FALSE
