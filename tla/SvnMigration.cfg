SPECIFICATION FairSpec
CONSTANTS
    Items <- TwoBatches
    MaxFaults = 1
    MaxControls = 2
    MaxStrangers = 1
    MaxBackups = 1
CHECK_DEADLOCK FALSE
INVARIANTS
    TypeOK
    ReservationsFollowRuns
    BackupExcluded
    TakenOverIsOwn
    SuccessWasSeen
PROPERTIES
    ContentKept
    RunningEnds
