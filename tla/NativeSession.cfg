SPECIFICATION FairSpec
CONSTANTS
    BatchLimit = 2
    MaxWork = 3
    MaxFaults = 3
CHECK_DEADLOCK FALSE
INVARIANTS
    TypeOK
    StoredIsPrefix
    ResultHasItsLog
    AnnouncedResultExists
    CancelledStaysStopped
PROPERTIES
    CancelConfirmed
    ContractSpec
