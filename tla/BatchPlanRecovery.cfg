SPECIFICATION Spec
CONSTANTS
    h1 = h1
    h2 = h2
    InitialUnits <- PrimaryOrPair
    Groupings <- NoneOrOneGroup
    Checks = {h1, h2}
    AutoCalls = 6
    MaxSessions = 2
    MaxFaults = 3
CHECK_DEADLOCK FALSE
INVARIANTS
    TypeOK
    OneCallPerSession
    OneSessionAtATime
    ResultKept
    SessionRowFits
    PublishedComplete
PROPERTIES
    ContractSpec
