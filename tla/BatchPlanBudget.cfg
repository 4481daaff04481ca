SPECIFICATION Spec
CONSTANTS
    h1 = h1
    h2 = h2
    InitialUnits <- OnePrimary
    Groupings <- TwoGroups
    Checks = {}
    AutoCalls = 4
    MaxSessions = 3
    MaxFaults = 0
CHECK_DEADLOCK FALSE
INVARIANTS
    LimitCoversPlan
