SPECIFICATION Spec
CONSTANTS
    h1 = h1
    h2 = h2
    InitialUnits <- OnePrimary
    Groupings <- TwoGroups
    Checks = {}
    AutoCalls = 4
    MaxSessions = 2
    MaxFaults = 1
CHECK_DEADLOCK FALSE
PROPERTIES
    LostIsUnknown
