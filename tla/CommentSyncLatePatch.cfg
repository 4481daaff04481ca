SPECIFICATION Spec
CONSTANTS
    LastJob = 2
    Texts = {"a", "b", "c"}
    MaxFaults = 2
CHECK_DEADLOCK FALSE
PROPERTIES
    NewerStateStays
