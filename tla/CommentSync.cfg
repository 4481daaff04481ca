SPECIFICATION Spec
CONSTANTS
    LastJob = 3
    Texts = {"a", "b", "c"}
    MaxFaults = 3
CHECK_DEADLOCK FALSE
INVARIANTS
    TypeOK
    DoneHasLanded
PROPERTIES
    EditKept
    OverwriteOnlyAfterConflict
