SPECIFICATION Spec
CONSTANTS
    j1 = j1
    j2 = j2
    w1 = w1
    w2 = w2
    p1 = p1
    p2 = p2
    Nobody = Nobody
    Jobs = {j1, j2}
    PRs = {p1}
    Workers = {w1}
    AttemptLimit = 2
    Units = 0
    MaxGen = 1
    MaxHead = 1
    MaxSaves = 0
    MaxCrashes = 0
    Guarded = FALSE
CHECK_DEADLOCK FALSE
PROPERTIES
    SupersededOnlyWhenReplaced
