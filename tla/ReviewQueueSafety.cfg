SPECIFICATION Spec
CONSTANTS
    j1 = j1
    j2 = j2
    w1 = w1
    w2 = w2
    p1 = p1
    p2 = p2
    Nobody = Nobody
    Jobs = {j1, j2}
    PRs = {p1}
    Workers = {w1, w2}
    AttemptLimit = 2
    Units = 1
    MaxGen = 2
    MaxHead = 1
    MaxSaves = 0
    MaxCrashes = 1
    Guarded = FALSE
SYMMETRY Symmetry
CHECK_DEADLOCK FALSE
INVARIANTS
    TypeOK
    SingleExecution
    BoundedInterruptions
    AtMostOneReview
    VerdictTruthful
    CancelledNeverPublishes
    CancelMeansStopped
    NoWorkBesideUnknown
PROPERTIES
    ReviewsInOrder
    TerminalStable
    LedgerSpec
