SPECIFICATION FairSpec
CONSTANTS
    Task = {t1, t2, t3}
    NoTask = NoTask
    MaxCalls <- CallsOnce
    HelperReads = FALSE
    StatementsMayFail = FALSE
INVARIANTS
    PendingRowsAreOwned
    NoCollision
PROPERTY
    EveryCallReturns
CHECK_DEADLOCK FALSE
