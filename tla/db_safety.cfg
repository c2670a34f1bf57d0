SPECIFICATION Spec
CONSTANTS
    Task = {t1, t2, t3}
    NoTask = NoTask
    MaxCalls <- CallsEach
    HelperReads = TRUE
    StatementsMayFail = TRUE
SYMMETRY Symmetry
INVARIANTS
    TypeOK
    NoLockLeaked
    PrivateTransactionAlone
PROPERTY
    ReplacedUnderLock
CHECK_DEADLOCK FALSE
