SPECIFICATION Spec
CONSTANTS
    Task = {t1, t2}
    NoTask = NoTask
    MaxCalls <- CallsEach
    HelperReads = TRUE
    StatementsMayFail = FALSE
INVARIANT LockNotRetainedWhileWaiting
CHECK_DEADLOCK FALSE
