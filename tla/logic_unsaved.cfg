CONSTANTS
    EventRun = {"e1"}
    MaxEvents = 1
    MaxSaves = 1
    MaxErrors = 0
    MaxRestarts = 1
SPECIFICATION Spec
INVARIANT StoppedIsSaved
CHECK_DEADLOCK FALSE
