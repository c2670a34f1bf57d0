CONSTANTS
    Source = {1, 2}
    LastChunk = 2
    MaxRequests = 2
    MaxCrashes = 2
    MaxFaults = 1
SPECIFICATION Spec
INVARIANTS TypeOK HistoryIsKept NoRowTwice TerminalLeavesNoSource
PROPERTIES TakesOnlyReleased RequestsEnd
CHECK_DEADLOCK FALSE
