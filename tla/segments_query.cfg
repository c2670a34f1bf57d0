CONSTANTS
    SegmentMaxRows = 2
    MaxEntries = 6
    PageSize = 2
    MaxEvents = 3
    MaxSegments = 3
    MaxReads = 1
    MaxCrashes = 1
    MaxFaults = 0
    MaxDamages = 1
SPECIFICATION Spec
INVARIANTS WindowsCoverRows PageHasNoGap
