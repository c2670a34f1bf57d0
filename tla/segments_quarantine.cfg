CONSTANTS
    SegmentMaxRows = 1
    MaxEntries = 3
    PageSize = 2
    MaxEvents = 2
    MaxSegments = 3
    MaxReads = 1
    MaxCrashes = 0
    MaxFaults = 0
    MaxDamages = 0
SPECIFICATION Spec
INVARIANT CommittedStayReadable
