CONSTANTS
    SegmentMaxRows = 1
    MaxEntries = 3
    PageSize = 2
    MaxEvents = 4
    MaxSegments = 3
    MaxReads = 0
    MaxCrashes = 1
    MaxFaults = 1
    MaxDamages = 1
SPECIFICATION Spec
INVARIANTS TypeOK CommittedStayReadable
PROPERTIES ImplementsRetainedLog ReopensAlways
