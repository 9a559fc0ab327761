CONSTANTS
    Ids = {1, 2, 3, 4, 5}
    Chunk = 2
    Namespace = 2
    MaxSegment = 5
    Digests = {1, 2, 3, 4, 5}
    Inline = 0
    Slots = 2
    ChunkEntries = 2
    UnlinkBatch = 2
    MaxAttempts = 2
    MaxReferences = 3
    GcFaults = {"io", "crash", "power"}
    Refers <- FourObjects
    FanIn = 2
    IndexNames = 8
    IndexFlush = 1
    HistoryNames = 6
    HistoryFlush = 2
    MaxScans = 2
    ScanFaults = {"io", "crash", "power"}
    Wals <- SomeWals
    Allowances = {7, 14}
SPECIFICATION Spec
CHECK_DEADLOCK FALSE
INVARIANTS
    LedgerIsExact
    RefusalsAreExact
    SuccessIsExact
    MissingStopsCollection
    ScratchNeverInTheWay
    ReclaimedStaysGone
    
    ScratchWithinAllowance
    DebrisNeverInTheWay
    SuccessLeavesNoHistory
    SecondPassFits
PROPERTIES
    ReferencedStays
