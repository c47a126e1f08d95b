SPECIFICATION FairSpec
CONSTANTS
    Retain = 2
    MaxSeq = 3
    MaxFaults = 3
    None = None
INVARIANTS
    TypeOK
    EvidencePrecedesCursor
    OutboxInHostOrder
    MemoryIsOutbox
    GapIsSnapshotted
PROPERTY CatchesUp
CHECK_DEADLOCK FALSE
