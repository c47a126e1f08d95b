SPECIFICATION Spec
CONSTANTS
    Retain = 2
    MaxSeq = 3
    MaxFaults = 2
    None = None
INVARIANTS
    ResumePositionHasSnapshot
CHECK_DEADLOCK FALSE
