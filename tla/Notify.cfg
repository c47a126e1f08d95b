SPECIFICATION Spec
CONSTANTS
    DeliveryIds = {1, 2}
    Seat <- MCSeat
    Processes = {p1, p2}
    Cap = 1
    Ttl = 1
    MaxTime = 1
    MaxCreated = 2
    MaxFaults = 1
    None = None
SYMMETRY Symmetry
INVARIANTS
    TypeOK
    BannerIsReconciled
    CapIsKept
PROPERTIES
    RetiredForGood
CHECK_DEADLOCK FALSE
