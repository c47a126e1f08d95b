CONSTANTS
    DeliveryIds = {d1}
    Workers = {w1, w2}
    None = None
SPECIFICATION FairSpec
PROPERTY LifecycleIsEnforced
