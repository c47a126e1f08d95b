SPECIFICATION FairSeamSpec
CONSTANTS
    Turns = {"t1", "t2", "t3"}
    Turn <- MCTurn
    Deliveries <- MCDeliveries
    Context <- MCContext
    Provider = "cmux"
    MaxTurns = 2
    MaxRelays = 1
    MaxFaults = 2
    None = None
    SigningKey = "corekey"
    MaxLifetime = 9
INVARIANTS
    MemoryIsReplay
    ReceiptIdsAreStable
    EntryIsOwnTurn
    CompletionIsOwnTurn
    WireMarkerIsJudged
    CoreFollowsTurn
PROPERTIES
    UndisturbedTurnIsReported
    TurnIsProcessed
    RestartHeals
CHECK_DEADLOCK FALSE
