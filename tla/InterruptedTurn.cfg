SPECIFICATION SeamSpec
CONSTANTS
    Turns = {"t1", "human"}
    Turn <- MCTurn
    Deliveries <- MCDeliveries
    Context <- MCContext
    Provider = "cmux"
    MaxTurns = 2
    MaxRelays = 0
    MaxFaults = 0
    None = None
    SigningKey = "corekey"
    MaxLifetime = 9
INVARIANTS
    StopIsOfTheTurn
CHECK_DEADLOCK FALSE
