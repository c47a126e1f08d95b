SPECIFICATION BroadcastSpec
CONSTANTS
    BroadcastIds = {"x"}
    Actors = {"b", "eric"}
    Rosters <- MCRosters
    Times = {2}
    DeliveryIds <- MCDeliveryIds
    Key <- MCKey
    BindingIds = {"a1", "a2", "b1"}
    NewBindings = {}
    Binding <- MCBinding
    ProviderIds = {"cmux"}
    Provider <- MCProvider
    Receipts <- MCReceipts
    PrincipalRows = {}
    MessageRows = {}
    None = None
    Blank = Blank
    SigningKey = "corekey"
    MaxLifetime = 4
    Reducers = {w1}
INVARIANTS
    OneActiveBinding
    RollupIsPaidFor
    UnboundNeverAdvances
PROPERTIES
    SnapshotIsOneMoment
    AbsenceStaysVisible
    StrandedForGood
