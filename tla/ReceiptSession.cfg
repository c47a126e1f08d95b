SPECIFICATION Spec
CONSTANTS
    DeliveryIds <- MCDeliveryIds
    Key <- SessionKey
    BindingIds = {"b1"}
    NewBindings = {"b1"}
    Binding <- MCBinding
    ProviderIds = {"cmux"}
    Provider <- MCProvider
    Receipts <- SessionReceipts
    PrincipalRows = {}
    MessageRows = {}
    None = None
    Blank = Blank
    SigningKey = "corekey"
    MaxLifetime = 4
    Reducers = {w1, w2}
SYMMETRY Symmetry
INVARIANTS
    TypeOK
    ValidationOutlivesRead
    AuditExplainsState
    EntersSessionOnce
    ProcessedTurnWasEntered
    EvidenceIsNotShared
PROPERTIES
    CollisionIsExplained
    ImplementsLadder
