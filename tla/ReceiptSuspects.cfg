SPECIFICATION Spec
CONSTANTS
    DeliveryIds = {"d1", "c1"}
    Key <- MixedKey
    BindingIds = {"b1", "b2"}
    NewBindings = {"b1"}
    Binding <- MCBinding
    ProviderIds = {"cmux", "discord"}
    Provider <- MCProvider
    Receipts <- SuspectReceipts
    PrincipalRows <- MCPrincipalRows
    MessageRows <- MCMessageRows
    None = None
    Blank = Blank
    SigningKey = "corekey"
    MaxLifetime = 4
    Reducers = {w1}
INVARIANTS
    SuspectsNeverAdvance
    LedgerIsAuditable
