SPECIFICATION FairSpec
CONSTANTS
    DeliveryIds = {"d1"}
    Key <- SessionKey
    BindingIds = {"b1", "b2"}
    NewBindings = {"b1", None}
    Binding <- MCBinding
    ProviderIds = {"cmux"}
    Provider <- MCProvider
    Receipts <- BindingReceipts
    PrincipalRows = {}
    MessageRows = {}
    None = None
    Blank = Blank
    SigningKey = "corekey"
    MaxLifetime = 4
    Reducers = {w1, w2}
PROPERTY StaleBindingNeverAdvances
