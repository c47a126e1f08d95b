SPECIFICATION Spec
CONSTANTS
    DeliveryIds = {d1}
    Workers = {w1, w2, w3}
    None = None
INVARIANTS
    TypeOK
    OneTurnPerDelivery
    EffectIsJournaled
    ProvenIsReal
    ClaimHasEvidence
