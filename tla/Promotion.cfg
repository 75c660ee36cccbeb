SPECIFICATION FairPromotion
CONSTANTS
    scheduled = scheduled
    manual = manual
    Trainer = {scheduled, manual}
    Scheduled = scheduled
    MaxRows = 2
    MinRows = 1
    MaxVersions = 3
INVARIANTS
    PromotionTypeOK
    OnlyFirstUnskilled
PROPERTIES
    SomethingToServe
CHECK_DEADLOCK FALSE
