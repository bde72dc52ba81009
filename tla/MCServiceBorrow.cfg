SPECIFICATION FairSpec
CONSTANTS
    N = 2
    ControlCapacity = 1
    ReplyCapacity = 3
    Kinds <- MCKinds
    Disturbances = 1
CHECK_DEADLOCK FALSE
INVARIANTS
    BorrowOutlivesUse
    ProtocolRespected
    CreditsExact
PROPERTIES
    ClosingBorrowsRetire
    EveryRequestAnswered
