SPECIFICATION Spec
CONSTANTS
    Sources = {"control", "pod"}
    CaptureCapacity = 2
    DeliveryCapacity = 2
    ReplyCapacity = 3
    ControlCapacity = 2
    MaxPosts = 2
    TerminalRevision = 12
    MaxDepth = 2
    ReadAttempts = 1
    SampleAttempts = 2
    Duration = 2
    MaxClock = 2
    Streams = {"actions", "text"}
    RingCapacity = 1
    GenerationLimit = 3
    SequenceLimit = 5
    MaxRequests = 1
CHECK_DEADLOCK FALSE
INVARIANTS
    SourceOrder
    CreditsCovered
    ReplayNeverBlocks
    RestrictedTimeIsFree
    NoSpuriousFailure
    FreshInput
    BoundaryNeverStalls
PROPERTY
    MergeInOrder
