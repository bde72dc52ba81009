SPECIFICATION FairSpec
CONSTANTS
    Executive = "executive"
    Threaded = {"rendering"}
    Pumped = {"platform"}
    Catalogue <- MCCatalogue
    StartTurns = 0
    StopTurns = 1
    StopSources = {"debug"}
    MaxPosts = 3
    MaxFaults = 1
CHECK_DEADLOCK FALSE
INVARIANTS
    CodeOutlivesUse
    RequesterIsKept
    CleanExit
PROPERTIES
    OperationsComplete
    StopCompletes
