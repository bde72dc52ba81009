SPECIFICATION FairSpec
CONSTANTS
    Executive = "executive"
    Threaded = {"rendering"}
    Pumped = {"platform"}
    Catalogue <- MCCatalogue
    StartTurns = 1
    StopTurns = 1
    StopSources = {}
    MaxPosts = 2
    MaxFaults = 0
CHECK_DEADLOCK FALSE
PROPERTY OperationsComplete
