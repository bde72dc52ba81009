SPECIFICATION FairSpec
CONSTANTS
    Executive = "executive"
    Threaded = {"rendering"}
    Pumped = {"platform"}
    Catalogue <- MCCatalogue
    StartTurns = 0
    StopTurns = 0
    StopSources = {"native"}
    MaxPosts = 2
    MaxFaults = 0
CHECK_DEADLOCK FALSE
PROPERTY StopCompletes
