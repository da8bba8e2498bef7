SPECIFICATION FairSpec
CONSTANTS
    None = None
    p1 = p1
    j1 = j1
    d1 = d1
    Pools <- OnePool
    Jobs <- OneJob
    Difficulties <- OneDifficulty
    Keys <- Quit
    EventCap = 1
    CommandCap = 1
PROPERTIES
    QuitExits
