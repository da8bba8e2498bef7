SPECIFICATION FairSpec
CONSTANTS
    None = None
    p1 = p1
    j1 = j1
    d1 = d1
    Pools <- OnePool
    Jobs <- OneJob
    Difficulties <- OneDifficulty
    Keys <- SomeKeys
    EventCap = 1
    CommandCap = 1
INVARIANTS
    ShownIsCurrent
    JoinsEachTaskOnce
PROPERTIES
    EndOfOneEndsAll
    QuitEnds
    InterfaceGoesOn
