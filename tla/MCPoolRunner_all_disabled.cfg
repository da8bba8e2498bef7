SPECIFICATION FairSpec
CONSTANTS
    None = None
    NPools = 2
    Configs <- FailoverOnly
    SlotCap = 128
    UserCommands <- Toggle
    CommandCap = 1
    MaxCommands = 3
    Reliable <- BothPools
PROPERTIES
    CommandsAreTaken
