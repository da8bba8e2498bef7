SPECIFICATION FairSpec
CONSTANTS
    None = None
    NPools = 2
    Configs <- DefaultConfig
    SlotCap = 128
    UserCommands <- NoCommands
    CommandCap = 1
    MaxCommands = 0
    Reliable <- SecondPool
PROPERTIES
    KeepsMining
