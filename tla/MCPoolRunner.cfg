SPECIFICATION FairSpec
CONSTANTS
    None = None
    NPools = 3
    Configs <- AllConfigs
    SlotCap = 4
    UserCommands <- AllCommands
    CommandCap = 1
    MaxCommands = 2
    Reliable <- SecondPool
INVARIANTS
    TypeOK
    SessionOnActivePool
    OverrideStaysAvailable
PROPERTIES
    SleepsOnlyWithoutPools
    SwitchLeavesPool
    ShutdownCompletes
    KeepsMining
    SwitchIsCarriedOut
    LeavesFlakyPool
