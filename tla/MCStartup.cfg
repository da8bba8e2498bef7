SPECIFICATION Spec
CONSTANTS
    Unset = Unset
    Garbage = Garbage
    Off = Off
    None = None
    home = home
    far = far
    presetA = presetA
    presetB = presetB
    solo = solo
    Loopback <- LocalPools
    Supported <- Algorithms
    Embedded <- SomePresets
    DefaultPool = solo
    Environments <- AllEnvironments
    Answers <- SomeAnswers
    PoolStreams <- SomeStreams
    Chunk = 5
    HeaderLimit = 8
    BufCap = 2
CHECK_DEADLOCK FALSE
INVARIANTS
    ConfigSuitsRunner
    ProxyFollowsEnvironment
    TunnelFollowsAnswer
    LinesAreThePools
