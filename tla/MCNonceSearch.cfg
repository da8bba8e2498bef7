SPECIFICATION Spec
CONSTANTS
    One = 8
    NonFinite = NonFinite
    None = None
    UnitsPerStep = 2
    MaxScaled = 15
    Width = 64
    Diff1 <- AlgorithmTargets
    Sampled <- SomeDifficulties
    NThreads = 3
    NonceSpace = 4
    HexBase = 2
    Hash <- SomeHash
    Works <- SomeWorks
    JobCap = 1
    ResultCap = 1
    MaxCounter = 4
INVARIANTS
    NoHeaderTwice
    NoNonceSkipped
    ReportsVerify
    TargetIsTight
    SubmittedShareIsClose
PROPERTIES
    ImplementsMiner
