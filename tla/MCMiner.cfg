SPECIFICATION FairSpec
CONSTANTS
    i1 = i1
    i2 = i2
    w1 = w1
    w2 = w2
    bad = bad
    Threads <- TwoThreads
    Work <- AllWork
    BadWork <- SomeBadWork
    JobCap = 2
    ResultCap = 1
    MaxCommands = 3
INVARIANTS
    TypeOK
    OneJobPerEpoch
PROPERTIES
    CurrentJobKeepsRunning
    OldJobsNeverResume
    OldJobsQuiesce
