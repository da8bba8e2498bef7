SPECIFICATION Spec
CONSTANTS
    One = 2
    NonFinite = NonFinite
    None = None
    i1 = i1
    j1 = j1
    j2 = j2
    Threads <- OneThread
    JobsOf <- SharedJobIds
    BadJobs <- NoJobs
    Difficulties <- SpacedDifficulties
    Replies <- AllReplies
    Reconnect = TRUE
    JobCap = 1
    ResultCap = 1
    InboxCap = 1
    MaxSessions = 2
    MaxLines = 4
    MaxRequestId = 4
INVARIANTS
    MinerFollowsManager
    OwnJob
    TypeOK
    WorkInHandIsSubmittable
    PendingIsOfThisSession
PROPERTIES
    SharesAreCountedOnce
    FirstAuthorizeWins
