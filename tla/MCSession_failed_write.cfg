SPECIFICATION Spec
CONSTANTS
    One = 2
    NonFinite = NonFinite
    None = None
    i1 = i1
    j1 = j1
    j2 = j2
    Threads <- OneThread
    JobsOf <- OneSessionJobIds
    BadJobs <- NoJobs
    Difficulties <- OneDifficulty
    Replies <- HandshakeReplies
    Reconnect = TRUE
    JobCap = 1
    ResultCap = 1
    InboxCap = 1
    MaxSessions = 1
    MaxLines = 2
    MaxRequestId = 3
INVARIANTS
    SurvivesDisconnect
