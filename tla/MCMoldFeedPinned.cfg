SPECIFICATION FeedSpec
CONSTANTS
    s1 = s1
    s2 = s2
    r1 = r1
    r2 = r2
    None = None
    Session <- MCSession
    FirstSession = s1
    MsgLen <- MCMsgLen
    MaxPayload = 2
    U16Max = 3
    FirstSeq = 1
    QueueSize = 1
    MaxBatch = 1
    MaxMsgs = 1
    MaxCalls = 2
    MaxAnswers = 0
    ExpectedSession = s1
    ExpectedSeq = 1
    Server <- MCOneServer
    PoolSize = 1
    MaxRetries = 1
    Operations = {"change_session"}
    Failures = {}
    ManualRequests = {}
INVARIANT PinnedSession
CHECK_DEADLOCK FALSE
