SPECIFICATION FeedSpec
CONSTANTS
    s1 = s1
    s2 = s2
    r1 = r1
    r2 = r2
    None = None
    Session <- MCSession
    FirstSession = s1
    MsgLen <- MCMsgLen
    MaxPayload = 2
    U16Max = 2
    FirstSeq = 1
    QueueSize = 1
    MaxBatch = 1
    MaxMsgs = 1
    MaxCalls = 2
    MaxAnswers = 0
    ExpectedSession = None
    ExpectedSeq = 1
    Server <- MCServer
    PoolSize = 1
    MaxRetries = 1
    Operations = {"send", "end_of_session", "change_session"}
    Failures = {"recv", "send"}
    ManualRequests <- MCManualRequests
VIEW GapView
INVARIANTS
    
    RequestsKept
CHECK_DEADLOCK FALSE
