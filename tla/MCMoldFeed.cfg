SPECIFICATION FeedSpec
CONSTANTS
    s1 = s1
    s2 = s2
    r1 = r1
    r2 = r2
    None = None
    Session <- MCOneSession
    FirstSession = s1
    MsgLen <- MCMsgLen
    MaxPayload = 3
    U16Max = 4
    FirstSeq = 1
    QueueSize = 1
    MaxBatch = 2
    MaxMsgs = 2
    MaxCalls = 3
    MaxAnswers = 0
    ExpectedSession = s1
    ExpectedSeq = 1
    Server <- MCOneServer
    PoolSize = 1
    MaxRetries = 1
    Operations = {"send", "send_dropped", "shutdown"}
    Failures = {"send"}
    ManualRequests = {}
VIEW GapView
INVARIANTS
    FeedTypeOK
    NoSilentGap
    AnswerableRequests
CHECK_DEADLOCK FALSE
