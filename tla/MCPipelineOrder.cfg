SPECIFICATION PipelineSpec
CONSTANTS
    s1 = s1
    r1 = r1
    None = None
    Session <- MCSession
    FirstSession = s1
    MsgLen <- MCMsgLen
    MaxPayload = 3
    U16Max = 4
    FirstSeq = 1
    QueueSize = 1
    MaxBatch = 1
    MaxMsgs = 2
    MaxCalls = 3
    MaxAnswers = 0
    ExpectedSession = s1
    ExpectedSeq = None
    Server <- MCServer
    PoolSize = 1
    MaxRetries = 1
    Operations = {}
    Failures = {}
    ManualRequests = {}
    Interactive = {FALSE}
    OutputFile = FALSE
    MaxHeartbeats = 1
INVARIANT AppliedInOrder
CHECK_DEADLOCK FALSE
