SPECIFICATION ServerSpec
CONSTANTS
    s1 = s1
    s2 = s2
    Session <- MCSession
    FirstSession = s1
    MsgLen <- MCMsgLen
    MaxPayload = 1
    U16Max = 4
    FirstSeq = 1
    QueueSize = 2
    MaxBatch = 2
    MaxMsgs = 3
    MaxCalls = 4
    MaxAnswers = 1
INVARIANT PacketsTruthful
CHECK_DEADLOCK FALSE
