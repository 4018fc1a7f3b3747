SPECIFICATION Spec
CONSTANTS
    NoMessage = NoMessage
    Files <- MCFiles
    Kinds = {"vec", "hashmap"}
    MaxMsgs = 2
    MaxCapacity = 3
    PollEvery = 2
    SymbolsToWatch <- MCWatch
INVARIANTS
    ReplayTypeOK
    FramesKept
    
    BooksFollowFeed
    StatsExplainBooks
    PanicsExplained
CHECK_DEADLOCK FALSE
