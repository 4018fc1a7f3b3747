SPECIFICATION Spec
CONSTANTS
    None = None
    Feeds <- MCFeeds
    Keys <- MCKeys
    Heights = {8, 9, 10, 12, 13}
    MaxFilter = 2
    MaxCapacity = 4
    PollEvery = 2
    SymbolsToWatch <- MCWatch
INVARIANTS
    TuiTypeOK
    ScreenTruthful
    SelectionVisible
    SelectionSticks
    LadderShowsTouch
CHECK_DEADLOCK FALSE
