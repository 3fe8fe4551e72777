SPECIFICATION FairSpec
CONSTANTS
    Tabs = {t1, t2}
    s1 = s1
    s2 = s2
    Sessions <- MCSessions
    None = None
    MaxBuf = 2
    MaxLog <- MCMaxLog
    MaxMoves = 1
    MaxBreaks = 2
CHECK_DEADLOCK FALSE
INVARIANTS TypeOK BuffersAreWindows SettledView
PROPERTIES ReadsAsFeed CatchesUp
