SPECIFICATION FairSpec
CONSTANTS
    m1 = m1
    m2 = m2
    picture = picture
    w = w
    p1 = p1
    p2 = p2
    None = None
    Worker = w
    Pollers = {p1}
    Msgs = {m1, m2, picture}
    NonText = {picture}
    Updates <- FeedOfRepeats
    WorkerLimit = 2
    PollLimits = {0}
    MaxLimit = 3
    RetryBase = 2
    RetryMax = 3
    Budget <- UpstreamAndStore
INVARIANTS NoneSkippedUnlessWrong OffsetDurable
PROPERTIES EveryTextAnswered WorkerRecovers PollServed
