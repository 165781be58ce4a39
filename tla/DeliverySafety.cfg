SPECIFICATION Spec
CONSTANTS
    m1 = m1
    m2 = m2
    picture = picture
    w = w
    p1 = p1
    p2 = p2
    None = None
    Worker = w
    Pollers = {p1}
    Msgs = {m1, m2, picture}
    NonText = {picture}
    Updates <- FeedWithRepeat
    WorkerLimit = 2
    PollLimits = {0, 9}
    MaxLimit = 3
    RetryBase = 2
    RetryMax = 3
    Budget <- AllButStore
INVARIANTS TypeOK DeliveryInv AtMostOneReply TimelineTruthful OvertakesOnlyOthers
PROPERTIES OffsetMonotone AtMostOnceConsumer
