SPECIFICATION FairSpec
CONSTANTS
    browser1 = browser1
    browser2 = browser2
    t1 = t1
    t2 = t2
    Clients = {browser1, browser2}
    Threads = {t1}
    Limit = 2
    MaxEvents = 3
    MaxDisconnects = 2
INVARIANTS StreamInv NothingMissed
PROPERTIES EveryEventArrives
CHECK_DEADLOCK FALSE
