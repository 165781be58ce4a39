SPECIFICATION FairSpec
CONSTANTS
    laya = laya
    openjev = openjev
    c1 = c1
    c2 = c2
    c3 = c3
    None = None
    Names = {laya, openjev}
    Order <- LayaFirst
    Calls = {c1, c2, c3}
    FailureThreshold = 1
    OpenFor = 2
    Timeout = 1
    MaxTime = 3
    Laya = laya
    LoadTime = 2
    Levels = {1, 2}
    Mishaps = {"401"}
    Threshold = 2
INVARIANTS RouterInv
INVARIANTS ResultExplained ReviewUnlessConfident LateOnlyByLoad
PROPERTIES LeftAlone EarlyCloseIsStale EveryCallEnds
CHECK_DEADLOCK FALSE
