SPECIFICATION Spec
CONSTANTS
    hook = hook
    retry = retry
    call = call
    chat1 = chat1
    chat2 = chat2
    m1 = m1
    d1 = d1
    None = None
    Runs = {hook, retry, call, chat1, chat2}
    Deployments <- MockAndOfficial
    Ids = {m1}
    GivenId <- SameId
    ChatIds = {d1}
    Text <- Questions
    Models = {"none", "ollama"}
    Decisions = {"review", "developer"}
    MaxForgets = 1
    MaxCrashes = 1
SYMMETRY Alike
INVARIANTS GraphInv StaysForgotten OwnSummary DuplicateMeansOver
PROPERTIES AtMostOnceWebhook
CHECK_DEADLOCK FALSE
