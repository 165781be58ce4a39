SPECIFICATION FairSpec
CONSTANTS
    c1 = c1
    c2 = c2
    p1 = p1
    p2 = p2
    mine = mine
    other = other
    usual = usual
    special = special
    None = None
    Providers = {p1, p2}
    Rank <- ByPriority
    Preferred <- Lists
    AgentIds <- InOrder
    Chats = {c1, c2}
    Conversations = {mine, other}
    Own = {mine}
    Raises = {"ProviderError", "TypeError"}
    MaxEdits = 1
    MaxCrashes = 1
INVARIANTS ChatInv KeyOfRevision
PROPERTIES EveryChatEnds KeepsTheLog
CHECK_DEADLOCK FALSE
