SPECIFICATION Spec
CONSTANTS
    c1 = c1
    c2 = c2
    p1 = p1
    p2 = p2
    mine = mine
    other = other
    usual = usual
    special = special
    None = None
    Providers = {p1, p2}
    Rank <- ByPriority
    Preferred <- Lists
    AgentIds <- InOrder
    Chats = {c1}
    Conversations = {mine, other}
    Own = {mine}
    Raises = {"TypeError", "HTTPStatusError"}
    MaxEdits = 0
    MaxCrashes = 0
INVARIANT FallbackReached
CHECK_DEADLOCK FALSE
