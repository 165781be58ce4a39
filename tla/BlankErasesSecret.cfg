SPECIFICATION Spec
CONSTANTS
    t1 = t1
    t2 = t2
    agent = agent
    provider = provider
    None = None
    Ids = {provider}
    Providers = {provider}
    Tabs = {t1, t2}
    MaxChanges = 3
    MaxCrashes = 0
PROPERTY BlankKeepsSecret
CHECK_DEADLOCK FALSE
