SPECIFICATION StorageSpec
CONSTANTS
    Name = {n1, n2}
    Uri = {u1}
    Tag = {t1}
    None = None
    n1 = n1
    n2 = n2
    p1 = p1
    Begins <- MCBegins
    Alike <- MCAlike
    Matched <- MCAlike
    MatchedAll <- MCBegins
    Databases = {"old"}
    MaxCalls = 1
INVARIANT UpgradeKeepsNames
CHECK_DEADLOCK FALSE
