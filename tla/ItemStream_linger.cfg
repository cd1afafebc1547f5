SPECIFICATION MCSpec
CONSTANTS
    Stream = {s1, s2}
    s2 = s2
    MaxConn = 2
    N = 2
    Configs <- Usual
    None = None
INVARIANT StreamInv
PROPERTIES NeverRepeats LingeringEnds
CHECK_DEADLOCK FALSE
