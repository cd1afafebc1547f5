SPECIFICATION Spec
CONSTANTS
    Stream = {s1, s2}
    s2 = s2
    MaxConn = 1
    N = 1
    Configs <- OnlyDiscarding
    None = None
INVARIANT NoOrphan
CHECK_DEADLOCK FALSE
