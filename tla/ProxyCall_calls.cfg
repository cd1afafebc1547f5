SPECIFICATION Spec
CONSTANTS
    Thread = {t1, t2}
    Call = {k1, k2}
    MaxConn = 2
    MAX_RETRIES = 1
    Configs <- Usual
    None = None
INVARIANT CallInv
PROPERTY KeepsPromise
CHECK_DEADLOCK FALSE
