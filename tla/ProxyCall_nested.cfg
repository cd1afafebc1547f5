SPECIFICATION Spec
CONSTANTS
    Thread = {t1}
    Call = {k1, k2, k3}
    MaxConn = 1
    MAX_RETRIES = 0
    Configs <- KeptNested
    None = None
INVARIANT OwnAnswer
CHECK_DEADLOCK FALSE
