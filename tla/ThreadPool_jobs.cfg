SPECIFICATION MCSpec
CONSTANTS
    Worker = {w1, w2, w3}
    Job = {j1, j2}
    Closer = {c1}
    SIZE = 2
    SIZE_MIN = 1
    None = None
    w3 = w3
    j2 = j2
    c1 = c1
INVARIANTS PoolInv MinimumKept
PROPERTIES QueuedIsCalled SurplusEnds
CHECK_DEADLOCK FALSE
