SPECIFICATION MCSpec
CONSTANTS
    Client = {c1, c2}
    Stopper = {s1, s2}
    Kinds = {"thread", "multiplex", "existing"}
    None = None
    c1 = c1
    c2 = c2
    s1 = s1
    s2 = s2
INVARIANT LoopInv
PROPERTIES ShutdownEnds ServesUntilAsked
CHECK_DEADLOCK FALSE
