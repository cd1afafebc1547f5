SPECIFICATION Spec
CONSTANTS
    Client = {c1, c2}
    Stopper = {s1}
    Kinds = {"thread"}
    None = None
INVARIANT NoAbort
CHECK_DEADLOCK FALSE
