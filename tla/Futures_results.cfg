SPECIFICATION Spec
CONSTANTS
    User = {u1, u2}
    Call = {c1, c2}
    MaxRetries = 1
    MaxDelays = 1
    None = None
    Fault = Fault
CHECK_DEADLOCK FALSE
INVARIANT
    FutureInv
PROPERTIES
    ReadyIsFinal
    ResultArrives
