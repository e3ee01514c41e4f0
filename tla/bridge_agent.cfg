CONSTANTS
    Window = {w1}
    Frontend = {f1}
    Root <- OwnRoots
    Mishaps = {"daemon", "connect", "slow", "toggle", "death"}
    Limit = 64
    MaxConnection = 2
    MaxCalls = 2
    MaxMishaps = 2
SPECIFICATION Spec
CHECK_DEADLOCK FALSE
INVARIANT CallsFindTheirSession
