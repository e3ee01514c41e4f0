CONSTANTS
    Window = {w1, w2}
    Frontend = {}
    Root <- SameRoot
    Mishaps = {"daemon", "connect", "silence", "toggle", "death"}
    Limit = 2
    MaxConnection = 4
    MaxCalls = 1
    MaxMishaps = 2
SPECIFICATION FairSpec
CHECK_DEADLOCK FALSE
INVARIANTS RegisteredWindowsAreFound OneConnection
PROPERTIES WindowsReturn IdleDaemonExits
