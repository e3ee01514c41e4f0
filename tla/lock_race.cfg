CONSTANTS
    Host = {h1, h2, h3}
    NoFile = NoFile
    Crashable = {h1}
    Suspendable = {}
    Faulty = {}
    MaxAttempts = 3
SPECIFICATION Spec
CHECK_DEADLOCK FALSE
INVARIANTS MutualExclusion
