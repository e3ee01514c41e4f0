CONSTANTS
    Host = {h1, h2, h3, h4}
    NoFile = NoFile
    Crashable = {}
    Suspendable = {}
    Faulty = {}
    MaxAttempts = 3
SPECIFICATION FairSpec
CHECK_DEADLOCK FALSE
INVARIANTS MutualExclusion
PROPERTIES RefusalNamesLiveHolder AcquireReturns
