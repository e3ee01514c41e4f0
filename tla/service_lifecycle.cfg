CONSTANTS
    Review = {r1, r2}
    Thread = {t1}
    User = {u1, u2}
    Agent = {}
    None = None
    Workload <- Lifecycle
    StrictClock = TRUE
    MaxOperation = 2
    MaxSize = 2
    MaxClock = 4
SPECIFICATION Spec
CHECK_DEADLOCK FALSE
SYMMETRY Names
INVARIANTS OneActiveReview SnapshotsMoveForward ShownInCurrentSnapshot
PROPERTIES ArchivesWhatWasConfirmed
