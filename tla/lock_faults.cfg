CONSTANTS
    Host = {h1, h2}
    NoFile = NoFile
    Crashable = {h1, h2}
    Suspendable = {h1}
    Faulty = {h1}
    MaxAttempts = 3
SPECIFICATION FairSpec
CHECK_DEADLOCK FALSE
INVARIANTS FilesKeepTheirOwner OnlyDeadLocksCondemned
PROPERTIES DisplacedOwnerNotices DeadLockIsRecovered
