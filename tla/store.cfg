CONSTANTS
    Review = {r1, r2}
    Blob = {b1, b2}
    Retention = 1
    MaxVersion = 2
    MaxFaults = 1
    MaxCrashes = 1
    MaxLosses = 1
    MaxTrouble = 2
    MaxDamage = 1
SPECIFICATION Spec
INVARIANTS MemoryMatchesDisk SpaceIsReclaimed AcknowledgedIsDurable
PROPERTIES ImplementsAtomicReviews
SYMMETRY Names
