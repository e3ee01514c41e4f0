CONSTANTS
    r1 = r1
    r2 = r2
    r3 = r3
    Request = {r1, r2, r3}
    Limit = 2
    MaxCommits = 3
    MaxConflicts = 1
    MaxMoves = 1
SPECIFICATION Spec
INVARIANTS SelectionsMatchOperation PermitsAreConserved
PROPERTIES AbortedNeverSpawns RequestsSettle
CHECK_DEADLOCK FALSE
