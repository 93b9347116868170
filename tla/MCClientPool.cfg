SPECIFICATION Spec
CONSTANTS
    Streams = {t1, t2, t3}
    MaxSession = 2
    MinIdle = 1
SYMMETRY Symmetry
INVARIANTS
    TypeOK
    ExclusiveUse
    ListedUntilRetired
    NoStreamOutlivesSession
    ClosedClientPoolsNothing
    SingleUse
PROPERTIES
    CleanupSparesNewest
