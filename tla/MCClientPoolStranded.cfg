SPECIFICATION Spec
CONSTANTS
    Streams = {t1, t2}
    MaxSession = 2
    MinIdle = 1
INVARIANTS
    SessionGoesBackToPool
