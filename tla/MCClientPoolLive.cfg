SPECIFICATION FairSpec
CONSTANTS
    Streams = {t1, t2}
    MaxSession = 2
    MinIdle = 0
PROPERTIES
    IdleIsReclaimed
CONSTRAINT ClientOpen
