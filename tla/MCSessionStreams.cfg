SPECIFICATION Spec
CONSTANTS
    Starts = {"new", "used"}
    MaxOpens = 2
    Senders = {1, 2}
    Repliers = {}
    MaxData = 1
    maxServerStreams = 1
    ClientVersions = {1, 2}
    StaleScheme = FALSE
    Exclusive = FALSE
    Closers = {}
    Faults = FALSE
INVARIANTS
    StreamIntegrity
    RegisteredWhileOpen
    ClientSweepIsFinal
    AnsweredOnce
    AnsweredIsUnwatched
CHECK_DEADLOCK FALSE
