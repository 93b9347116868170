SPECIFICATION Spec
CONSTANTS
    Starts = {"new"}
    MaxOpens = 1
    Senders = {1}
    Repliers = {1}
    MaxData = 1
    maxServerStreams = 1
    ClientVersions = {2}
    StaleScheme = FALSE
    Exclusive = TRUE
    Closers = {"server"}
    Faults = FALSE
INVARIANTS
    CloseClosesAllStreams
CHECK_DEADLOCK FALSE
