SPECIFICATION Spec
CONSTANTS
    Starts = {"new"}
    MaxOpens = 2
    Senders = {1, 2}
    Repliers = {1, 2}
    MaxData = 1
    maxServerStreams = 2
    ClientVersions = {2}
    StaleScheme = FALSE
    Exclusive = TRUE
    Closers = {}
    Faults = FALSE
PROPERTIES
    WatchedUntilAnswered
CHECK_DEADLOCK FALSE
