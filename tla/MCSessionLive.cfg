SPECIFICATION FairSpec
CONSTANTS
    Starts = {"new", "used"}
    MaxOpens = 1
    Senders = {1, 2}
    Repliers = {2}
    MaxData = 1
    maxServerStreams = 2
    ClientVersions = {1, 2}
    StaleScheme = FALSE
    Exclusive = TRUE
    Closers = {"client", "server"}
    Faults = FALSE
PROPERTIES
    PeerLearns
    HandlersEnd
    DieTogether
CHECK_DEADLOCK FALSE
