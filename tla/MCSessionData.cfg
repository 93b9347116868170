SPECIFICATION Spec
CONSTANTS
    Starts = {"new"}
    MaxOpens = 1
    Senders = {1}
    Repliers = {1}
    MaxData = 2
    maxServerStreams = 2
    ClientVersions = {1, 2}
    StaleScheme = TRUE
    Exclusive = TRUE
    Closers = {"client", "server"}
    Faults = TRUE
INVARIANTS
    SettingsFirst
    FinAfterData
PROPERTIES
    RefinesByteStream
CHECK_DEADLOCK FALSE
