\* A client that is dropped at any time, an event, the end of the connection, timeouts of either kind.
SPECIFICATION FairSpec
CONSTANTS
    ChunkLengths = {2}
    TimeoutKinds = {"WouldBlock", "TimedOut"}
    MaxCommands = 2
    MaxEvents = 1
    MayClose = TRUE
INVARIANTS
    ListenerStays
PROPERTIES
    CommandReturns
    ListenerEnds
\* The bound on commands stops the model.
CHECK_DEADLOCK FALSE
