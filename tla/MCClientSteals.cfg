\* The listener takes the response of the command thread.
SPECIFICATION Spec
CONSTANTS
    ChunkLengths = {2}
    TimeoutKinds = {"WouldBlock"}
    MaxCommands = 2
    MaxEvents = 0
    MayClose = FALSE
INVARIANTS
    ResponseReachesCaller
\* The bound on commands stops the model.
CHECK_DEADLOCK FALSE
