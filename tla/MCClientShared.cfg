\* A client with its listener: connect, a chunk that fails, and its retry or another command.
SPECIFICATION Spec
CONSTANTS
    ChunkLengths = {2}
    TimeoutKinds = {"WouldBlock", "TimedOut"}
    MaxCommands = 3
    MaxEvents = 0
    MayClose = FALSE
INVARIANTS
    TypeOK
    FullChunkIsExact
    OwnResponseIsTaken
PROPERTIES
    KeepsPlace
    KeepsPromise
\* The bound on commands stops the model.
CHECK_DEADLOCK FALSE
