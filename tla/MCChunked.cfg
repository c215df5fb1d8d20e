\* Two objects, of three and two bytes, chunks of two, six commands.
SPECIFICATION ChunkedSpec
CONSTANTS
    o1 = o1
    o2 = o2
    NoFile = NoFile
    Unparsable = Unparsable
    Objects = {o1, o2}
    Size <- TwoSizes
    ChunkSize = 2
    MinChunkSize = 1
    ProgressInterval = 5
    MaxRetries = 1
    Answers <- ShortAnswers
    MaxCommands = 6
INVARIANTS
    OffsetTracksTemp
PROPERTIES
    TrustedBytesKept
    ImplementsDownload
\* The bound on commands stops the model.
CHECK_DEADLOCK FALSE
