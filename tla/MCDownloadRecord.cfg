\* A record cut short by a crash or a failed write.
SPECIFICATION Spec
CONSTANTS
    o1 = o1
    o2 = o2
    NoFile = NoFile
    Unparsable = Unparsable
    Objects = {o1}
    Size <- SmallSize
    ChunkSize = 2
    MinChunkSize = 1
    ProgressInterval = 5
    MaxRetries = 1
INVARIANTS
    OwnRecordIsReadable
