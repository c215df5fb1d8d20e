\* One object of forty bytes in chunks of three, a checkpoint every four bytes.
SPECIFICATION FairSpec
CONSTANTS
    o1 = o1
    o2 = o2
    NoFile = NoFile
    Unparsable = Unparsable
    Objects = {o1}
    Size <- OneSize
    ChunkSize = 3
    MinChunkSize = 1
    ProgressInterval = 10
    MaxRetries = 2
INVARIANTS
    TypeOK
    TempIsPrefix
    SavedIsWhole
    RecordNeverAhead
    ProgressTimely
PROPERTIES
    NeverUnpublished
    AppearsWhole
    CallReturns
