\* The temporary file of one object under the name of another.
SPECIFICATION Spec
CONSTANTS
    o1 = o1
    o2 = o2
    NoFile = NoFile
    Unparsable = Unparsable
    Objects = {o1, o2}
    Size <- TwoSizes
    ChunkSize = 2
    MinChunkSize = 1
    ProgressInterval = 5
    MaxRetries = 1
INVARIANTS
    OkMeansWhole
