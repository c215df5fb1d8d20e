\* Two calls from C, three attempts each, three devices for a list of two; the name of b has a NUL inside.
SPECIFICATION CFairSpec
CONSTANTS
    Datagrams <- ThreeDevices
    Timeout = 2
    ShortSleep = 1
    RetryCount = 3
    UseMulticast = TRUE
    Limit = 2
    MaxQueue = 1
    InnerNul = {"b"}
    MaxCalls = 2
INVARIANTS
    TypeOK
    ListIsProper
    DurationBound
    OutputMatches
    NothingLeaks
    NoBadFree
PROPERTIES
    SearchEnds
    DiscoverReturns
\* The bound on calls stops the model.
CHECK_DEADLOCK FALSE
