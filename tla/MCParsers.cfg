\* Every response, cut at every length.
SPECIFICATION Spec
CONSTANTS
    Kinds <- AllKinds
    Numbers <- SomeNumbers
    Lists <- ShortLists
    Texts <- SomeTexts
    Codes <- SomeCodes
INVARIANTS
    TypeOK
    WholeResponseParses
    CutResponseFails
PROPERTIES
    ParseReturns
\* A walk is one call, and it ends.
CHECK_DEADLOCK FALSE
