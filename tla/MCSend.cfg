\* Two commands, with none, one and one and a half parameters, two retries each.
SPECIFICATION FairSpec
CONSTANTS
    ParameterBytes = {0, 4, 6}
    MaxRetries = 2
    MaxCommands = 2
INVARIANTS
    TypeOK
    SentAtMostOnce
    AttemptsBounded
PROPERTIES
    SendReturns
\* The bound on commands stops the model.
CHECK_DEADLOCK FALSE
