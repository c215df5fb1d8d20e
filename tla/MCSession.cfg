\* One call, with one retry of the packet.
SPECIFICATION SSpec
CONSTANTS
    ParameterBytes = {6}
    MaxRetries = 1
    MaxCommands = 1
INVARIANT
    SessionIsCreated
\* The model ends with its call.
CHECK_DEADLOCK FALSE
