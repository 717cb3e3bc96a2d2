SPECIFICATION Spec
CONSTANTS
    MaxRequest = 2
    MaxGeneration = 1
    MaxPending = 2
    Commands = {"unlock"}
    Timeouts = {TRUE}
    CoreErrors = {"lock"}
CHECK_DEADLOCK FALSE
PROPERTIES
    RevocationCompletes
    IdleSessionIsRevoked
    EveryCallReturns
    MonitorIsReleased
