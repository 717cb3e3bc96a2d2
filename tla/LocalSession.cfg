SPECIFICATION Spec
CONSTANTS
    MaxRequest = 2
    MaxGeneration = 2
    MaxPending = 2
    Commands = {"unlock", "setup", "restore", "erase", "confirm", "rekey", "sync"}
    Timeouts = {}
    CoreErrors = {"lock", "config"}
CHECK_DEADLOCK FALSE
INVARIANTS
    LockedMeansLocked
    SnapshotIsTrue
    EventsAreComplete
    CancelledUnlockIsOver
PROPERTIES
    TerminalIsFinal
