SPECIFICATION Spec
CONSTANTS
    NumFiles = 1
    MaxChunks = 2
    MaxOps = 3
    MaxCrashes = 2
    Errors = {"write", "save"}
INVARIANTS
    ContentMatchesCatalog
    AlwaysRecoverable
    UnlockSucceeds
