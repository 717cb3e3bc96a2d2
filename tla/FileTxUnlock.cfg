SPECIFICATION Spec
CONSTANTS
    NumFiles = 1
    MaxChunks = 2
    MaxOps = 1
    MaxCrashes = 2
    Errors = {}
INVARIANTS
    UnlockAlwaysSucceeds
