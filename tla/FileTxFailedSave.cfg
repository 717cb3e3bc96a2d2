SPECIFICATION Spec
CONSTANTS
    NumFiles = 2
    MaxChunks = 2
    MaxOps = 2
    MaxCrashes = 1
    Errors = {"save"}
INVARIANTS
    AllOfOneVersion
