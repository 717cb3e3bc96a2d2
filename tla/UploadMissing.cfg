SPECIFICATION Spec
CONSTANTS
    MaxChunks = 2
    MaxOps = 2
    MaxCrashes = 0
    MaxReaders = 0
    MaxEntries = 1
    Errors = {"batch"}
INVARIANT NeverMissingChunks
