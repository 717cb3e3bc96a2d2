SPECIFICATION Spec
CONSTANTS
    MaxChunks = 2
    MaxOps = 3
    MaxCrashes = 2
    MaxReaders = 2
    MaxEntries = 2
    Errors = {"write", "batch", "save"}
INVARIANTS
    FilesIntact
    UploadRecoverable
    CacheIsTrue
