SPECIFICATION Spec
CONSTANTS
    c1 = c1
    c2 = c2
    u1 = u1
    None = None
    B = B
    Backup <- TwoChunks
    Own <- OwnChunk
    Password = {"p", "q"}
    BackupPassword = "p"
    IoErrors = TRUE
    MaxFresh = 6
    MaxOps = 6
    MaxCrashes = 1
    MaxErrors = 1
INVARIANTS
    RestoreAllOrNothing
    MasterPasswordVerifies
PROPERTIES
    OnlyLeftoversDestroy
