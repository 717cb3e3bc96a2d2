SPECIFICATION Spec
CONSTANTS
    c1 = c1
    c2 = c2
    u1 = u1
    None = None
    B = B
    Backup <- TwoChunks
    Own <- OwnChunk
    Password = {"p", "q"}
    BackupPassword = "p"
    IoErrors = FALSE
    MaxFresh = 6
    MaxOps = 6
    MaxCrashes = 0
    MaxErrors = 0
INVARIANTS
    ExistingVaultSafe
