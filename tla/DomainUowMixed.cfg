SPECIFICATION Spec
CONSTANTS
    Domain = {d1, d2}
    File = {f1, f2}
    MaxRevision = 3
    IoErrors = {TRUE}
    Gc = FALSE
    None = None
SYMMETRY Symmetry
INVARIANTS
    OldOrNewRoot
