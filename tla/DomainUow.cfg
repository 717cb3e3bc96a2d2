SPECIFICATION Spec
CONSTANTS
    Domain = {d1, d2}
    File = {f1, f2}
    MaxRevision = 4
    IoErrors = {TRUE, FALSE}
    Gc = TRUE
    None = None
SYMMETRY Symmetry
INVARIANTS
    FilesMatchCatalog
    SuccessIsComplete
