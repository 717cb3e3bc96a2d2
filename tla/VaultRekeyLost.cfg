SPECIFICATION Spec
CONSTANTS
    Key = {k1, k2}
    Blob = {b1}
    MaxRevision = 2
    IoErrors = {TRUE}
    None = None
SYMMETRY Symmetry
INVARIANTS
    OneValidPassword
