SPECIFICATION Spec
CONSTANTS
    Key = {k1, k2, k3, k4}
    Blob = {b1}
    MaxRevision = 2
    IoErrors = {FALSE}
    None = None
SYMMETRY Symmetry
INVARIANTS
    OneValidPassword
