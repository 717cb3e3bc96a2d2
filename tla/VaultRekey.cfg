SPECIFICATION Spec
CONSTANTS
    Key = {k1, k2, k3}
    Blob = {b1, b2}
    MaxRevision = 2
    IoErrors = {TRUE, FALSE}
    None = None
SYMMETRY Symmetry
INVARIANTS
    CrashKeepsOnePassword
PROPERTIES
    SwitchKeepsContent
