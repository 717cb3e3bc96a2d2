SPECIFICATION MCSpec
CONSTANTS
    Chunk = {c1, c2}
    Val = {v1, v2}
    Absent = Absent
    Root <- MCRoot
    NoRoot = {}
    Refs <- MCRefs
    NoRec = NoRec
    NoPlan = NoPlan
    MaxFaults = 3
INVARIANTS
    TypeOK
    Loadable
    SavedInPlace
PROPERTIES
    AtomicCommit
    OperationEnds
