SPECIFICATION Spec
CONSTANTS
    ShardId = {A}
    SystemShards <- EagerOrder
    Eagers = {}
    Preset = {A}
    Name = {x, y}
    Tag = {t1, t2}
    Ops = {"create", "update", "delete", "rename", "gc"}
    IoErrors = TRUE
    MAX_DELTAS = 3
    MaxSeq = 4
    MaxId = 3
    NoShard = NoShard
    NoMeta = NoMeta
    NoNode = NoNode
    Failure = Failure
    Absent = Absent
    NoRec = NoRec
    NoPlan = NoPlan
    NoOp = NoOp
SYMMETRY Symmetry
INVARIANTS
    CatalogLoads
    SuccessMeansDurable
    DeltaLogBounded
    PlanSafe
