SPECIFICATION Spec
CONSTANTS
    ShardId = {A, B, S, T}
    SystemShards <- EagerOrder
    Eagers = {S, T}
    Preset = {}
    Name = {x}
    Tag = {t1}
    Ops = {"create", "createTop", "deleteTop", "renameTop", "compact", "gc"}
    IoErrors = FALSE
    MAX_DELTAS = 2
    MaxSeq = 2
    MaxId = 3
    NoShard = NoShard
    NoMeta = NoMeta
    NoNode = NoNode
    Failure = Failure
    Absent = Absent
    NoRec = NoRec
    NoPlan = NoPlan
    NoOp = NoOp
SYMMETRY Symmetry
INVARIANTS
    CatalogLoads
    SuccessMeansDurable
    NodeIdsUnique
PROPERTIES
    CompactionPreserves
