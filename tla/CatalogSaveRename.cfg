SPECIFICATION Spec
CONSTANTS
    ShardId = {A, B}
    SystemShards <- EagerOrder
    Eagers = {}
    Preset = {A}
    Name = {x}
    Tag = {t1}
    Ops = {"create", "renameTop"}
    IoErrors = FALSE
    MAX_DELTAS = 2
    MaxSeq = 3
    MaxId = 3
    NoShard = NoShard
    NoMeta = NoMeta
    NoNode = NoNode
    Failure = Failure
    Absent = Absent
    NoRec = NoRec
    NoPlan = NoPlan
    NoOp = NoOp
SYMMETRY Symmetry
INVARIANTS
    RenameIsDurable
