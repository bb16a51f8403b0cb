SPECIFICATION Spec
CONSTANTS
    Ops = {o1, o2, o3}
    Keys = {k1}
    NoKey = NoKey
    Clients = {c1, c2}
    Closers = {}
    Watched = {}
    Expiring = {}
    None = None
    Answers = {"not_active"}
    MaxQueued = 2
    MaxTerminal = 1
SYMMETRY Symmetry
INVARIANTS NeededRecordsKept ReplacementSound PositionsHonest
PROPERTIES LifecycleImplemented RecordsBounded
CHECK_DEADLOCK FALSE
