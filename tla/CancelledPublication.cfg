SPECIFICATION WSpec
CONSTANTS
    Ops = {o1}
    Keys = {}
    NoKey = NoKey
    Clients = {c1}
    Closers = {}
    Watched = {}
    Expiring = {}
    None = None
    Answers = {"claimed", "too_late", "not_active"}
    MaxQueued = 1
    MaxTerminal = 2
    ParentOwned = {}
    Publishing = {o1}
    Journaled = {}
    WithReadiness = {}
INVARIANTS CancelledIsUnpublished
CHECK_DEADLOCK FALSE
