SPECIFICATION Spec
CONSTANTS
    Ops = {o1, o2}
    Keys = {}
    NoKey = NoKey
    Clients = {c1}
    Closers = {closer}
    Watched = {o1}
    Expiring = {o1}
    None = None
    Answers = {"claimed", "too_late", "not_active"}
    MaxQueued = 1
    MaxTerminal = 1
INVARIANTS NoOrphan RacesSettle
PROPERTIES TerminalFrozen IntentWins
CHECK_DEADLOCK FALSE
