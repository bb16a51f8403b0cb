SPECIFICATION WFairSpec
CONSTANTS
    Ops = {o1, o2}
    Keys = {}
    NoKey = NoKey
    Clients = {c1}
    Closers = {}
    Watched = {o1}
    Expiring = {}
    None = None
    Answers = {"claimed", "too_late", "not_active"}
    MaxQueued = 1
    MaxTerminal = 2
    ParentOwned = {}
    Publishing = {o1, o2}
    Journaled = {o1, o2}
    WithReadiness = {o1}
INVARIANTS WritersInStep SourcesPublished ClaimsHaveHolders
PROPERTIES PublicationAgrees EveryCallEnds
CHECK_DEADLOCK FALSE
