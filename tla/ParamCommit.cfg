SPECIFICATION PFairSpec
CONSTANTS
    Keys <- ParamNames
    Values = {0, 1}
    NoValue = NoValue
    Default = 0
    Refused <- OneRefused
    Retries = 2
    MaxEdits = 4
    MaxDowns = 1
INVARIANTS NoLostEdit
PROPERTIES HeldEditLands
CHECK_DEADLOCK FALSE
