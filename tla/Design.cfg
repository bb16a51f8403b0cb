SPECIFICATION Spec
CONSTANTS
    Null = Null
    Numeral <- MCNumeral
    Axes = 2
    Values = {0, 1}
    Measure <- MCMeasure
    Fails <- MCFails
    Nodes <- MCNodes
    Overlapping <- MCOverlapping
    References <- MCReferences
    Goals <- MCGoals
    OldBriefs <- MCOldBriefs
    NewBriefs <- MCNewBriefs
    Upserts <- MCUpserts
    Motions <- MCMotions
    Chains <- MCChains
    Budgets = {3}
    Boxes <- MCBoxes
    MaxRevision = 1
INVARIANTS ReadyIsEarned IntentKept RegressionsAreTrue 
CHECK_DEADLOCK FALSE
