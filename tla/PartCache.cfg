SPECIFICATION Spec
CONSTANTS
  Sources = {"s"}
  Scalars <- TwoScalars
  Assets = {"a", "b", "shell"}
  Shells = {"shell"}
  MaxEdits = 2
  MaxClones = 2
  MaxCrashes = 1
INVARIANTS CachesSound
\* The budgets run out.
CHECK_DEADLOCK FALSE
