CONSTANTS
  Parts = {base, lid}
  Direct = {brief}
  Keep = 1
  MaxWrites = 3
  MaxPublications = 3
  MaxCrashes = 1
  MaxFailures = 2
SPECIFICATION FairSpec
INVARIANTS SelectedOnDisk WorkspaceInStep 
PROPERTIES HistoryMatchesSelected 
\* An idle session may wait for ever for its next call.
CHECK_DEADLOCK FALSE
