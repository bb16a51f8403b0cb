SPECIFICATION Spec
CONSTANTS
  Parts = {"lid"}
  MaxWrites = 3
  MaxCommits = 3
  MaxCrashes = 2
  MaxFailures = 1
INVARIANTS HistoryInStep 
PROPERTIES SealedKept 
\* A session waits for its next call.
CHECK_DEADLOCK FALSE
