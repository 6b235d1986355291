SPECIFICATION Spec
CONSTANTS
  Org = {1, 2}
  Key = {1}
  Place = {"remote", "local"}
  Worker = {1, 2}
  MaxRuns = 3
  MaxCommits = 1
  MaxMoves = 0
INVARIANT WorkIsOnlyItsTasks
CHECK_DEADLOCK FALSE
