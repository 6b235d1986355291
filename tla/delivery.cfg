SPECIFICATION MCSpec
CONSTANTS
  Org = {1}
  Key = {1}
  Place = {"remote", "local"}
  Worker = {1, 2}
  MaxRuns = 3
  MaxCommits = 1
  MaxMoves = 2
  Organization = {"o1", "o2"}
  Repository = {"r1", "r2"}
  Request = {1, 2}
  MaxRequests = 3
  MaxTurns = 3
INVARIANTS
  WorktreesKeepWork CompletedWorkIsJudged WorkIsDelivered WebhooksAreFollowed ConnectionsHold
PROPERTY VerdictsStand
CHECK_DEADLOCK FALSE
