SPECIFICATION MCSpec
CONSTANTS
  Key <- SmallKey
  CYCLE_STEPS <- SmallCycle
  maxAttempts <- SmallMaxAttempts
  entryStatus <- SmallEntry
  Moves <- NoMoves
  Decisions <- FixedThree
  Status <- SmallStatus
  route <- SmallRoute
  legal <- SmallLegal
  Retryable <- SmallRetryable
  Run = {r1}
  FirstRun = {}
  Worker = {w1}
  ForceOption = {FALSE}
  HumanTargets = {}
  MaxJobs = 2
  MaxCrashes = 1
  MaxStalls = 0
  MaxFaults = 0
INVARIANT ActiveRunsHaveAJob
CHECK_DEADLOCK FALSE
