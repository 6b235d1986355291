SPECIFICATION MCSpec
CONSTANTS
  Key <- SmallKey
  CYCLE_STEPS <- SmallCycle
  maxAttempts <- SmallMaxAttempts
  entryStatus <- SmallEntry
  Moves <- NoMoves
  Decisions <- FixedTwo
  Status <- SmallStatus
  route <- SmallRoute
  legal <- SmallLegal
  Retryable <- SmallRetryable
  Run = {r1, r2}
  FirstRun = {r1}
  Worker = {w1, w2}
  ForceOption = {TRUE}
  HumanTargets = {"CANCELLED"}
  MaxJobs = 1
  MaxCrashes = 0
  MaxStalls = 1
  MaxFaults = 0
SYMMETRY Symmetry
INVARIANTS TypeOK OneStepAtATime AtMostOneClaimStands NoLostResult
PROPERTIES HistoryIsFinal CancellationIsFinal
CHECK_DEADLOCK FALSE
