SPECIFICATION Spec
CONSTANTS
  Exec = {a1, a2}
  Run = {r1}
  NoRun = NoRun
  NoSnapshot = NoSnapshot
  Limits = {2}
  Slots = 1
  Costs = {1, 2}
  MaxCost = 2
  RunBudget = 1
INVARIANTS TypeOK NoLiveChildOfCancelledRun OutcomeMatchesRow OverspendIsBounded
PROPERTIES RowsStand CancellationReachesProvider ImplementsLedger
CHECK_DEADLOCK FALSE
