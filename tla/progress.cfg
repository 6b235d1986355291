SPECIFICATION MCSpec
CONSTANTS
  Projects <- OneProject
  Leftovers <- NoLeftovers
  Starts <- OneStart
  Providers = {"GITHUB"}
  MaxStepExecutions = 10
  MaxFailures = 10
  MaxEdits = 0
  MaxAdHocTests = 0
  Run = {r1}
  Worker = {w1, w2}
  Container = {c1, c2}
  Busy = {c1}
  Provider = {"cli", "mock"}
  Timeout = 2
  KillDelay = 1
  MaxWait = 5
INVARIANTS NoContainerEscapes SecretsAreCleared 
PROPERTIES RunsComeToRest CommandsSettle
CHECK_DEADLOCK FALSE
