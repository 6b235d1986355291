SPECIFICATION Spec
CONSTANTS
  Body = {b1}
  FirstSequence = 0
  FirstTasks = {1, 2}
  MaxCalls = 2
  MaxDirect = 1
  MaxCrashes = 0
CHECK_DEADLOCK FALSE
INVARIANT KeyRetriesSucceed
