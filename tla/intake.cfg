SPECIFICATION MCSpec
CONSTANTS
  Body = {b1, b2}
  FirstSequence = 1
  FirstTasks = {1}
  MaxCalls = 3
  MaxDirect = 1
  MaxCrashes = 1
  Adder = {a1, a2}
  EdgeType = {"BLOCKS", "RELATES_TO"}
  PlanSizes = {1, 2, 3}
  MaxTasks = 3
  MaxAsked = 3
  Caller = {c1, c2}
  MaxJobs = 2
  MaxChanges = 3
  MaxFaults = 2
  Worker = {w1, w2}
  Person = {q1, q2}
  MaxRuns = 2
  MaxApprovals = 2
  MaxFindings = 1
SYMMETRY Alike
CHECK_DEADLOCK FALSE
INVARIANTS CreationIsSafe DependenciesAreSound SchedulesFireAsSet PeopleAreAskedOnce
