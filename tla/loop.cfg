SPECIFICATION MCSpec
CONSTANTS
  Projects <- MCProjects
  Leftovers <- MCLeftovers
  Starts <- MCStarts
  Providers = {"NONE", "LOCAL", "GITHUB"}
  MaxStepExecutions = 14
  MaxFailures = 1
  MaxEdits = 1
  MaxAdHocTests = 1
INVARIANTS PathIsFirstShortest TableServesItsUsers 
PROPERTIES StepsAreAllowed
