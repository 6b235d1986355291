SPECIFICATION PlatformSpec
CONSTANTS
  Count = 3
  Repeatable = {3}
  Late = {2}
  Deployer = {1, 2}
  MaxRuns = 3
  MaxSeeds = 2
  MaxUses = 2
  MaxWrites = 1
  MaxErrors = 2
INVARIANTS SchemaFollowsHistory  ScreensShowOwnWrites
PROPERTY ViewsCatchUp
CHECK_DEADLOCK FALSE
