SPECIFICATION Spec
CONSTANTS
  Check = {"UNIT"}
  Job = {}
  MaxRev = 1
  MaxTests = 2
  MaxFindings = 2
INVARIANT ApprovalsFaceNoOpenFindings
CHECK_DEADLOCK FALSE
