SPECIFICATION Spec
CONSTANTS
  Args <- MCArgsNode
  Bad = Bad
  NoNode = NoNode
  Zones = {2}
  MaxRuns = 2
INVARIANTS NodeHonoured
CHECK_DEADLOCK FALSE
