SPECIFICATION Spec
CONSTANTS
  Args <- MCArgs
  Bad = Bad
  NoNode = NoNode
  Zones = {1, 3}
  MaxRuns = 2
INVARIANTS TypeOK DoneGroupsProvisioned SuccessIsComplete
CHECK_DEADLOCK FALSE
