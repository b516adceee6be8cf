SPECIFICATION Spec
CONSTANTS
  Runs = {p1, p2}
  Configs <- MCConfigs
  Devices = {1, 2, 3}
  TotalVFs <- MCTotalVFs
  InitVFs = {0, 1, 3}
  Nodes <- MCNodes
  NoNode = NoNode
INVARIANTS TypeOK SuccessMeansConfigured NeverBusy TryModeSucceeds OverlapConverges
CHECK_DEADLOCK FALSE
