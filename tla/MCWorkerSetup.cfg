CONSTANTS
  Unparsable = Unparsable  Missing = Missing  Down = Down  NoNode = NoNode
  Other = {}
  Originals <- MCOriginals
  Nodes = {n1, n2}
  Pods = {p1, p2}
  Installers = {p1, p2, d1}
SPECIFICATION SetupFairSpec
INVARIANTS SetupTypeOK SettingsKept ContainerdUpToDate OnePodPerWorker CompletedMeansConfigured
PROPERTY JobEnds
CHECK_DEADLOCK FALSE
