CONSTANTS
  NoSocket = NoSocket
  Instances = {i1, i2, i3}
SPECIFICATION FairSpec
INVARIANTS ListenerReachable NoDeadSocket RestartFindsAddressFree
PROPERTY SignalStops
CHECK_DEADLOCK FALSE
