CONSTANTS
  x1 = x1  x2 = x2  y1 = y1  y2 = y2
  flags = flags  none = none
  NoXML = NoXML  NoMsg = NoMsg
  XML <- MCXML
  Rest <- MCRest
  Chain <- MCChain
  Sends <- SendsDefine
  Conns = {c1}
  MaxSent = 1
  SockCap = 1
SPECIFICATION Spec
INVARIANT NormalCloseNotLogged
CHECK_DEADLOCK FALSE
