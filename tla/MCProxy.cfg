CONSTANTS
  x1 = x1  x2 = x2  y1 = y1  y2 = y2
  flags = flags  none = none
  NoXML = NoXML  NoMsg = NoMsg
  XML <- MCXML
  Rest <- MCRest
  Chain <- MCChain
  Sends <- SendsAll
  Conns = {c1}
  MaxSent = 2
  SockCap = 1
SPECIFICATION FairSpec
INVARIANTS ForwardedInOrder OneInHand EndOfStreamLast HangupHasCause NothingLeaked
PROPERTIES ImplementsRelay HangupEndsConnection SentIsForwarded
CHECK_DEADLOCK FALSE
