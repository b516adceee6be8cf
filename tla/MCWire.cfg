SPECIFICATION Spec
CONSTANTS
  xdrStringMaxLen = 5
  MaxMessageSize = 40
  Messages <- MCMessages
  MaxMessages = 2
  Patched <- MCPatched
INVARIANTS TypeOK FramingKept AllBeforeDamage
CHECK_DEADLOCK FALSE
