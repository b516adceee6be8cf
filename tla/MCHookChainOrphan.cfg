CONSTANTS
  Blank = Blank  Torn = Torn
  XML <- MCXML
  Prints <- MCPrints
  Chain <- MCChain
  Runs = {r1}
  Inputs <- MCWorker
  DirHooks = {1, 2}
  UseHook = FALSE
  UseDir = TRUE
  Forks = TRUE
  MaxChanges = 0
SPECIFICATION FairSpec
PROPERTY RunEventuallyReturns
CHECK_DEADLOCK FALSE
