CONSTANTS
  Blank = Blank  Torn = Torn
  XML <- MCXML
  Prints <- MCPrints
  Chain <- MCChain
  Runs = {r1, r2}
  Inputs <- MCInputs
  DirHooks = {1, 2}
  UseHook = TRUE
  UseDir = TRUE
  Forks = TRUE
  MaxChanges = 1
SPECIFICATION FairSpec
INVARIANTS TypeOK ResultFromHooks AlphabeticalAndComplete ErrorReturnsInput FitOrUntouched
PROPERTY ReturnsUnlessHeld
CHECK_DEADLOCK FALSE
