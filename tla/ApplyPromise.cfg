CONSTANTS
  Timeouts <- MCTimeouts
  BadOption = BadOption
  ThenKinds <- MCBothThens
  MaxCalls = 1

SPECIFICATION Spec

INVARIANT TypeOK

PROPERTY CallerReturns
PROPERTY ImplementsAwaitCall
CHECK_DEADLOCK FALSE
