CONSTANTS
  Timeouts <- MCTimeouts
  BadOption = BadOption
  ThenKinds <- MCNativeThen
  MaxCalls = 1

SPECIFICATION Spec

INVARIANT NoUseAfterFree
CHECK_DEADLOCK FALSE
