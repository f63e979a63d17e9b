CONSTANTS
  Timeouts <- MCTimeouts
  BadOption = BadOption
  ThenKinds <- MCGuestThen
  MaxCalls = 2

SPECIFICATION Spec

INVARIANT ReactionBoxOwnedOnce
CHECK_DEADLOCK FALSE
