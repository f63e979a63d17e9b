CONSTANTS
  main = main
  w1 = w1
  w2 = w2
  p1 = p1
  p2 = p2
  OwnerThread = main
  Threads <- MCThreads
  Handles <- MCHandles

SPECIFICATION Spec

INVARIANT TypeOK

CHECK_DEADLOCK FALSE
