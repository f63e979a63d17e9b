CONSTANTS
  i1 = i1
  i2 = i2
  h1 = h1
  h2 = h2
  d1 = d1
  t1 = t1
  t2 = t2
  None = None
  Isolates <- MCIsolates
  Handles <- MCHandles
  OneShots <- MCOneShots
  Tasks <- MCTasks
  Caller = i1
  Owner <- MCOwner
  Receivers <- MCReceivers
  MaxArgs = 1
  Modes <- MCModes

SPECIFICATION Spec

PROPERTY ReuseErrorOnlyAfterUse



CHECK_DEADLOCK FALSE
