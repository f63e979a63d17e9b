CONSTANTS
  i1 = i1
  i2 = i2
  h1 = h1
  h2 = h2
  d1 = d1
  d2 = d2
  None = None
  Isolates <- MCIsolates
  Handles <- MCHandles
  OneShots <- MCOneShots
  ValueKinds <- MCOneKind

SYMMETRY MCSymmetry

SPECIFICATION Spec

INVARIANT NoEmptyDeref

CHECK_DEADLOCK FALSE
