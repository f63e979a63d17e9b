CONSTANTS
  i1 = i1
  i2 = i2
  h1 = h1
  h2 = h2
  d1 = d1
  d2 = d2
  None = None
  Isolates <- MCIsolates
  Handles <- MCHandles
  OneShots <- MCOneShots
  ValueKinds <- MCValueKinds

SYMMETRY MCSymmetry

SPECIFICATION Spec

INVARIANT TypeOK
INVARIANT OneShotDeliveredOnce
INVARIANT TypeOfAgrees

CHECK_DEADLOCK FALSE
