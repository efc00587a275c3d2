SPECIFICATION Spec
CONSTANTS
  Bios <- MCBios
  Handles <- MCHandles
  Rw <- MCRw
  Vcnt <- MCVcnt
  Via <- MCVia
  MaxSegments = 2
  MaxAttach = 2
  Failures <- MCFailures
  Reorder = TRUE
  NoBio = NoBio
  w1 = w1
  w2 = w2
  r = r
INVARIANT LassertCount
SYMMETRY MCSymmetry
CHECK_DEADLOCK FALSE
