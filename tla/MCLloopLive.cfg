SPECIFICATION FairSpec
CONSTANTS
  Bios <- MCBios2
  Handles <- MCHandles
  Rw <- MCRw2
  Vcnt <- MCVcnt2
  Via <- MCVia2
  MaxSegments = 2
  MaxAttach = 2
  Failures <- MCNoFailures
  Reorder = FALSE
  NoBio = NoBio
  w1 = w1
  w2 = w2
  r = r
PROPERTIES ListedIsServed DetachReturns
CHECK_DEADLOCK FALSE
