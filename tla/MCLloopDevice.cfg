SPECIFICATION Spec
CONSTANTS
  Bios <- MCBios
  Handles <- MCHandles
  Rw <- MCRw
  Vcnt <- MCVcnt
  Via <- MCVia
  MaxSegments = 2
  MaxAttach = 2
  Failures <- MCFailures
  Reorder = TRUE
  NoBio = NoBio
  w1 = w1
  w2 = w2
  r = r
INVARIANTS TypeOK PendingAccounts EndedOnce ServedAsListed WorkerKeepsFile
  StartsAlone RefcntAccounts
PROPERTY ImplementsService
SYMMETRY MCSymmetry
CHECK_DEADLOCK FALSE
