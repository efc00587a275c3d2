SPECIFICATION Spec
CONSTANTS
  Size = 2
  Callers = {"a", "b"}
  Files = {"f"}
  Values = {0, 1}
  PoolSize = 5
  Piece = 2
  MaxSegs = 2
  MaxSeg = 5
  MaxTries = 1
  Threads <- MCThreads
  Bits <- MCBits
  Mask <- MCMask
  Setters <- MCSetters
  BqMask <- MCBqMask
  BqShift <- MCBqShift
  BqOthers = {"vindpm", "sys_min"}
  MaxEnables = 2
  MaxFaults = 1
  MaxPlugs = 2
INVARIANTS TypeOK LcmSemaphore TzTransfersOnce StartLeavesNothing CallsFindReady
  NcpCoherent LimitFitsCharger Bc11IsOff
CHECK_DEADLOCK FALSE
