SPECIFICATION Spec
CONSTANTS
  Cameras = {main, sub}
  Main = main
  Delays = {0, 2, 255}
  MaxSyncs = 2
  MaxFrames = 3
INVARIANTS TypeOK ExposureOnTime GainsWhole CallsAreClean TransferFits
