SPECIFICATION FairSpec
CONSTANTS
  ClientFrame <- MCClientFrame
  MaxFrames = 3
  MaxBacklog = 2
  MaxTimer = 1
INVARIANT TextValid
CHECK_DEADLOCK FALSE
