SPECIFICATION FairSpec
CONSTANTS
  Request = {r1, r2}
  Item = {a}
  MaxSession = 3
  MaxFault = 1
INVARIANTS SessionKept TornIsTransient FailsOnlyIfVanished
PROPERTIES NotAdopted Answered
CHECK_DEADLOCK FALSE
