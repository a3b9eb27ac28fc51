SPECIFICATION FairSpec
CONSTANTS
  ClientFrame <- MCClientFrame
  MaxFrames = 3
  MaxBacklog = 2
  MaxTimer = 1
INVARIANTS MessagesInOrder TextNeverMalformed PingsAnswered CloseHandshake
PROPERTIES GoneThenDone MessageDelivered
CHECK_DEADLOCK FALSE
