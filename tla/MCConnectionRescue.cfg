SPECIFICATION Spec
CONSTANTS
  KeepAliveSettings <- MCSettings
  HeadFallback = TRUE
  AppHeaders <- HeaderText
  MaxRequests = 3
  MaxConnections = 2
  MaxTokens = 4
INVARIANT HeaderEndsOnce
CHECK_DEADLOCK FALSE
