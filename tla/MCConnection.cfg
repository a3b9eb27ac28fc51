SPECIFICATION FairSpec
CONSTANTS
  KeepAliveSettings <- MCSettings
  HeadFallback = TRUE
  AppHeaders <- HeaderText
  MaxRequests = 3
  MaxConnections = 2
  MaxTokens = 4
INVARIANTS ExecuteRequestContract RequestLimit DecidedByThisRequest KeepAliveAgreement ResponseOrder AnsweredBeforeReuse StatusSent
PROPERTY HandlerFreed
CHECK_DEADLOCK FALSE
