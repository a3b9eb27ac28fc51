CONSTANTS
  Async = FALSE
  Stoppers = {"controller", "server"}
  MaxExceptions = 2
SPECIFICATION FairSpec
INVARIANTS ObserverProtocol
PROPERTIES ShutdownHonoured
CHECK_DEADLOCK FALSE
