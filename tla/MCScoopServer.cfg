CONSTANTS
  Capacity = 4
  NoItem = NoItem
  AcceptMayFail = TRUE
  Stoppers = {"controller"}
SPECIFICATION FairServerSpec
INVARIANTS CountExact BusyExact KnownItem CompletedIsQuiet PendingCompleted
PROPERTIES ShutdownCompletes HandlerReturns
CHECK_DEADLOCK FALSE
