SPECIFICATION FairSpec
CONSTANTS
  Tag = {"input", "slider", "codeview"}
  Stages <- MCStages
  Codeview = {"codeview"}
  MaxId = 2
  MaxElement = 2
  MaxCallback = 4
INVARIANTS ItemsShown HeardIsSent AttachedOnceReady
PROPERTY EventuallyAttached
CHECK_DEADLOCK FALSE
