CONSTANTS
  t1 = t1
  w1 = w1
  w2 = w2
  NoWork = NoWork
  Thread = {t1}
  Work = {w1, w2}
  SemLimit = 2
  Stoppers = {"controller"}
SPECIFICATION FairSpec
PROPERTIES ShutdownCompletes
CHECK_DEADLOCK FALSE
