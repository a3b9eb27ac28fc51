CONSTANTS
  t1 = t1
  t2 = t2
  w1 = w1
  w2 = w2
  w3 = w3
  NoWork = NoWork
  Thread = {t1, t2}
  Work = {w1, w2, w3}
  SemLimit = 2
  Stoppers = {"controller"}
SPECIFICATION FairSpec
INVARIANTS StoppedServerIsQuiet
PROPERTIES ShutdownReachesThreads
CHECK_DEADLOCK FALSE
