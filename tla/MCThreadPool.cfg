CONSTANTS
  t1 = t1
  t2 = t2
  w1 = w1
  w2 = w2
  w3 = w3
  NoWork = NoWork
  Thread = {t1, t2}
  Work = {w1, w2, w3}
  SemLimit = 3
SPECIFICATION FairSpec
INVARIANTS TypeOK EachWorkOnce NoLostWakeup TerminateJoins
PROPERTIES ImplementsWorkQueue QueuedIsServed
CHECK_DEADLOCK FALSE
