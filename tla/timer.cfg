SPECIFICATION FairSpec
CONSTANTS
  t1 = t1 t2 = t2 loop = loop e1 = e1 e2 = e2 e3 = e3
  Threads <- TwoThreads
  Loop = loop
  Events <- ThreeEvents
  Repeating <- OneRepeating
  Interval <- ShortIntervals
  Grace = 1
  AsyncDeletes = FALSE
INVARIANTS TypeOK NeverAsleep NothingLost
PROPERTIES PendingRuns OnTimerReturns
