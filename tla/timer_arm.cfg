SPECIFICATION Spec
CONSTANTS
  t1 = t1 t2 = t2 loop = loop e1 = e1 e2 = e2 e3 = e3
  Threads <- OneThread
  Loop = loop
  Events <- ThreeEvents
  Repeating <- OneRepeating
  Interval <- Intervals
  Grace = 1
  AsyncDeletes = FALSE
INVARIANT ArmedForFirst
