SPECIFICATION Spec
CONSTANTS
  t1 = t1 t2 = t2 j1 = j1 j2 = j2 f1 = f1 f2 = f2
  Threads <- OneThread
  Jobs <- TwoJobs
  Fds <- OneFd
  WakeFd = wakefd
  MaxEvents = 1
  MaxOpens = 0
INVARIANT WokenAtOnce
