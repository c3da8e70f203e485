SPECIFICATION FairSpec
CONSTANTS
  t1 = t1 t2 = t2 j1 = j1 j2 = j2 f1 = f1 f2 = f2
  Threads <- TwoThreads
  Jobs <- OneJob
  Fds <- TwoFds
  WakeFd = wakefd
  MaxEvents = 2
  MaxOpens = 2
INVARIANTS TypeOK WakeReadable NoStaleHandler InterestMatches
PROPERTIES ImplementsQueue PostedRuns StopReturns
