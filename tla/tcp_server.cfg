SPECIFICATION FairSpec
CONSTANTS
  c1 = c1 c2 = c2 c3 = c3
  Conns <- ThreeConns
  Fds <- SomeFds
  ListenFd = 5
  GroupSize = 7
  IOThreads = 2
INVARIANTS TypeOK OwnDescriptors Served CountAccounted LoopAlive
PROPERTIES GoneForgotten DestructorReturns
CHECK_DEADLOCK FALSE
