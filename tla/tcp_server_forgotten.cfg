SPECIFICATION Spec
CONSTANTS
  c1 = c1 c2 = c2 c3 = c3
  Conns <- TwoConns
  Fds <- SomeFds
  ListenFd = 5
  GroupSize = 7
  IOThreads = 2
INVARIANT ClosedForgotten
CHECK_DEADLOCK FALSE
