SPECIFICATION FairSpec
CONSTANTS
  MaxLines <- LineLimits
  Days = 2
  m_log_max_file_size = 1
INVARIANTS TypeOK StopDrains
PROPERTIES LogInOrder StopReturns LineWritten Rolls
CHECK_DEADLOCK FALSE
