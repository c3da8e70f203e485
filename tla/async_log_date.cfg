SPECIFICATION Spec
CONSTANTS
  MaxLines <- LineLimits
  Days = 2
  m_log_max_file_size = 1
INVARIANT DatedRight
CHECK_DEADLOCK FALSE
