SPECIFICATION Spec
CONSTANTS
  q1 = q1 q2 = q2 q3 = q3
  Requests <- ThreeRequests
  MsgId <- MsgIds
  RequestLen <- RequestLens
  AnswerLen <- AnswerLens
  BufferSize = 6
  WireSize = 3
  Window = 2
INVARIANT NothingRefused
CHECK_DEADLOCK FALSE
