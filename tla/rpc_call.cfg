SPECIFICATION FairSpec
CONSTANTS
  c1 = c1 c2 = c2 k1 = k1 k2 = k2
  Calls <- TwoCalls
  Controllers <- TwoControllers
  ControllersOf <- ControllersOfCalls
  RequestsOf <- RequestsOfCalls
  Registered <- Services
  Unreadable <- Unreadables
  Base = 2
  IdLength = 2
  Draws <- DrawnIds
INVARIANTS TypeOK OnceIfConnected ReturnsDone AnswerFound
PROPERTIES AnswerFinal AnsweredRight IdsSuccessive TouchesOwn LoopReturns
CHECK_DEADLOCK FALSE
