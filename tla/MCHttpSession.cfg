SPECIFICATION HttpSpec
CONSTANTS
  Connections = {c1}
  Requests <- MCRequests
  Tokens = {"none"}
  MaxRequests = 4
CHECK_DEADLOCK FALSE
INVARIANTS
  HttpTypeOK
  OneAtATime
  AnswersInOrder
  QuietAfterClose
PROPERTIES
  EventuallyAnswered
  ImplementsExchange
