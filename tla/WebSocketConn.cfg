SPECIFICATION ConnFairSpec
CONSTANTS
  Requests = 1
  Responses = 1
  Queue = 0
INVARIANTS EndsAreTrue
PROPERTIES BothEndsLetGo
CHECK_DEADLOCK FALSE
