SPECIFICATION FairSpec
CONSTANTS
  c1 = c1
  c2 = c2
  s1 = s1
  Clients = {c1, c2}
  Servers = {s1}
  Calls <- MCCalls
  QueueSizes = {0, 1}
  IdleDetection = TRUE
  MaxMessages = 2
PROPERTIES ImplementsStreamAbs OperationsEnd
CHECK_DEADLOCK FALSE
