SPECIFICATION EndingsSpec
CONSTANTS
  Replicas = {r1}
  NumEvents = 3
  c1 = c1
  Consumers = {c1}
  Subs <- OnlyLast
  BadMeta <- MCBadMeta
  Batch = 1
  MaxAttempts = 2
  Tokens = {t1, t2, t3, t4}
  NoToken = NoToken
  Upgrades = {u1, u2}
  HubLimits = {1, 2}
  SSEEvents = 2
  StreamQueue = 0
  ModuleWorkers <- OneWorker
  CoreCallers = {"c1", "c2", "c3"}
INVARIANTS SocketsAccounted SSEEndsAreTrue
PROPERTIES EventSettles ShutdownEnds SSELetsGo WorkersSettle CoreSettles
CHECK_DEADLOCK FALSE
