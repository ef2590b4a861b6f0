SPECIFICATION Spec
CONSTANTS
  NumServices = 0
  Apps <- HeadlessOnly
INVARIANTS StartReturnsHandleOrError
