SPECIFICATION Spec
CONSTANTS
  NumServices = 2
  Apps <- HeadlessOnly
INVARIANTS RunErrorsKept
