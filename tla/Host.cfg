SPECIFICATION FairSpec
CONSTANTS
  NumServices = 2
  Apps <- ServedAndHeadless
INVARIANTS CleanupIsWhole
PROPERTIES ReportsAreTrue HostSettles
