SPECIFICATION PlatformSpec
CONSTANTS
  AppModules <- TwoModules
  Keys = {1, 2}
  Contributions = {3}
  Codes = {p}
  MaxDeclared = 1
  StepUpMaxAge = 1
  CredentialTTL = 1
  MaxTTL = 1
  ClockSkew = 1
  MaxTime = 2
  Proxies = {"p1", "p2"}
  Strangers = {"c1", "c2"}
  MaxForged = 2
  MaxHops = 3
  Senders = {"s1"}
  FrameRate = 1
  FrameBurst = 1
  ByteRate = 2
  ByteBurst = 3
  MaxClock = 3
  Budgets = {3, 9}
  MaxBytes = 5
  TxTenants = {"t1", "t2"}
  TxSchemas = {"s"}
  MaxDo = 3
  Replicas = {r1, r2}
  MaxRounds = 2
  Builds = {b1, b2}
  Files = 2
  MaxRestarts = 2
  Width = 8
  MaxBackoff = 100
  MaxFailures = 12
  MaxEdits = 2
  Publishers = {"a", "b"}
  MaxRebinds = 2
  Services = {"s1", "s2"}
  Calls = {"c1", "c2"}
  MaxMoves = 3
  Migrations = {"m1", "m2"}
  Databases = {"d1", "d2"}
  Tables = {"t"}
  Declared <- TheMigrations
  MaxDrifts = 1
  ProfileInputs <- TheProfiles
INVARIANTS AssemblyIsSound IdentityIsSound ProfileIsKept ClientIsFound CallIsObserved RateIsKept DecodesLines TenantIsolation JobIsExclusive MigratedOnce BackoffIsCappedPower AppliedIsDerived PublishedOnce AccessIsAsDeclared MetricsAreTrue PinnedToAppKit
CHECK_DEADLOCK FALSE
