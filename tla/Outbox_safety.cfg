SPECIFICATION Spec
CONSTANTS
  Replicas = {r1, r2}
  NumEvents = 2
  c1 = c1
  c2 = c2
  Consumers = {c1, c2}
  Subs <- TwoAndNone
  BadMeta <- MCBadMeta
  Batch = 2
  MaxAttempts = 2
  Tokens = {t1, t2, t3, t4}
  NoToken = NoToken
SYMMETRY MCSymmetry
INVARIANTS PublishedWasHandled EffectAtMostOnce DeadIffBudgetSpent
PROPERTIES LiveClaimIsExclusive ImplementsAbs
