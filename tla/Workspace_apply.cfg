SPECIFICATION FairSpec
CONSTANTS
  fa = fa
  fb = fb
  fe = fe
  outer = outer
  inner = inner
  old = old
  new = new
  other = other
  upgrade = upgrade
  Missing = Missing
  Foreign = Foreign
  NoGate = NoGate
  NoTxn = NoTxn
  NoPlan = NoPlan
  Callers = {p1, p2}
  Readers = {r1}
  Paths = {fa, fb, fe}
  Dirs = {outer, inner}
  Above <- MCAbove
  InitialContent <- MCContent
  InitialDirs = {}
  Contents = {Missing, Foreign, old, new, other}
  Plans <- MCPlans
  Gates = {NoGate, upgrade}
  Calls <- MCCalls
  Txns = {t1, t2}
  MaxCrashes = 2
  MaxFaults = 1
  MaxEdits = 1
INVARIANTS FilesAreWhole
PROPERTIES CommitsAreSound TransactionsRecover
