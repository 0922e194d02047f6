\* One target, two builds: a request for the newer one may be answered by the older.
SPECIFICATION Spec
CONSTANTS
  r1 = r1
  r2 = r2
  h1 = h1
  h2 = h2
  h3 = h3
  tq = tq
  inf = inf
  None = None
  Requests = {r1, r2}
  Targets = {tq}
  Builds = {1, 2}
  Handles = {h1, h2, h3}
  Exports <- TwoBuilds
  Catalogs = {}
  IdleMs = 1
  CurrentIdleMs = 2
  CurrentBuildsPerTarget = 2
  MaximumBuilds = 1
  MaximumEntries = 3
  MaxAge = 2
  CloseMayFail = FALSE
SYMMETRY Interchangeable
INVARIANTS
  NoUseAfterClose
  NoOrphanSource
  AliasesRetireTogether
PROPERTIES
  SweepEndsWithinBudget
