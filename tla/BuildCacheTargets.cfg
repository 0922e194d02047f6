\* Two targets, whose composers may retain each other's source; closing may fail.
SPECIFICATION Spec
CONSTANTS
  r1 = r1
  r2 = r2
  h1 = h1
  h2 = h2
  h3 = h3
  tq = tq
  inf = inf
  None = None
  Requests = {r1, r2}
  Targets = {tq, inf}
  Builds = {1}
  Handles = {h1, h2}
  Exports <- TwoTargets
  Catalogs <- OneBuild
  IdleMs = 1
  CurrentIdleMs = 2
  CurrentBuildsPerTarget = 1
  MaximumBuilds = 1
  MaximumEntries = 3
  MaxAge = 2
  CloseMayFail = TRUE
SYMMETRY Interchangeable
INVARIANTS
  BarrierExcludesHandlers
  NoDanglingReference
  CloseLeavesNothing
PROPERTIES
  ImplementsLease
