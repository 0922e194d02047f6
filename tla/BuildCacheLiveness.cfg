\* Two sources of two targets and a resource, over a budget of one entry, with
\* closings that may fail: one fails while another's turn has not come.
SPECIFICATION FairSpec
CONSTANTS
  r1 = r1
  r2 = r2
  h1 = h1
  h2 = h2
  h3 = h3
  tq = tq
  inf = inf
  None = None
  Requests = {r1}
  Targets = {tq, inf}
  Builds = {1}
  Handles = {h1, h2}
  Exports <- TwoTargets
  Catalogs <- OneBuild
  IdleMs = 1
  CurrentIdleMs = 1
  CurrentBuildsPerTarget = 1
  MaximumBuilds = 1
  MaximumEntries = 1
  MaxAge = 1
  CloseMayFail = TRUE
PROPERTIES
  BlockedIsAnswered
  QuietServiceClosesSources
  BudgetRestoredWhenDrained
