\* Two calls of the service and one of the harvest share a session that a login may replace; anything may fail.
SPECIFICATION FairSpec
CONSTANTS
  svc = svc
  har = har
  c1 = c1
  c2 = c2
  c3 = c3
  l1 = l1
  l2 = l2
  None = None
  Torn = Torn
  Service = svc
  First = l1
  Nameless = {l2}
  Clients = {svc, har}
  Callers = {c1, c2, c3}
  ClientOf <- WithHarvest
  Logins = {l1, l2}
  MaxVersion = 2
  MayKeep = FALSE
  Failures = TRUE
INVARIANTS
  LiveTokenIsKept
  IdentityIsKept
PROPERTIES
  GetEnds
