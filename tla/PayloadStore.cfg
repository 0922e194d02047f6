\* Two requests at once for a downloaded payload and a generated one that builds keep, and for one no build keeps.
SPECIFICATION FairSpec
CONSTANTS
  c1 = c1
  c2 = c2
  src1 = src1
  payload = payload
  media = media
  stale = stale
  None = None
  Calls = {c1, c2}
  Sources = {src1}
  Addresses = {payload, media, stale}
  Generated = {media}
  Kept = {payload, media}
  Unchecked <- StaleUnchecked
INVARIANTS
  OnlyProvenBytes
  NotFoundIsHonest
PROPERTIES
  KeptIsNeverLost
  RequestsEnd
