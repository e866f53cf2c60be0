\* The worker and a request that opens the item.
SPECIFICATION Spec
CONSTANTS
  x = x
  y = y
  f = f
  h = h
  house = house
  browser = browser
  blank = blank
  rust = rust
  r = r
  None = None
  Items = {x}
  Feeds = {f}
  FeedOf <- OneFeed
  Hosts = {h}
  HostOf <- OneHost
  Agents = {house}
  HouseAgent = house
  Profiles = {blank, rust}
  NoProfile = blank
  Readers = {r}
  ExtractEnabled = TRUE
  Patches = {}
  MaxExtractAttempts = 3
  MaxEnrichAttempts = 3
  MaxHostRefusals = 3
  ExtractBatch = 10
  EnrichBatch = 5
  MaxEdits = 1
  MaxRestarts = 0
INVARIANT SummaryOfStoredText
