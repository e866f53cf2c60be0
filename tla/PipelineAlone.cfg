\* Two items and the two workers; nobody opens an item.
SPECIFICATION FairSpec
CONSTANTS
  x = x
  y = y
  f = f
  h = h
  house = house
  browser = browser
  blank = blank
  rust = rust
  r = r
  None = None
  Items = {x, y}
  Feeds = {f}
  FeedOf <- OneFeed
  Hosts = {h}
  HostOf <- OneHost
  Agents = {house}
  HouseAgent = house
  Profiles = {blank, rust}
  NoProfile = blank
  Readers = {}
  ExtractEnabled = TRUE
  Patches = {"llm"}
  MaxExtractAttempts = 3
  MaxEnrichAttempts = 2
  MaxHostRefusals = 2
  ExtractBatch = 10
  EnrichBatch = 1
  MaxEdits = 1
  MaxRestarts = 1
INVARIANT SummaryOfStoredText
PROPERTIES
  RefusalIsFinal
  EveryItemScored
