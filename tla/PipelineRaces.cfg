\* One item: the worker, a request that opens it, and every change of the reader.
SPECIFICATION Spec
CONSTANTS
  x = x
  y = y
  f = f
  h = h
  house = house
  browser = browser
  blank = blank
  rust = rust
  r = r
  None = None
  Items = {x}
  Feeds = {f}
  FeedOf <- OneFeed
  Hosts = {h}
  HostOf <- OneHost
  Agents = {house, browser}
  HouseAgent = house
  Profiles = {blank, rust}
  NoProfile = blank
  Readers = {r}
  ExtractEnabled = TRUE
  Patches = {"agent", "llm"}
  MaxExtractAttempts = 3
  MaxEnrichAttempts = 2
  MaxHostRefusals = 2
  ExtractBatch = 10
  EnrichBatch = 5
  MaxEdits = 2
  MaxRestarts = 1
INVARIANTS
  PipelineTypeOK
  AttemptsBounded
  ScoreAnswersItsProfile
PROPERTY ArticleStays
