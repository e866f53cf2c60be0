\* Two feeds, a tick that takes one, and no refresh or add-feed: the poll loop alone.
CONSTANTS
  a = a
  b = b
  r1 = r1
  None = None
  MinInterval = 1
  DefaultInterval = 1
  MaxInterval = 2
  MaxPublisher = 3
  MaxFeeds = 2
  Urls = {a, b}
  Imported <- TwoImported
  Requests = {}
  FetchConcurrency = 1
  Batch = 1
  MaxRefusals = 1
  FailureCap = 2
  MaxVersion = 0
  Ttls = {0}
  Waits = {2}
  ReplyKinds = {"failed", "retryAfter"}
  MaxRestarts = 1
SPECIFICATION FairSpec
INVARIANTS
  WaitHonoured
  BackoffKept
PROPERTY EveryFeedIsPolled
