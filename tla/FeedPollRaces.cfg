\* One subscription, the poll loop and one HTTP request on the same row.
CONSTANTS
  a = a
  b = b
  r1 = r1
  None = None
  MinInterval = 1
  DefaultInterval = 1
  MaxInterval = 1
  MaxPublisher = 2
  MaxFeeds = 1
  Urls = {a}
  Imported <- OneImported
  Requests = {r1}
  FetchConcurrency = 1
  Batch = 1
  MaxRefusals = 2
  FailureCap = 1
  MaxVersion = 1
  Ttls = {0}
  Waits = {3}
  ReplyKinds <- AllReplies
  MaxRestarts = 1
SPECIFICATION Spec
INVARIANTS
  TypeOK
  ValidatorsMeanStored
  RefusalLimit
PROPERTY ImplementsLifecycle
