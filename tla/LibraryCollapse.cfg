\* Retention deletes a head its cluster is listed under.
CONSTANTS
  f = f
  g = g
  x = x
  y = y
  z = z
  None = None
  Feeds = {f, g}
  Articles = {x, y}
  FeedOf <- TwoFeeds
  Similar <- Alike
  Models = {"nomic"}
  MaxItems = 2
  MaxAttempts = 1
  EmbedBatch = 2
  DedupeSettings = {TRUE}
  Generators = {}
  DayOf = {}
  MinItems = 1
  Retention = TRUE
  PruneBatch = 1
  Deletable = {}
  Returning = {}
  Reading = TRUE
  MaxRestarts = 0
SPECIFICATION Spec
INVARIANT ListLosesNothing
