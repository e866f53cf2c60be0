\* Three reports of one story, clustered while they are read and age.
CONSTANTS
  f = f
  g = g
  x = x
  y = y
  z = z
  None = None
  Feeds = {f, g}
  Articles = {x, y, z}
  FeedOf <- TwoFeeds
  Similar <- Alike
  Models = {"nomic"}
  MaxItems = 3
  MaxAttempts = 1
  EmbedBatch = 2
  DedupeSettings = {TRUE, FALSE}
  Generators = {}
  DayOf = {}
  MinItems = 1
  Retention = FALSE
  PruneBatch = 1
  Deletable = {}
  Returning = {}
  Reading = TRUE
  MaxRestarts = 0
SPECIFICATION Spec
INVARIANTS
  ListLosesNothing
  VectorOfItem
PROPERTIES
  ImplementsStories
