\* Retention against a digest that is written and written again, and an embedding
\* worker whose model a boot may change.
CONSTANTS
  f = f
  g = g
  x = x
  y = y
  z = z
  None = None
  Feeds = {f, g}
  Articles = {x, y}
  FeedOf <- OneEach
  Similar <- Alike
  Models = {"nomic", "other"}
  MaxItems = 2
  MaxAttempts = 1
  EmbedBatch = 1
  DedupeSettings = {FALSE}
  Generators = {"handler"}
  DayOf = {x}
  MinItems = 1
  Retention = TRUE
  PruneBatch = 1
  Deletable = {f}
  Returning = {f}
  Reading = TRUE
  MaxRestarts = 1
SPECIFICATION FairSpec
PROPERTIES
  LinksStay
  EveryItemEmbedded
