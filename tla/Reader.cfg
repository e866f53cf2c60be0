\* Two reports in two feeds, and a reader where three things happen at once.
CONSTANTS
  x = x
  y = y
  f = f
  g = g
  None = None
  Items = {x, y}
  Feeds = {f, g}
  FeedOf <- OneEach
  Hits = {x}
  Near = {y}
  MinTopic = 1
  MaxActs = 3
  MaxUnderWay = 2
SPECIFICATION FairSpec
INVARIANTS
  ReaderTypeOK
  CountsSettle
  ListSettles
PROPERTIES
  LastClickShown
  ReadOnlyIfOpened
  PaneSettles
\* A tab may be idle for ever.
CHECK_DEADLOCK FALSE
