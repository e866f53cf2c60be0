\* A publisher with seven documents, three polls, two rows to a page.
CONSTANTS
  home = home
  article = article
  relative = relative
  other = other
  self = self
  talk = talk
  chat = chat
  picture = picture
  bitmap = bitmap
  g = g
  h = h
  headline = headline
  novel = novel
  s1 = s1
  s2 = s2
  None = None
  Blank = Blank
  FeedUrl = self
  FullText = 4
  MinProse = 2
  Resolve <- ToAbsolute
  Publications <- SomePublications
  PageIcons <- Named
  MaxTries = 2
  Limit = 2
  MaxPolls = 3
  MaxReads = 1
SPECIFICATION FairSpec
INVARIANTS
  OneItemPerPost
  DiscussionIsItsOwn
  PagesAreComplete
PROPERTIES
  NoPostIsLost
  IconSettles
