SPECIFICATION Spec
CONSTANTS
  None = None
  StaleAfter = 1
  MaxNow = 2
  MaxGen = 3
  FirstSkew = 1
  Skews <- WallClocks
INVARIANT TypeOK
INVARIANT FreshFrameIsRecent
INVARIANT FrameShowsItsGeneration
PROPERTY StreamsAreFeeds
PROPERTY SilenceGoesDark
