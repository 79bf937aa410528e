SPECIFICATION MCFairSpec
CONSTANTS
  a1 = a1
  a2 = a2
  b1 = b1
  Artists <- MCArtists
  Albums <- MCAlbums
  AlbumsOf <- MCAlbumsOf
  SungBy <- MCSungBy
  Budget = 2
  MaxMarks = 2
  MaxExpiries = 1
  MaxAborts = 1
  Orders = {o1}
  MaxItems = 2
  MaxErrors = 1
  MaxCrashes = 1
  Refs = {a, x}
  ArtistRefs = {a}
  MaxTries = 2
  MaxRunning = 1
  StaleTicks = 1
  Prios = {0}
  Recovers = "any"
  MaxPosts = 3
  MaxDeaths = 1
INVARIANTS PartTypes CascadeComplete FailsKnown LeadOrders
PROPERTIES CrawlComesToEnd OrdersEnd LeadsEnd
CHECK_DEADLOCK FALSE
