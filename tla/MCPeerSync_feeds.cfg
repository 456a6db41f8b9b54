SPECIFICATION FairSpec
CONSTANTS
  a = a
  b = b
  c = c
  f = f
  g = g
  alice = alice
  bob = bob
  none = none
  Absent = none
  Events <- FeedsEvents
  Genuine <- FeedsGenuine
  Nodes <- FeedsNodes
  Feeds <- FeedsFeeds
  Feed <- FeedsFeed
  Peers <- FeedsPeers
  Syncers <- FeedsSyncers
  Home <- FeedsHome
  Locking <- FeedsSyncers
  Resyncing <- FeedsSyncers
  Down <- FeedsDown
  Faulty <- FeedsFaulty
  Replaced <- NoNodes
  PageLimit = 2
  MaxSequence = 4
  MaxFaults = 1
INVARIANTS
  PullComplete
PROPERTIES
  RunsEnd
  RunsAdvance
