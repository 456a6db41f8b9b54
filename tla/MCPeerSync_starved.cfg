SPECIFICATION FairSpec
CONSTANTS
  a = a
  b = b
  c = c
  f = f
  g = g
  alice = alice
  bob = bob
  none = none
  Absent = none
  Events <- ChainEvents
  Genuine <- ChainEvents
  Nodes <- StarvedNodes
  Feeds <- StarvedFeeds
  Feed <- StarvedFeed
  Peers <- StarvedPeers
  Syncers <- StarvedSyncers
  Home <- StarvedHome
  Locking <- StarvedSyncers
  Resyncing <- StarvedSyncers
  Down <- StarvedFeeds
  Faulty <- NoNodes
  Replaced <- NoNodes
  PageLimit = 2
  MaxSequence = 1
  MaxFaults = 0
PROPERTIES
  Replicates
