SPECIFICATION FairSpec
CONSTANTS
  a = a
  b = b
  c = c
  f = f
  g = g
  alice = alice
  bob = bob
  none = none
  Absent = none
  Events <- ChainEvents
  Genuine <- ChainEvents
  Nodes <- ChainNodes
  Feeds <- ChainFeeds
  Feed <- ChainFeed
  Peers <- ChainPeers
  Syncers <- ChainSyncers
  Home <- ChainHome
  Locking <- ChainSyncers
  Resyncing <- ChainSyncers
  Down <- ChainFeeds
  Faulty <- ChainFaulty
  Replaced <- ChainReplaced
  PageLimit = 1
  MaxSequence = 1
  MaxFaults = 1
PROPERTIES
  Replicates
