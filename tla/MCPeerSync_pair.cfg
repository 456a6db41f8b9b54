SPECIFICATION Spec
CONSTANTS
  a = a
  b = b
  c = c
  f = f
  g = g
  alice = alice
  bob = bob
  none = none
  Absent = none
  Events <- PairEvents
  Genuine <- PairEvents
  Nodes <- PairNodes
  Feeds <- PairFeeds
  Feed <- PairFeed
  Peers <- PairPeers
  Syncers <- PairSyncers
  Home <- PairHome
  Locking <- PairLocking
  Resyncing <- PairResyncing
  Down <- NoNodes
  Faulty <- NoNodes
  Replaced <- NoNodes
  PageLimit = 1
  MaxSequence = 1
  MaxFaults = 1
INVARIANTS
  TypeOK
  LogsSound
  CursorCovers
  PullsInOrder
  CaughtUpAgree
PROPERTIES
  RefinesEventLogs
